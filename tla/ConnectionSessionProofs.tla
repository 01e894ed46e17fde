----------------------- MODULE ConnectionSessionProofs -----------------------
(***************************************************************************)
(* Invariants of one Connection for every set of datagrams, keys and       *)
(* handles, every number of retries and every retry period.                *)
(***************************************************************************)
EXTENDS ConnectionSession, ConnectionProofs

(* The history variables have room for the values they are given.          *)
LEMMA MaxElapsedType == MaxElapsed \in Nat
BY ConnectionAssumption DEF MaxElapsed

-----------------------------------------------------------------------------
(* Enough time has passed for the requests sent in this phase.             *)
Waited(n, age, time) ==
  time = MaxElapsed \/ time >= (n - 1) * (RetryPeriod + 1) + age

(* The count of the Connection is the number of requests of this phase;    *)
(* what the owner ended itself has not timed out.                          *)
Pacing ==
  /\ conn.state \in Phase
       => /\ requests = conn.count
          /\ requests <= HandshakeRetries + 1
          /\ requests > 0 => Waited(requests, conn.age, elapsed)
  /\ conn.state = "Disconnecting" => conn.reason = "Local"
  /\ GivesUpAfterRetries

(* The inductive invariant.  JoinsOnce needs that a connection without a   *)
(* handle has not joined, AnswersBounded that a connection still Listening *)
(* has counted whatever it answered, GivesUpAfterRetries the Pacing.       *)
IInv ==
  /\ TypeOK
  /\ Sound(conn)
  /\ joins <= 1
  /\ conn.handle = NoHandle => joins = 0
  /\ answers <= FloodTrigger
  /\ conn.state = "Listening" => answers <= conn.count
  /\ Pacing

(* The last request waits for its period like the others.                  *)
LEMMA WaitedForAll ==
  ASSUME NEW age \in Nat, NEW time \in 0 .. MaxElapsed,
         Waited(HandshakeRetries + 1, age, time)
  PROVE  time = MaxElapsed
<1>1. /\ HandshakeRetries \in Nat /\ RetryPeriod \in Nat
      /\ (HandshakeRetries + 1) - 1 = HandshakeRetries
  BY ConnectionAssumption
<1>2. HandshakeRetries * (RetryPeriod + 1) = MaxElapsed
  BY <1>1 DEF MaxElapsed
<1>3. MaxElapsed \in Nat
  BY MaxElapsedType
<1> QED BY <1>1, <1>2, <1>3 DEF Waited

(* A request sent after its period, the clock of the connection restarted. *)
LEMMA WaitedForNext ==
  ASSUME NEW n \in Nat, NEW age \in Nat, NEW time \in 0 .. MaxElapsed,
         n > 0 => Waited(n, age, time), age > RetryPeriod
  PROVE  Waited(n + 1, 0, time)
<1>1. RetryPeriod \in Nat /\ MaxElapsed \in Nat
  BY ConnectionAssumption, MaxElapsedType
<1>2. CASE n = 0
  BY <1>1, <1>2 DEF Waited
<1>3. CASE n > 0
  <2> DEFINE gap == RetryPeriod + 1
  <2>1. gap \in Nat /\ age >= gap
    BY <1>1
  <2>2. (n - 1) * gap + gap = ((n + 1) - 1) * gap
    BY <1>1
  <2>3. (n - 1) * gap \in Int /\ ((n + 1) - 1) * gap \in Int
    BY <1>1
  <2> HIDE DEF gap
  <2>4. time >= (n - 1) * gap + age => time >= ((n + 1) - 1) * gap + 0
    BY <2>1, <2>2, <2>3
  <2> QED BY <1>3, <2>4 DEF Waited, gap
<1> QED BY <1>2, <1>3

(* A tick: neither clock overtakes the other.                              *)
LEMMA WaitedOn ==
  ASSUME NEW n \in Nat, NEW age \in Nat, NEW time \in 0 .. MaxElapsed,
         Waited(n, age, time), NEW older \in Nat, older <= age + 1
  PROVE  Waited(n, older, IF time < MaxElapsed THEN time + 1 ELSE time)
<1>1. RetryPeriod \in Nat /\ MaxElapsed \in Nat
  BY ConnectionAssumption, MaxElapsedType
<1> DEFINE spent == (n - 1) * (RetryPeriod + 1)
<1>2. spent \in Int
  BY <1>1
<1> HIDE DEF spent
<1> SUFFICES ASSUME time < MaxElapsed, time >= spent + age
             PROVE  time + 1 >= spent + older
  BY <1>1 DEF Waited, spent
<1> QED BY <1>1, <1>2

(* A new Connection satisfies the invariant.                               *)
LEMMA InitIInv == Init => IInv
<1> SUFFICES ASSUME Init PROVE IInv
  OBVIOUS
<1>1. 0 \in 0 .. FloodTrigger /\ MaxAge \in 0 .. MaxAge /\ 0 \in 0 .. MaxElapsed
      /\ 0 <= FloodTrigger
  BY Bounds, MaxElapsedType
<1>2. NewConnection \in ConnectionType
  BY NewConnectionType
<1>3. Sound(NewConnection) /\ NewConnection.state = "Idle"
  BY NewConnectionType
<1>4. MaxSessions \in Nat
  BY SessionAssumption
<1>5. Pacing
  BY <1>3 DEF Init, Pacing, GivesUpAfterRetries, HasFailed, Phase
<1> QED BY <1>1, <1>2, <1>3, <1>4, <1>5 DEF IInv, TypeOK, Init

(* Start keeps the invariant: it forgets the handle with the history.      *)
LEMMA StartIInv == IInv /\ Start => IInv'
<1> SUFFICES ASSUME IInv, Start PROVE IInv'
  OBVIOUS
<1>1. conn \in ConnectionType /\ FloodTrigger \in Nat /\ MaxElapsed \in Nat
  BY Bounds, MaxElapsedType DEF IInv, TypeOK
<1>2. /\ Sound(conn') /\ conn' \in ConnectionType
      /\ conn'.handle = NoHandle
      /\ conn'.state = "Listening" => conn'.count = 0
  BY <1>1, StartSound DEF Start, Sound
<1>3. sessions' \in Nat
  BY DEF Start, IInv, TypeOK
<1>4. Pacing'
  <2>1. conn'.state \in {"Listening", "Challenging"} /\ conn'.count = 0
    BY <1>1, StartSound DEF Start
  <2>2. requests' = 0 /\ HandshakeRetries \in Nat
    BY ConnectionAssumption DEF Start
  <2> QED BY <2>1, <2>2 DEF Pacing, GivesUpAfterRetries, HasFailed
<1> QED BY <1>1, <1>2, <1>3, <1>4 DEF IInv, TypeOK, Start

(* A call of Process keeps the invariant.                                  *)
LEMMA ReceiveIInv == ASSUME NEW p \in Datagram PROVE IInv /\ Receive(p) => IInv'
<1> SUFFICES ASSUME IInv, Receive(p) PROVE IInv'
  OBVIOUS
<1>1. PICK h \in (StateHandle \ registered) \cup {NoHandle} :
        LET r        == Process(conn, p, h)
            accepted == r.asked /\ h # NoHandle
            parsed   == Parse(conn, p, h).c.state
            asking   == r.c.state \in Phase /\ r.out # NoPacket
            moved    == parsed # conn.state
        IN  /\ r.asked \/ h = NoHandle
            /\ conn' = r.c
            /\ registered' = IF accepted THEN registered \cup {h} ELSE registered
            /\ joins' = IF accepted THEN joins + 1 ELSE joins
            /\ answers' =
                 IF conn.state = "Listening" /\ r.out # NoPacket
                 THEN answers + 1 ELSE answers
            /\ requests' = (IF moved THEN 0 ELSE requests)
                             + (IF asking THEN 1 ELSE 0)
            /\ elapsed' = IF moved THEN 0 ELSE elapsed
            /\ UNCHANGED <<mode, sessions>>
  BY DEF Receive
<1> DEFINE r == Process(conn, p, h)
<1>2. Sound(conn) /\ p \in Packet /\ h \in Handles
  BY SessionAssumption DEF IInv, Handles
<1>3. StepOf(conn, h, r)
  BY <1>2, ProcessStep
<1>11. Pacing'
  <2> DEFINE m == Parse(conn, p, h)
  <2>1. Paced(conn, m, r)
    BY <1>2, ProcessPaced
  <2>2. /\ conn' = r.c
        /\ requests' = (IF m.c.state # conn.state THEN 0 ELSE requests)
             + (IF r.c.state \in Phase /\ r.out # NoPacket THEN 1 ELSE 0)
        /\ elapsed' = IF m.c.state # conn.state THEN 0 ELSE elapsed
    BY <1>1
  <2>3. /\ m.c.age \in Nat /\ m.c.count \in Nat
    <3>1. StepOf(conn, h, m)
      BY <1>2, ParseStep
    <3> HIDE DEF m
    <3> QED BY <3>1, Bounds DEF StepOf, ResultType, ConnectionType
  <2>4. /\ requests \in Nat /\ elapsed \in 0 .. MaxElapsed
        /\ HandshakeRetries \in Nat /\ conn.count \in Nat
        /\ conn.age \in Nat /\ MaxElapsed \in Nat
    BY MaxElapsedType, Bounds, ConnectionAssumption DEF IInv, TypeOK, ConnectionType
  <2> HIDE DEF m, r
  <2>5. ASSUME conn'.state \in Phase
        PROVE  /\ requests' = conn'.count
               /\ requests' <= HandshakeRetries + 1
               /\ requests' > 0 => Waited(requests', conn'.age, elapsed')
    <3> DEFINE n == IF m.c.state # conn.state THEN 0 ELSE requests
    <3>1. /\ n = m.c.count /\ n <= HandshakeRetries + 1 /\ n \in Nat
          /\ n > 0 => Waited(n, m.c.age, elapsed')
          /\ elapsed' \in 0 .. MaxElapsed
      BY <2>1, <2>2, <2>4, <2>5 DEF Paced, IInv, Pacing
    <3>2. CASE r.out = NoPacket
      BY <2>1, <2>2, <2>5, <3>1, <3>2 DEF Paced
    <3>3. CASE r.out # NoPacket
      <4>1. /\ n <= HandshakeRetries /\ m.c.age > RetryPeriod
            /\ conn'.count = n + 1 /\ conn'.age = 0 /\ requests' = n + 1
        BY <2>1, <2>2, <2>5, <3>1, <3>3 DEF Paced
      <4>2. Waited(n + 1, 0, elapsed')
        BY <2>3, <3>1, <4>1, WaitedForNext
      <4> QED BY <2>4, <3>1, <4>1, <4>2
    <3> QED BY <3>2, <3>3
  <2>6. ASSUME HasFailed(conn'), conn'.reason \in {"TimeoutChallenging", "TimeoutConnecting"}
        PROVE  requests' = HandshakeRetries + 1 /\ elapsed' = MaxElapsed
    <3>1. /\ conn'.state = "FailedConnection" /\ conn'.state \notin Phase
          /\ conn'.reason \notin ToldSo \cup {"TimeoutClient", "Local"}
      BY <2>6 DEF HasFailed, Phase, ToldSo
    <3>2. m.c = conn /\ requests' = requests /\ elapsed' = elapsed
      BY <2>1, <2>2, <2>4, <3>1 DEF Paced
    <3>3. CASE r = m
      BY <2>2, <2>6, <3>2, <3>3 DEF IInv, Pacing, GivesUpAfterRetries
    <3>4. CASE conn.state \in Phase /\ conn.count > HandshakeRetries
      <4>1. /\ requests = HandshakeRetries + 1
            /\ Waited(HandshakeRetries + 1, conn.age, elapsed)
        BY <2>4, <3>4 DEF IInv, Pacing
      <4> QED BY <2>4, <3>2, <4>1, WaitedForAll
    <3> QED BY <2>1, <2>2, <3>1, <3>3, <3>4 DEF Paced, IInv, Pacing
  <2>7. conn'.state # "Disconnecting"
    BY <2>1, <2>2 DEF Paced
  <2> QED BY <2>5, <2>6, <2>7 DEF Pacing, GivesUpAfterRetries
<1> HIDE DEF r
<1>4. /\ conn' = r.c /\ UNCHANGED <<mode, sessions>>
      /\ registered' = IF r.asked /\ h # NoHandle THEN registered \cup {h}
                       ELSE registered
      /\ joins' = IF r.asked /\ h # NoHandle THEN joins + 1 ELSE joins
      /\ answers' = IF conn.state = "Listening" /\ r.out # NoPacket
                    THEN answers + 1 ELSE answers
  BY <1>1 DEF r
<1>5. requests' \in Nat /\ elapsed' \in 0 .. MaxElapsed
  <2>1. requests \in Nat /\ elapsed \in 0 .. MaxElapsed /\ MaxElapsed \in Nat
    BY Bounds, MaxElapsedType DEF IInv, TypeOK
  <2>2. elapsed' \in {0, elapsed}
    BY <1>1
  <2>3. requests' \in {0 + 0, 0 + 1, requests + 0, requests + 1}
    BY <1>1
  <2> QED BY <2>1, <2>2, <2>3
<1>6. /\ joins \in Nat /\ joins <= 1
      /\ conn.handle = NoHandle => joins = 0
      /\ answers \in Nat /\ answers <= FloodTrigger
      /\ conn.state = "Listening" => answers <= conn.count
      /\ registered \subseteq StateHandle
      /\ conn.count \in Nat /\ FloodTrigger \in Nat
  BY Bounds, MaxElapsedType DEF IInv, TypeOK, ConnectionType
<1>7. Sound(conn') /\ conn' \in ConnectionType /\ conn'.count \in Nat
  BY <1>3, <1>4 DEF StepOf, Sound, ConnectionType
<1>8. joins' \in Nat /\ joins' <= 1 /\ (conn'.handle = NoHandle => joins' = 0)
  <2>1. CASE r.asked /\ h # NoHandle
    <3>1. conn.handle = NoHandle /\ conn'.handle # NoHandle
      BY <2>1, <1>3, <1>4 DEF StepOf
    <3>2. joins' = joins + 1
      BY <2>1, <1>4
    <3> QED BY <3>1, <3>2, <1>6
  <2>2. CASE ~(r.asked /\ h # NoHandle)
    <3>1. conn'.handle = conn.handle
      BY <2>2, <1>3, <1>4 DEF StepOf
    <3>2. joins' = joins
      BY <2>2, <1>4
    <3> QED BY <3>1, <3>2, <1>6
  <2> QED BY <2>1, <2>2
<1>9. /\ answers' \in Nat /\ answers' <= FloodTrigger
      /\ conn'.state = "Listening" => answers' <= conn'.count
  <2>1. CASE conn.state = "Listening" /\ r.out # NoPacket
    <3>1. /\ conn.count < FloodTrigger
          /\ r.c.state = "Listening" => r.c.count = conn.count + 1
      BY <2>1, <1>3 DEF StepOf
    <3> QED BY <2>1, <3>1, <1>4, <1>6
  <2>2. CASE conn.state = "Listening" /\ r.out = NoPacket
    <3>1. r.c.state = "Listening" => r.c.count >= conn.count
      BY <2>2, <1>3 DEF StepOf
    <3> QED BY <2>2, <3>1, <1>4, <1>6, <1>7
  <2>3. CASE conn.state # "Listening"
    <3>1. r.c.state # "Listening"
      BY <2>3, <1>3 DEF StepOf
    <3> QED BY <2>3, <3>1, <1>4, <1>6
  <2> QED BY <2>1, <2>2, <2>3
<1>10. registered' \subseteq StateHandle
  BY <1>4, <1>6
<1> QED BY <1>4, <1>5, <1>7, <1>8, <1>9, <1>10, <1>11 DEF IInv, TypeOK

(* Disconnect keeps the invariant.                                         *)
LEMMA DisconnectIInv == IInv /\ DisconnectCall => IInv'
<1> SUFFICES ASSUME IInv, DisconnectCall PROVE IInv'
  OBVIOUS
<1>1. conn \in ConnectionType /\ MaxElapsed \in Nat
  BY Bounds, MaxElapsedType DEF IInv, TypeOK
<1>2. /\ Sound(conn') /\ conn' \in ConnectionType
      /\ conn'.state = "Disconnecting" /\ conn'.handle = conn.handle
      /\ conn'.reason = "Local"
  <2>1. "Local" \in Reasons
    BY DEF Reasons
  <2> QED BY <1>1, <2>1, DisconnectSound DEF DisconnectCall, Sound
<1>3. Pacing'
  BY <1>2 DEF Pacing, GivesUpAfterRetries, HasFailed, Phase
<1> QED BY <1>1, <1>2, <1>3 DEF IInv, TypeOK, DisconnectCall

(* Taking the delta keeps the invariant.                                   *)
LEMMA TakeLastIInv == IInv /\ TakeLast => IInv'
<1> SUFFICES ASSUME IInv, TakeLast PROVE IInv'
  OBVIOUS
<1>1. /\ Sound(conn') /\ conn' \in ConnectionType
      /\ conn'.state = conn.state /\ conn'.handle = conn.handle
      /\ conn'.count = conn.count
  BY TakenSound DEF IInv, TakeLast, Sound
<1>2. Pacing'
  BY <1>1 DEF TakeLast, IsConnected, Pacing, GivesUpAfterRetries, HasFailed, Phase
<1> QED BY <1>1, <1>2 DEF IInv, TypeOK, TakeLast

(* Time keeps the invariant.                                               *)
LEMMA TickIInv == IInv /\ Tick => IInv'
<1> SUFFICES ASSUME IInv, Tick PROVE IInv'
  OBVIOUS
<1>1. /\ Sound(conn') /\ conn' \in ConnectionType
      /\ conn'.state = conn.state /\ conn'.handle = conn.handle
      /\ conn'.count = conn.count /\ conn'.reason = conn.reason
      /\ conn'.age <= conn.age + 1
  BY AgeSound DEF IInv, Tick, Sound
<1>2. elapsed' \in 0 .. MaxElapsed
  BY Bounds, MaxElapsedType DEF IInv, TypeOK, Tick
<1>3. Pacing'
  <2>1. /\ requests \in Nat /\ elapsed \in 0 .. MaxElapsed /\ requests' = requests
        /\ conn.age \in Nat /\ conn'.age \in Nat
    BY <1>1, Bounds DEF IInv, TypeOK, Tick, ConnectionType
  <2>2. requests > 0 => elapsed' = IF elapsed < MaxElapsed THEN elapsed + 1 ELSE elapsed
    BY DEF Tick
  <2>3. conn.state \in Phase /\ requests > 0 => Waited(requests, conn'.age, elapsed')
    BY <1>1, <2>1, <2>2, WaitedOn DEF IInv, Pacing
  <2>4. GivesUpAfterRetries'
    BY <1>1, <2>1, MaxElapsedType
    DEF Tick, IInv, Pacing, GivesUpAfterRetries, HasFailed
  <2> QED BY <1>1, <2>1, <2>3, <2>4 DEF IInv, Pacing
<1> QED BY <1>1, <1>2, <1>3 DEF IInv, TypeOK, Tick

(* Every step keeps the invariant.                                         *)
LEMMA NextIInv == IInv /\ [Next]_vars => IInv'
<1> SUFFICES ASSUME IInv, [Next]_vars PROVE IInv'
  OBVIOUS
<1>1. CASE Start
  BY <1>1, StartIInv
<1>2. CASE ReceiveAny
  BY <1>2, ReceiveIInv DEF ReceiveAny
<1>3. CASE DisconnectCall
  BY <1>3, DisconnectIInv
<1>4. CASE TakeLast
  BY <1>4, TakeLastIInv
<1>5. CASE Tick
  BY <1>5, TickIInv
<1>6. CASE UNCHANGED vars
  BY <1>6 DEF IInv, TypeOK, vars, Pacing, GivesUpAfterRetries
<1> QED BY <1>1, <1>2, <1>3, <1>4, <1>5, <1>6 DEF Next

(* In every state of every behaviour the inductive invariant holds.        *)
THEOREM IInvAlways == Spec => []IInv
<1> QED BY InitIInv, NextIInv, PTL DEF Spec

(* The members of Connection keep their types; myPacketCount never passes  *)
(* FloodTrigger, whatever is received.                                     *)
THEOREM TypeOKAlways == Spec => []TypeOK
<1>1. IInv => TypeOK
  BY DEF IInv
<1> QED BY <1>1, IInvAlways, PTL

(* IStateManager::Connect succeeds at most once for one Start.             *)
THEOREM JoinsOnceAlways == Spec => []JoinsOnce
<1>1. IInv => JoinsOnce
  BY DEF IInv, JoinsOnce
<1> QED BY <1>1, IInvAlways, PTL

(* A connected Connection has a handle.                                    *)
THEOREM ConnectedHasHandleAlways == Spec => []ConnectedHasHandle
<1>1. IInv => ConnectedHasHandle
  BY DEF IInv, ConnectedHasHandle, Sound
<1> QED BY <1>1, IInvAlways, PTL

(* A Listening Connection answers at most FloodTrigger datagrams.          *)
THEOREM AnswersBoundedAlways == Spec => []AnswersBounded
<1>1. IInv => AnswersBounded
  BY DEF IInv, AnswersBounded
<1> QED BY <1>1, IInvAlways, PTL

(* Only a Connection that holds a key can be failed by its peer.           *)
THEOREM RemoteFailureIsKeyedAlways == Spec => []RemoteFailureIsKeyed
<1>1. IInv => RemoteFailureIsKeyed
  BY DEF IInv, RemoteFailureIsKeyed, Sound
<1> QED BY <1>1, IInvAlways, PTL

(* A client gives up a phase of its handshake only after the first request *)
(* and all the retries, each more than a retry period after the last.      *)
THEOREM GivesUpAfterRetriesAlways == Spec => []GivesUpAfterRetries
<1>1. IInv => GivesUpAfterRetries
  BY DEF IInv, Pacing
<1> QED BY <1>1, IInvAlways, PTL

=============================================================================
