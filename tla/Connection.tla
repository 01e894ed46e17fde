----------------------------- MODULE Connection -----------------------------
(***************************************************************************)
(* The class Connection of src/source/Network/Implementation/Connection.*: *)
(* the handshake, its retries and timeouts, and the filter that lets only  *)
(* newer deltas through.  A client has one Connection, a server has one    *)
(* for every address that talks to it, so the class is given as operators  *)
(* on a record of its members; the modules that use it hold the record in  *)
(* a variable.                                                             *)
(*                                                                         *)
(* Process returns a record: c, the connection after the call; out, the    *)
(* datagram returned (NoPacket for an empty vector); asked, whether        *)
(* IStateManager::Connect was called.  Its third argument is what that     *)
(* call would return: a handle, or NoHandle when it refuses.               *)
(*                                                                         *)
(* Time.  myLastTimestamp is only ever subtracted from the current time    *)
(* and the difference compared with one and with HandshakeRetries periods, *)
(* so the record holds the difference, age, in ticks of a clock, counted   *)
(* no further than MaxAge, past which no comparison changes.               *)
(***************************************************************************)
EXTENDS PacketFragmentManager

CONSTANTS
  StateHandle,       \* the handles IStateManager::Connect may return
  NoHandle,          \* the empty optional<ClientHandle>
  HandshakeRetries,  \* 5 in Connection.hpp
  RetryPeriod        \* HandshakeRetryPeriod(), 1000ms, in clock ticks

ASSUME ConnectionAssumption ==
  /\ NoHandle \notin StateHandle
  /\ HandshakeRetries \in Nat \ {0}
  /\ RetryPeriod \in Nat \ {0}

FloodTrigger == 1 + HandshakeRetries * 2

ServerTimeout == RetryPeriod * HandshakeRetries
MaxAge == RetryPeriod * (HandshakeRetries + 2)

States == {"Idle", "FailedConnection", "Disconnecting",
           "Listening", "ConnectedToClient",
           "Challenging", "Connecting", "ConnectedToServer"}

(* The phases of a client's handshake.                                     *)
Phase == {"Challenging", "Connecting"}

(* Where a myFailReason text comes from.                                   *)
Reasons == {"", "Normal", "Local", "Version", "Refused", "Remote",
            "TimeoutChallenging", "TimeoutConnecting", "TimeoutClient"}

(* What a Connection record holds.                                         *)
ConnectionType ==
  [state : States, reason : Reasons, key : Keys, count : 0 .. FloodTrigger,
   age : 0 .. MaxAge, handle : StateHandle \cup {NoHandle},
   id : ConnectionId \cup {NoId}, ack : Sequence \cup {NoAck},
   received : Sequence, last : DeltaPackets \cup {NoPacket},
   fragments : [current : Sequence, parts : Seq(FragmentPackets)]]

(* Connection::Connection                                                  *)
NewConnection ==
  [state |-> "Idle", reason |-> "", key |-> NilKey, count |-> 0,
   age |-> MaxAge, handle |-> NoHandle, id |-> NoId, ack |-> NoAck,
   received |-> 0, last |-> NoPacket, fragments |-> NoFragments]

IsConnected(c) == c.state \in {"ConnectedToServer", "ConnectedToClient"}
HasFailed(c) == c.state = "FailedConnection"

(* The time function moves on by one tick.                                 *)
Age(c) == [c EXCEPT !.age = IF @ < MaxAge THEN @ + 1 ELSE @]

(* Mistake: a new state inherits the packets counted in the last one.      *)
ResetKeepingCount(c, state) ==
  [c EXCEPT !.state = state, !.age = 2 * RetryPeriod]

Reset(c, state) ==
  [c EXCEPT !.state = state, !.count = 0, !.age = 2 * RetryPeriod]

Fail(c, reason) == [c EXCEPT !.state = "FailedConnection", !.reason = reason]

(* Start(Mode::Server) with the random key it draws, Start(Mode::Client).  *)
(* The sequence, ack, id and last delta of an earlier session stay.        *)
StartServer(c, key) ==
  Reset([c EXCEPT !.handle = NoHandle, !.fragments = NoFragments,
                  !.reason = "", !.key = key], "Listening")
StartClient(c) ==
  Reset([c EXCEPT !.handle = NoHandle, !.fragments = NoFragments,
                  !.reason = "", !.key = NilKey], "Challenging")

(* Disconnect(reason).  Whoever uses it also tells the IStateManager about *)
(* DisconnectedHandles.                                                    *)
DisconnectBecause(c, reason) ==
  Reset([c EXCEPT !.reason = IF reason = "" THEN "Normal" ELSE reason],
        "Disconnecting")
DisconnectedHandles(c) == IF c.handle = NoHandle THEN {} ELSE {c.handle}

-----------------------------------------------------------------------------
(* Parsing.                                                                *)

Quiet(c)       == [c |-> c, out |-> NoPacket, asked |-> FALSE]
Answer(c, out) == [c |-> c, out |-> out, asked |-> FALSE]

(* Disconnected(packet): only a packet that carries this key is believed.  *)
SaysDisconnect(c, p) == ValidWithKey(p, "Disconnect") /\ p.key = c.key

(* Mistake: late deltas are taken too.                                     *)
IsAnyDelta(c, d) == IsDelta(d)

(* IsValidDeltaTestDisconnectIfNot                                         *)
IsNewDelta(c, d) == IsDelta(d) /\ Greater(d.seq, c.received)

TakeDelta(c, d) ==
  [c EXCEPT !.last = d, !.received = d.seq, !.ack = d.ack]

ParseDelta(c, d) ==
  CASE IsNewDelta(c, d)     -> TakeDelta(c, d)
    [] SaysDisconnect(c, d) -> Fail(c, "Remote")
    [] OTHER                -> c

(* A fragment newer than the last delta joins the buffer, and the packet   *)
(* it may complete is treated as one that came whole.                      *)
ParseConnectedToServer(c, p) ==
  LET fragments == AddPacket(c.fragments, p)
      joined    == GetDefragmentedPacket(fragments)
      held      == [c EXCEPT !.fragments = fragments]
  IN  CASE ~IsFragment(p) -> Quiet(ParseDelta(c, p))
        [] IsFragment(p) /\ Greater(p.seq, c.received)
                          -> Quiet(ParseDelta(held, joined))
        [] OTHER          -> Quiet(c)

ParseConnectedToClient(c, p) ==
  IF IsNewDelta(c, p) /\ p.id # c.id THEN Quiet(c) ELSE Quiet(ParseDelta(c, p))

ParseChallenging(c, p) ==
  CASE SaysDisconnect(c, p) -> Quiet(Fail(c, "Remote"))
    [] ValidChallengeResponse(p) /\ p.version = Version
         -> Quiet(Reset([c EXCEPT !.key = p.key], "Connecting"))
    [] ValidChallengeResponse(p) /\ p.version # Version
         -> Quiet(Fail(c, "Version"))
    [] OTHER -> Quiet(c)

ParseConnecting(c, p, h) ==
  CASE SaysDisconnect(c, p) -> Quiet(Fail(c, "Remote"))
    [] p.cmd = "ConnectResponse" /\ h # NoHandle
         -> [c |-> Reset([c EXCEPT !.handle = h], "ConnectedToServer"),
             out |-> NoPacket, asked |-> TRUE]
    [] p.cmd = "ConnectResponse" /\ h = NoHandle
         -> [c |-> Fail(c, "Refused"), out |-> Disconnect(c.key),
             asked |-> TRUE]
    [] OTHER -> Quiet(c)

(* Mistake: only the clock is restarted.                                   *)
SentUncounted(c) == [c EXCEPT !.age = 0]

(* A handshake datagram goes out: it counts towards the retry or the flood *)
(* limit and restarts the clock.                                           *)
Sent(c) == [c EXCEPT !.age = 0, !.count = @ + 1]

(* Mistake: the reply to a Connect without a key is free.                  *)
RejectedUncounted(c) == c

(* A Connect without a key is answered and counted, the clock runs on.     *)
Rejected(c) == [c EXCEPT !.count = @ + 1]

(* Mistake: a repeated Connect asks the state manager again.               *)
HasNeverJoined(c) == FALSE

HasJoined(c) == c.handle # NoHandle

(* Mistake: any key will do.                                               *)
KnowsAnyKey(c, p) == TRUE

KnowsKey(c, p) == p.key = c.key

(* Mistake: what the state manager answers is not looked at.               *)
AdmitAnyway(c, h) ==
  [c |-> Sent([c EXCEPT !.handle = h]), out |-> ConnectResponse, asked |-> TRUE]

(* The state manager is asked whether the client may play.                 *)
Admit(c, h) ==
  IF h = NoHandle
  THEN [c |-> Fail(c, "Refused"), out |-> Disconnect(c.key), asked |-> TRUE]
  ELSE [c |-> Sent([c EXCEPT !.handle = h]), out |-> ConnectResponse,
        asked |-> TRUE]

ParseConnect(c, p, h) ==
  CASE ~ValidWithKey(p, "Connect")
         -> Answer(Rejected(c), Disconnect(c.key))
    [] ValidWithKey(p, "Connect") /\ ~KnowsKey(c, p)
         -> Quiet(c)
    [] ValidWithKey(p, "Connect") /\ KnowsKey(c, p) /\ HasJoined(c)
         -> Answer(Sent(c), ConnectResponse)
    [] ValidWithKey(p, "Connect") /\ KnowsKey(c, p) /\ ~HasJoined(c)
         -> Admit(c, h)

(* An Info request is read into a PacketConnect, whose IsValid wants the   *)
(* Connect command, so the branch that would answer it is never entered.   *)
ParseInfo(c, p) ==
  IF ValidWithKey(p, "Connect") /\ KnowsKey(c, p)
  THEN Answer(Sent(c), InfoResponse)
  ELSE Quiet(c)

(* Mistake: a delta with an id is enough to be connected.                  *)
MayFinishWithoutHandle(c, p) == p.id # NoId

MayFinish(c, p) == HasJoined(c) /\ p.id # NoId

(* The first delta of a client that has a handle ends the handshake.       *)
ParseFirstDelta(c, p) ==
  IF MayFinish(c, p)
  THEN Quiet(TakeDelta(Reset([c EXCEPT !.id = p.id], "ConnectedToClient"), p))
  ELSE Quiet(c)

(* Mistake: one datagram too many.                                         *)
FloodedLate(c) == c.count > FloodTrigger

Flooded(c) == c.count >= FloodTrigger

ParseListening(c, p, h) ==
  CASE Flooded(c) -> Quiet(c)
    [] ~Flooded(c) /\ p.cmd = "Challenge"
         -> Answer(Sent(c), ChallengeResponse(c.key, Version))
    [] ~Flooded(c) /\ p.cmd = "Info"    -> ParseInfo(c, p)
    [] ~Flooded(c) /\ p.cmd = "Connect" -> ParseConnect(c, p, h)
    [] ~Flooded(c) /\ IsDelta(p)        -> ParseFirstDelta(c, p)
    [] OTHER                            -> Quiet(c)

Parse(c, p, h) ==
  CASE c.state = "ConnectedToServer" -> ParseConnectedToServer(c, p)
    [] c.state = "ConnectedToClient" -> ParseConnectedToClient(c, p)
    [] c.state = "Challenging"       -> ParseChallenging(c, p)
    [] c.state = "Connecting"        -> ParseConnecting(c, p, h)
    [] c.state = "Listening"         -> ParseListening(c, p, h)
    [] OTHER                         -> Quiet(c)

-----------------------------------------------------------------------------
(* Generating.                                                             *)

Request(c) ==
  IF c.state = "Challenging" THEN Challenge ELSE Connect(c.key)

TimeoutReason(c) ==
  CASE c.state = "Challenging" -> "TimeoutChallenging"
    [] c.state = "Connecting"  -> "TimeoutConnecting"
    [] c.state = "Listening"   -> "TimeoutClient"

(* Mistake: one retry too many.                                            *)
TriedTooOften(c) == c.count > HandshakeRetries + 1

TriedEnough(c) == c.count > HandshakeRetries

RetryOrTimeout(r) ==
  CASE TriedEnough(r.c)
         -> [r EXCEPT !.c = Fail(r.c, TimeoutReason(r.c))]
    [] ~TriedEnough(r.c) /\ r.c.age > RetryPeriod
         -> [r EXCEPT !.c = Sent(r.c), !.out = Request(r.c)]
    [] OTHER -> r

(* Mistake: a client that was accepted is waited for as long as it takes.  *)
ExpiredUnlessJoined(c) == c.age > ServerTimeout /\ ~HasJoined(c)

Expired(c) == c.age > ServerTimeout

Generate(r) ==
  CASE r.c.state = "Disconnecting"
         -> [r EXCEPT !.c = Fail(r.c, r.c.reason),
                      !.out = Disconnect(r.c.key)]
    [] r.c.state \in {"Challenging", "Connecting"} -> RetryOrTimeout(r)
    [] r.c.state = "Listening" /\ Expired(r.c)
         -> [r EXCEPT !.c = Fail(r.c, TimeoutReason(r.c))]
    [] OTHER -> r

Process(c, p, h) == Generate(Parse(c, p, h))

(* GetDefragmentedPacket moves the delta out.                              *)
Taken(c) == [c EXCEPT !.last = NoPacket]

=============================================================================
