--------------------------- MODULE Duties_proofs ----------------------------
(***************************************************************************)
(* Proofs for the link between desktop and supervisor, for any number of   *)
(* supervisors, calls, retries and nonces, and for the run of the Claude   *)
(* adapter, for any number of lines and control messages.                  *)
(***************************************************************************)
EXTENDS Duties, TLAPS

(***************************************************************************)
(* The link.  A command of the desktop runs at most once and gets its own  *)
(* result, although responses carry no number.  The argument is that a     *)
(* session in use is in one of a few positions, fixed by the point the     *)
(* call has reached (Conversation), and that a command not sent yet is     *)
(* nowhere else: not in the pipe of an abandoned session, not with its     *)
(* worker, not among the commands dispatched (Once).                       *)
(***************************************************************************)
Requests == [kind : {"handshake", "ping"}] \cup [kind : {"command"}, id : Nat]

Workers ==
    [at : {"read", "dispatch", "reply", "flush"}, auth : BOOLEAN, cancelling : BOOLEAN,
     id : Nat]

Calls ==
    [kind : {"status", "ping", "command"}, id : Nat, tries : Nat,
     at : {"open", "hello", "send", "await"}]

Outcomes ==
    [asked : Nat,
     got : {"none", "unavailable", "authentication", "protocol", "timeout", "pong", "result"},
     result : Nat]

LinkType ==
    /\ bridge \in [handle : {"none", "live", "dead"}, attempted : BOOLEAN,
                   call : {Link!NoCall} \cup Calls, outcome : Outcomes]
    /\ server \in {Link!Off} \cup Workers
    /\ toServer = <<>> \/ \E q \in Requests : toServer = <<q>>
    /\ executed \in Seq(Nat)
    /\ linkCount \in Nat

\* The ends of a session agree on whether it is open.
Session ==
    /\ bridge.handle = "live" => server # Link!Off
    /\ bridge.handle = "dead" => server = Link!Off
    /\ bridge.call # Link!NoCall => (bridge.call.at = "open" <=> bridge.handle = "none")
    /\ bridge.call.kind = "command" => bridge.call.tries = 0
    /\ server = Link!Off => toServer = <<>> /\ toClient = <<>>
    /\ server.at # "read" => toServer = <<>>

\* Between two calls nothing is under way.
Quiet == toServer = <<>> /\ toClient = <<>> /\ server.at = "read" /\ server.auth

Greeting ==
    \/ toServer = <<[kind |-> "handshake"]>> /\ toClient = <<>> /\ server.at = "read" /\ ~server.auth
    \/ toServer = <<>> /\ toClient = <<[kind |-> "accepted"]>> /\ server.at = "read" /\ server.auth
    \/ toServer = <<>> /\ toClient = <<[kind |-> "error"]>> /\ server.at = "flush"

\* What the bridge sends for a call.
Message(call) == IF call.kind = "command" THEN [kind |-> "command", id |-> call.id]
                 ELSE [kind |-> "ping"]

Done(id, log) == \E i \in DOMAIN log : log[i] = id

Exchange ==
    LET call == bridge.call IN
    \/ toServer = <<Message(call)>> /\ toClient = <<>> /\ server.at = "read" /\ server.auth
    \/ /\ call.kind # "command"
       /\ toServer = <<>> /\ toClient = <<[kind |-> "pong"]>> /\ server.at = "read" /\ server.auth
    \/ /\ call.kind = "command" /\ toServer = <<>> /\ toClient = <<>> /\ server.auth
       /\ server.id = call.id
       /\ server.at = "dispatch" \/ (server.at = "reply" /\ Done(call.id, executed))
    \/ /\ call.kind = "command" /\ Done(call.id, executed)
       /\ toServer = <<>> /\ toClient = <<[kind |-> "result", id |-> call.id]>>
       /\ server.at = "read" /\ server.auth

Conversation ==
    bridge.handle = "live" =>
        /\ bridge.call = Link!NoCall => Quiet
        /\ Link!Calling("send") => Quiet
        /\ Link!Calling("hello") => Greeting
        /\ Link!Calling("await") => Exchange

\* A command with this number has been issued and not dispatched.
Fresh(id, log, n) == id <= n /\ ~Done(id, log)

Once ==
    /\ \A i \in DOMAIN executed : executed[i] <= linkCount
    /\ Link!CommandRunsOnce
    /\ \A id \in Nat : toServer = <<[kind |-> "command", id |-> id]>> => Fresh(id, executed, linkCount)
    /\ server.at = "dispatch" => Fresh(server.id, executed, linkCount)
    /\ bridge.call # Link!NoCall => bridge.call.id <= linkCount
    /\ bridge.call.kind = "command" /\ bridge.call.at # "await" =>
          /\ ~Done(bridge.call.id, executed)
          /\ toServer # <<[kind |-> "command", id |-> bridge.call.id]>>
          /\ ~(server.at = "dispatch" /\ server.id = bridge.call.id)

LinkInv == LinkType /\ Session /\ Conversation /\ Once /\ Link!AnswerMatchesCommand

-----------------------------------------------------------------------------
\* A pipe with one message is empty once it is read.
LEMMA OneMessage ==
    ASSUME NEW m
    PROVE  Head(<<m>>) = m /\ Tail(<<m>>) = <<>> /\ Append(<<>>, m) = <<m>> /\ <<m>> # <<>>
  OBVIOUS

\* The shapes of a call and of a worker can be told from one field.
LEMMA Shapes ==
    ASSUME LinkType
    PROVE  /\ bridge.call = Link!NoCall \/ bridge.call \in Calls
           /\ bridge.call = Link!NoCall <=> bridge.call.kind = "none"
           /\ server = Link!Off \/ server \in Workers
           /\ server = Link!Off <=> server.at = "off"
  BY DEF LinkType, Link!NoCall, Calls, Link!Off, Workers

\* What has been dispatched after one more command.
LEMMA DoneAfter ==
    ASSUME NEW log \in Seq(Nat), NEW new \in Nat
    PROVE  /\ Append(log, new) \in Seq(Nat)
           /\ \A id \in Nat : Done(id, Append(log, new)) <=> Done(id, log) \/ id = new
           /\ \A n \in Nat : (\A i \in DOMAIN log : log[i] <= n) /\ new <= n
                 => \A i \in DOMAIN Append(log, new) : Append(log, new)[i] <= n
<1> DEFINE longer == Append(log, new)
<1>1. longer \in Seq(Nat) /\ Len(longer) = Len(log) + 1
  OBVIOUS
<1>2. DOMAIN longer = 1 .. Len(log) + 1 /\ DOMAIN log = 1 .. Len(log) /\ Len(log) \in Nat
  BY <1>1
<1>3. longer[Len(log) + 1] = new /\ \A i \in DOMAIN log : longer[i] = log[i]
  OBVIOUS
<1> HIDE DEF longer
<1>4. \A i \in DOMAIN longer : i \in DOMAIN log \/ i = Len(log) + 1
  BY <1>2
<1>5. \A id \in Nat : Done(id, longer) <=> Done(id, log) \/ id = new
  BY <1>2, <1>3, <1>4 DEF Done
<1>6. \A n \in Nat : (\A i \in DOMAIN log : log[i] <= n) /\ new <= n
                 => \A i \in DOMAIN longer : longer[i] <= n
  BY <1>3, <1>4, Zenon
<1>7. QED
  BY <1>1, <1>5, <1>6, Zenon DEF longer

\* A command that was not dispatched before makes no repetition.
LEMMA DistinctAfter ==
    ASSUME NEW log \in Seq(Nat), NEW new \in Nat, ~Done(new, log),
           \A i, j \in DOMAIN log : log[i] = log[j] => i = j
    PROVE  \A i, j \in DOMAIN Append(log, new) :
              Append(log, new)[i] = Append(log, new)[j] => i = j
<1> DEFINE longer == Append(log, new)
<1>1. DOMAIN longer = 1 .. Len(log) + 1 /\ DOMAIN log = 1 .. Len(log) /\ Len(log) \in Nat
  OBVIOUS
<1>2. longer[Len(log) + 1] = new /\ \A i \in DOMAIN log : longer[i] = log[i]
  OBVIOUS
<1> HIDE DEF longer
<1>3. \A i \in DOMAIN longer : i \in DOMAIN log \/ i = Len(log) + 1
  BY <1>1
<1>4. \A i \in DOMAIN log : log[i] # new
  BY Zenon DEF Done
<1>5. ASSUME NEW i \in DOMAIN longer, NEW j \in DOMAIN longer, longer[i] = longer[j]
      PROVE  i = j
  <2>1. CASE i \in DOMAIN log /\ j \in DOMAIN log
    BY <1>2, <1>5, <2>1, Zenon
  <2>2. CASE i \in DOMAIN log /\ j = Len(log) + 1
    BY <1>2, <1>4, <1>5, <2>2, Zenon
  <2>3. CASE i = Len(log) + 1 /\ j \in DOMAIN log
    BY <1>2, <1>4, <1>5, <2>3, Zenon
  <2>4. CASE i = Len(log) + 1 /\ j = Len(log) + 1
    BY <2>4, Zenon
  <2>5. QED
    BY <1>3, <2>1, <2>2, <2>3, <2>4, Zenon
<1>6. QED
  BY <1>5, Zenon DEF longer

-----------------------------------------------------------------------------
\* The link is as before; at most an input was counted.
LEMMA Aside ==
    ASSUME LinkInv, UNCHANGED <<server, toServer, toClient, bridge, executed>>,
           linkCount' = linkCount \/ linkCount' = linkCount + 1
    PROVE  LinkInv'
<1>1. linkCount \in Nat /\ linkCount' \in Nat /\ linkCount <= linkCount'
  BY DEF LinkInv, LinkType
<1>2. LinkType'
  BY <1>1, Zenon DEF LinkInv, LinkType
<1>3. Session'
  BY Zenon DEF LinkInv, Session
<1>4. Conversation'
  BY Zenon DEF LinkInv, Conversation, Link!Calling, Quiet, Greeting, Exchange
<1>5. \A i \in DOMAIN executed : executed[i] \in Nat
  BY DEF LinkInv, LinkType
<1>6. \A id \in Nat : Fresh(id, executed, linkCount) => Fresh(id, executed, linkCount')
  BY <1>1 DEF Fresh
<1>7. server.at = "dispatch" => server.id \in Nat
  BY Shapes, Zenon DEF LinkInv, Workers, Link!Off
<1>8. bridge.call # Link!NoCall => bridge.call.id \in Nat
  BY Shapes, Zenon DEF LinkInv, Calls
<1>9. Once'
  <2>1. \A i \in DOMAIN executed : executed[i] <= linkCount'
    BY <1>1, <1>5 DEF LinkInv, Once
  <2>2. \A id \in Nat : toServer = <<[kind |-> "command", id |-> id]>>
                           => Fresh(id, executed, linkCount')
    BY <1>6, Zenon DEF LinkInv, Once
  <2>3. server.at = "dispatch" => Fresh(server.id, executed, linkCount')
    BY <1>6, <1>7, Zenon DEF LinkInv, Once
  <2>4. bridge.call # Link!NoCall => bridge.call.id <= linkCount'
    BY <1>1, <1>8 DEF LinkInv, Once
  <2>5. QED
    BY <2>1, <2>2, <2>3, <2>4, Zenon DEF LinkInv, Once, Link!CommandRunsOnce
<1>10. QED
  BY <1>2, <1>3, <1>4, <1>9, Zenon DEF LinkInv, Link!AnswerMatchesCommand

\* The worker or its process is gone and the pipe with it.
LEMMA Hangup ==
    ASSUME LinkInv, server' = Link!Off, toServer' = <<>>, toClient' = <<>>,
           bridge' = Link!Broken(bridge), UNCHANGED executed,
           linkCount' = linkCount \/ linkCount' = linkCount + 1
    PROVE  LinkInv'
<1>1. linkCount \in Nat /\ linkCount' \in Nat /\ linkCount <= linkCount'
  BY DEF LinkInv, LinkType
<1>2. /\ bridge'.handle = (IF bridge.handle = "live" THEN "dead" ELSE bridge.handle)
      /\ bridge'.call = bridge.call /\ bridge'.outcome = bridge.outcome
      /\ bridge' \in [handle : {"none", "live", "dead"}, attempted : BOOLEAN,
                      call : {Link!NoCall} \cup Calls, outcome : Outcomes]
  BY Zenon DEF LinkInv, LinkType, Link!Broken
<1>3. bridge'.handle # "live" /\ (bridge'.handle = "none" <=> bridge.handle = "none")
  BY <1>2, Zenon DEF LinkInv, LinkType
<1>4. LinkType'
  BY <1>1, <1>2, Zenon DEF LinkInv, LinkType
<1>5. Session'
  BY <1>2, <1>3, Zenon DEF LinkInv, Session
<1>6. Conversation'
  BY <1>3, Zenon DEF Conversation
<1>7. bridge.call # Link!NoCall => bridge.call.id \in Nat
  BY Shapes, Zenon DEF LinkInv, Calls
<1>8. \A i \in DOMAIN executed : executed[i] \in Nat
  BY DEF LinkInv, LinkType
<1>9. Once'
  <2>1. \A i \in DOMAIN executed : executed[i] <= linkCount'
    BY <1>1, <1>8 DEF LinkInv, Once
  <2>2. bridge.call # Link!NoCall => bridge.call.id <= linkCount'
    BY <1>1, <1>7 DEF LinkInv, Once
  <2>3. server'.at # "dispatch"
    BY Zenon DEF Link!Off
  <2>4. \A x : toServer' # <<x>>
    BY Zenon
  <2>5. QED
    BY <1>2, <2>1, <2>2, <2>3, <2>4, Zenon DEF LinkInv, Once, Link!CommandRunsOnce
<1>10. Link!AnswerMatchesCommand'
  BY <1>2, Zenon DEF LinkInv, Link!AnswerMatchesCommand
<1>11. QED
  BY <1>4, <1>5, <1>6, <1>9, <1>10, Zenon DEF LinkInv

\* Processes start, stop and crash (supervisor's lib.rs): a session ends with its server.
LEMMA ProcessesKeep ==
    ASSUME LinkInv, NEW p \in Pids, Link!Process(p) \/ Link!Stop(p) \/ Link!Crash(p)
    PROVE  LinkInv'
<1>1. CASE Link!Process(p) \/ Link!Stop(p)
  BY <1>1, Aside, Zenon DEF Link!Process, Link!Acquire, Link!Listen, Link!Publish, Link!Joined,
     Link!Cleanup, Link!Release, Link!Stop, Link!Input
<1>2. CASE Link!Crash(p) /\ proc[p] \in Link!Listening
  BY <1>2, Hangup, Zenon DEF Link!Crash, Link!Input
<1>3. CASE Link!Crash(p) /\ proc[p] \notin Link!Listening
  BY <1>3, Aside, Zenon DEF Link!Crash, Link!Input
<1>4. QED
  BY <1>1, <1>2, <1>3, Zenon

\* The worker of a connection ends, or a nonce expires (ipc.rs).
LEMMA WorkerEndsKeeps ==
    ASSUME LinkInv, Link!WorkerEnds \/ Link!NonceExpires
    PROVE  LinkInv'
<1>1. CASE Link!WorkerEnds
  BY <1>1, Hangup, Zenon DEF Link!WorkerEnds
<1>2. CASE Link!NonceExpires
  BY <1>2, Aside, Zenon DEF Link!NonceExpires
<1>3. QED
  BY <1>1, <1>2, Zenon

\* A connection that sends nothing is closed (ipc.rs).
LEMMA IdleTimeoutKeeps ==
    ASSUME LinkInv, Link!IdleTimeout
    PROVE  LinkInv'
<1>1. /\ server' = [server EXCEPT !.cancelling = TRUE] /\ server.at \in {"read", "flush"}
      /\ UNCHANGED <<toServer, toClient, bridge, executed, linkCount>>
  BY Zenon DEF Link!IdleTimeout
<1>2. server \in Workers
  BY <1>1, Shapes, Zenon DEF LinkInv, Link!Off
<1>3. /\ server' \in Workers /\ server'.at = server.at /\ server'.auth = server.auth
      /\ server'.id = server.id
  BY <1>1, <1>2, Zenon DEF Workers
<1>4. server # Link!Off /\ server' # Link!Off
  BY <1>2, <1>3 DEF Workers, Link!Off
<1>5. LinkType'
  BY <1>1, <1>3, Zenon DEF LinkInv, LinkType
<1>6. Session'
  BY <1>1, <1>3, <1>4, Zenon DEF LinkInv, Session
<1>7. Conversation'
  BY <1>1, <1>3, Zenon DEF LinkInv, Conversation, Link!Calling, Quiet, Greeting, Exchange
<1>8. Once'
  BY <1>1, <1>3, Zenon DEF LinkInv, Once, Link!CommandRunsOnce
<1>9. QED
  BY <1>1, <1>5, <1>6, <1>7, <1>8, Zenon DEF LinkInv, Link!AnswerMatchesCommand

-----------------------------------------------------------------------------
\* A call gets a number no command had.
LEMMA CallKeeps ==
    ASSUME LinkInv, NEW kind \in {"status", "ping", "command"}, Link!Call(kind)
    PROVE  LinkInv'
<1> DEFINE c == [kind |-> kind, id |-> linkCount', tries |-> 0,
                 at |-> IF bridge.handle = "none" THEN "open" ELSE "send"]
<1>1. /\ bridge.call = Link!NoCall /\ linkCount' = linkCount + 1 /\ bridge' = [bridge EXCEPT !.call = c]
      /\ UNCHANGED <<server, toServer, toClient, executed>>
  BY Zenon DEF Link!Call, Link!Input
<1>2. linkCount \in Nat /\ linkCount' \in Nat
  BY <1>1 DEF LinkInv, LinkType
<1>3. /\ c \in Calls /\ c # Link!NoCall /\ c.kind = kind /\ c.id = linkCount' /\ c.tries = 0
      /\ c.at = (IF bridge.handle = "none" THEN "open" ELSE "send")
  BY <1>2, Zenon DEF Calls, Link!NoCall
<1> HIDE DEF c
<1>4. /\ bridge'.handle = bridge.handle /\ bridge'.call = c /\ bridge'.outcome = bridge.outcome
      /\ bridge' \in [handle : {"none", "live", "dead"}, attempted : BOOLEAN,
                      call : {Link!NoCall} \cup Calls, outcome : Outcomes]
  BY <1>1, <1>3, Zenon DEF LinkInv, LinkType
<1>5. LinkType'
  BY <1>1, <1>2, <1>4, Zenon DEF LinkInv, LinkType
<1>6. Session'
  BY <1>1, <1>3, <1>4, Zenon DEF LinkInv, Session
<1>7. Conversation'
  <2>1. bridge.handle = "live" => Quiet
    BY <1>1, Zenon DEF LinkInv, Conversation
  <2>2. Quiet' <=> Quiet
    BY <1>1, Zenon DEF Quiet
  <2>3. bridge'.handle = "live" => bridge'.call.at = "send"
    BY <1>3, <1>4, Zenon
  <2>4. QED
    BY <1>3, <1>4, <2>1, <2>2, <2>3, Zenon DEF Conversation, Link!Calling
<1>8. Once'
  <2>1. \A i \in DOMAIN executed : executed[i] \in Nat /\ executed[i] <= linkCount
    BY DEF LinkInv, LinkType, Once
  <2>2. ~Done(linkCount', executed)
    BY <1>1, <1>2, <2>1 DEF Done
  <2>3. \A id \in Nat : Fresh(id, executed, linkCount) => Fresh(id, executed, linkCount') /\ id # linkCount'
    BY <1>1, <1>2 DEF Fresh
  <2>4. \A id \in Nat : toServer = <<[kind |-> "command", id |-> id]>>
                           => Fresh(id, executed, linkCount') /\ id # linkCount'
    BY <2>3, Zenon DEF LinkInv, Once
  <2>5. server.at = "dispatch" => Fresh(server.id, executed, linkCount') /\ server.id # linkCount'
    <3>1. server.at = "dispatch" => server.id \in Nat
      BY Shapes, Zenon DEF LinkInv, Workers, Link!Off
    <3>2. QED
      BY <2>3, <3>1, Zenon DEF LinkInv, Once
  <2>6. \A i \in DOMAIN executed : executed[i] <= linkCount'
    BY <1>1, <1>2, <2>1
  <2>7. toServer # <<[kind |-> "command", id |-> linkCount']>>
    BY <1>2, <2>4, Zenon
  <2>8. bridge'.call.id = linkCount' /\ linkCount' <= linkCount'
    BY <1>2, <1>3, <1>4
  <2>9. QED
    BY <1>1, <2>2, <2>4, <2>5, <2>6, <2>7, <2>8, Zenon DEF LinkInv, Once, Link!CommandRunsOnce
<1>9. Link!AnswerMatchesCommand'
  BY <1>1, <1>4, Zenon DEF LinkInv, Link!AnswerMatchesCommand
<1>10. QED
  BY <1>5, <1>6, <1>7, <1>8, <1>9, Zenon DEF LinkInv

-----------------------------------------------------------------------------
\* Where a session in use can be.
LEMMA Positions ==
    ASSUME LinkInv, bridge.handle = "live"
    PROVE  \/ Quiet /\ (bridge.call = Link!NoCall \/ Link!Calling("send"))
           \/ Greeting /\ Link!Calling("hello")
           \/ Exchange /\ Link!Calling("await")
<1>1. bridge.call # Link!NoCall => bridge.call.at \in {"hello", "send", "await"}
  BY Shapes, Zenon DEF LinkInv, Session, Calls
<1>2. QED
  BY <1>1, Zenon DEF LinkInv, Conversation, Link!Calling

\* A step of the worker leaves the calls of the bridge as they are.
LEMMA WorkerKeeps ==
    ASSUME LinkInv, server \in Workers, server' \in Workers,
           UNCHANGED <<bridge, executed, linkCount>>,
           toServer' = <<>>,
           server'.at = "dispatch" =>
              /\ Fresh(server'.id, executed, linkCount)
              /\ bridge.call.kind = "command" /\ bridge.call.at # "await"
                    => server'.id # bridge.call.id,
           Conversation'
    PROVE  LinkInv'
<1>1. server # Link!Off /\ server' # Link!Off
  BY DEF Workers, Link!Off
<1>2. LinkType'
  BY Zenon DEF LinkInv, LinkType
<1>3. Session'
  BY <1>1, Zenon DEF LinkInv, Session
<1>4. \A x : toServer' # <<x>>
  BY Zenon
<1>5. Once'
  BY <1>4, Zenon DEF LinkInv, Once, Link!CommandRunsOnce
<1>6. QED
  BY <1>2, <1>3, <1>5, Zenon DEF LinkInv, Link!AnswerMatchesCommand

\* The worker reads the handshake, the first message of a session (handshake.rs).
LEMMA TakeHandshakeKeeps ==
    ASSUME LinkInv, NEW readable \in BOOLEAN, Link!TakeHandshake(readable)
    PROVE  LinkInv'
<1>1. /\ server.at = "read" /\ toServer # <<>> /\ Head(toServer).kind = "handshake"
      /\ toServer' = Tail(toServer) /\ UNCHANGED <<bridge, executed, linkCount>>
  BY Zenon DEF Link!TakeHandshake
<1>2. server \in Workers
  BY <1>1, Shapes, Zenon DEF LinkInv, Link!Off
<1>3. PICK q \in Requests : toServer = <<q>>
  BY <1>1, Zenon DEF LinkInv, LinkType
<1>4. q.kind = "handshake" /\ toServer' = <<>>
  BY <1>1, <1>3, OneMessage, Zenon
<1>5. q # Message(bridge.call)
  BY <1>4 DEF Message
<1>6. bridge.handle = "live" => Link!Calling("hello") /\ toClient = <<>> /\ ~server.auth
  BY <1>3, <1>5, Positions, OneMessage, Zenon DEF Quiet, Greeting, Exchange
<1>7. CASE ~server.auth /\ Link!VerifyAt(readable)
  <2>1. /\ server' = [server EXCEPT !.auth = TRUE]
        /\ toClient' = Append(toClient, [kind |-> "accepted"])
    BY <1>7, Zenon DEF Link!TakeHandshake
  <2>2. server' \in Workers /\ server'.at = "read" /\ server'.auth
    BY <1>1, <1>2, <2>1, Zenon DEF Workers
  <2>3. bridge.handle = "live" => Greeting'
    BY <1>4, <1>6, <2>1, <2>2, OneMessage, Zenon DEF Greeting
  <2>4. Conversation'
    BY <1>1, <1>6, <2>3, Zenon DEF Conversation, Link!Calling
  <2>5. QED
    BY <1>1, <1>2, <1>4, <2>2, <2>4, WorkerKeeps, Zenon
<1>8. CASE ~(~server.auth /\ Link!VerifyAt(readable))
  <2>1. /\ server' = [server EXCEPT !.at = "flush"]
        /\ toClient' = Append(toClient, [kind |-> "error"])
    BY <1>8, Zenon DEF Link!TakeHandshake, Link!WorkerAnswers
  <2>2. server' \in Workers /\ server'.at = "flush"
    BY <1>1, <1>2, <2>1, Zenon DEF Workers
  <2>3. bridge.handle = "live" => Greeting'
    BY <1>4, <1>6, <2>1, <2>2, OneMessage, Zenon DEF Greeting
  <2>4. Conversation'
    BY <1>1, <1>6, <2>3 DEF Conversation, Link!Calling
  <2>5. QED
    BY <1>1, <1>2, <1>4, <2>2, <2>4, WorkerKeeps, Zenon
<1>9. QED
  BY <1>7, <1>8, Zenon

\* The worker reads a ping or a command (ipc.rs).
LEMMA TakeMessageKeeps ==
    ASSUME LinkInv, Link!TakeMessage
    PROVE  LinkInv'
<1>1. /\ server.at = "read" /\ toServer # <<>> /\ Head(toServer).kind # "handshake"
      /\ toServer' = Tail(toServer) /\ UNCHANGED <<bridge, executed, linkCount>>
  BY Zenon DEF Link!TakeMessage
<1>2. server \in Workers
  BY <1>1, Shapes, Zenon DEF LinkInv, Link!Off
<1>3. PICK q \in Requests : toServer = <<q>>
  BY <1>1, Zenon DEF LinkInv, LinkType
<1>4. Head(toServer) = q /\ q.kind # "handshake" /\ toServer' = <<>>
  BY <1>1, <1>3, OneMessage, Zenon
<1>5. bridge.handle = "live" =>
         Link!Calling("await") /\ toClient = <<>> /\ server.auth /\ q = Message(bridge.call)
  <2>1. \A x, y : <<x>> = <<y>> => x = y
    BY Zenon
  <2>2. q # [kind |-> "handshake"]
    BY <1>4
  <2>3. QED
    BY <1>3, <2>1, <2>2, Positions, OneMessage, Zenon DEF Quiet, Greeting, Exchange
<1>6. CASE ~server.auth
  <2>1. server' = [server EXCEPT !.at = "flush"]
    BY <1>6, Zenon DEF Link!TakeMessage, Link!WorkerAnswers
  <2>2. server' \in Workers /\ server'.at = "flush"
    BY <1>2, <2>1, Zenon DEF Workers
  <2>3. Conversation'
    BY <1>1, <1>5, <1>6, Zenon DEF Conversation
  <2>4. QED
    BY <1>1, <1>2, <1>4, <2>2, <2>3, WorkerKeeps, Zenon
<1>7. CASE server.auth /\ q.kind = "ping"
  <2>1. /\ server' = [server EXCEPT !.at = "read"]
        /\ toClient' = Append(toClient, [kind |-> "pong"])
    BY <1>4, <1>7, Zenon DEF Link!TakeMessage, Link!WorkerAnswers
  <2>2. server' \in Workers /\ server'.at = "read" /\ server'.auth
    BY <1>2, <1>7, <2>1, Zenon DEF Workers
  <2>3. bridge.handle = "live" => bridge.call.kind # "command"
    BY <1>5, <1>7 DEF Message
  <2>4. bridge.handle = "live" => Exchange'
    BY <1>1, <1>4, <1>5, <2>1, <2>2, <2>3, OneMessage, Zenon DEF Exchange
  <2>5. Conversation'
    BY <1>1, <1>5, <2>4, Zenon DEF Conversation, Link!Calling
  <2>6. QED
    BY <1>1, <1>2, <1>4, <2>2, <2>5, WorkerKeeps, Zenon
<1>8. CASE server.auth /\ q.kind # "ping"
  <2>1. /\ server' = [server EXCEPT !.at = "dispatch", !.id = q.id]
        /\ toClient' = toClient
    BY <1>4, <1>8, Zenon DEF Link!TakeMessage
  <2>2. q.kind = "command" /\ q.id \in Nat /\ q = [kind |-> "command", id |-> q.id]
    BY <1>4, <1>8, Zenon DEF Requests
  <2>3. server' \in Workers /\ server'.at = "dispatch" /\ server'.id = q.id /\ server'.auth
    BY <1>2, <1>8, <2>1, <2>2, Zenon DEF Workers
  <2>4. bridge.handle = "live" => bridge.call.kind = "command" /\ bridge.call.id = q.id
    BY <1>5, <2>2 DEF Message
  <2>5. bridge.handle = "live" => Exchange'
    BY <1>1, <1>4, <1>5, <2>1, <2>3, <2>4, Zenon DEF Exchange
  <2>6. Conversation'
    BY <1>1, <1>5, <2>5 DEF Conversation, Link!Calling
  <2>7. Fresh(q.id, executed, linkCount)
    BY <1>3, <2>2, Zenon DEF LinkInv, Once
  <2>8. bridge.call.kind = "command" /\ bridge.call.at # "await" => q.id # bridge.call.id
    BY <1>3, <2>2, Zenon DEF LinkInv, Once
  <2>9. QED
    BY <1>1, <1>2, <1>4, <2>3, <2>6, <2>7, <2>8, WorkerKeeps, Zenon
<1>9. QED
  BY <1>6, <1>7, <1>8, Zenon

\* The worker dispatches its command, which was not dispatched before (ipc.rs).
LEMMA DispatchKeeps ==
    ASSUME LinkInv, Link!Dispatch
    PROVE  LinkInv'
<1>1. /\ server.at = "dispatch" /\ executed' = Append(executed, server.id)
      /\ server' = [server EXCEPT !.at = "reply"]
      /\ UNCHANGED <<toServer, toClient, bridge, linkCount>>
  BY Zenon DEF Link!Dispatch
<1>2. server \in Workers
  BY <1>1, Shapes, Zenon DEF LinkInv, Link!Off
<1>3. /\ server' \in Workers /\ server'.at = "reply" /\ server'.id = server.id
      /\ server'.auth = server.auth /\ server.id \in Nat
  BY <1>1, <1>2, Zenon DEF Workers
<1>4. server # Link!Off /\ server' # Link!Off
  BY <1>2, <1>3 DEF Workers, Link!Off
<1>5. toServer = <<>>
  BY <1>1, Zenon DEF LinkInv, Session
<1>6. Fresh(server.id, executed, linkCount) /\ executed \in Seq(Nat) /\ linkCount \in Nat
  BY <1>1, Zenon DEF LinkInv, Once, LinkType
<1>7. /\ executed' \in Seq(Nat)
      /\ \A id \in Nat : Done(id, executed') <=> Done(id, executed) \/ id = server.id
      /\ \A i \in DOMAIN executed' : executed'[i] <= linkCount
  BY <1>1, <1>3, <1>6, DoneAfter, Zenon DEF LinkInv, Once, Fresh
<1>8. LinkType'
  BY <1>1, <1>3, <1>7, Zenon DEF LinkInv, LinkType
<1>9. Session'
  BY <1>1, <1>3, <1>4, <1>5, Zenon DEF LinkInv, Session
<1>10. Conversation'
  <2>1. SUFFICES ASSUME bridge.handle = "live" PROVE Exchange' /\ Link!Calling("await")
    BY <1>1, Zenon DEF Conversation, Link!Calling
  <2>2. Exchange /\ Link!Calling("await") /\ server.id = bridge.call.id /\ toClient = <<>>
        /\ bridge.call.kind = "command" /\ server.auth
    BY <1>1, <2>1, Positions, Zenon DEF Quiet, Greeting, Exchange
  <2>3. Done(bridge.call.id, executed')
    BY <1>3, <1>7, <2>2, Zenon
  <2>4. QED
    BY <1>1, <1>3, <1>5, <2>2, <2>3, Zenon DEF Exchange
<1>11. Once'
  <2>1. Link!CommandRunsOnce'
    BY <1>1, <1>3, <1>6, DistinctAfter, Zenon DEF LinkInv, Once, Link!CommandRunsOnce, Fresh
  <2>2. bridge.call.kind = "command" /\ bridge.call.at # "await" => ~Done(bridge.call.id, executed')
    <3>1. bridge.call.kind = "command" => bridge.call.id \in Nat
      BY Shapes, Zenon DEF LinkInv, Calls, Link!NoCall
    <3>2. QED
      BY <1>1, <1>7, <3>1, Zenon DEF LinkInv, Once
  <2>3. \A x : toServer' # <<x>>
    BY <1>1, <1>5, Zenon
  <2>4. QED
    BY <1>1, <1>3, <1>7, <2>1, <2>2, <2>3, Zenon DEF LinkInv, Once
<1>12. Link!AnswerMatchesCommand'
  <2>1. bridge.outcome.asked \in Nat
    BY Zenon DEF LinkInv, LinkType, Outcomes
  <2>2. bridge.outcome.got = "result" => Done(bridge.outcome.asked, executed')
    BY <1>7, <2>1, Zenon DEF LinkInv, Link!AnswerMatchesCommand, Done
  <2>3. QED
    BY <1>1, <2>2, Zenon DEF LinkInv, Link!AnswerMatchesCommand, Done
<1>13. QED
  BY <1>8, <1>9, <1>10, <1>11, <1>12, Zenon DEF LinkInv

\* The worker answers what it has read (ipc.rs).
LEMMA ReplyKeeps ==
    ASSUME LinkInv, Link!Reply
    PROVE  LinkInv'
<1>1. /\ server.at = "reply" /\ bridge.handle = "live"
      /\ toClient' = Append(toClient, [kind |-> "result", id |-> server.id])
      /\ server' = [server EXCEPT !.at = "read"]
      /\ UNCHANGED <<toServer, bridge, executed, linkCount>>
  BY Zenon DEF Link!Reply, Link!WorkerAnswers
<1>2. server \in Workers
  BY <1>1, Shapes, Zenon DEF LinkInv, Link!Off
<1>3. server' \in Workers /\ server'.at = "read" /\ server'.auth = server.auth
  BY <1>1, <1>2, Zenon DEF Workers
<1>4. /\ Link!Calling("await") /\ server.id = bridge.call.id /\ toClient = <<>> /\ toServer = <<>>
      /\ bridge.call.kind = "command" /\ server.auth /\ Done(bridge.call.id, executed)
  BY <1>1, Positions, Zenon DEF Quiet, Greeting, Exchange
<1>5. Exchange'
  BY <1>1, <1>3, <1>4, OneMessage, Zenon DEF Exchange
<1>6. Conversation'
  BY <1>1, <1>4, <1>5, Zenon DEF Conversation, Link!Calling
<1>7. QED
  BY <1>1, <1>2, <1>3, <1>4, <1>6, WorkerKeeps, Zenon

-----------------------------------------------------------------------------
\* The bridge gives its session up: the call is over, or it is a ping made again.
LEMMA GiveUp ==
    ASSUME LinkInv,
           bridge' \in [handle : {"none"}, attempted : BOOLEAN,
                        call : {Link!NoCall} \cup Calls, outcome : Outcomes],
           \/ bridge'.call = Link!NoCall
           \/ /\ bridge.call # Link!NoCall /\ bridge'.call \in Calls
              /\ bridge'.call.kind # "command" /\ bridge'.call.at = "open"
              /\ bridge'.call.id = bridge.call.id,
           bridge'.outcome = bridge.outcome \/ bridge'.outcome.got # "result",
           UNCHANGED <<server, toServer, executed, linkCount>>,
           toClient' = <<>> \/ toClient' = toClient \/ server # Link!Off
    PROVE  LinkInv'
<1>1. bridge'.handle = "none" /\ bridge'.call.kind # "command"
  BY DEF Link!NoCall
<1>2. LinkType'
  BY Zenon DEF LinkInv, LinkType
<1>3. Session'
  BY <1>1, Zenon DEF LinkInv, Session
<1>4. Conversation'
  BY <1>1, Zenon DEF Conversation
<1>5. Once'
  BY <1>1, Zenon DEF LinkInv, Once, Link!CommandRunsOnce
<1>6. Link!AnswerMatchesCommand'
  BY Zenon DEF LinkInv, Link!AnswerMatchesCommand
<1>7. QED
  BY <1>2, <1>3, <1>4, <1>5, <1>6, Zenon DEF LinkInv

\* The bridge after a call: it is free, and the outcome is of the call that was made.
LEMMA ReturnedShape ==
    ASSUME LinkInv, bridge.call # Link!NoCall, NEW handle \in {"none", "live", "dead"},
           NEW got \in {"unavailable", "authentication", "protocol", "timeout", "pong", "result"}
    PROVE  LET b == Link!Returned(handle, got) IN
           /\ b \in [handle : {"none", "live", "dead"}, attempted : BOOLEAN,
                     call : {Link!NoCall} \cup Calls, outcome : Outcomes]
           /\ b.handle = handle /\ b.call = Link!NoCall /\ b.outcome = Link!Outcome(got)
           /\ b.outcome \in Outcomes /\ b.outcome.got = got
           /\ b.outcome.asked = bridge.call.id
<1>1. bridge.call.id \in Nat
  BY Shapes, Zenon DEF LinkInv, Calls
<1>2. /\ Link!Outcome(got) \in Outcomes /\ Link!Outcome(got).got = got
      /\ Link!Outcome(got).asked = bridge.call.id
  BY <1>1, Zenon DEF Link!Outcome, Outcomes, Link!None
<1>3. QED
  BY <1>2, Zenon DEF LinkInv, LinkType, Link!Returned

\* An answer other than a failed connection ends the session and the call.
LEMMA FailedKeeps ==
    ASSUME LinkInv, bridge.call # Link!NoCall, NEW got \in {"authentication", "protocol", "timeout"},
           bridge' = Link!Returned("none", got),
           UNCHANGED <<server, toServer, executed, linkCount>>,
           toClient' = <<>> \/ server # Link!Off
    PROVE  LinkInv'
<1> DEFINE b == Link!Returned("none", got)
<1>1. /\ b \in [handle : {"none", "live", "dead"}, attempted : BOOLEAN,
                call : {Link!NoCall} \cup Calls, outcome : Outcomes]
      /\ b.handle = "none" /\ b.call = Link!NoCall /\ b.outcome.got = got
  BY ReturnedShape
<1>2. bridge' = b
  BY Zenon
<1> HIDE DEF b
<1>3. b \in [handle : {"none"}, attempted : BOOLEAN,
             call : {Link!NoCall} \cup Calls, outcome : Outcomes]
  BY <1>1, Zenon
<1>4. b.outcome.got # "result"
  BY <1>1, Zenon
<1>5. QED
  BY <1>1, <1>2, <1>3, <1>4, GiveUp, Zenon

\* The connection failed: supervisor_status may launch a supervisor or try again, and
\* a command may not.
LEMMA UnavailableKeeps ==
    ASSUME LinkInv, bridge.call # Link!NoCall, Link!Unavailable,
           UNCHANGED <<server, toServer, toClient>>
    PROVE  LinkInv'
<1> DEFINE Untied == [handle : {"none"}, attempted : BOOLEAN,
                      call : {Link!NoCall} \cup Calls, outcome : Outcomes]
           b == Link!Returned("none", "unavailable")
<1>1. UNCHANGED <<executed, linkCount>>
  BY Zenon DEF Link!Unavailable
<1>2. bridge.call \in Calls
  BY Shapes, Zenon DEF LinkInv
<1>3. /\ b \in Untied /\ b.call = Link!NoCall /\ b.outcome.got = "unavailable"
      /\ [b EXCEPT !.attempted = TRUE] \in Untied
      /\ [b EXCEPT !.attempted = TRUE].call = Link!NoCall
      /\ [b EXCEPT !.attempted = TRUE].outcome.got = "unavailable"
  <2>1. /\ b \in [handle : {"none", "live", "dead"}, attempted : BOOLEAN,
                  call : {Link!NoCall} \cup Calls, outcome : Outcomes]
        /\ b.handle = "none" /\ b.call = Link!NoCall /\ b.outcome.got = "unavailable"
    BY ReturnedShape
  <2> HIDE DEF b
  <2>2. QED
    BY <2>1, Zenon
<1>4. CASE \/ bridge' = b
           \/ bridge' = [b EXCEPT !.attempted = TRUE]
  <2> HIDE DEF b
  <2>1. bridge' \in Untied /\ bridge'.call = Link!NoCall /\ bridge'.outcome.got # "result"
    BY <1>3, <1>4, Zenon
  <2>2. QED
    BY <1>1, <2>1, GiveUp, Zenon
<1>5. ASSUME bridge.call.kind # "command", NEW n \in Nat,
             \/ bridge' = [bridge EXCEPT !.handle = "none", !.call.at = "open",
                                         !.call.tries = n]
             \/ bridge' = [bridge EXCEPT !.handle = "none", !.attempted = TRUE,
                                         !.call.at = "open", !.call.tries = n]
      PROVE  LinkInv'
  <2>2. /\ bridge'.call = [bridge.call EXCEPT !.at = "open", !.tries = n]
        /\ bridge'.outcome = bridge.outcome
    BY <1>5, Zenon DEF LinkInv, LinkType
  <2>3. /\ bridge'.call \in Calls /\ bridge'.call.kind = bridge.call.kind
        /\ bridge'.call.id = bridge.call.id /\ bridge'.call.at = "open"
    BY <1>2, <2>2, Zenon DEF Calls
  <2>4. bridge' \in Untied
    BY <1>5, <2>2, <2>3, Zenon DEF LinkInv, LinkType
  <2>5. QED
    BY <1>1, <1>5, <2>2, <2>3, <2>4, GiveUp, Zenon
<1>6. CASE Link!MayLaunch
  <2>1. Link!Launch /\ bridge.call.kind # "command"
    BY <1>6, Zenon DEF Link!Unavailable, Link!MayLaunch
  <2>2. QED
    BY <1>4, <1>5, <2>1, Zenon DEF Link!Launch
<1>7. CASE ~Link!MayLaunch
  <2>1. bridge' = Link!Failed("unavailable")
    BY <1>7, Zenon DEF Link!Unavailable
  <2>2. bridge.call.tries \in 1 .. MaxTries - 1 => bridge.call.kind # "command"
    BY DEF LinkInv, Session
  <2>3. bridge.call.tries + 1 \in Nat
    BY <1>2 DEF Calls
  <2>4. QED
    BY <1>4, <1>5, <2>1, <2>2, <2>3, Zenon DEF Link!Failed
<1>8. QED
  BY <1>6, <1>7, Zenon

\* A read returns something only in a session that is open.
LEMMA AnswerMeansLive ==
    ASSUME LinkInv, Link!Calling("hello") \/ Link!Calling("send") \/ Link!Calling("await"), toClient # <<>>
    PROVE  bridge.handle = "live"
  BY Zenon DEF LinkInv, LinkType, Session, Link!Calling

\* The bridge opens a session, for which it needs a worker that is off (supervisor_bridge.rs).
LEMMA OpenKeeps ==
    ASSUME LinkInv, Link!Open
    PROVE  LinkInv'
<1>1. /\ bridge.call # Link!NoCall /\ bridge.call.at = "open" /\ server = Link!Off
      /\ server' = [at |-> "read", auth |-> FALSE, cancelling |-> FALSE, id |-> Link!None]
      /\ toServer' = <<[kind |-> "handshake"]>>
      /\ bridge' = [bridge EXCEPT !.handle = "live", !.call.at = "hello"]
      /\ UNCHANGED <<toClient, executed, linkCount>>
  BY Zenon DEF Link!Open, Link!Calling, Link!Free
<1>2. bridge.call \in Calls /\ toClient = <<>>
  BY <1>1, Shapes, Zenon DEF LinkInv, Session
<1>3. /\ bridge'.handle = "live" /\ bridge'.call = [bridge.call EXCEPT !.at = "hello"]
      /\ bridge'.outcome = bridge.outcome
  BY <1>1, Zenon DEF LinkInv, LinkType
<1>4. /\ bridge'.call \in Calls /\ bridge'.call.kind = bridge.call.kind
      /\ bridge'.call.id = bridge.call.id /\ bridge'.call.at = "hello"
      /\ bridge'.call.tries = bridge.call.tries
  BY <1>2, <1>3, Zenon DEF Calls
<1>5. /\ server' \in Workers /\ server' # Link!Off /\ server'.at = "read" /\ ~server'.auth
  BY <1>1, Zenon DEF Workers, Link!Off, Link!None
<1>6. [kind |-> "handshake"] \in Requests
  BY Zenon DEF Requests
<1>7. LinkType'
  <2>1. bridge' \in [handle : {"none", "live", "dead"}, attempted : BOOLEAN,
                     call : {Link!NoCall} \cup Calls, outcome : Outcomes]
    BY <1>1, <1>3, <1>4, Zenon DEF LinkInv, LinkType
  <2>2. QED
    BY <1>1, <1>5, <1>6, <2>1, Zenon DEF LinkInv, LinkType
<1>8. bridge'.call # Link!NoCall
  BY <1>4 DEF Calls, Link!NoCall
<1>9. Session'
  BY <1>1, <1>3, <1>4, <1>5, Zenon DEF LinkInv, Session
<1>10. Greeting'
  BY <1>1, <1>2, <1>5, Zenon DEF Greeting
<1>11. Conversation'
  BY <1>4, <1>8, <1>10, Zenon DEF Conversation, Link!Calling
<1>12. \A id : toServer' # <<[kind |-> "command", id |-> id]>>
  BY <1>1, Zenon
<1>13. Once'
  BY <1>1, <1>4, <1>5, <1>12, Zenon DEF LinkInv, Once, Link!CommandRunsOnce
<1>14. QED
  BY <1>1, <1>3, <1>7, <1>9, <1>11, <1>13, Zenon DEF LinkInv, Link!AnswerMatchesCommand

\* The bridge takes the answer to its handshake (supervisor_bridge.rs).
LEMMA HelloKeeps ==
    ASSUME LinkInv, Link!Hello
    PROVE  LinkInv'
<1>1. /\ Link!Calling("hello") /\ toClient # <<>> /\ toClient' = Tail(toClient)
      /\ UNCHANGED <<server, toServer, executed, linkCount>>
  BY Zenon DEF Link!Hello
<1>2. bridge.handle = "live" /\ server # Link!Off /\ bridge.call \in Calls /\ bridge.call # Link!NoCall
  BY <1>1, AnswerMeansLive, Shapes, Zenon DEF LinkInv, Session, Link!Calling
<1>3. Greeting
  BY <1>1, <1>2, Zenon DEF LinkInv, Conversation
<1>4. CASE Head(toClient).kind = "accepted"
  <2>1. bridge' = [bridge EXCEPT !.call.at = "send"]
    BY <1>4, Zenon DEF Link!Hello
  <2>2. /\ bridge'.handle = "live" /\ bridge'.call = [bridge.call EXCEPT !.at = "send"]
        /\ bridge'.outcome = bridge.outcome
    BY <1>2, <2>1, Zenon DEF LinkInv, LinkType
  <2>3. /\ bridge'.call \in Calls /\ bridge'.call.kind = bridge.call.kind
        /\ bridge'.call.id = bridge.call.id /\ bridge'.call.at = "send"
        /\ bridge'.call.tries = bridge.call.tries
    BY <1>2, <2>2, Zenon DEF Calls
  <2>4. /\ toServer = <<>> /\ toClient' = <<>> /\ server.at = "read" /\ server.auth
    <3>1. toClient # <<[kind |-> "error"]>>
      BY <1>4, OneMessage
    <3>2. toServer = <<>> /\ toClient = <<[kind |-> "accepted"]>> /\ server.at = "read" /\ server.auth
      BY <1>1, <1>3, <3>1, Zenon DEF Greeting
    <3>3. QED
      BY <1>1, <3>2, OneMessage, Zenon
  <2>5. LinkType'
    <3>1. bridge' \in [handle : {"none", "live", "dead"}, attempted : BOOLEAN,
                       call : {Link!NoCall} \cup Calls, outcome : Outcomes]
      BY <2>1, <2>2, <2>3, Zenon DEF LinkInv, LinkType
    <3>2. QED
      BY <1>1, <3>1, Zenon DEF LinkInv, LinkType
  <2>6. bridge'.call # Link!NoCall
    BY <2>3 DEF Calls, Link!NoCall
  <2>7. Session'
    BY <1>1, <1>2, <2>2, <2>3, <2>4, Zenon DEF LinkInv, Session
  <2>8. Quiet'
    BY <1>1, <2>4, Zenon DEF Quiet
  <2>9. Conversation'
    BY <2>3, <2>6, <2>8, Zenon DEF Conversation, Link!Calling
  <2>10. Once'
    <3>1. bridge.call.at = "hello"
      BY <1>1, Zenon DEF Link!Calling
    <3>2. QED
      BY <1>1, <1>2, <2>3, <2>6, <3>1, Zenon DEF LinkInv, Once, Link!CommandRunsOnce
  <2>11. QED
    BY <1>1, <2>2, <2>5, <2>7, <2>9, <2>10, Zenon DEF LinkInv, Link!AnswerMatchesCommand
<1>5. CASE Head(toClient).kind # "accepted"
  <2>1. bridge' = Link!Returned("none", "authentication")
    BY <1>5, Zenon DEF Link!Hello, Link!Failed
  <2>2. QED
    BY <1>1, <1>2, <2>1, FailedKeeps, Zenon
<1>6. QED
  BY <1>4, <1>5, Zenon

\* The bridge sends its request, a command for the first time (supervisor_bridge.rs).
LEMMA SendKeeps ==
    ASSUME LinkInv, Link!Send
    PROVE  LinkInv'
<1>1. /\ Link!Calling("send") /\ bridge.handle = "live"
      /\ toServer' = Append(toServer, Message(bridge.call))
      /\ bridge' = [bridge EXCEPT !.call.at = "await"]
      /\ UNCHANGED <<server, toClient, executed, linkCount>>
  BY Zenon DEF Link!Send, Message
<1>2. server # Link!Off /\ bridge.call \in Calls /\ Quiet /\ bridge.call.at = "send"
  BY <1>1, Shapes, Zenon DEF LinkInv, Session, Conversation, Link!Calling
<1>3. toServer' = <<Message(bridge.call)>> /\ Message(bridge.call) \in Requests
  BY <1>1, <1>2, OneMessage, Zenon DEF Quiet, Message, Requests, Calls
<1>4. /\ bridge'.handle = "live" /\ bridge'.call = [bridge.call EXCEPT !.at = "await"]
      /\ bridge'.outcome = bridge.outcome
  BY <1>1, Zenon DEF LinkInv, LinkType
<1>5. /\ bridge'.call \in Calls /\ bridge'.call.kind = bridge.call.kind
      /\ bridge'.call.id = bridge.call.id /\ bridge'.call.at = "await"
      /\ bridge'.call.tries = bridge.call.tries
  BY <1>2, <1>4, Zenon DEF Calls
<1>6. bridge'.call # Link!NoCall /\ Message(bridge'.call) = Message(bridge.call)
  BY <1>5 DEF Calls, Link!NoCall, Message
<1>7. LinkType'
  <2>1. bridge' \in [handle : {"none", "live", "dead"}, attempted : BOOLEAN,
                     call : {Link!NoCall} \cup Calls, outcome : Outcomes]
    BY <1>1, <1>4, <1>5, Zenon DEF LinkInv, LinkType
  <2>2. QED
    BY <1>1, <1>3, <2>1, Zenon DEF LinkInv, LinkType
<1>8. Session'
  BY <1>1, <1>2, <1>4, <1>5, Zenon DEF LinkInv, Session, Quiet
<1>9. Exchange'
  BY <1>1, <1>2, <1>3, <1>6, Zenon DEF Exchange, Quiet
<1>10. Conversation'
  BY <1>5, <1>6, <1>9, Zenon DEF Conversation, Link!Calling
<1>11. Once'
  <2>1. \A id \in Nat : toServer' = <<[kind |-> "command", id |-> id]>>
                           => Fresh(id, executed, linkCount)
    <3> SUFFICES ASSUME NEW id \in Nat, toServer' = <<[kind |-> "command", id |-> id]>>
                 PROVE  Fresh(id, executed, linkCount)
      BY Zenon
    <3>1. Message(bridge.call) = [kind |-> "command", id |-> id]
      BY <1>3
    <3>2. bridge.call.kind = "command" /\ bridge.call.id = id
      BY <3>1, Zenon DEF Message
    <3>3. bridge.call # Link!NoCall
      BY <3>2 DEF Link!NoCall
    <3>4. QED
      BY <1>2, <3>2, <3>3, Zenon DEF LinkInv, Once, Fresh
  <2>2. bridge.call # Link!NoCall
    BY <1>1, Zenon DEF Link!Calling
  <2>3. server.at # "dispatch"
    BY <1>2, Zenon DEF Quiet
  <2>4. QED
    BY <1>1, <1>5, <2>1, <2>2, <2>3, Zenon DEF LinkInv, Once, Link!CommandRunsOnce
<1>12. QED
  BY <1>1, <1>4, <1>7, <1>8, <1>10, <1>11, Zenon DEF LinkInv, Link!AnswerMatchesCommand

\* The call ends and its session stays, with nothing under way.
LEMMA Concludes ==
    ASSUME LinkInv, bridge.handle = "live", Quiet',
           bridge' \in [handle : {"none", "live", "dead"}, attempted : BOOLEAN,
                        call : {Link!NoCall} \cup Calls, outcome : Outcomes],
           bridge'.handle = "live", bridge'.call = Link!NoCall,
           UNCHANGED <<server, toServer, executed, linkCount>>,
           Link!AnswerMatchesCommand'
    PROVE  LinkInv'
<1>1. server # Link!Off /\ bridge'.call.kind = "none"
  BY DEF LinkInv, Session, Link!NoCall
<1>2. LinkType'
  BY Zenon DEF LinkInv, LinkType
<1>3. Session'
  BY <1>1, Zenon DEF LinkInv, Session
<1>4. Conversation'
  BY Zenon DEF Conversation, Link!Calling
<1>5. Once'
  BY <1>1, Zenon DEF LinkInv, Once, Link!CommandRunsOnce
<1>6. QED
  BY <1>2, <1>3, <1>4, <1>5, Zenon DEF LinkInv

\* The bridge takes the response, which is to its own request (supervisor_bridge.rs).
LEMMA AwaitKeeps ==
    ASSUME LinkInv, Link!Await
    PROVE  LinkInv'
<1> DEFINE got == Head(toClient)
           kind == bridge.call.kind
<1>1. /\ Link!Calling("await") /\ toClient # <<>> /\ toClient' = Tail(toClient)
      /\ UNCHANGED <<server, toServer, executed, linkCount>>
      /\ bridge' =
            CASE kind = "command" /\ got.kind = "result" -> Link!ReturnedResult(got.id)
              [] kind = "command" /\ got.kind # "result" -> Link!Returned(bridge.handle, "protocol")
              [] kind # "command" /\ got.kind = "pong" -> Link!Returned(bridge.handle, "pong")
              [] OTHER -> Link!Failed("protocol")
  BY Zenon DEF Link!Await
<1>2. bridge.handle = "live" /\ bridge.call \in Calls /\ bridge.call # Link!NoCall
  BY <1>1, AnswerMeansLive, Shapes, Zenon DEF LinkInv, Link!Calling
<1>3. Exchange
  BY <1>1, <1>2, Zenon DEF LinkInv, Conversation
<1>4. CASE kind # "command"
  <2>1. toClient = <<[kind |-> "pong"]>> /\ toServer = <<>> /\ server.at = "read" /\ server.auth
    BY <1>1, <1>3, <1>4, Zenon DEF Exchange
  <2>2. got.kind = "pong" /\ toClient' = <<>>
    BY <1>1, <2>1, OneMessage
  <2>3. bridge' = Link!Returned("live", "pong")
    BY <1>1, <1>2, <1>4, <2>2, Zenon
  <2>4. Quiet'
    BY <1>1, <2>1, <2>2, Zenon DEF Quiet
  <2>5. /\ bridge' \in [handle : {"none", "live", "dead"}, attempted : BOOLEAN,
                        call : {Link!NoCall} \cup Calls, outcome : Outcomes]
        /\ bridge'.handle = "live" /\ bridge'.call = Link!NoCall /\ bridge'.outcome.got = "pong"
    BY <1>2, <2>3, ReturnedShape, Zenon
  <2>6. Link!AnswerMatchesCommand'
    BY <2>5, Zenon DEF Link!AnswerMatchesCommand
  <2>7. QED
    BY <1>1, <1>2, <2>4, <2>5, <2>6, Concludes, Zenon
<1>5. CASE kind = "command"
  <2>1. /\ toClient = <<[kind |-> "result", id |-> bridge.call.id]>> /\ toServer = <<>>
        /\ server.at = "read" /\ server.auth /\ Done(bridge.call.id, executed)
    BY <1>1, <1>3, <1>5, Zenon DEF Exchange
  <2>2. got.kind = "result" /\ got.id = bridge.call.id /\ toClient' = <<>>
    BY <1>1, <2>1, OneMessage
  <2>3. bridge' = Link!ReturnedResult(bridge.call.id)
    BY <1>1, <1>5, <2>2, Zenon
  <2>4. Quiet'
    BY <1>1, <2>1, <2>2, Zenon DEF Quiet
  <2> DEFINE b == Link!Returned("live", "result")
  <2>5. /\ b \in [handle : {"none", "live", "dead"}, attempted : BOOLEAN,
                  call : {Link!NoCall} \cup Calls, outcome : Outcomes]
        /\ b.handle = "live" /\ b.call = Link!NoCall /\ b.outcome.got = "result"
        /\ b.outcome.asked = bridge.call.id
    BY <1>2, ReturnedShape, Zenon
  <2>6. bridge' = [b EXCEPT !.outcome.result = bridge.call.id]
    BY <1>2, <2>3, Zenon DEF Link!ReturnedResult
  <2> HIDE DEF b
  <2>7. bridge.call.id \in Nat
    BY <1>2, Zenon DEF Calls
  <2>8. bridge'.outcome = [b.outcome EXCEPT !.result = bridge.call.id] /\ b.outcome \in Outcomes
    BY <2>5, <2>6, Zenon
  <2>9. /\ bridge'.outcome \in Outcomes /\ bridge'.outcome.got = "result"
        /\ bridge'.outcome.asked = bridge.call.id /\ bridge'.outcome.result = bridge.call.id
    BY <2>5, <2>7, <2>8, Zenon DEF Outcomes
  <2>10. /\ bridge' \in [handle : {"none", "live", "dead"}, attempted : BOOLEAN,
                         call : {Link!NoCall} \cup Calls, outcome : Outcomes]
         /\ bridge'.handle = "live" /\ bridge'.call = Link!NoCall
    BY <2>5, <2>6, <2>8, <2>9, Zenon
  <2>11. Link!AnswerMatchesCommand'
    BY <1>1, <2>1, <2>9, Zenon DEF Link!AnswerMatchesCommand, Done
  <2>12. QED
    BY <1>1, <1>2, <2>4, <2>10, <2>11, Concludes, Zenon
<1>6. QED
  BY <1>4, <1>5, Zenon

\* The steps of the bridge together.
LEMMA BridgeKeeps ==
    ASSUME LinkInv, Link!Bridge
    PROVE  LinkInv'
<1>1. CASE Link!OpenFails \/ Link!Disconnected
  BY <1>1, UnavailableKeeps, Zenon DEF Link!OpenFails, Link!Disconnected, Link!Calling
<1>2. CASE Link!DeadlinePasses
  BY <1>2, FailedKeeps, Zenon DEF Link!DeadlinePasses, Link!UnderDeadline, Link!HandleDropped,
     Link!Calling
<1>3. QED
  BY <1>1, <1>2, OpenKeeps, HelloKeeps, SendKeeps, AwaitKeeps, Zenon DEF Link!Bridge

-----------------------------------------------------------------------------
\* Nothing has been sent at the start.
LEMMA LinkInit == Link!Init => LinkInv
<1> SUFFICES ASSUME Link!Init PROVE LinkInv
  BY Zenon
<1>1. /\ server = Link!Off /\ toServer = <<>> /\ toClient = <<>> /\ executed = <<>> /\ linkCount = 0
      /\ bridge = [handle |-> "none", attempted |-> FALSE, call |-> Link!NoCall,
                   outcome |-> [asked |-> Link!None, got |-> "none", result |-> Link!None]]
  BY Zenon DEF Link!Init
<1>2. executed \in Seq(Nat) /\ DOMAIN executed = {}
  BY <1>1
<1>3. LinkType
  BY <1>1, <1>2, Zenon DEF LinkType, Outcomes, Link!None
<1>4. Session /\ Conversation
  BY <1>1, Zenon DEF Session, Conversation, Link!Calling, Link!NoCall, Link!Off
<1>5. Once
  <2>1. \A x : toServer # <<x>>
    BY <1>1, Zenon
  <2>2. QED
    BY <1>1, <1>2, <2>1, Zenon DEF Once, Link!CommandRunsOnce, Link!NoCall, Link!Off
<1>6. Link!AnswerMatchesCommand
  BY <1>1, Zenon DEF Link!AnswerMatchesCommand
<1>7. QED
  BY <1>3, <1>4, <1>5, <1>6, Zenon DEF LinkInv

\* Every step of the link keeps the shape of the conversation.
LEMMA LinkStep == LinkInv /\ [Link!Next]_(Link!vars) => LinkInv'
<1> SUFFICES ASSUME LinkInv, [Link!Next]_(Link!vars) PROVE LinkInv'
  BY Zenon
<1>1. CASE UNCHANGED Link!vars
  BY <1>1, Aside, Zenon DEF Link!vars
<1>2. CASE Link!Worker
  BY <1>2, TakeHandshakeKeeps, TakeMessageKeeps, ReplyKeeps, WorkerEndsKeeps, Zenon DEF
     Link!Worker
<1>3. QED
  BY <1>1, <1>2, ProcessesKeep, IdleTimeoutKeeps, DispatchKeeps, WorkerEndsKeeps, CallKeeps,
     BridgeKeeps, Zenon DEF Link!Next

\* The invariant from which the theorems on answers and commands follow.
LEMMA LinkInvHolds == Link!Spec => []LinkInv
  BY LinkInit, LinkStep, PTL DEF Link!Spec

\* Every result the desktop returns for a command is the result of that command and of a
\* dispatch that took place (supervisor_bridge.rs gives the session of a call that failed
\* or timed out up, ipc.rs serves one connection at a time).
THEOREM CommandGetsItsAnswer == Link!Spec => []AnswerMatchesCommand
<1>1. LinkInv => AnswerMatchesCommand
  BY Zenon DEF AnswerMatchesCommand, LinkInv
<1>2. QED
  BY <1>1, LinkInvHolds, PTL

\* The service carries a command out at most once, whatever sessions, calls and
\* processes end at whatever point: the bridge never sends a command again.
THEOREM CommandIsNotRepeated == Link!Spec => []CommandRunsOnce
<1>1. LinkInv => CommandRunsOnce
  BY Zenon DEF CommandRunsOnce, LinkInv, Once
<1>2. QED
  BY <1>1, LinkInvHolds, PTL

-----------------------------------------------------------------------------
(***************************************************************************)
(* The instance mutex.  A process has it from the moment it creates it to  *)
(* its end, so that one process at a time writes and removes the ready     *)
(* file.                                                                   *)
(***************************************************************************)
Holding == {"held", "listening", "serving", "closing", "closed", "cleaned"}

ServerInv ==
    /\ proc \in [Pids -> {"none", "starting", "exited"} \cup Holding]
    /\ \A p \in Pids : proc[p] \in Holding => mutex = p
    /\ Link!ReadyNamesServer

\* A process that does not serve, or that publishes, and has the mutex unless it is none
\* of those that hold it, disturbs no other.
LEMMA ProcessMoves ==
    ASSUME ServerInv, NEW p \in Pids, NEW stage \in {"none", "starting", "exited"} \cup Holding,
           proc' = [proc EXCEPT ![p] = stage],
           proc[p] \in Holding \/ (stage \in Holding => mutex = Link!None /\ Link!None \notin Pids),
           IF stage \in Holding THEN mutex' = p ELSE mutex' = mutex \/ (mutex = p /\ mutex' = Link!None),
           ready' = ready \/ (proc[p] \in Holding /\ ready' \in {p, Link!None}),
           stage = "serving" => ready' = p
    PROVE  ServerInv'
<1>1. ASSUME NEW q \in Pids, q # p PROVE proc'[q] = proc[q]
  BY <1>1, Zenon DEF ServerInv
<1>2. proc'[p] = stage
  BY Zenon DEF ServerInv
<1>3. proc' \in [Pids -> {"none", "starting", "exited"} \cup Holding]
  BY Zenon DEF ServerInv
<1>4. ASSUME NEW q \in Pids, proc'[q] \in Holding PROVE mutex' = q
  BY <1>1, <1>2, <1>4 DEF ServerInv
<1>5. ASSUME NEW q \in Pids, proc'[q] = "serving" PROVE ready' = q
  <2>1. q # p => mutex = q /\ ready = q
    BY <1>1, <1>5, Zenon DEF ServerInv, Link!ReadyNamesServer, Holding
  <2>2. q # p => ready' = ready
    BY <2>1, Zenon DEF ServerInv
  <2>3. QED
    BY <1>2, <1>5, <2>1, <2>2, Zenon
<1>6. QED
  BY <1>3, <1>4, <1>5, Zenon DEF ServerInv, Link!ReadyNamesServer

\* At the start no process has created the mutex.
LEMMA ServerInit == Link!Init => ServerInv
  BY Zenon DEF Link!Init, ServerInv, Link!ReadyNamesServer, Holding

\* Every step of a process keeps the mutex with the one that created it (single_instance.rs).
LEMMA ServerStep ==
    ASSUME Link!None \notin Pids, ServerInv, [Link!Next]_<<proc, mutex, ready>>
    PROVE  ServerInv'
<1>1. CASE UNCHANGED <<proc, mutex, ready>>
  BY <1>1, Zenon DEF ServerInv, Link!ReadyNamesServer
<1>2. CASE \E p \in Pids : Link!Process(p) \/ Link!Stop(p) \/ Link!Crash(p)
  <2>1. PICK p \in Pids : Link!Process(p) \/ Link!Stop(p) \/ Link!Crash(p)
    BY <1>2, Zenon
  <2>2. proc[p] \in Holding => mutex = p
    BY Zenon DEF ServerInv
  <2>3. CASE Link!Acquire(p)
    BY <2>3, ProcessMoves, Zenon DEF Link!Acquire, Holding
  <2>4. CASE Link!Listen(p)
    BY <2>2, <2>4, ProcessMoves, Zenon DEF Link!Listen, Holding
  <2>5. CASE Link!Publish(p)
    BY <2>2, <2>5, ProcessMoves, Zenon DEF Link!Publish, Holding
  <2>6. CASE Link!Stop(p)
    BY <2>2, <2>6, ProcessMoves, Zenon DEF Link!Stop, Holding
  <2>7. CASE Link!Joined(p)
    BY <2>2, <2>7, ProcessMoves, Zenon DEF Link!Joined, Link!MutexKept, Holding
  <2>8. CASE Link!Cleanup(p)
    BY <2>2, <2>8, ProcessMoves, Zenon DEF Link!Cleanup, Holding
  <2>9. CASE Link!Release(p) \/ Link!Crash(p)
    BY <2>2, <2>9, ProcessMoves, Zenon DEF Link!Release, Link!Crash, Holding
  <2>10. QED
    BY <2>1, <2>3, <2>4, <2>5, <2>6, <2>7, <2>8, <2>9, Zenon DEF Link!Process
<1>3. CASE \E p \in Pids : proc[p] = "none" /\ proc' = [proc EXCEPT ![p] = "starting"]
                           /\ UNCHANGED <<mutex, ready>>
  BY <1>3, ProcessMoves, Zenon DEF Holding
<1>4. QED
  BY <1>1, <1>2, <1>3, Zenon DEF Link!Next, Link!IdleTimeout, Link!Worker, Link!TakeHandshake,
     Link!TakeMessage, Link!Reply, Link!WorkerEnds, Link!Dispatch, Link!NonceExpires,
     Link!Call, Link!Bridge, Link!Open, Link!OpenFails, Link!Hello, Link!Send, Link!Await,
     Link!Disconnected, Link!DeadlinePasses, Link!Unavailable, Link!Launch

\* While a supervisor serves, the ready file names it: no two serve at once, and none
\* removes the file of its successor, in whatever order processes start, stop and crash
\* (the supervisor's lib.rs drops the instance mutex last).
THEOREM ReadyFileNamesServer == Link!Spec => []ReadyNamesServer
<1>1. ServerInv /\ [Link!Next]_(Link!vars) => ServerInv'
  BY DutiesAssumption, ServerStep, Zenon DEF Link!vars, Link!None
<1>2. ServerInv => ReadyNamesServer
  BY Zenon DEF ReadyNamesServer, ServerInv
<1>3. QED
  BY <1>1, <1>2, ServerInit, PTL DEF Link!Spec

-----------------------------------------------------------------------------
(***************************************************************************)
(* The Claude run.  It implements the contract of AgentRun: the phases say *)
(* when it is in the map of runs, and it reports only from the loop.       *)
(***************************************************************************)
ClaudeInv ==
    /\ cphase \in {"start", "refused", "loop", "closing", "over"}
    /\ cregistered \in BOOLEAN
    /\ cphase \in {"loop", "closing"} => cregistered = TRUE
    /\ cphase \in {"start", "refused"} => cregistered = FALSE
    /\ cstdout \in Seq(Claude!Lines)

\* A run that has not started is not in the map.
LEMMA ClaudeInit == Claude!Init => ClaudeInv
<1>1. <<>> \in Seq(Claude!Lines)
  OBVIOUS
<1>2. QED
  BY <1>1, Zenon DEF Claude!Init, ClaudeInv

\* Every step of the task keeps phase and map in agreement (adapter-claude).
LEMMA ClaudeStep ==
    ASSUME ClaudeInv, [Claude!Next]_(Claude!vars)
    PROVE  ClaudeInv'
<1>1. CASE Claude!Refuse \/ Claude!Start
  BY <1>1, Zenon DEF Claude!Refuse, Claude!Start, Claude!Registered, ClaudeInv
<1>2. CASE Claude!TakeLine
  BY <1>2 DEF Claude!TakeLine, ClaudeInv
<1>3. CASE Claude!EndOfOutput \/ Claude!TakeControl
  BY <1>3, Zenon DEF Claude!EndOfOutput, Claude!TakeControl, ClaudeInv
<1>4. CASE Claude!Close \/ Claude!Remove
  <2>1. <<>> \in Seq(Claude!Lines)
    OBVIOUS
  <2>2. QED
    BY <1>4, <2>1, Zenon DEF Claude!Close, Claude!Remove, Claude!Deregistered, ClaudeInv
<1>5. CASE \E line \in Claude!Lines : Claude!AgentWrites(line)
  BY <1>5 DEF Claude!AgentWrites, ClaudeInv
<1>6. CASE \/ Claude!AgentExits
           \/ \E message \in {"pause", "terminate"} : Claude!SendControl(message)
           \/ UNCHANGED Claude!vars
  BY <1>6, Zenon DEF Claude!AgentExits, Claude!SendControl, Claude!vars, ClaudeInv
<1>7. QED
  BY <1>1, <1>2, <1>3, <1>4, <1>5, <1>6, Zenon DEF Claude!Next, Claude!Task

\* Every step of the adapter is a step of the contract or none of its business: a line or
\* a pause it reports is a Send, the removal from the map is the End.
LEMMA ClaudeStepsContract ==
    ASSUME ClaudeInv, [Claude!Next]_(Claude!vars)
    PROVE  [Claude!Contract!Next]_(Claude!Contract!vars)
<1> DEFINE on == cregistered \/ cphase \in {"start", "refused"}
<1>1. CASE Claude!TakeLine
  <2>1. /\ cphase = "loop" /\ cstdout # <<>> /\ cregistered' = cregistered
        /\ coutbox' = Append(coutbox, Claude!Normalized(Head(cstdout)))
    BY <1>1, Zenon DEF Claude!TakeLine
  <2>2. Head(cstdout) \in Claude!Lines /\ cregistered
    BY <2>1 DEF ClaudeInv
  <2>3. Claude!Normalized(Head(cstdout)) \in {"started", "risky", "event"}
    BY <2>2, Zenon DEF Claude!Normalized, Claude!Lines
  <2>4. QED
    BY <2>1, <2>2, <2>3, Zenon DEF Claude!Contract!Next, Claude!Contract!Send,
       Claude!Contract!Plain
<1>2. CASE Claude!EndOfOutput \/ Claude!TakeControl
  <2>1. /\ cphase = "loop" /\ cregistered' = cregistered
        /\ coutbox' = coutbox \/ \E e \in {"risky", "paused"} : coutbox' = Append(coutbox, e)
        /\ cphase' \in {"loop", "closing"}
    BY <1>2, Zenon DEF Claude!EndOfOutput, Claude!TakeControl
  <2>2. cregistered
    BY <2>1, Zenon DEF ClaudeInv
  <2>3. QED
    BY <2>1, <2>2, Zenon DEF Claude!Contract!Next, Claude!Contract!Send, Claude!Contract!Plain,
       Claude!Contract!vars
<1>3. CASE Claude!Remove
  BY <1>3, Zenon DEF Claude!Remove, Claude!Deregistered, Claude!Contract!Next,
     Claude!Contract!End, ClaudeInv
<1>4. CASE Claude!Refuse \/ Claude!Start \/ Claude!Close
  BY <1>4, Zenon DEF Claude!Refuse, Claude!Start, Claude!Close, Claude!Registered,
     Claude!Contract!vars, ClaudeInv
<1>5. CASE \/ Claude!AgentExits
           \/ \E line \in Claude!Lines : Claude!AgentWrites(line)
           \/ \E message \in {"pause", "terminate"} : Claude!SendControl(message)
           \/ UNCHANGED Claude!vars
  BY <1>5 DEF Claude!AgentExits, Claude!AgentWrites, Claude!SendControl, Claude!vars,
     Claude!Contract!vars
<1>6. QED
  BY <1>1, <1>2, <1>3, <1>4, <1>5, Zenon DEF Claude!Next, Claude!Task

\* A run of the Claude adapter is a run as the service expects it, for any number of
\* lines and control messages: it sends its events while it is in the map, leaves the map
\* once and sends nothing afterwards (adapter-claude process.rs, adapter.rs).
THEOREM ClaudeRunKeepsContract == Claude!Spec => ClaudeKeepsContract
<1>1. Claude!Init => Claude!Contract!Init
  BY DEF Claude!Init, Claude!Contract!Init
<1>2. ClaudeInv /\ [Claude!Next]_(Claude!vars) => [Claude!Contract!Next]_(Claude!Contract!vars)
  BY ClaudeStepsContract, Zenon
<1>3. ClaudeInv /\ [Claude!Next]_(Claude!vars) => ClaudeInv'
  BY ClaudeStep
<1>4. QED
  BY <1>1, <1>2, <1>3, ClaudeInit, PTL
     DEF Claude!Spec, ClaudeKeepsContract, Claude!ClaudeKeepsContract, Claude!Contract!Spec
=============================================================================
