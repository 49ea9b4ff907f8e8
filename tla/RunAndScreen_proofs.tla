-------------------------- MODULE RunAndScreen_proofs -----------------------
(***************************************************************************)
(* Proofs for the run of the Codex adapter, and for the page that shows    *)
(* what runs did.                                                          *)
(*                                                                         *)
(* The Codex adapter implements the contract of an agent run, AgentRun,    *)
(* for any requests, any queue limit and any number of inputs.             *)
(*                                                                         *)
(* The contract forbids two answers to a request and an answer to one that *)
(* was not passed on.  The task answers what is pending, so a request must *)
(* not become pending a second time: each is written once by the agent and *)
(* must not be duplicated between the pipe, the queue and the outbox.      *)
(***************************************************************************)
EXTENDS CodexRun, Screen, SequenceTheorems, TLAPS

Phases == {"spawn", "initialize", "thread", "announce", "missing", "turn", "loop",
           "interrupt", "closing", "closed", "over"}

\* The task still reads lines.
Reading == phase \notin {"closing", "closed", "over"}

AnyLine == Lines \cup {"ok", "err", "late", "torn"}

AnyEvent == {"started", "event", "paused", "risky"} \cup Requests

Sent(q, events) == \E i \in 1 .. Len(events) : events[i] = q

ContractType ==
    /\ phase \in Phases
    /\ registered = (phase # "over")
    /\ stdout \in Seq(AnyLine)
    /\ queued \in Seq(AnyLine)
    /\ outbox \in Seq(AnyEvent)
    /\ answers \in [Requests -> {"none", "accept", "decline"}]
    /\ pending \subseteq Requests

\* What is pending was passed on and not answered; what was answered was passed on.
AnswersInOrder ==
    /\ \A q \in pending : Sent(q, outbox) /\ answers[q] = "none"
    /\ \A q \in Requests : answers[q] # "none" => Sent(q, outbox)

\* A request waits at one place, and one that waits was not passed on.
WaitsOnce ==
    /\ \A i, j \in 1 .. Len(stdout) : stdout[i] = stdout[j] /\ stdout[i] \in Requests => i = j
    /\ \A i, j \in 1 .. Len(queued) : queued[i] = queued[j] /\ queued[i] \in Requests => i = j
    /\ \A i \in 1 .. Len(queued), j \in 1 .. Len(stdout) :
          queued[i] \in Requests => queued[i] # stdout[j]
    /\ \A i \in 1 .. Len(stdout) : stdout[i] \in Requests => ~Sent(stdout[i], outbox)
    /\ \A i \in 1 .. Len(queued) : queued[i] \in Requests => ~Sent(queued[i], outbox)

\* A response is in the pipe only while one is awaited, and there is at most one.
Response(line) == line \in {"ok", "err"}

ResponseAwaited ==
    /\ awaiting => Waiting
    /\ \A i \in 1 .. Len(queued) : ~Response(queued[i])
    /\ \A i \in 1 .. Len(stdout) : Response(stdout[i]) => Waiting /\ ~awaiting
    /\ \A i, j \in 1 .. Len(stdout) : Response(stdout[i]) /\ Response(stdout[j]) => i = j

ContractInv ==
    /\ ContractType
    /\ AnswersInOrder
    /\ Reading => WaitsOnce /\ ResponseAwaited
-----------------------------------------------------------------------------
(***************************************************************************)
(* Facts about sequences and the helpers of the adapter.                   *)
(***************************************************************************)
LEMMA TailFacts ==
    ASSUME NEW S, NEW s \in Seq(S), s # <<>>
    PROVE  /\ Tail(s) \in Seq(S)
           /\ Len(Tail(s)) = Len(s) - 1
           /\ \A i \in 1 .. Len(Tail(s)) : i + 1 \in 1 .. Len(s) /\ Tail(s)[i] = s[i + 1]
           /\ 1 \in 1 .. Len(s)
           /\ Head(s) = s[1]
           /\ Head(s) \in S
  OBVIOUS

\* The elements of a sequence with one more.
LEMMA AppendFacts ==
    ASSUME NEW S, NEW s \in Seq(S), NEW x \in S
    PROVE  /\ Append(s, x) \in Seq(S)
           /\ Len(Append(s, x)) = Len(s) + 1
           /\ \A i \in 1 .. Len(s) : Append(s, x)[i] = s[i]
           /\ Append(s, x)[Len(s) + 1] = x
           /\ \A i \in 1 .. Len(s) + 1 : i \in 1 .. Len(s) \/ i = Len(s) + 1
  OBVIOUS

\* Late keeps the requests where they are and leaves no response.
LEMMA LateFacts ==
    ASSUME NEW s \in Seq(AnyLine)
    PROVE  /\ Late(s) \in Seq(AnyLine)
           /\ Len(Late(s)) = Len(s)
           /\ \A i \in 1 .. Len(s) :
               /\ Late(s)[i] \in Requests => Late(s)[i] = s[i]
               /\ ~Response(Late(s)[i])
<1>1. \A i \in 1 .. Len(s) : s[i] \in AnyLine
  OBVIOUS
<1>2. \A i \in 1 .. Len(s) :
        (IF s[i] \in {"ok", "err"} THEN "late" ELSE s[i]) \in AnyLine
  BY <1>1, Zenon DEF AnyLine
<1>3. Late(s) \in [1 .. Len(s) -> AnyLine]
  BY <1>2, Zenon DEF Late
<1>4. Late(s) \in Seq(AnyLine) /\ Len(Late(s)) = Len(s)
  BY <1>3
<1>5. \A i \in 1 .. Len(s) :
       /\ Late(s)[i] \in Requests => Late(s)[i] = s[i]
       /\ ~Response(Late(s)[i])
  BY RequestsAreDistinct, Zenon DEF Late, Response
<1>6. QED
  BY <1>4, <1>5, Zenon

\* What has been passed on after one more event.
LEMMA SentFacts ==
    ASSUME NEW events \in Seq(AnyEvent), NEW e \in AnyEvent
    PROVE  \A q : Sent(q, Append(events, e)) <=> Sent(q, events) \/ q = e
<1> DEFINE longer == Append(events, e)
<1>1. /\ Len(longer) = Len(events) + 1
      /\ Len(events) \in Nat
      /\ \A i \in 1 .. Len(events) : i \in 1 .. Len(longer) /\ longer[i] = events[i]
      /\ Len(events) + 1 \in 1 .. Len(longer)
      /\ longer[Len(events) + 1] = e
      /\ \A i \in 1 .. Len(longer) : i \in 1 .. Len(events) \/ i = Len(events) + 1
  BY AppendFacts
<1> HIDE DEF longer
<1>2. ASSUME NEW q PROVE Sent(q, longer) <=> Sent(q, events) \/ q = e
  <2>1. Sent(q, longer) => Sent(q, events) \/ q = e
    BY <1>1, Zenon DEF Sent
  <2>2. Sent(q, events) => Sent(q, longer)
    BY <1>1, Zenon DEF Sent
  <2>3. q = e => Sent(q, longer)
    BY <1>1, Zenon DEF Sent
  <2>4. QED
    BY <2>1, <2>2, <2>3, Zenon
<1>3. QED
  BY <1>2, Zenon DEF longer

\* The pipe has no new request: it is as before, without its head, or torn.
Shortened ==
    /\ stdout' \in Seq(AnyLine)
    /\ \E d \in {0, 1} : \A i \in 1 .. Len(stdout') :
          stdout'[i] \in Requests => i + d \in 1 .. Len(stdout) /\ stdout'[i] = stdout[i + d]

\* A request that fails leaves no response in the pipe.
LEMMA RequestFailsFacts ==
    ASSUME ContractType, RequestFails
    PROVE  Shortened /\ \A i \in 1 .. Len(stdout') : ~Response(stdout'[i])
<1> USE DEF ContractType, Shortened
<1>1. CASE stdout # <<>> /\ stdout' = Late(Tail(stdout))
  <2> DEFINE rest == Tail(stdout)
  <2>1. /\ rest \in Seq(AnyLine)
        /\ Len(rest) = Len(stdout) - 1
        /\ \A i \in 1 .. Len(rest) : rest[i] = stdout[i + 1]
    BY <1>1, TailFacts, Zenon
  <2>2. /\ Late(rest) \in Seq(AnyLine)
        /\ Len(Late(rest)) = Len(rest)
        /\ \A i \in 1 .. Len(rest) :
            /\ Late(rest)[i] \in Requests => Late(rest)[i] = rest[i]
            /\ ~Response(Late(rest)[i])
    BY <2>1, LateFacts, Zenon
  <2>3. stdout' = Late(rest)
    BY <1>1, Zenon
  <2> HIDE DEF rest
  <2>4. QED
    BY <2>1, <2>2, <2>3
<1>2. CASE stdout' = Late(stdout)
  BY <1>2, LateFacts
<1>3. CASE stdout' = <<"torn">>
  BY <1>3, RequestsAreDistinct DEF AnyLine, Response
<1>4. QED
  BY <1>1, <1>2, <1>3, Zenon DEF RequestFails

\* A response that is taken was the only one.
LEMMA AcceptedFacts ==
    ASSUME ContractType, ResponseAwaited, Accepted
    PROVE  Shortened /\ \A i \in 1 .. Len(stdout') : ~Response(stdout'[i])
  BY TailFacts DEF ContractType, Accepted, ResponseAwaited, Response, Shortened

\* A pipe without a new request keeps the requests at one place.
LEMMA ShortenedWaitsOnce ==
    ASSUME ContractType, WaitsOnce, Shortened, queued' = queued,
           \A q \in Requests : Sent(q, outbox') => Sent(q, outbox)
    PROVE  WaitsOnce'
<1>1. PICK d \in {0, 1} : \A i \in 1 .. Len(stdout') :
        stdout'[i] \in Requests => i + d \in 1 .. Len(stdout) /\ stdout'[i] = stdout[i + d]
  BY Zenon DEF Shortened
<1>2. ASSUME NEW i \in 1 .. Len(stdout'), stdout'[i] \in Requests
      PROVE  /\ \A j \in 1 .. Len(stdout') : stdout'[i] = stdout'[j] => i = j
             /\ \A j \in 1 .. Len(queued) : queued[j] # stdout'[i]
             /\ ~Sent(stdout'[i], outbox')
  <2>1. i + d \in 1 .. Len(stdout) /\ stdout'[i] = stdout[i + d]
    BY <1>1, <1>2, Zenon
  <2>2. ASSUME NEW j \in 1 .. Len(stdout'), stdout'[i] = stdout'[j]
        PROVE  i = j
    <3>1. j + d \in 1 .. Len(stdout) /\ stdout'[j] = stdout[j + d]
      BY <1>1, <1>2, <2>2, Zenon
    <3>2. i + d = j + d
      BY <1>2, <2>1, <2>2, <3>1, Zenon DEF WaitsOnce
    <3>3. QED
      BY <3>2
  <2>3. QED
    BY <1>2, <2>1, <2>2, Zenon DEF WaitsOnce
<1>3. \A i \in 1 .. Len(queued) : queued[i] \in Requests => ~Sent(queued[i], outbox')
  BY Zenon DEF WaitsOnce
<1>4. QED
  BY <1>1, <1>2, <1>3 DEF WaitsOnce

\* An event that is no request leaves the account of requests as it is.
Reported == \E e \in AnyEvent \ Requests : outbox' = Append(outbox, e)

\* An event that is no request passes no request on.
LEMMA ReportedFacts ==
    ASSUME ContractType, UNCHANGED outbox \/ Reported
    PROVE  /\ outbox' \in Seq(AnyEvent)
           /\ \A q \in Requests : Sent(q, outbox') <=> Sent(q, outbox)
<1>1. CASE UNCHANGED outbox
  BY <1>1, Zenon DEF ContractType
<1>2. CASE Reported
  <2>1. PICK e \in AnyEvent \ Requests : outbox' = Append(outbox, e)
    BY <1>2, Zenon DEF Reported
  <2>2. \A q : Sent(q, outbox') <=> Sent(q, outbox) \/ q = e
    BY <2>1, SentFacts, Zenon DEF ContractType
  <2>3. outbox' \in Seq(AnyEvent)
    BY <2>1, AppendFacts, Zenon DEF ContractType
  <2>4. QED
    BY <2>1, <2>2, <2>3, Zenon
<1>3. QED
  BY <1>1, <1>2, Zenon

\* Without a new request or answer the account stays in order.
LEMMA AnswersKept ==
    ASSUME ContractType, AnswersInOrder, UNCHANGED <<pending, answers>>,
           UNCHANGED outbox \/ Reported
    PROVE  AnswersInOrder'
  BY ReportedFacts, Zenon DEF ContractType, AnswersInOrder

\* The events of the task itself are no requests.
LEMMA RiskyIsReported ==
    ASSUME NEW e \in {"started", "event", "paused", "risky"}, outbox' = Append(outbox, e)
    PROVE  Reported
  BY RequestsAreDistinct, Zenon DEF Reported, AnyEvent

-----------------------------------------------------------------------------
(***************************************************************************)
(* The steps that bring a line into the pipe or move one.                  *)
(***************************************************************************)
LEMMA WritesKeeps ==
    ASSUME ContractInv, NEW line \in Lines, AgentWrites(line)
    PROVE  ContractInv'
<1> USE DEF ContractInv
<1>1. /\ UNCHANGED <<phase, registered, pending, answers, queued, awaiting, outbox>>
      /\ stdout' = Append(stdout, line)
      /\ line \in AnyLine
  BY Zenon DEF AgentWrites, AnyLine
<1>2. /\ stdout' \in Seq(AnyLine)
      /\ Len(stdout') = Len(stdout) + 1
      /\ \A i \in 1 .. Len(stdout) : stdout'[i] = stdout[i]
      /\ stdout'[Len(stdout) + 1] = line
      /\ \A i \in 1 .. Len(stdout') : i \in 1 .. Len(stdout) \/ i = Len(stdout) + 1
  BY <1>1, AppendFacts DEF ContractType
<1>3. line \in Requests =>
        /\ \A i \in 1 .. Len(stdout) : stdout[i] # line
        /\ \A i \in 1 .. Len(queued) : queued[i] # line
        /\ ~Sent(line, outbox)
  BY DEF AgentWrites, Range, Sent, ContractType
<1>4. ~Response(line)
  BY RequestsAreDistinct, Zenon DEF Lines, Response
<1>5. ContractType'
  BY <1>1, <1>2, Zenon DEF ContractType
<1>6. AnswersInOrder'
  BY <1>1, Zenon DEF AnswersInOrder
<1>7. Reading' => WaitsOnce'
  <2> SUFFICES ASSUME WaitsOnce PROVE WaitsOnce'
    BY <1>1, Zenon DEF Reading
  <2>1. \A i, j \in 1 .. Len(stdout') :
          stdout'[i] = stdout'[j] /\ stdout'[i] \in Requests => i = j
    BY <1>2, <1>3, Zenon DEF WaitsOnce
  <2>2. \A i \in 1 .. Len(queued), j \in 1 .. Len(stdout') :
          queued[i] \in Requests => queued[i] # stdout'[j]
    BY <1>2, <1>3, Zenon DEF WaitsOnce
  <2>3. ASSUME NEW i \in 1 .. Len(stdout'), stdout'[i] \in Requests
        PROVE  ~Sent(stdout'[i], outbox)
    <3>1. CASE i \in 1 .. Len(stdout)
      BY <1>2, <2>3, <3>1, Zenon DEF WaitsOnce
    <3>2. CASE i = Len(stdout) + 1
      BY <1>2, <1>3, <2>3, <3>2, Zenon
    <3>3. QED
      BY <1>2, <3>1, <3>2, Zenon
  <2>4. QED
    BY <1>1, <2>1, <2>2, <2>3 DEF WaitsOnce
<1>8. Reading' => ResponseAwaited'
  BY <1>1, <1>2, <1>4 DEF Reading, ResponseAwaited, Waiting
<1>9. QED
  BY <1>5, <1>6, <1>7, <1>8, Zenon

\* The agent responds to the request that is awaited.
LEMMA RespondsKeeps ==
    ASSUME ContractInv, NEW line \in {"ok", "err"}, AgentResponds(line)
    PROVE  ContractInv'
<1> USE DEF ContractInv
<1>1. /\ UNCHANGED <<phase, registered, pending, answers, queued, outbox>>
      /\ stdout' = Append(stdout, line)
      /\ line \in AnyLine
      /\ awaiting
      /\ awaiting' = FALSE
      /\ line \notin Requests
  BY RequestsAreDistinct, Zenon DEF AgentResponds, AnyLine
<1>2. /\ stdout' \in Seq(AnyLine)
      /\ Len(stdout') = Len(stdout) + 1
      /\ \A i \in 1 .. Len(stdout) : stdout'[i] = stdout[i]
      /\ stdout'[Len(stdout) + 1] = line
      /\ \A i \in 1 .. Len(stdout') : i \in 1 .. Len(stdout) \/ i = Len(stdout) + 1
  BY <1>1, AppendFacts DEF ContractType
<1>3. ContractType'
  BY <1>1, <1>2, Zenon DEF ContractType
<1>4. AnswersInOrder'
  BY <1>1, Zenon DEF AnswersInOrder
<1>5. Reading' => WaitsOnce'
  BY <1>1, <1>2 DEF Reading, WaitsOnce
<1>6. Reading' => ResponseAwaited'
  BY <1>1, <1>2 DEF Reading, ResponseAwaited, Waiting
<1>7. QED
  BY <1>3, <1>4, <1>5, <1>6, Zenon

\* A line that is not the awaited response goes from the pipe to the queue (adapter-codex).
LEMMA QueueLineKeeps ==
    ASSUME ContractInv, QueueLine
    PROVE  ContractInv'
<1> DEFINE line == Head(stdout)
<1>1. /\ UNCHANGED <<phase, registered, pending, answers, awaiting, outbox>>
      /\ stdout # <<>>
      /\ stdout' = Tail(stdout)
      /\ queued' = Append(queued, line)
      /\ ~Response(line)
      /\ ContractType /\ AnswersInOrder
      /\ Reading /\ WaitsOnce /\ ResponseAwaited
  BY Zenon DEF QueueLine, Notification, Response, ContractInv, Waiting, Reading
<1>2. /\ stdout' \in Seq(AnyLine)
      /\ \A i \in 1 .. Len(stdout') : i + 1 \in 1 .. Len(stdout) /\ stdout'[i] = stdout[i + 1]
      /\ 1 \in 1 .. Len(stdout)
      /\ line = stdout[1]
      /\ line \in AnyLine
  BY <1>1, TailFacts, Zenon DEF ContractType
<1>3. /\ queued' \in Seq(AnyLine)
      /\ \A i \in 1 .. Len(queued) : queued'[i] = queued[i]
      /\ queued'[Len(queued) + 1] = line
      /\ \A i \in 1 .. Len(queued') : i \in 1 .. Len(queued) \/ i = Len(queued) + 1
  BY <1>1, <1>2, AppendFacts DEF ContractType
<1> HIDE DEF line
<1>4. ContractType'
  BY <1>1, <1>2, <1>3, Zenon DEF ContractType
<1>5. AnswersInOrder'
  BY <1>1, Zenon DEF AnswersInOrder
<1>6. WaitsOnce'
  <2>1. \A i, j \in 1 .. Len(stdout') :
          stdout'[i] = stdout'[j] /\ stdout'[i] \in Requests => i = j
    BY <1>1, <1>2 DEF WaitsOnce
  <2>2. \A i, j \in 1 .. Len(queued') :
          queued'[i] = queued'[j] /\ queued'[i] \in Requests => i = j
    BY <1>1, <1>2, <1>3 DEF WaitsOnce
  <2>3. \A i \in 1 .. Len(queued'), j \in 1 .. Len(stdout') :
          queued'[i] \in Requests => queued'[i] # stdout'[j]
    <3>1. \A j \in 1 .. Len(stdout') : line \in Requests => line # stdout'[j]
      BY <1>1, <1>2 DEF WaitsOnce
    <3>2. \A i \in 1 .. Len(queued), j \in 1 .. Len(stdout') :
            queued[i] \in Requests => queued[i] # stdout'[j]
      BY <1>1, <1>2 DEF WaitsOnce
    <3>3. QED
      BY <1>3, <3>1, <3>2, Zenon
  <2>4. \A i \in 1 .. Len(stdout') : stdout'[i] \in Requests => ~Sent(stdout'[i], outbox')
    BY <1>1, <1>2, Zenon DEF WaitsOnce
  <2>5. \A i \in 1 .. Len(queued') : queued'[i] \in Requests => ~Sent(queued'[i], outbox')
    BY <1>1, <1>2, <1>3 DEF WaitsOnce
  <2>6. QED
    BY <2>1, <2>2, <2>3, <2>4, <2>5, Zenon DEF WaitsOnce
<1>7. ResponseAwaited'
  <2>1. \A i \in 1 .. Len(queued') : ~Response(queued'[i])
    BY <1>1, <1>3, Zenon DEF ResponseAwaited
  <2>2. /\ awaiting' => Waiting'
        /\ \A i \in 1 .. Len(stdout') : Response(stdout'[i]) => Waiting' /\ ~awaiting'
    BY <1>1, <1>2, Zenon DEF ResponseAwaited, Waiting
  <2>3. \A i, j \in 1 .. Len(stdout') : Response(stdout'[i]) /\ Response(stdout'[j]) => i = j
    BY <1>1, <1>2 DEF ResponseAwaited
  <2>4. QED
    BY <2>1, <2>2, <2>3, Zenon DEF ResponseAwaited
<1>8. QED
  BY <1>4, <1>5, <1>6, <1>7, Zenon DEF ContractInv

\* Lines put back in their order are still without duplicates.
LEMMA ThreadAnnouncedKeeps ==
    ASSUME ContractInv, ThreadAnnounced
    PROVE  ContractInv'
<1> DEFINE lines == queued \o stdout
           n == Len(queued)
<1>1. /\ UNCHANGED <<registered, pending, answers, outbox>>
      /\ phase = "announce" /\ phase' = "turn" /\ awaiting' = TRUE
      /\ ContractType /\ AnswersInOrder
      /\ WaitsOnce /\ ResponseAwaited
  BY Zenon DEF ThreadAnnounced, ContractInv, Reading
<1>2. /\ lines \in Seq(AnyLine)
      /\ Len(lines) = n + Len(stdout)
      /\ n \in Nat
      /\ \A i \in 1 .. Len(lines) :
            \/ i \in 1 .. n /\ lines[i] = queued[i]
            \/ i - n \in 1 .. Len(stdout) /\ lines[i] = stdout[i - n]
  BY <1>1 DEF ContractType
<1>3. PICK k \in 1 .. Len(lines) :
        queued' = SubSeq(lines, 1, k - 1) /\ stdout' = SubSeq(lines, k + 1, Len(lines))
  <2>1. PICK k \in Announced(lines) :
          queued' = SubSeq(lines, 1, k - 1) /\ stdout' = SubSeq(lines, k + 1, Len(lines))
    BY Zenon DEF ThreadAnnounced
  <2>2. k \in 1 .. Len(lines)
    BY <1>2, <2>1 DEF Announced
  <2>3. QED
    BY <2>1, <2>2, Zenon
<1> HIDE DEF lines, n
<1>4. ASSUME NEW i \in 1 .. Len(lines)
      PROVE  /\ lines[i] \in Requests => ~Sent(lines[i], outbox)
             /\ ~Response(lines[i])
  BY <1>1, <1>2, Zenon DEF WaitsOnce, ResponseAwaited, Waiting, n
<1>5. ASSUME NEW i \in 1 .. Len(lines), NEW j \in 1 .. Len(lines),
             lines[i] = lines[j], lines[i] \in Requests
      PROVE  i = j
  <2>1. CASE i \in 1 .. n /\ j \in 1 .. n
    BY <1>1, <1>2, <1>5, <2>1 DEF WaitsOnce, n
  <2>2. CASE i - n \in 1 .. Len(stdout) /\ j - n \in 1 .. Len(stdout)
    <3>1. i \notin 1 .. n /\ j \notin 1 .. n
      BY <1>2, <2>2
    <3>2. lines[i] = stdout[i - n] /\ lines[j] = stdout[j - n]
      BY <1>2, <3>1, Zenon
    <3>3. i - n = j - n
      BY <1>1, <1>5, <2>2, <3>2, Zenon DEF WaitsOnce
    <3>4. QED
      BY <1>2, <3>3
  <2>3. CASE i \in 1 .. n /\ j - n \in 1 .. Len(stdout)
    <3>1. lines[i] = queued[i] /\ lines[j] = stdout[j - n]
      BY <1>2, <2>3
    <3>2. QED
      BY <1>1, <1>5, <2>3, <3>1, Zenon DEF WaitsOnce, n
  <2>4. CASE i - n \in 1 .. Len(stdout) /\ j \in 1 .. n
    <3>1. lines[i] = stdout[i - n] /\ lines[j] = queued[j]
      BY <1>2, <2>4
    <3>2. QED
      BY <1>1, <1>5, <2>4, <3>1, Zenon DEF WaitsOnce, n
  <2>5. QED
    BY <1>2, <2>1, <2>2, <2>3, <2>4, Zenon
<1>6. /\ queued' \in Seq(AnyLine)
      /\ Len(queued') = k - 1
      /\ \A i \in 1 .. Len(queued') : i \in 1 .. Len(lines) /\ queued'[i] = lines[i]
  BY <1>2, <1>3
<1>7. /\ stdout' \in Seq(AnyLine)
      /\ \A i \in 1 .. Len(stdout') : k + i \in 1 .. Len(lines) /\ stdout'[i] = lines[k + i]
  BY <1>2, <1>3
<1>8. ContractType'
  BY <1>1, <1>6, <1>7, Zenon DEF ContractType, Phases
<1>9. AnswersInOrder'
  BY <1>1, Zenon DEF AnswersInOrder
<1>10. WaitsOnce'
  <2>1. \A i, j \in 1 .. Len(stdout') :
          stdout'[i] = stdout'[j] /\ stdout'[i] \in Requests => i = j
    BY <1>5, <1>7
  <2>2. \A i, j \in 1 .. Len(queued') :
          queued'[i] = queued'[j] /\ queued'[i] \in Requests => i = j
    BY <1>5, <1>6, Zenon
  <2>3. \A i \in 1 .. Len(queued'), j \in 1 .. Len(stdout') :
          queued'[i] \in Requests => queued'[i] # stdout'[j]
    BY <1>5, <1>6, <1>7
  <2>4. \A i \in 1 .. Len(stdout') : stdout'[i] \in Requests => ~Sent(stdout'[i], outbox')
    BY <1>1, <1>4, <1>7, Zenon
  <2>5. \A i \in 1 .. Len(queued') : queued'[i] \in Requests => ~Sent(queued'[i], outbox')
    BY <1>1, <1>4, <1>6, Zenon
  <2>6. QED
    BY <2>1, <2>2, <2>3, <2>4, <2>5, Zenon DEF WaitsOnce
<1>11. ResponseAwaited'
  BY <1>1, <1>4, <1>6, <1>7, Zenon DEF ResponseAwaited, Waiting
<1>12. QED
  BY <1>8, <1>9, <1>10, <1>11, Zenon DEF ContractInv

\* A line becomes an event, a request itself and nothing else a request.
LEMMA NormalizedFacts ==
    ASSUME NEW line \in AnyLine, ~Response(line), line # "late"
    PROVE  /\ Normalized(line) \in AnyEvent
           /\ \A q \in Requests : Normalized(line) = q <=> line = q
<1>1. CASE line \in {"thread", "turn"}
  BY <1>1, RequestsAreDistinct, Zenon DEF Normalized, AnyEvent
<1>2. CASE line \in {"bad", "torn"}
  BY <1>2, RequestsAreDistinct, Zenon DEF Normalized, Unreadable, AnyEvent
<1>3. CASE line \in {"event"} \cup Requests
  BY <1>3, RequestsAreDistinct, Zenon DEF Normalized, Unreadable, AnyEvent
<1>4. QED
  BY <1>1, <1>2, <1>3, Zenon DEF AnyLine, Lines, Response

\* A request becomes pending in the step that passes it on.
LEMMA TakeLineKeeps ==
    ASSUME ContractInv, TakeLine
    PROVE  ContractInv'
<1> DEFINE line == IF queued # <<>> THEN Head(queued) ELSE Head(stdout)
<1>1. /\ UNCHANGED <<registered, answers, awaiting>>
      /\ phase = "loop" /\ phase' \in {"loop", "closing"}
      /\ line # "late"
      /\ pending' = IF line \in Requests THEN pending \cup {line} ELSE pending
      /\ outbox' = Append(outbox, Normalized(line))
      /\ ContractType /\ AnswersInOrder
      /\ WaitsOnce /\ ResponseAwaited
  BY Zenon DEF TakeLine, ContractInv, Reading
<1>2. /\ stdout' \in Seq(AnyLine)
      /\ queued' \in Seq(AnyLine)
      /\ line \in AnyLine
      /\ ~Response(line)
      /\ line \in Requests =>
            /\ ~Sent(line, outbox)
            /\ \A i \in 1 .. Len(stdout') : stdout'[i] # line
            /\ \A i \in 1 .. Len(queued') : queued'[i] # line
  <2>1. CASE queued # <<>>
    <3>1. stdout' = stdout /\ queued' = Tail(queued) /\ line = Head(queued)
      BY <2>1, Zenon DEF TakeLine
    <3>2. QED
      BY <1>1, <2>1, <3>1, TailFacts DEF ContractType, WaitsOnce, ResponseAwaited
  <2>2. CASE queued = <<>>
    <3>1. stdout # <<>> /\ stdout' = Tail(stdout) /\ queued' = queued /\ line = Head(stdout)
      BY <2>2, Zenon DEF TakeLine
    <3>2. QED
      BY <1>1, <2>2, <3>1, TailFacts
      DEF ContractType, WaitsOnce, ResponseAwaited, Waiting
  <2>3. QED
    BY <2>1, <2>2, Zenon
<1>3. \E c, d \in {0, 1} :
        /\ \A i \in 1 .. Len(queued') : i + c \in 1 .. Len(queued) /\ queued'[i] = queued[i + c]
        /\ \A i \in 1 .. Len(stdout') : i + d \in 1 .. Len(stdout) /\ stdout'[i] = stdout[i + d]
  <2>1. CASE queued # <<>>
    <3>1. stdout' = stdout /\ queued' = Tail(queued)
      BY <2>1, Zenon DEF TakeLine
    <3>2. /\ \A i \in 1 .. Len(queued') : i + 1 \in 1 .. Len(queued) /\ queued'[i] = queued[i + 1]
          /\ \A i \in 1 .. Len(stdout') : i + 0 \in 1 .. Len(stdout) /\ stdout'[i] = stdout[i + 0]
      BY <1>1, <2>1, <3>1, TailFacts DEF ContractType
    <3>3. QED
      BY <3>2, Zenon
  <2>2. CASE queued = <<>>
    <3>1. stdout # <<>> /\ stdout' = Tail(stdout) /\ queued' = queued
      BY <2>2, Zenon DEF TakeLine
    <3>2. /\ \A i \in 1 .. Len(queued') : i + 0 \in 1 .. Len(queued) /\ queued'[i] = queued[i + 0]
          /\ \A i \in 1 .. Len(stdout') : i + 1 \in 1 .. Len(stdout) /\ stdout'[i] = stdout[i + 1]
      BY <1>1, <2>2, <3>1, TailFacts DEF ContractType
    <3>3. QED
      BY <3>2, Zenon
  <2>3. QED
    BY <2>1, <2>2, Zenon
<1> HIDE DEF line
<1>4. /\ outbox' \in Seq(AnyEvent)
      /\ \A q \in Requests : Sent(q, outbox') <=> Sent(q, outbox) \/ q = line
  <2>1. /\ Normalized(line) \in AnyEvent
        /\ \A q \in Requests : Normalized(line) = q <=> line = q
    BY <1>1, <1>2, NormalizedFacts, Zenon
  <2>2. QED
    BY <1>1, <2>1, SentFacts, AppendFacts DEF ContractType
<1>5. ContractType'
  BY <1>1, <1>2, <1>4, Zenon DEF ContractType, Phases
<1>6. AnswersInOrder'
  BY <1>1, <1>2, <1>4, Zenon DEF AnswersInOrder, ContractType
<1>7. WaitsOnce'
  <2>1. PICK c \in {0, 1}, d \in {0, 1} :
          /\ \A i \in 1 .. Len(queued') : i + c \in 1 .. Len(queued) /\ queued'[i] = queued[i + c]
          /\ \A i \in 1 .. Len(stdout') : i + d \in 1 .. Len(stdout) /\ stdout'[i] = stdout[i + d]
    BY <1>3, Zenon
  <2>2. \A i, j \in 1 .. Len(stdout') :
          stdout'[i] = stdout'[j] /\ stdout'[i] \in Requests => i = j
    BY <1>1, <2>1 DEF WaitsOnce
  <2>3. \A i, j \in 1 .. Len(queued') :
          queued'[i] = queued'[j] /\ queued'[i] \in Requests => i = j
    BY <1>1, <2>1 DEF WaitsOnce
  <2>4. \A i \in 1 .. Len(queued'), j \in 1 .. Len(stdout') :
          queued'[i] \in Requests => queued'[i] # stdout'[j]
    BY <1>1, <2>1 DEF WaitsOnce
  <2>5. \A i \in 1 .. Len(stdout') : stdout'[i] \in Requests => ~Sent(stdout'[i], outbox')
    BY <1>1, <1>2, <1>4, <2>1, Zenon DEF WaitsOnce
  <2>6. \A i \in 1 .. Len(queued') : queued'[i] \in Requests => ~Sent(queued'[i], outbox')
    BY <1>1, <1>2, <1>4, <2>1, Zenon DEF WaitsOnce
  <2>7. QED
    BY <2>2, <2>3, <2>4, <2>5, <2>6, Zenon DEF WaitsOnce
<1>8. ResponseAwaited'
  <2>1. /\ \A i \in 1 .. Len(queued') : ~Response(queued'[i])
        /\ \A i \in 1 .. Len(stdout') : ~Response(stdout'[i])
        /\ ~awaiting
    BY <1>1, <1>3, Zenon DEF ResponseAwaited, Waiting
  <2>2. QED
    BY <1>1, <2>1, Zenon DEF ResponseAwaited
<1>9. QED
  BY <1>5, <1>6, <1>7, <1>8 DEF ContractInv

\* An answer is written for a pending request, which is pending no more.
LEMMA TakeResponseKeeps ==
    ASSUME ContractInv, TakeResponse
    PROVE  ContractInv'
<1> DEFINE q == Head(control)[1]
           decision == Head(control)[2]
<1>1. /\ UNCHANGED <<phase, registered, stdout, queued, awaiting>>
      /\ q \in Requests /\ decision \in {"accept", "decline"}
      /\ pending' = pending \ {q}
      /\ \/ answers' = answers
         \/ q \in pending /\ answers' = [answers EXCEPT ![q] = decision]
      /\ outbox' = outbox \/ outbox' = Append(outbox, "risky")
      /\ ContractType /\ AnswersInOrder
      /\ Reading => WaitsOnce /\ ResponseAwaited
  BY Zenon DEF TakeResponse, PendingWithout, ContractInv
<1> HIDE DEF q, decision
<1>2. UNCHANGED outbox \/ Reported
  BY <1>1, RiskyIsReported, Zenon
<1>3. /\ outbox' \in Seq(AnyEvent)
      /\ \A r \in Requests : Sent(r, outbox') <=> Sent(r, outbox)
  BY <1>1, <1>2, ReportedFacts, Zenon
<1>4. ContractType'
  BY <1>1, <1>3, Zenon DEF ContractType
<1>5. AnswersInOrder'
  BY <1>1, <1>3, Zenon DEF AnswersInOrder, ContractType
<1>6. Reading' => WaitsOnce'
  BY <1>1, <1>3 DEF Reading, WaitsOnce
<1>7. Reading' => ResponseAwaited'
  BY <1>1, Zenon DEF Reading, ResponseAwaited, Waiting
<1>8. QED
  BY <1>4, <1>5, <1>6, <1>7, Zenon DEF ContractInv

-----------------------------------------------------------------------------
(***************************************************************************)
(* The other steps: the pipe gets no new line, the queue stays, and an     *)
(* event that is sent is no request.                                       *)
(***************************************************************************)
LEMMA QuietKeeps ==
    ASSUME ContractInv,
           phase' \in Phases, registered' = (phase' # "over"), Reading' => Reading,
           UNCHANGED <<pending, answers, queued>>,
           UNCHANGED outbox \/ Reported,
           Shortened,
           Reading' => ResponseAwaited'
    PROVE  ContractInv'
<1>1. /\ outbox' \in Seq(AnyEvent)
      /\ \A q \in Requests : Sent(q, outbox') => Sent(q, outbox)
  BY ReportedFacts, Zenon DEF ContractInv
<1>2. ContractType'
  BY <1>1, Zenon DEF ContractInv, ContractType, Shortened
<1>3. AnswersInOrder'
  BY AnswersKept, Zenon DEF ContractInv
<1>4. Reading' => WaitsOnce'
  BY <1>1, ShortenedWaitsOnce, Zenon DEF ContractInv
<1>5. QED
  BY <1>2, <1>3, <1>4, Zenon DEF ContractInv

\* An unchanged pipe has no new request.
LEMMA SameShortened ==
    ASSUME ContractType, UNCHANGED stdout
    PROVE  Shortened
<1>1. \A i \in 1 .. Len(stdout') : i + 0 \in 1 .. Len(stdout) /\ stdout'[i] = stdout[i + 0]
  BY DEF ContractType
<1>2. QED
  BY <1>1, Zenon DEF ContractType, Shortened

\* After a response was taken or given up there is none in the pipe.
NoResponse == \A i \in 1 .. Len(stdout') : ~Response(stdout'[i])

\* The steps of the requests of the task: handshake, thread, turn, interrupt.
LEMMA RequestStepsKeep ==
    ASSUME ContractInv,
           \/ HandshakeFails \/ InterruptFails \/ Initialized \/ Interrupted
           \/ \E named \in BOOLEAN : ThreadStarted(named) \/ TurnStarted(named)
    PROVE  ContractInv'
<1>1. /\ ContractType
      /\ Reading /\ ResponseAwaited
  BY Zenon DEF ContractInv, Reading, HandshakeFails, InterruptFails, Initialized, Interrupted,
         ThreadStarted, TurnStarted
<1>2. RequestFails \/ Accepted
  BY Zenon DEF HandshakeFails, InterruptFails, Initialized, Interrupted, ThreadStarted,
     TurnStarted
<1>3. Shortened /\ NoResponse
  BY <1>1, <1>2, RequestFailsFacts, AcceptedFacts, Zenon DEF NoResponse
<1>4. /\ UNCHANGED <<registered, pending, answers, queued>>
      /\ phase # "over"
      /\ phase' \in Phases \ {"over"}
  BY Zenon DEF HandshakeFails, InterruptFails, Initialized, Interrupted, ThreadStarted,
         TurnStarted, Fails, Phases
<1>5. UNCHANGED outbox \/ Reported
  <2>1. \/ UNCHANGED outbox
        \/ \E e \in {"started", "event", "paused", "risky"} : outbox' = Append(outbox, e)
    BY Zenon DEF HandshakeFails, InterruptFails, Initialized, Interrupted, ThreadStarted,
           TurnStarted, Fails, EventsOfRefusal
  <2>2. QED
    BY <2>1, RiskyIsReported, Zenon
<1>6. Reading' => (awaiting' => Waiting')
  <2>1. CASE HandshakeFails \/ InterruptFails \/ Initialized
    BY <2>1, Zenon DEF HandshakeFails, InterruptFails, Initialized, Waiting
  <2>2. CASE \E named \in BOOLEAN : ThreadStarted(named)
    BY <2>2 DEF ThreadStarted, Waiting
  <2>3. CASE Interrupted \/ \E named \in BOOLEAN : TurnStarted(named)
    <3>1. stdout # <<>> /\ Head(stdout) = "ok" /\ awaiting' = awaiting
      BY <2>3, Zenon DEF Interrupted, TurnStarted, Accepted
    <3>2. 1 \in 1 .. Len(stdout) /\ Response(stdout[1])
      BY <1>1, <3>1, TailFacts, Zenon DEF ContractType, Response
    <3>3. QED
      BY <1>1, <3>1, <3>2, Zenon DEF ResponseAwaited
  <2>4. QED
    BY <2>1, <2>2, <2>3, Zenon
<1>7. Reading' => ResponseAwaited'
  BY <1>1, <1>3, <1>4, <1>6, Zenon DEF ResponseAwaited, NoResponse
<1>8. registered' = (phase' # "over")
  BY <1>1, <1>4, Zenon DEF ContractType
<1>9. QED
  BY <1>1, <1>3, <1>4, <1>5, <1>7, <1>8, QuietKeeps, Zenon

\* The steps that pass no request on and answer none.
LEMMA OtherStepsKeep ==
    ASSUME ContractInv,
           \/ \E done \in BOOLEAN : Spawn(done)
           \/ PutAside \/ Tear \/ AgentExits
           \/ ThreadUnreadable \/ ThreadMissing
           \/ TakePause \/ TakeTerminate \/ EndOfOutput
    PROVE  ContractInv'
<1> USE DEF ContractInv
<1>1. /\ UNCHANGED <<registered, pending, answers, queued>>
      /\ phase # "over" => phase' # "over"
      /\ phase = "over" => phase' = "over"
      /\ phase' \in Phases
      /\ Reading' => Reading
  BY Zenon DEF Spawn, PutAside, Tear, AgentExits, ThreadUnreadable, ThreadMissing, TakePause,
         TakeTerminate, EndOfOutput, Taken, Fails, Reading, ContractType, Phases
<1>2. UNCHANGED outbox \/ Reported
  <2>1. UNCHANGED outbox \/ outbox' = Append(outbox, "risky")
    BY Zenon DEF Spawn, PutAside, Tear, AgentExits, ThreadUnreadable, ThreadMissing, TakePause,
           TakeTerminate, EndOfOutput, Fails
  <2>2. QED
    BY <2>1, RiskyIsReported, Zenon
<1>3. CASE PutAside
  <2>1. /\ stdout # <<>> /\ stdout' = Tail(stdout)
        /\ UNCHANGED <<phase, awaiting>>
    BY <1>3, Zenon DEF PutAside
  <2>2. /\ stdout' \in Seq(AnyLine)
        /\ \A i \in 1 .. Len(stdout') : i + 1 \in 1 .. Len(stdout) /\ stdout'[i] = stdout[i + 1]
    BY <2>1, TailFacts, Zenon DEF ContractType
  <2>3. Shortened
    BY <2>2, Zenon DEF Shortened
  <2>4. ASSUME Reading' PROVE ResponseAwaited'
    <3>1. ResponseAwaited /\ (Waiting' <=> Waiting)
      BY <1>1, <2>1, <2>4, Zenon DEF Waiting
    <3>2. \A i \in 1 .. Len(stdout') : Response(stdout'[i]) => Waiting' /\ ~awaiting'
      BY <2>1, <2>2, <3>1, Zenon DEF ResponseAwaited
    <3>3. ASSUME NEW i \in 1 .. Len(stdout'), NEW j \in 1 .. Len(stdout'),
                 Response(stdout'[i]), Response(stdout'[j])
          PROVE  i = j
      <4>1. i + 1 = j + 1
        BY <2>2, <3>1, <3>3, Zenon DEF ResponseAwaited
      <4>2. QED
        BY <4>1
    <3>4. QED
      BY <1>1, <2>1, <3>1, <3>2, <3>3, Zenon DEF ResponseAwaited
  <2>5. QED
    BY <1>1, <1>2, <2>3, <2>4, QuietKeeps, Zenon DEF ContractType
<1>4. CASE Tear
  <2>1. stdout' = <<"torn">> /\ UNCHANGED <<phase, awaiting>>
    BY <1>4, Zenon DEF Tear
  <2>2. stdout' \in Seq(AnyLine) /\ Len(stdout') = 1 /\ stdout'[1] = "torn"
    BY <2>1 DEF AnyLine
  <2>3. Shortened
    BY <2>2, RequestsAreDistinct DEF Shortened
  <2>4. Reading' => ResponseAwaited'
    BY <1>1, <2>1, <2>2 DEF ResponseAwaited, Waiting, Response
  <2>5. QED
    BY <1>1, <1>2, <2>3, <2>4, QuietKeeps, Zenon DEF ContractType
<1>5. CASE UNCHANGED stdout /\ ~PutAside /\ ~Tear
  <2>1. \/ UNCHANGED <<phase, awaiting>>
        \/ ~Waiting /\ (awaiting' => Waiting' \/ awaiting)
    BY <1>5, Zenon
    DEF Spawn, AgentExits, ThreadUnreadable, ThreadMissing, TakePause, TakeTerminate,
        EndOfOutput, Taken, Waiting
  <2>2. Reading' => /\ awaiting' => Waiting'
                    /\ \A i \in 1 .. Len(stdout) : Response(stdout[i]) => Waiting' /\ ~awaiting'
    BY <1>1, <2>1, Zenon DEF ResponseAwaited, Waiting
  <2>3. Reading' => ResponseAwaited'
    BY <1>1, <1>5, <2>2, Zenon DEF ResponseAwaited
  <2>4. QED
    BY <1>1, <1>2, <1>5, <2>3, QuietKeeps, SameShortened, Zenon DEF ContractType
<1>6. PutAside \/ Tear \/ UNCHANGED stdout
  BY Zenon DEF Spawn, AgentExits, ThreadUnreadable, ThreadMissing, TakePause, TakeTerminate,
         EndOfOutput
<1>7. QED
  BY <1>3, <1>4, <1>5, <1>6, Zenon

\* The run ends, or a timer answers what is pending (adapter-codex).
LEMMA EndStepsKeep ==
    ASSUME ContractInv, Shutdown \/ Remove \/ \E q \in Requests : TimerFires(q)
    PROVE  ContractInv'
<1> USE DEF ContractInv
<1>1. CASE Shutdown \/ Remove
  <2>1. /\ UNCHANGED <<pending, answers, outbox>>
        /\ ~Reading'
        /\ phase' \in Phases /\ registered' = (phase' # "over")
        /\ stdout' \in {stdout, <<>>} /\ queued' \in {queued, <<>>}
    BY <1>1, Zenon DEF Shutdown, Remove, Reading, Phases, ContractType
  <2>2. stdout' \in Seq(AnyLine) /\ queued' \in Seq(AnyLine)
    <3>1. <<>> \in Seq(AnyLine) /\ stdout \in Seq(AnyLine) /\ queued \in Seq(AnyLine)
      BY DEF ContractType
    <3>2. QED
      BY <2>1, <3>1, Zenon
  <2>3. ContractType'
    BY <2>1, <2>2, Zenon DEF ContractType
  <2>4. AnswersInOrder'
    BY <2>1, Zenon DEF AnswersInOrder
  <2>5. QED
    BY <2>1, <2>3, <2>4, Zenon
<1>2. CASE \E q \in Requests : TimerFires(q)
  <2>1. /\ UNCHANGED <<phase, registered, pending, answers, stdout, queued, awaiting>>
        /\ UNCHANGED outbox \/ outbox' = Append(outbox, "risky")
    BY <1>2, Zenon DEF TimerFires
  <2>2. UNCHANGED outbox \/ Reported
    BY <2>1, RiskyIsReported, Zenon
  <2>3. Reading' => ResponseAwaited'
    BY <2>1, Zenon DEF Reading, ResponseAwaited, Waiting
  <2>4. Reading' => Reading
    BY <2>1, Zenon DEF Reading
  <2>5. QED
    BY <2>1, <2>2, <2>3, <2>4, QuietKeeps, SameShortened, Zenon DEF ContractType
<1>3. QED
  BY <1>1, <1>2, Zenon

\* Steps on other variables.
LEMMA UnchangedKeeps ==
    ASSUME ContractInv,
           UNCHANGED <<phase, registered, pending, answers, stdout, queued, awaiting, outbox>>
    PROVE  ContractInv'
<1>1. ContractType'
  BY Zenon DEF ContractInv, ContractType
<1>2. AnswersInOrder'
  BY Zenon DEF ContractInv, AnswersInOrder
<1>3. Reading' => WaitsOnce'
  BY DEF ContractInv, WaitsOnce, Reading
<1>4. Reading' => ResponseAwaited'
  BY Zenon DEF ContractInv, ResponseAwaited, Reading, Waiting
<1>5. QED
  BY <1>1, <1>2, <1>3, <1>4, Zenon DEF ContractInv

\* Nothing waits at the start.
LEMMA ContractInit == Init => ContractInv
<1> SUFFICES ASSUME Init PROVE ContractInv
  BY Zenon
<1>1. /\ phase = "spawn" /\ registered = TRUE /\ pending = {} /\ awaiting = FALSE
      /\ answers = [q \in Requests |-> "none"]
      /\ stdout = <<>> /\ queued = <<>> /\ outbox = <<>>
  BY Zenon DEF Init
<1>2. ContractType
  <2>1. phase \in Phases /\ (phase # "over") = TRUE
    BY <1>1, Zenon DEF Phases
  <2>2. registered = (phase # "over")
    BY <1>1, <2>1, Zenon
  <2>3. stdout \in Seq(AnyLine) /\ queued \in Seq(AnyLine) /\ outbox \in Seq(AnyEvent)
    BY <1>1
  <2>4. answers \in [Requests -> {"none", "accept", "decline"}] /\ pending \subseteq Requests
    BY <1>1, Zenon
  <2>5. QED
    BY <2>1, <2>2, <2>3, <2>4, Zenon DEF ContractType
<1>3. AnswersInOrder /\ WaitsOnce /\ ResponseAwaited
  BY <1>1 DEF AnswersInOrder, WaitsOnce, ResponseAwaited
<1>4. QED
  BY <1>2, <1>3, Zenon DEF ContractInv

\* Every step keeps the account of requests.
LEMMA ContractStep == ContractInv /\ [Next]_vars => ContractInv'
<1> SUFFICES ASSUME ContractInv, [Next]_vars PROVE ContractInv'
  BY Zenon
<1>1. CASE Task
  <2>1. CASE Spawn(TRUE) \/ PutAside \/ ThreadUnreadable \/ ThreadMissing
             \/ TakePause \/ TakeTerminate \/ EndOfOutput
    BY <2>1, OtherStepsKeep, Zenon
  <2>2. CASE HandshakeFails \/ InterruptFails \/ Initialized \/ Interrupted
             \/ \E named \in BOOLEAN : ThreadStarted(named) \/ TurnStarted(named)
    BY <2>2, RequestStepsKeep, Zenon
  <2>3. CASE QueueLine
    BY <2>3, QueueLineKeeps, Zenon
  <2>4. CASE ThreadAnnounced
    BY <2>4, ThreadAnnouncedKeeps
  <2>5. CASE TakeResponse
    BY <2>5, TakeResponseKeeps
  <2>6. CASE TakeLine
    BY <2>6, TakeLineKeeps
  <2>7. CASE Shutdown \/ Remove
    BY <2>7, EndStepsKeep, Zenon
  <2>8. QED
    BY <1>1, <2>1, <2>2, <2>3, <2>4, <2>5, <2>6, <2>7, Zenon DEF Task
<1>2. CASE Spawn(FALSE) \/ Tear \/ AgentExits
  BY <1>2, OtherStepsKeep, Zenon
<1>3. CASE AgentResponds("ok") \/ AgentResponds("err")
  BY <1>3, RespondsKeeps, Zenon
<1>4. CASE \E line \in Lines : AgentWrites(line)
  BY <1>4, WritesKeeps, Zenon
<1>5. CASE \E message \in {"pause", "terminate"} \cup (Requests \X {"accept", "decline"}) :
             SendControl(message)
  BY <1>5, UnchangedKeeps, Zenon DEF SendControl
<1>6. CASE \E q \in Requests : TimerFires(q)
  BY <1>6, EndStepsKeep, Zenon
<1>7. CASE UNCHANGED vars
  BY <1>7, UnchangedKeeps, Zenon DEF vars
<1>8. QED
  BY <1>1, <1>2, <1>3, <1>4, <1>5, <1>6, <1>7, Zenon DEF Next

\* A request of the agent waits at one place, is pending only after it was passed on and
\* before it is answered, and is answered only after it was passed on: pending_requests,
\* queued_lines and the pipe never hold the same request twice (process.rs, app_server.rs).
THEOREM RequestsAreNotDuplicated == Spec => []ContractInv
<1>1. Init => ContractInv
  BY ContractInit, Zenon
<1>2. ContractInv /\ [Next]_vars => ContractInv'
  BY ContractStep, Zenon
<1>3. QED
  BY <1>1, <1>2, PTL DEF Spec

-----------------------------------------------------------------------------
(***************************************************************************)
(* Refinement.                                                             *)
(***************************************************************************)
LEMMA ContractNextOrStutter ==
    ASSUME ContractInv, [Next]_vars
    PROVE  [Contract!Next]_(Contract!vars)
<1> USE DEF Contract!vars
<1>1. CASE TakeResponse
  <2> DEFINE q == Head(control)[1]
             decision == Head(control)[2]
  <2>1. /\ UNCHANGED registered
        /\ phase = "loop"
        /\ q \in Requests /\ decision \in {"accept", "decline"}
        /\ \/ UNCHANGED <<answers, outbox>>
           \/ UNCHANGED answers /\ outbox' = Append(outbox, "risky")
           \/ /\ q \in pending
              /\ answers' = [answers EXCEPT ![q] = decision]
              /\ UNCHANGED outbox
    BY <1>1, Zenon DEF TakeResponse, Taken
  <2> HIDE DEF q, decision
  <2>2. registered
    BY <2>1, Zenon DEF ContractInv, ContractType
  <2>3. CASE /\ q \in pending
             /\ answers' = [answers EXCEPT ![q] = decision]
             /\ UNCHANGED outbox
    <3>1. answers[q] = "none" /\ \E i \in 1 .. Len(outbox) : outbox[i] = q
      BY <2>3, Zenon DEF ContractInv, AnswersInOrder, Sent
    <3>2. q \in {outbox[i] : i \in DOMAIN outbox}
      BY <3>1 DEF ContractInv, ContractType
    <3>3. Contract!Answer(q, decision)
      BY <2>1, <2>2, <2>3, <3>1, <3>2, Zenon DEF Contract!Answer
    <3>4. QED
      BY <2>1, <3>3, Zenon DEF Contract!Next
  <2>4. CASE UNCHANGED answers /\ outbox' = Append(outbox, "risky")
    BY <2>1, <2>2, <2>4, Zenon DEF Contract!Next, Contract!Send
  <2>5. QED
    BY <2>1, <2>3, <2>4, Zenon
<1>2. CASE TakeLine
  <2> DEFINE line == IF queued # <<>> THEN Head(queued) ELSE Head(stdout)
  <2>1. /\ UNCHANGED <<registered, answers>>
        /\ phase = "loop" /\ line # "late"
        /\ outbox' = Append(outbox, Normalized(line))
        /\ queued # <<>> \/ stdout # <<>>
    BY <1>2, Zenon DEF TakeLine
  <2>2. line \in AnyLine /\ ~Response(line)
    BY <2>1, TailFacts
    DEF ContractInv, ContractType, ResponseAwaited, Reading, Waiting
  <2> HIDE DEF line
  <2>3. Normalized(line) \in AnyEvent
    BY <2>1, <2>2, NormalizedFacts, Zenon
  <2>4. registered
    BY <2>1, Zenon DEF ContractInv, ContractType
  <2>5. QED
    BY <2>1, <2>3, <2>4, Zenon DEF Contract!Next, Contract!Send, Contract!Plain, AnyEvent
<1>3. CASE Remove
  BY <1>3, Zenon DEF Remove, ContractInv, ContractType, Contract!Next, Contract!End
<1>4. CASE \E q \in Requests : TimerFires(q)
  BY <1>4, Zenon DEF TimerFires, ContractInv, ContractType, Contract!Next, Contract!LateTimer
<1>5. CASE \/ \E done \in BOOLEAN : Spawn(done)
           \/ HandshakeFails \/ InterruptFails \/ ThreadUnreadable \/ ThreadMissing
           \/ Interrupted \/ TakePause \/ EndOfOutput
           \/ \E named \in BOOLEAN : TurnStarted(named)
  <2>1. /\ UNCHANGED <<registered, answers>>
        /\ phase # "over"
        /\ \/ UNCHANGED outbox
           \/ \E e \in {"started", "paused", "risky"} : outbox' = Append(outbox, e)
    BY <1>5, Zenon
    DEF Spawn, HandshakeFails, InterruptFails, ThreadUnreadable, ThreadMissing, Interrupted,
        TakePause, EndOfOutput, TurnStarted, Fails, Taken, EventsOfRefusal
  <2>2. registered
    BY <2>1, Zenon DEF ContractInv, ContractType
  <2>3. QED
    BY <2>1, <2>2, Zenon DEF Contract!Next, Contract!Send, Contract!Plain
<1>6. CASE \/ QueueLine \/ PutAside \/ Initialized \/ ThreadAnnounced \/ TakeTerminate
           \/ \E named \in BOOLEAN : ThreadStarted(named)
           \/ Shutdown \/ Tear \/ AgentExits
           \/ AgentResponds("ok") \/ AgentResponds("err")
           \/ \E line \in Lines : AgentWrites(line)
           \/ \E message \in {"pause", "terminate"} \cup (Requests \X {"accept", "decline"}) :
                 SendControl(message)
           \/ UNCHANGED vars
  BY <1>6, Zenon
  DEF QueueLine, PutAside, Initialized, ThreadAnnounced, TakeTerminate, ThreadStarted,
      Shutdown, Tear, AgentExits, AgentResponds, AgentWrites, SendControl, vars
<1>7. QED
  BY <1>1, <1>2, <1>3, <1>4, <1>5, <1>6, Zenon DEF Next, Task

\* The Codex adapter keeps the contract of an agent run for any requests, any queue limit
\* and any number of inputs: after the run is off the map it sends nothing but a timer's
\* report, it answers no request twice and none that it has not passed on.
THEOREM CodexKeepsContract == Spec => KeepsContract
<1>1. Init => Contract!Init
  BY Zenon DEF Init, Contract!Init
<1>2. ContractInv /\ [Next]_vars => [Contract!Next]_(Contract!vars)
  BY ContractNextOrStutter, Zenon
<1>3. QED
  BY <1>1, <1>2, RequestsAreNotDuplicated, PTL DEF Spec, KeepsContract, Contract!Spec

-----------------------------------------------------------------------------
(***************************************************************************)
(* The page.  What it shows is good for the sequence it has: the status is *)
(* the one of a replay, or the pause of a recovery required there.  As     *)
(* long as it is not disturbed, it goes back only when it starts over, and *)
(* no reply on its way begins after what it shows: one that has been       *)
(* overtaken brings nothing new, and one that sets the status itself sets  *)
(* the one of its own, newest, event.                                      *)
(***************************************************************************)
\* Sequences are equal when their elements are.
LEMMA SameSequence ==
    ASSUME NEW S, NEW s \in Seq(S), NEW t \in Seq(S), Len(s) = Len(t),
           \A i \in 1 .. Len(s) : s[i] = t[i]
    PROVE  s = t
<1>1. s = [i \in 1 .. Len(s) |-> s[i]]
  OBVIOUS
<1>2. t = [i \in 1 .. Len(s) |-> t[i]]
  OBVIOUS
<1>3. [i \in 1 .. Len(s) |-> s[i]] = [i \in 1 .. Len(s) |-> t[i]]
  BY Zenon
<1>4. QED
  BY <1>1, <1>2, <1>3, Zenon

Kinds == AgentKinds \cup {"pause", "terminated", "continued", "abandoned", "other"}

Ops == {"sync", "pause", "terminate", "continue", "discard", "reconnect", "command"}

Views ==
    [open : BOOLEAN, last : Nat, status : {"idle", "running", "completed", "paused", "failed"},
     gap : {FALSE}]

PageRequests == [op : Ops, after : Nat, heard : BOOLEAN]

PageReplies == [op : Ops, after : Nat, sequence : Nat, recovery : BOOLEAN,
                read : BOOLEAN]

\* StatusAt and RecoveryRequired of any ledger.
StatusOf(log, n) == View!Iterate(View!Projected, "idle", SubSeq(log, 1, n))

ActiveOf(log, n) == View!Iterate(View!ActiveAfter, FALSE, SubSeq(log, 1, n))

Good(log, n, shown) == shown = StatusOf(log, n) \/ (shown = "paused" /\ ActiveOf(log, n) = TRUE)

Sees(log, view) == view \in Views /\ view.last <= Len(log) /\ Good(log, view.last, view.status)

\* A call asks for no event the page has not missed.
Asked(last, call) ==
    /\ call \in PageRequests
    /\ call.after <= last
    /\ call.op \notin {"sync", "reconnect"} => call.after = 0

\* A reply has the events the page has not seen, or it was not read.
Told(log, last, reply) ==
    /\ reply \in PageReplies
    /\ reply.after <= reply.sequence
    /\ reply.sequence <= Len(log)
    /\ reply.read = TRUE => reply.after <= last
    /\ reply.read = FALSE => reply.after = reply.sequence
    /\ reply.op = "pause" => reply.sequence >= 1 /\ log[reply.sequence] = "pause"
    /\ reply.op = "terminate" => reply.sequence >= 1 /\ log[reply.sequence] = "terminated"
    /\ reply.recovery = TRUE => ActiveOf(log, reply.sequence) = TRUE

PageInv ==
    /\ ledger \in Seq(Kinds)
    /\ Sees(ledger, ui)
    /\ Sees(ledger, saved)
    /\ \A call \in calls : Asked(ui.last, call)
    /\ \A reply \in replies : Told(ledger, ui.last, reply)

ViewInv == disturbed \/ PageInv

\* A replay goes one event at a time.
ReplaysByEvents ==
    \A log \in Seq(Kinds) :
        /\ StatusOf(log, 0) = "idle"
        /\ \A n \in 0 .. Len(log) : ActiveOf(log, n) \in BOOLEAN
        /\ \A n \in 1 .. Len(log) :
              /\ StatusOf(log, n) = View!Projected(StatusOf(log, n - 1), log[n])
              /\ ActiveOf(log, n) = View!ActiveAfter(ActiveOf(log, n - 1), log[n])

\* Projecting the events of a reply brings the page to the sequence of the reply, or
\* leaves it where it is.
ProjectsReplies ==
    \A view \in Views, reply \in PageReplies :
        Sees(ledger, view) /\ reply.after <= view.last /\ reply.after <= reply.sequence
        /\ reply.sequence <= Len(ledger)
            => LET next == View!ProjectedEvents(view, reply) IN
               /\ next.last = IF view.last >= reply.sequence THEN view.last ELSE reply.sequence
               /\ next.open = view.open
               /\ Sees(ledger, next)

\* What a ledger says of its first events stays when it grows.
LEMMA PrefixStays ==
    ASSUME NEW log \in Seq(Kinds), NEW kind \in Kinds, NEW n \in 0 .. Len(log)
    PROVE  /\ StatusOf(Append(log, kind), n) = StatusOf(log, n)
           /\ ActiveOf(Append(log, kind), n) = ActiveOf(log, n)
<1> DEFINE a == SubSeq(Append(log, kind), 1, n)
           b == SubSeq(log, 1, n)
<1>1. a \in Seq(Kinds) /\ b \in Seq(Kinds) /\ Len(a) = n /\ Len(b) = n
  OBVIOUS
<1>2. \A i \in 1 .. n : a[i] = b[i]
  OBVIOUS
<1> HIDE DEF a, b
<1>3. a = b
  BY <1>1, <1>2, SameSequence, Zenon
<1>4. QED
  BY <1>3, Zenon DEF a, b, StatusOf, ActiveOf

\* What page and replies say of a ledger stays when it grows.
LEMMA LongerLedger ==
    ASSUME NEW log \in Seq(Kinds), NEW kind \in Kinds
    PROVE  /\ Append(log, kind) \in Seq(Kinds)
           /\ Len(Append(log, kind)) = Len(log) + 1
           /\ Append(log, kind)[Len(log) + 1] = kind
           /\ \A view : Sees(log, view) => Sees(Append(log, kind), view)
           /\ \A last, reply : Told(log, last, reply) => Told(Append(log, kind), last, reply)
<1> DEFINE longer == Append(log, kind)
<1>1. /\ longer \in Seq(Kinds) /\ Len(longer) = Len(log) + 1 /\ longer[Len(log) + 1] = kind
      /\ Len(log) \in Nat
      /\ \A n \in 1 .. Len(log) : longer[n] = log[n]
  OBVIOUS
<1>2. \A n \in 0 .. Len(log) :
         StatusOf(longer, n) = StatusOf(log, n) /\ ActiveOf(longer, n) = ActiveOf(log, n)
  BY PrefixStays, Zenon
<1> HIDE DEF longer
<1>3. ASSUME NEW view, Sees(log, view) PROVE Sees(longer, view)
  <2>1. view.last \in 0 .. Len(log) /\ view.last <= Len(longer)
    BY <1>1, <1>3 DEF Sees, Views
  <2>2. QED
    BY <1>2, <1>3, <2>1, Zenon DEF Sees, Good
<1>4. ASSUME NEW last, NEW reply, Told(log, last, reply) PROVE Told(longer, last, reply)
  <2>1. /\ reply.sequence \in 0 .. Len(log) /\ reply.sequence <= Len(longer)
        /\ reply.sequence >= 1 => reply.sequence \in 1 .. Len(log)
    BY <1>1, <1>4 DEF Told, PageReplies
  <2>2. QED
    BY <1>1, <1>2, <1>4, <2>1, Zenon DEF Told
<1>5. QED
  BY <1>1, <1>3, <1>4, Zenon DEF longer

\* One event more is shown.
LEMMA GoodStep ==
    ASSUME ReplaysByEvents, NEW log \in Seq(Kinds), NEW n \in 1 .. Len(log),
           NEW shown \in {"idle", "running", "completed", "paused", "failed"},
           Good(log, n - 1, shown)
    PROVE  /\ Good(log, n, View!Projected(shown, log[n]))
           /\ View!Projected(shown, log[n]) \in {"idle", "running", "completed", "paused", "failed"}
<1> DEFINE kind == log[n]
           before == StatusOf(log, n - 1)
           active == ActiveOf(log, n - 1)
<1>1. /\ StatusOf(log, n) = View!Projected(before, kind)
      /\ ActiveOf(log, n) = View!ActiveAfter(active, kind)
  BY Zenon DEF ReplaysByEvents
<1>2. shown = before \/ (shown = "paused" /\ active = TRUE)
  BY Zenon DEF Good
<1> HIDE DEF kind, before, active
<1>3. View!Projected(shown, kind) \in {"idle", "running", "completed", "paused", "failed"}
  BY Zenon DEF View!Projected
<1>4. CASE kind \in {"started", "completed", "interrupted", "route_completed", "pause", "continued",
                     "aborted", "terminated", "abandoned", "error"}
  <2>1. View!Projected(shown, kind) = View!Projected(before, kind)
    BY <1>4, Zenon DEF View!Projected
  <2>2. QED
    BY <1>1, <1>3, <2>1, Zenon DEF Good, kind
<1>5. CASE ~(kind \in {"started", "completed", "interrupted", "route_completed", "pause", "continued",
                       "aborted", "terminated", "abandoned", "error"})
  <2>1. View!Projected(shown, kind) = shown /\ View!Projected(before, kind) = before
    BY <1>5, Zenon DEF View!Projected
  <2>2. View!ActiveAfter(active, kind) = active
    BY <1>5, Zenon DEF View!ActiveAfter
  <2>3. QED
    BY <1>1, <1>2, <2>1, <2>2, Zenon DEF Good, kind
<1>6. QED
  BY <1>4, <1>5, Zenon

-----------------------------------------------------------------------------
\* The page shows what it showed; the ledger may be longer and there may be a new reply.
LEMMA PageWaits ==
    ASSUME PageInv, ui' = ui, saved' = saved,
           ledger' = ledger \/ \E kind \in Kinds : ledger' = Append(ledger, kind),
           \A call \in calls' : call \in calls \/ Asked(ui.last, call),
           \A reply \in replies' : reply \in replies \/ Told(ledger', ui.last, reply)
    PROVE  PageInv'
<1>1. /\ ledger' \in Seq(Kinds)
      /\ \A view : Sees(ledger, view) => Sees(ledger', view)
      /\ \A last, reply : Told(ledger, last, reply) => Told(ledger', last, reply)
  <2>1. CASE ledger' = ledger
    BY <2>1, Zenon DEF PageInv
  <2>2. CASE \E kind \in Kinds : ledger' = Append(ledger, kind)
    <3>1. PICK kind \in Kinds : ledger' = Append(ledger, kind)
      BY <2>2, Zenon
    <3>2. ledger \in Seq(Kinds)
      BY Zenon DEF PageInv
    <3>3. QED
      BY <3>1, <3>2, LongerLedger, Zenon
  <2>3. QED
    BY <2>1, <2>2, Zenon
<1>2. \A reply \in replies' : Told(ledger', ui.last, reply)
  BY <1>1, Zenon DEF PageInv
<1>3. Sees(ledger', ui) /\ Sees(ledger', saved)
  BY <1>1, Zenon DEF PageInv
<1>4. \A call \in calls' : Asked(ui.last, call)
  BY Zenon DEF PageInv
<1>5. QED
  BY <1>1, <1>2, <1>3, <1>4, Zenon DEF PageInv

\* The service serves a call; a command appends its event (mission_service.rs).
LEMMA ServeKeeps ==
    ASSUME ReplaysByEvents, PageInv, NEW call \in calls, NEW read \in BOOLEAN,
           View!ServeSubscribe(call, read) \/ View!ServeCommand(call, read)
    PROVE  PageInv'
<1>1. /\ Asked(ui.last, call) /\ call \in PageRequests /\ ledger \in Seq(Kinds) /\ Len(ledger) \in Nat
      /\ ui.last \in Nat /\ ui.last <= Len(ledger)
  BY DEF PageInv, Asked, Sees, Views
<1>2. call.after \in Nat /\ call.after <= ui.last /\ call.op \in Ops
  BY <1>1, Zenon DEF Asked, PageRequests
<1>3. ASSUME NEW log, NEW required, Len(log) \in Nat, required \in BOOLEAN
      PROVE  LET reply == View!Reply(call, log, required, read) IN
             /\ reply \in PageReplies /\ reply.op = call.op /\ reply.sequence = Len(log)
             /\ reply.recovery = required /\ reply.read = read
             /\ reply.after = IF read = TRUE THEN call.after ELSE Len(log)
  <2> DEFINE first == IF read THEN call.after ELSE Len(log)
             reply == View!Reply(call, log, required, read)
  <2>1. first \in Nat /\ first = IF read = TRUE THEN call.after ELSE Len(log)
    BY <1>2, <1>3, Zenon
  <2>2. reply = [op |-> call.op, after |-> first, sequence |-> Len(log), recovery |-> required,
                 read |-> read]
    BY Zenon DEF View!Reply
  <2> HIDE DEF first, reply
  <2>3. /\ reply \in PageReplies /\ reply.op = call.op /\ reply.sequence = Len(log)
        /\ reply.recovery = required /\ reply.read = read /\ reply.after = first
    BY <1>2, <1>3, <2>1, <2>2, Zenon DEF PageReplies
  <2>4. QED
    BY <2>1, <2>3, Zenon DEF reply
<1>4. CASE View!ServeSubscribe(call, read)
  <2> DEFINE required == View!RecoveryRequired(Len(ledger))
             reply == View!Reply(call, ledger, required, read)
  <2>1. /\ call.op \in {"sync", "reconnect"} /\ calls' = calls \ {call}
        /\ replies' = replies \cup {reply} /\ UNCHANGED <<ledger, ui, saved>>
    BY <1>4, Zenon DEF View!ServeSubscribe
  <2>2. required = ActiveOf(ledger, Len(ledger))
    BY Zenon DEF View!RecoveryRequired, ActiveOf
  <2>3. required \in BOOLEAN
    <3>1. Len(ledger) \in 0 .. Len(ledger)
      BY <1>1
    <3>2. QED
      BY <1>1, <2>2, <3>1, Zenon DEF ReplaysByEvents
  <2> HIDE DEF required
  <2>4. /\ reply \in PageReplies /\ reply.op = call.op /\ reply.sequence = Len(ledger)
        /\ reply.recovery = required /\ reply.read = read
        /\ reply.after = IF read = TRUE THEN call.after ELSE Len(ledger)
    BY <1>1, <1>3, <2>3, Zenon
  <2> HIDE DEF reply
  <2>5. reply.after <= reply.sequence /\ reply.sequence <= Len(ledger)
        /\ (read = TRUE => reply.after <= ui.last)
    BY <1>1, <1>2, <2>4
  <2>6. Told(ledger, ui.last, reply)
    BY <2>1, <2>2, <2>4, <2>5, Zenon DEF Told
  <2>7. QED
    BY <2>1, <2>6, PageWaits, Zenon
<1>5. CASE View!ServeCommand(call, read)
  <2> DEFINE kind == View!KindOf(call.op)
             longer == Append(ledger, kind)
             reply == View!Reply(call, longer, FALSE, read)
  <2>1. /\ call.op \in Ops \ {"sync", "reconnect"} /\ calls' = calls \ {call}
        /\ UNCHANGED <<ui, saved>> /\ ledger' = longer
        /\ replies' = replies \cup {reply} \/ replies' = replies
    BY <1>2, <1>5, Zenon DEF View!ServeCommand
  <2>2. kind \in Kinds /\ (call.op = "pause" => kind = "pause")
        /\ (call.op = "terminate" => kind = "terminated")
    BY <2>1, Zenon DEF View!KindOf, Kinds, Ops
  <2> HIDE DEF kind
  <2>3. Len(longer) = Len(ledger) + 1 /\ longer[Len(longer)] = kind /\ Len(longer) \in Nat
        /\ Len(longer) >= 1
    BY <1>1, <2>2
  <2> HIDE DEF longer
  <2>4. /\ reply \in PageReplies /\ reply.op = call.op /\ reply.sequence = Len(longer)
        /\ reply.recovery = FALSE /\ reply.read = read
        /\ reply.after = IF read = TRUE THEN call.after ELSE Len(longer)
    BY <1>3, <2>3, Zenon
  <2> HIDE DEF reply
  <2>5. reply.after <= reply.sequence /\ reply.sequence <= Len(longer)
        /\ (read = TRUE => reply.after <= ui.last)
    BY <1>1, <1>2, <2>3, <2>4
  <2>6. Told(longer, ui.last, reply)
    BY <2>2, <2>3, <2>4, <2>5, Zenon DEF Told
  <2>7. \E k \in Kinds : ledger' = Append(ledger, k)
    BY <2>1, <2>2, Zenon DEF longer
  <2>8. QED
    BY <2>1, <2>6, <2>7, PageWaits, Zenon
<1>6. QED
  BY <1>4, <1>5, Zenon

\* What the page shows for a reply that does not disturb it is good for the sequence it
\* has then, and it does not go back.
LEMMA ShownIsSeen ==
    ASSUME ReplaysByEvents, ProjectsReplies, PageInv, NEW reply, Told(ledger, ui.last, reply),
           reply.after <= ui.last,
           reply.op \in {"pause", "terminate"} \/ reply.recovery = TRUE => ui.last <= reply.sequence
    PROVE  Sees(ledger, View!Shown(ui, reply)) /\ ui.last <= View!Shown(ui, reply).last
<1> DEFINE next == View!ProjectedEvents(ui, reply)
<1>1. /\ reply \in PageReplies /\ ui \in Views /\ Sees(ledger, ui) /\ ledger \in Seq(Kinds)
      /\ reply.sequence \in Nat /\ reply.sequence <= Len(ledger) /\ Len(ledger) \in Nat
      /\ reply.after <= reply.sequence /\ ui.last \in Nat
  <2>1. /\ reply \in PageReplies /\ ui \in Views /\ Sees(ledger, ui) /\ ledger \in Seq(Kinds)
        /\ reply.sequence \in Nat /\ reply.sequence <= Len(ledger)
        /\ reply.after <= reply.sequence /\ ui.last \in Nat
    BY Zenon DEF PageInv, Sees, Told, PageReplies, Views
  <2>2. Len(ledger) \in Nat
    BY <2>1
  <2>3. QED
    BY <2>1, <2>2, Zenon
<1>2. /\ next.last = IF ui.last >= reply.sequence THEN ui.last ELSE reply.sequence
      /\ Sees(ledger, next) /\ next \in Views
  BY <1>1, Zenon DEF ProjectsReplies, Sees
<1> HIDE DEF next
<1>3. /\ ui.last <= next.last
      /\ ui.last <= reply.sequence => next.last = reply.sequence
  BY <1>1, <1>2
<1>4. ASSUME reply.sequence >= 1
      PROVE  StatusOf(ledger, reply.sequence)
                = View!Projected(StatusOf(ledger, reply.sequence - 1), ledger[reply.sequence])
  <2>1. reply.sequence \in 1 .. Len(ledger)
    BY <1>1, <1>4
  <2>2. QED
    BY <1>1, <2>1, Zenon DEF ReplaysByEvents
<1>5. CASE reply.op = "pause"
  <2> DEFINE shown == [ui EXCEPT !.last = reply.sequence, !.status = "paused"]
  <2>1. shown \in Views /\ shown.last = reply.sequence /\ shown.status = "paused"
    BY <1>1, Zenon DEF Views
  <2>2. StatusOf(ledger, reply.sequence) = "paused"
    BY <1>4, <1>5, Zenon DEF Told, View!Projected
  <2>3. View!Shown(ui, reply) = shown
    BY <1>5, Zenon DEF View!Shown
  <2> HIDE DEF shown
  <2>4. QED
    BY <1>1, <1>5, <2>1, <2>2, <2>3, Zenon DEF Sees, Good
<1>6. CASE reply.op = "terminate"
  <2>1. View!Shown(ui, reply) = [next EXCEPT !.status = "failed"]
    BY <1>6, Zenon DEF View!Shown, next
  <2>2. StatusOf(ledger, reply.sequence) = "failed"
    BY <1>4, <1>6, Zenon DEF Told, View!Projected
  <2> DEFINE shown == [next EXCEPT !.status = "failed"]
  <2>3. shown \in Views /\ shown.last = reply.sequence /\ shown.status = "failed"
    BY <1>2, <1>3, <1>6, Zenon DEF Views
  <2> HIDE DEF shown
  <2>4. Sees(ledger, shown)
    BY <1>1, <2>2, <2>3, Zenon DEF Sees, Good
  <2>5. QED
    BY <1>6, <2>1, <2>3, <2>4, Zenon DEF shown
<1>7. CASE reply.op = "discard"
  <2>1. View!Shown(ui, reply) = [next EXCEPT !.open = FALSE]
    BY <1>7, Zenon DEF View!Shown, next
  <2> DEFINE shown == [next EXCEPT !.open = FALSE]
  <2>2. shown \in Views /\ shown.last = next.last /\ shown.status = next.status
    BY <1>2, Zenon DEF Views
  <2> HIDE DEF shown
  <2>3. Sees(ledger, shown)
    BY <1>2, <2>2, Zenon DEF Sees
  <2>4. QED
    BY <1>3, <2>1, <2>2, <2>3, Zenon DEF shown
<1>8. CASE ~(reply.op \in {"pause", "terminate", "discard"})
  <2>1. View!Shown(ui, reply) = View!Overlaid(next, reply)
    BY <1>8, Zenon DEF View!Shown, next
  <2> DEFINE shown == [next EXCEPT !.status = "paused"]
  <2>2. shown \in Views /\ shown.last = next.last /\ shown.status = "paused"
    BY <1>2, Zenon DEF Views
  <2>3. \/ View!Overlaid(next, reply) = next
        \/ reply.recovery = TRUE /\ View!Overlaid(next, reply) = shown
    <3>1. reply.recovery \in BOOLEAN
      BY <1>1, Zenon DEF PageReplies
    <3>2. QED
      BY <3>1, Zenon DEF View!Overlaid
  <2> HIDE DEF shown
  <2>4. reply.recovery = TRUE => Sees(ledger, shown)
    BY <1>1, <1>3, <2>2, Zenon DEF Sees, Good, Told
  <2>5. QED
    BY <1>2, <1>3, <2>1, <2>2, <2>3, <2>4, Zenon
<1>9. QED
  BY <1>5, <1>6, <1>7, <1>8, Zenon

\* The page projects a reply, or sets the status of its command (App.tsx).
LEMMA TakeReplyKeeps ==
    ASSUME ReplaysByEvents, ProjectsReplies, PageInv, NEW reply \in replies,
           View!TakeReply(reply), ~View!Overtaken(reply), ~View!Hides(reply)
    PROVE  PageInv'
<1>1. /\ replies' = replies \ {reply} /\ ledger' = ledger /\ calls' = calls
      /\ \/ ui' = View!Shown(ui, reply)
         \/ ui' = ui
      /\ saved' = ui' \/ saved' = saved
  BY Zenon DEF View!TakeReply
<1>2. Told(ledger, ui.last, reply) /\ reply.sequence \in Nat /\ ui.last \in Nat
      /\ reply.after \in Nat /\ reply.read \in BOOLEAN
  BY Zenon DEF PageInv, Told, PageReplies, Sees, Views
<1>3. reply.after <= ui.last
  <2>1. CASE reply.read = TRUE
    BY <1>2, <2>1, Zenon DEF Told
  <2>2. CASE reply.read = FALSE
    <3>1. reply.after = reply.sequence /\ ~(ui.last < reply.sequence)
      BY <1>2, <2>2, Zenon DEF Told, View!Hides
    <3>2. QED
      BY <1>2, <3>1
  <2>3. QED
    BY <1>2, <2>1, <2>2, Zenon
<1>4. reply.op \in {"pause", "terminate"} \/ reply.recovery = TRUE => ui.last <= reply.sequence
  <2>1. reply.op \in {"pause", "terminate"} \/ reply.recovery = TRUE => ~(reply.sequence < ui.last)
    BY Zenon DEF View!Overtaken
  <2>2. QED
    BY <1>2, <2>1
<1>5. Sees(ledger, ui') /\ ui.last <= ui'.last
  <2>1. CASE ui' = ui
    <3>1. ui.last <= ui.last
      BY <1>2
    <3>2. QED
      BY <2>1, <3>1, Zenon DEF PageInv
  <2>2. CASE ui' = View!Shown(ui, reply)
    BY <1>2, <1>3, <1>4, <2>2, ShownIsSeen, Zenon
  <2>3. QED
    BY <1>1, <2>1, <2>2, Zenon
<1>6. Sees(ledger, saved') /\ ui'.last \in Nat
  BY <1>1, <1>5, Zenon DEF PageInv, Sees, Views
<1>7. \A n \in Nat : n <= ui.last => n <= ui'.last
  BY <1>2, <1>5, <1>6
<1>8. ASSUME NEW call \in calls PROVE Asked(ui'.last, call)
  <2>1. Asked(ui.last, call) /\ call.after \in Nat
    BY Zenon DEF PageInv, Asked, PageRequests
  <2>2. QED
    BY <1>7, <2>1, Zenon DEF Asked
<1>9. ASSUME NEW other \in replies PROVE Told(ledger, ui'.last, other)
  <2>1. Told(ledger, ui.last, other) /\ other.after \in Nat
    BY Zenon DEF PageInv, Told, PageReplies
  <2>2. QED
    BY <1>7, <2>1, Zenon DEF Told
<1>10. ledger \in Seq(Kinds)
  BY Zenon DEF PageInv
<1>11. QED
  BY <1>1, <1>5, <1>6, <1>8, <1>9, <1>10, Zenon DEF PageInv

\* The page starts over from what it saved; the commands it left ask for no events.
LEMMA ReloadKeeps ==
    ASSUME PageInv, View!Reload
    PROVE  PageInv'
<1>1. /\ ui' = saved /\ saved' = saved /\ ledger' = ledger /\ replies' = {}
      /\ calls' = {[call EXCEPT !.heard = FALSE] :
                      call \in {c \in calls : c.op \notin {"sync", "reconnect"}}}
  BY Zenon DEF View!Reload
<1>2. Sees(ledger, saved) /\ saved.last \in Nat
  BY Zenon DEF PageInv, Sees, Views
<1>3. ASSUME NEW left \in calls' PROVE Asked(saved.last, left)
  <2>1. PICK call \in calls : call.op \notin {"sync", "reconnect"}
                              /\ left = [call EXCEPT !.heard = FALSE]
    BY <1>1, Zenon
  <2>2. call \in PageRequests /\ call.after = 0
    BY <2>1, Zenon DEF PageInv, Asked
  <2>3. left \in PageRequests /\ left.op = call.op /\ left.after = 0
    BY <2>1, <2>2, Zenon DEF PageRequests
  <2>4. QED
    BY <1>2, <2>3 DEF Asked
<1>4. QED
  BY <1>1, <1>2, <1>3, Zenon DEF PageInv

\* Every step that does not disturb the page keeps it, the saved page and the replies in
\* agreement with the ledger.
LEMMA PageStep ==
    ASSUME ReplaysByEvents, ProjectsReplies, PageInv, [View!Next]_page, ~disturbed'
    PROVE  PageInv'
<1>1. CASE \E kind \in AgentKinds \cup {"pause"} : View!ServiceAppends(kind)
  <2>1. PICK kind \in AgentKinds \cup {"pause"} : View!ServiceAppends(kind)
    BY <1>1, Zenon
  <2>2. kind \in Kinds
    BY Zenon DEF Kinds
  <2>3. QED
    BY <2>1, <2>2, PageWaits, Zenon DEF View!ServiceAppends
<1>2. CASE View!Serve
  <2>1. PICK call \in calls :
           \/ View!RefuseCommand(call)
           \/ \E read \in BOOLEAN : View!ServeSubscribe(call, read) \/ View!ServeCommand(call, read)
    BY <1>2, Zenon DEF View!Serve
  <2>2. CASE View!RefuseCommand(call)
    BY <2>2, PageWaits, Zenon DEF View!RefuseCommand
  <2>3. QED
    BY <2>1, <2>2, ServeKeeps, Zenon
<1>3. CASE View!Sync
  <2>1. Asked(ui.last, [op |-> "sync", after |-> ui.last, heard |-> TRUE])
    BY DEF Asked, PageRequests, Ops, PageInv, Sees, Views
  <2>2. QED
    BY <1>3, <2>1, PageWaits, Zenon DEF View!Sync
<1>4. ASSUME NEW op \in {"pause", "terminate", "continue", "discard", "reconnect", "command"},
             View!Command(op)
      PROVE  PageInv'
  <2> DEFINE new == [op |-> op, after |-> IF op = "reconnect" THEN ui.last ELSE 0, heard |-> TRUE]
  <2>1. Asked(ui.last, new)
    BY DEF Asked, PageRequests, Ops, PageInv, Sees, Views
  <2>2. calls' = calls \cup {new} /\ UNCHANGED <<ledger, ui, saved, replies>>
    BY <1>4, Zenon DEF View!Command
  <2> HIDE DEF new
  <2>3. QED
    BY <2>1, <2>2, PageWaits, Zenon
<1>5. CASE \E call \in calls : View!CallLost(call)
  BY <1>5, PageWaits, Zenon DEF View!CallLost
<1>6. ASSUME NEW reply \in replies, View!TakeReply(reply) PROVE PageInv'
  <2>1. ~View!Overtaken(reply) /\ ~View!Hides(reply)
    BY <1>6, Zenon DEF View!TakeReply
  <2>2. QED
    BY <1>6, <2>1, TakeReplyKeeps, Zenon
<1>7. ASSUME NEW reply \in replies, View!ReplyLost(reply) PROVE PageInv'
  BY <1>7, PageWaits, Zenon DEF View!ReplyLost
<1>8. CASE UNCHANGED page
  BY <1>8, PageWaits, Zenon DEF page
<1>9. QED
  BY <1>1, <1>2, <1>3, <1>4, <1>5, <1>6, <1>7, <1>8, ReloadKeeps, Zenon DEF View!Next

\* A page that was disturbed stays so.
LEMMA StaysDisturbed ==
    ASSUME disturbed, [View!Next]_page
    PROVE  disturbed'
<1>1. ASSUME NEW reply, View!TakeReply(reply) PROVE disturbed'
  BY <1>1, Zenon DEF View!TakeReply
<1>2. ASSUME disturbed' = disturbed PROVE disturbed'
  BY <1>2, Zenon
<1>3. CASE View!Serve
  BY <1>2, <1>3, Zenon DEF View!Serve, View!RefuseCommand, View!ServeSubscribe, View!ServeCommand
<1>4. CASE UNCHANGED page
  BY <1>2, <1>4, Zenon DEF page
<1>5. QED
  BY <1>1, <1>2, <1>3, <1>4, Zenon DEF View!Next, View!ServiceAppends, View!Sync, View!Command,
     View!ReplyLost, View!CallLost, View!Reload

-----------------------------------------------------------------------------
Numbers == INSTANCE WellFoundedInduction

\* A set of numbers that is not empty has a least one.
LEMMA LeastNumber == \A T \in SUBSET Nat : T # {} => \E n \in T : \A m \in T : n <= m
<1> SUFFICES ASSUME NEW T \in SUBSET Nat, T # {} PROVE \E n \in T : \A m \in T : n <= m
  BY Zenon
<1> DEFINE R == Numbers!OpToRel(<, Nat)
<1>1. Numbers!IsWellFoundedOn(R, Nat)
  BY Numbers!NatLessThanWellFounded, Zenon
<1>2. \A x, y \in Nat : <<x, y>> \in R <=> x < y
  BY Zenon DEF Numbers!OpToRel
<1> HIDE DEF R
<1>3. PICK n \in T : \A m \in T : ~(<<m, n>> \in R)
  BY <1>1, Numbers!WFMin, Zenon
<1>4. ASSUME NEW m \in T PROVE n <= m
  <2>1. m \in Nat /\ n \in Nat
    BY Zenon
  <2>2. ~(m < n)
    BY <1>2, <1>3, <2>1, Zenon
  <2>3. QED
    BY <2>1, <2>2
<1>5. QED
  BY <1>4, Zenon

Projecting(shown, kind) == View!Projected(shown, kind)

Activating(active, kind) == View!ActiveAfter(active, kind)

Reducing(view, n) == View!Reduced(view, n)

Statuses == INSTANCE FoldRules WITH Op <- Projecting

Activities == INSTANCE FoldRules WITH Op <- Activating

Reductions == INSTANCE FoldRules WITH Op <- Reducing

\* Both replays go one event at a time, by the rule for loops.
LEMMA EventsReplayed == ReplaysByEvents
<1> SUFFICES ASSUME NEW log \in Seq(Kinds)
             PROVE  /\ StatusOf(log, 0) = "idle"
                    /\ \A n \in 0 .. Len(log) : ActiveOf(log, n) \in BOOLEAN
                    /\ \A n \in 1 .. Len(log) :
                          /\ StatusOf(log, n) = View!Projected(StatusOf(log, n - 1), log[n])
                          /\ ActiveOf(log, n) = View!ActiveAfter(ActiveOf(log, n - 1), log[n])
  BY Zenon DEF ReplaysByEvents
<1>1. \A n : /\ StatusOf(log, n) = Statuses!Iterate(Projecting, "idle", SubSeq(log, 1, n))
             /\ ActiveOf(log, n) = Activities!Iterate(Activating, FALSE, SubSeq(log, 1, n))
  BY Zenon DEF StatusOf, ActiveOf, View!Iterate, Statuses!Iterate, Activities!Iterate,
     Projecting, Activating
<1>2. StatusOf(log, 0) = "idle"
  <2>1. SubSeq(log, 1, 0) = <<>>
    OBVIOUS
  <2>2. QED
    BY <1>1, <2>1, LeastNumber, Statuses!IterateEmpty, Zenon DEF Statuses!LeastNumbers
<1>3. ASSUME NEW n \in 0 .. Len(log) PROVE ActiveOf(log, n) \in BOOLEAN
  <2> DEFINE s == SubSeq(log, 1, n)
             T == [k \in 0 .. Len(s) |-> BOOLEAN]
  <2>1. Len(s) \in Nat
    OBVIOUS
  <2> HIDE DEF s
  <2>2. 0 \in 0 .. Len(s) /\ Len(s) \in 0 .. Len(s)
        /\ \A k \in 1 .. Len(s) : k \in 0 .. Len(s) /\ k - 1 \in 0 .. Len(s)
    BY <2>1
  <2>3. T[0] = BOOLEAN /\ T[Len(s)] = BOOLEAN
        /\ \A k \in 1 .. Len(s) : T[k] = BOOLEAN /\ T[k - 1] = BOOLEAN
    BY <2>2, Zenon
  <2> HIDE DEF T
  <2>4. \A k \in 1 .. Len(s) : \A r \in T[k - 1] : Activating(r, s[k]) \in T[k]
    <3>1. \A r \in BOOLEAN : \A kind : View!ActiveAfter(r, kind) \in BOOLEAN
      BY Zenon DEF View!ActiveAfter
    <3>2. QED
      BY <2>3, <3>1, Zenon DEF Activating
  <2>5. Activities!Iterate(Activating, FALSE, s) \in T[Len(s)]
    BY <2>1, <2>3, <2>4, LeastNumber, Activities!IterateWithin, Zenon DEF
       Activities!LeastNumbers
  <2>6. QED
    BY <1>1, <2>3, <2>5, Zenon DEF s
<1>4. ASSUME NEW n \in 1 .. Len(log)
      PROVE  /\ StatusOf(log, n) = View!Projected(StatusOf(log, n - 1), log[n])
             /\ ActiveOf(log, n) = View!ActiveAfter(ActiveOf(log, n - 1), log[n])
  <2> DEFINE s == SubSeq(log, 1, n - 1)
             a == SubSeq(log, 1, n)
             b == Append(s, log[n])
  <2>1. s \in Seq(Kinds) /\ Len(s) = n - 1 /\ log[n] \in Kinds
        /\ a \in Seq(Kinds) /\ Len(a) = n
    OBVIOUS
  <2>2. \A i \in 1 .. n - 1 : a[i] = s[i]
    OBVIOUS
  <2>3. a[n] = log[n]
    OBVIOUS
  <2> HIDE DEF s, a
  <2>4. b \in Seq(Kinds) /\ Len(b) = n /\ b[n] = log[n]
        /\ \A i \in 1 .. n - 1 : b[i] = s[i]
    BY <2>1
  <2> HIDE DEF b
  <2>5. \A i \in 1 .. n : i \in 1 .. n - 1 \/ i = n
    OBVIOUS
  <2>6. a = b
    <3>1. \A i \in 1 .. n : a[i] = b[i]
      BY <2>2, <2>3, <2>4, <2>5, Zenon
    <3>2. QED
      BY <2>1, <2>4, <3>1, SameSequence, Zenon
  <2>7. ASSUME NEW base, NEW t \in Seq(Kinds), NEW e
        PROVE  Statuses!Iterate(Projecting, base, Append(t, e))
                  = Projecting(Statuses!Iterate(Projecting, base, t), e)
    BY LeastNumber, Statuses!IterateAppend, Zenon DEF Statuses!LeastNumbers
  <2>8. ASSUME NEW base, NEW t \in Seq(Kinds), NEW e
        PROVE  Activities!Iterate(Activating, base, Append(t, e))
                  = Activating(Activities!Iterate(Activating, base, t), e)
    BY LeastNumber, Activities!IterateAppend, Zenon DEF Activities!LeastNumbers
  <2>9. StatusOf(log, n) = View!Projected(StatusOf(log, n - 1), log[n])
    <3>1. StatusOf(log, n) = Statuses!Iterate(Projecting, "idle", Append(s, log[n]))
      BY <1>1, <2>6, Zenon DEF a, b
    <3>2. StatusOf(log, n - 1) = Statuses!Iterate(Projecting, "idle", s)
      BY <1>1, Zenon DEF s
    <3>3. Statuses!Iterate(Projecting, "idle", Append(s, log[n]))
             = Projecting(Statuses!Iterate(Projecting, "idle", s), log[n])
      BY <2>1, <2>7, Zenon
    <3>4. \A shown : Projecting(shown, log[n]) = View!Projected(shown, log[n])
      BY Zenon DEF Projecting
    <3>5. QED
      BY <3>1, <3>2, <3>3, <3>4, Zenon
  <2>10. ActiveOf(log, n) = View!ActiveAfter(ActiveOf(log, n - 1), log[n])
    <3>1. ActiveOf(log, n) = Activities!Iterate(Activating, FALSE, Append(s, log[n]))
      BY <1>1, <2>6, Zenon DEF a, b
    <3>2. ActiveOf(log, n - 1) = Activities!Iterate(Activating, FALSE, s)
      BY <1>1, Zenon DEF s
    <3>3. Activities!Iterate(Activating, FALSE, Append(s, log[n]))
             = Activating(Activities!Iterate(Activating, FALSE, s), log[n])
      BY <2>1, <2>8, Zenon
    <3>4. \A shown : Activating(shown, log[n]) = View!ActiveAfter(shown, log[n])
      BY Zenon DEF Activating
    <3>5. QED
      BY <3>1, <3>2, <3>3, <3>4, Zenon
  <2>11. QED
    BY <2>9, <2>10
<1>5. QED
  BY <1>2, <1>3, <1>4

\* The events of a reply the page has are ignored, and the others are applied in order.
LEMMA RepliesProjected ==
    ASSUME ledger \in Seq(Kinds)
    PROVE  ProjectsReplies
<1> SUFFICES ASSUME NEW view \in Views, NEW reply \in PageReplies,
                    Sees(ledger, view), reply.after <= view.last, reply.after <= reply.sequence,
                    reply.sequence <= Len(ledger)
             PROVE  LET next == View!ProjectedEvents(view, reply) IN
                    /\ next.last = IF view.last >= reply.sequence THEN view.last ELSE reply.sequence
                    /\ next.open = view.open
                    /\ Sees(ledger, next)
  BY Zenon DEF ProjectsReplies
<1> DEFINE first == reply.after
           count == reply.sequence - first
           s == [i \in 1 .. count |-> first + i]
           Upto(k) == IF view.last >= first + k THEN view.last ELSE first + k
           T == [k \in 0 .. count |->
                    {v \in Views : /\ v.open = view.open /\ v.last = Upto(k)
                                   /\ Good(ledger, v.last, v.status)}]
           next == Reductions!Iterate(Reducing, view, s)
<1>1. /\ first \in Nat /\ count \in Nat /\ view.last \in Nat /\ reply.sequence \in Nat
      /\ first <= view.last /\ reply.sequence <= Len(ledger) /\ view.last <= Len(ledger)
      /\ Len(ledger) \in Nat
  BY DEF PageReplies, Views, Sees
<1>2. first + count = reply.sequence
  BY <1>1
<1> HIDE DEF count
<1>3. Len(s) = count /\ \A k \in 1 .. count : s[k] = first + k
  BY <1>1
<1>4. ASSUME NEW k \in 1 .. count, NEW m \in Nat, m = Upto(k - 1), ~(first + k <= m)
       PROVE  first + k = m + 1 /\ first + k = Upto(k) /\ m = (first + k) - 1
  <2>1. k \in Nat
    BY <1>1
  <2>2. m >= first + (k - 1)
    BY <1>1, <1>4, <2>1
  <2>3. m = (first + k) - 1
    BY <1>1, <1>4, <2>1, <2>2
  <2>4. QED
    BY <1>1, <1>4, <2>1, <2>3
<1>5. view \in T[0]
  BY <1>1 DEF Sees
<1>6. ASSUME NEW k \in 1 .. count, NEW v \in T[k - 1] PROVE Reducing(v, s[k]) \in T[k]
  <2>1. /\ v \in Views /\ v.open = view.open /\ v.last = Upto(k - 1)
        /\ Good(ledger, v.last, v.status) /\ k \in 0 .. count
    BY <1>1
  <2> DEFINE n == first + k
  <2>2. n \in Nat /\ n \in 1 .. Len(ledger) /\ v.last \in Nat
    <3>1. v.last \in Nat
      BY <2>1, Zenon DEF Views
    <3>2. n \in Nat /\ n >= 1 /\ n <= reply.sequence
      BY <1>1, <1>2
    <3>3. QED
      BY <1>1, <3>1, <3>2
  <2>3. Reducing(v, s[k]) = View!Reduced(v, n)
    BY <1>3, Zenon DEF Reducing
  <2>4. CASE n <= v.last
    <3>1. View!Reduced(v, n) = v
      BY <2>4, Zenon DEF View!Reduced
    <3>2. v.last = Upto(k)
      BY <1>1, <2>1, <2>4
    <3>3. v \in T[k]
      BY <2>1, <3>2
    <3>4. QED
      BY <2>3, <3>1, <3>3, Zenon
  <2>5. CASE ~(n <= v.last)
    <3>1. n = v.last + 1 /\ n = Upto(k) /\ v.last = n - 1
      BY <1>4, <2>1, <2>2, <2>5, Zenon
    <3> HIDE DEF n
    <3> DEFINE status0 == View!Projected(v.status, ledger[n])
               w == [v EXCEPT !.last = n, !.status = status0]
    <3>2. View!Reduced(v, n) = w
      BY <2>5, <3>1 DEF View!Reduced
    <3>3. Good(ledger, n, status0) /\ status0 \in {"idle", "running", "completed", "paused", "failed"}
      BY <2>1, <2>2, <3>1, GoodStep, EventsReplayed DEF Views
    <3> HIDE DEF status0
    <3>4. w \in Views /\ w.open = v.open /\ w.last = n /\ w.status = status0
      BY <2>1, <2>2, <3>3, Zenon DEF Views
    <3> HIDE DEF w
    <3>5. w \in T[k]
      BY <2>1, <3>1, <3>3, <3>4, Zenon
    <3>6. QED
      BY <2>3, <3>2, <3>5, Zenon
  <2>6. QED
    BY <2>4, <2>5, Zenon
<1>7. next \in T[Len(s)]
  <2> HIDE DEF s, T
  <2>1. Len(s) \in Nat
    BY <1>1, <1>3, Zenon
  <2>2. \A k \in 1 .. Len(s) : \A v \in T[k - 1] : Reducing(v, s[k]) \in T[k]
    BY <1>3, <1>6, Zenon
  <2>3. QED
    BY <1>5, <2>1, <2>2, LeastNumber, Reductions!IterateWithin, Zenon DEF
       Reductions!LeastNumbers
<1>8. /\ next \in Views /\ next.open = view.open /\ next.last = Upto(count)
      /\ Good(ledger, next.last, next.status)
  <2>1. next \in T[count] /\ count \in 0 .. count
    BY <1>1, <1>3, <1>7
  <2> HIDE DEF next
  <2>2. /\ next \in Views /\ next.open = view.open /\ next.last = Upto(count)
        /\ Good(ledger, next.last, next.status)
    BY <2>1, Zenon
  <2>3. QED
    BY <2>2, Zenon
<1>9. View!ProjectedEvents(view, reply)
         = [next EXCEPT !.last = IF reply.sequence > @ THEN reply.sequence ELSE @]
  BY Zenon DEF View!ProjectedEvents, View!Iterate, Reductions!Iterate, Reducing, count
<1>13. /\ Upto(count) = IF view.last >= reply.sequence THEN view.last ELSE reply.sequence
       /\ Upto(count) <= Len(ledger) /\ ~(reply.sequence > Upto(count))
  BY <1>1, <1>2
<1> HIDE DEF next, Upto
<1>10. [next EXCEPT !.last = IF reply.sequence > @ THEN reply.sequence ELSE @] = next
  BY <1>8, <1>13, Zenon DEF Views
<1>11. Sees(ledger, next)
  BY <1>8, <1>13, Zenon DEF Sees
<1>12. QED
  BY <1>8, <1>9, <1>10, <1>11, <1>13, Zenon

\* However polls, commands, losses and reloads interleave, the page shows the status
\* that replaying the ledger up to its sequence gives, or the pause of a recovery that
\* is required there, for any events and any number of calls (reducer.ts, App.tsx).  The
\* service may fail to read the ledger and replies may overtake one another; the page
\* is exempt only from the first reply that hides events from it, or sets a status that
\* is older than what it shows.
THEOREM PageShowsReplay == View!Spec => []ViewIsProjection
<1>1. View!Init => ViewInv
  <2> SUFFICES ASSUME View!Init PROVE ViewInv
    OBVIOUS
  <2>1. /\ ledger = <<"other">> /\ ui = View!NewMission /\ saved = View!NewMission
        /\ calls = {} /\ replies = {}
    BY Zenon DEF View!Init
  <2>2. /\ View!NewMission \in Views /\ View!NewMission.last = 1
        /\ View!NewMission.status = "idle"
    BY Zenon DEF View!NewMission, Views
  <2>3. ledger \in Seq(Kinds) /\ Len(ledger) = 1 /\ ledger[1] = "other" /\ 1 \in 1 .. Len(ledger)
    BY <2>1 DEF Kinds
  <2>4. StatusOf(ledger, 0) = "idle"
        /\ StatusOf(ledger, 1) = View!Projected(StatusOf(ledger, 1 - 1), ledger[1])
    BY <2>3, EventsReplayed, Zenon DEF ReplaysByEvents
  <2>5. StatusOf(ledger, 1) = "idle"
    BY <2>3, <2>4 DEF View!Projected
  <2>6. Sees(ledger, View!NewMission)
    BY <2>2, <2>3, <2>5 DEF Sees, Good
  <2>7. QED
    BY <2>1, <2>3, <2>6, Zenon DEF ViewInv, PageInv
<1>2. ViewInv /\ [View!Next]_(View!vars) => ViewInv'
  <2> SUFFICES ASSUME ViewInv, [View!Next]_(View!vars) PROVE ViewInv'
    BY Zenon
  <2>1. [View!Next]_page
    BY Zenon DEF page, View!vars
  <2>2. CASE disturbed
    BY <2>1, <2>2, StaysDisturbed, Zenon DEF ViewInv
  <2>3. CASE PageInv /\ ~disturbed'
    <3>1. ProjectsReplies
      BY <2>3, RepliesProjected, Zenon DEF PageInv
    <3>2. QED
      BY <2>1, <2>3, <3>1, EventsReplayed, PageStep, Zenon DEF ViewInv
  <2>4. QED
    BY <2>2, <2>3, Zenon DEF ViewInv
<1>3. ViewInv => ViewIsProjection
  <2>1. ASSUME NEW n PROVE View!StatusAt(n) = StatusOf(ledger, n)
    BY Zenon DEF View!StatusAt, StatusOf
  <2>2. ASSUME NEW n PROVE View!RecoveryRequired(n) = ActiveOf(ledger, n)
    BY Zenon DEF View!RecoveryRequired, ActiveOf
  <2>3. PageInv => ui.gap = FALSE /\ Good(ledger, ui.last, ui.status)
    BY Zenon DEF PageInv, Sees, Views
  <2>4. QED
    BY <2>1, <2>2, <2>3, Zenon DEF Good, ViewInv, ViewIsProjection, View!ViewIsProjection
<1>4. QED
  BY <1>1, <1>2, <1>3, PTL DEF View!Spec
=============================================================================
