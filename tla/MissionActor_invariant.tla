---------------------- MODULE MissionActor_invariant ------------------------
(***************************************************************************)
(* Proofs about MissionActor, for every set of approval ids, digests and   *)
(* authorities and every bound on the ledger.                              *)
(*                                                                         *)
(* First, what a replay makes of one more event and what a step can be:    *)
(* every step of the actor makes one append on behalf of a call, or leaves *)
(* ledger and memory alone, or is a crash or a restart (lemma NextCases),  *)
(* and what a call has still to append is always legal work.  Then the     *)
(* inductive invariant IInv: an append preserves it because of that work   *)
(* (LegalWork), a restart because memory and ledger agree                  *)
(* (MemoryMatchesLedger).  Last, what the ledger itself says of approvals: *)
(* each property is preserved by the one append a step makes.              *)
(***************************************************************************)
EXTENDS MissionActor, TLAPS, SequenceTheorems, FiniteSetTheorems

\* What an event that is about to be appended says of its approval, given
\* the approvals the actor holds.
Legal(e) ==
    /\ e.kind = "approval_requested" /\ e.id # NoId => e.approval.state = "Pending"
    /\ e.kind \in ApprovalKinds \ {"approval_requested"} =>
           /\ e.id \in ApprovalIds
           /\ approvals[e.id] # NoApproval
           /\ e.approval.revision = approvals[e.id].revision + 1
           /\ e.approval.subject = approvals[e.id].subject
           /\ e.approval.expires_at = approvals[e.id].expires_at
           /\ Follows(approvals[e.id].state, e.approval.state)
    /\ e.kind = "approval_resolved" => e.approval.state \in {"Approved", "Denied"}
    /\ e.kind = "approval_revoked" => e.approval.state = "Revoked"
    /\ e.kind = "approval_consumed" => e.approval.state = "Consumed"

\* What a call has still to append: legal events, each of a different
\* approval, and the revocation of every live approval before loadout_changed.
LegalWork(events) ==
    /\ \A i \in DOMAIN events : Legal(events[i])
    /\ \A i, j \in DOMAIN events :
           events[i].id # NoId /\ events[i].id = events[j].id => i = j
    /\ \A i \in DOMAIN events : events[i].kind = "loadout_changed" =>
           /\ \A id \in ApprovalIds : Live(id) =>
                  \E j \in DOMAIN events : j < i /\ events[j].id = id
           /\ \A j \in DOMAIN events : j < i /\ events[j].id # NoId =>
                  events[j].approval.state = "Revoked"

\* After position i the approval id is requested.
Requested(l, i, id) ==
    \E k \in DOMAIN l : i < k /\ l[k].kind = "approval_requested" /\ l[k].id = id

\* After position i the approval id is requested and then resolved.
RequestedAndResolved(l, i, id) ==
    \E k, m \in DOMAIN l :
        /\ i < k /\ k < m
        /\ l[k].kind = "approval_requested" /\ l[k].id = id
        /\ l[m].kind = "approval_resolved" /\ l[m].id = id

\* A consumed approval is pending again only after a new request, and
\* granted again only after a new request and a new resolution.
Reissued ==
    \A i \in DOMAIN ledger : ledger[i].kind = "approval_consumed" =>
        LET id    == ledger[i].id
            state == ReplayApproval(ledger, id).state
        IN  /\ state = "Pending" => Requested(ledger, i, id)
            /\ state = "Approved" => RequestedAndResolved(ledger, i, id)

\* The inductive invariant of the append discipline.
IInv == TypeOK /\ MemoryMatchesLedger /\ (status # "up" => work = <<>>) /\ LegalWork(work)

-----------------------------------------------------------------------------
(***************************************************************************)
(* Replay.                                                                 *)
(***************************************************************************)

\* A nonempty set of positions has a latest one: the replays, which take the
\* last event that matters, are well defined.
LEMMA LatestIsLast ==
    ASSUME NEW n \in Nat, NEW S \in SUBSET (1 .. n), S # {}
    PROVE  Latest(S) \in S /\ \A j \in S : j <= Latest(S)
<1> DEFINE T == {k \in 0 .. n : n - k \in S}
<1>1. T \subseteq Nat /\ T # {}
  <2>1. PICK i \in S : TRUE
    BY Zenon
  <2>2. n - i \in T
    BY <2>1
  <2>3. T \subseteq Nat
    OBVIOUS
  <2> HIDE DEF T
  <2> QED BY <2>2, <2>3, Zenon
<1>2. PICK x \in T : \A y \in T : ~(<<y, x>> \in OpToRel(<, Nat))
  <2> HIDE DEF T
  <2> QED BY <1>1, NatLessThanWellFounded, WFMin, Zenon
<1>3. \A y \in T : x <= y
  <2> TAKE y \in T
  <2>1. ~(y < x)
    BY <1>1, <1>2, Zenon DEF OpToRel
  <2> QED BY <1>1, <2>1
<1>4. n - x \in S
  BY Zenon
<1>5. \A j \in S : j <= n - x
  <2> TAKE j \in S
  <2>1. n - j \in T
    OBVIOUS
  <2>2. x <= n - j
    BY <1>3, <2>1, Zenon
  <2>3. x \in Nat /\ j \in Nat
    OBVIOUS
  <2> QED BY <2>2, <2>3
<1> QED BY <1>4, <1>5, Zenon DEF Latest

\* An appended event that matters is the latest one.
LEMMA LatestOfNew ==
    ASSUME NEW n \in Nat, NEW S \in SUBSET (1 .. n)
    PROVE  Latest(S \cup {n + 1}) = n + 1
<1>1. S \cup {n + 1} \in SUBSET (1 .. n + 1)
  OBVIOUS
<1>2. /\ Latest(S \cup {n + 1}) \in S \cup {n + 1}
      /\ n + 1 <= Latest(S \cup {n + 1})
  BY <1>1, LatestIsLast
<1>3. Latest(S \cup {n + 1}) \in 1 .. n + 1
  BY <1>1, <1>2, Zenon
<1> QED BY <1>2, <1>3

\* What an append does to the events of a ledger.
LEMMA AppendFacts ==
    ASSUME NEW l \in Seq(Events), NEW e \in Events
    PROVE  /\ Append(l, e) \in Seq(Events)
           /\ Len(Append(l, e)) = Len(l) + 1
           /\ DOMAIN Append(l, e) = 1 .. Len(l) + 1
           /\ DOMAIN l = 1 .. Len(l)
           /\ Len(l) \in Nat
           /\ \A i \in 1 .. Len(l) : Append(l, e)[i] = l[i]
           /\ Append(l, e)[Len(l) + 1] = e
  BY AppendProperties

\* replay_approvals after one more event: the event decides its own approval
\* and no other.
LEMMA ReplayApprovalAppend ==
    ASSUME NEW l \in Seq(Events), NEW e \in Events, NEW id \in ApprovalIds
    PROVE  ReplayApproval(Append(l, e), id) =
               IF e.id = id THEN e.approval ELSE ReplayApproval(l, id)
<1> DEFINE n == Len(l)
           m == Append(l, e)
<1>1. n \in Nat /\ DOMAIN l = 1 .. n /\ DOMAIN m = 1 .. n + 1
  BY AppendFacts, Zenon
<1>2. m[n + 1] = e /\ \A i \in 1 .. n : m[i] = l[i]
  BY AppendFacts, Zenon
<1>3. ApprovalIndices(l, id) \in SUBSET (1 .. n)
  BY <1>1, Zenon DEF ApprovalIndices
<1>4. CASE e.id = id
  <2>1. e.kind \in ApprovalKinds
    BY <1>4, ApprovalIdsFinite, Zenon DEF Events
  <2>2. ApprovalIndices(m, id) = ApprovalIndices(l, id) \cup {n + 1}
    <3> HIDE DEF m, n
    <3> QED BY <1>1, <1>2, <1>4, <2>1 DEF ApprovalIndices
  <2>3. Latest(ApprovalIndices(m, id)) = n + 1
    BY <1>1, <1>3, <2>2, LatestOfNew, Zenon
  <2> HIDE DEF m, n
  <2>4. ReplayApproval(m, id) = m[n + 1].approval
    BY <2>2, <2>3, Zenon DEF ReplayApproval
  <2> QED BY <1>2, <1>4, <2>4, Zenon DEF m
<1>5. CASE e.id # id
  <2>1. ApprovalIndices(m, id) = ApprovalIndices(l, id)
    <3> HIDE DEF m, n
    <3> QED BY <1>1, <1>2, <1>5 DEF ApprovalIndices
  <2>2. CASE ApprovalIndices(l, id) = {}
    BY <1>5, <2>1, <2>2, Zenon DEF ReplayApproval
  <2>3. CASE ApprovalIndices(l, id) # {}
    <3>1. Latest(ApprovalIndices(l, id)) \in 1 .. n
      BY <1>1, <1>3, <2>3, LatestIsLast, Zenon
    <3>2. m[Latest(ApprovalIndices(l, id))] = l[Latest(ApprovalIndices(l, id))]
      BY <1>2, <3>1, Zenon
    <3> HIDE DEF m, n
    <3>3. ReplayApproval(m, id) = ReplayApproval(l, id)
      BY <2>1, <2>3, <3>2, Zenon DEF ReplayApproval
    <3> QED BY <1>5, <3>3, Zenon DEF m
  <2> QED BY <2>2, <2>3, Zenon
<1> QED BY <1>4, <1>5, Zenon

\* recovery_required after one more event.
LEMMA RecoveryAppend ==
    ASSUME NEW l \in Seq(Events), NEW e \in Events
    PROVE  RecoveryRequired(Append(l, e)) <=>
               IF e.kind \in RecoveryKinds THEN e.kind = "agent_run_started"
               ELSE RecoveryRequired(l)
<1> DEFINE n == Len(l)
           m == Append(l, e)
<1>1. n \in Nat /\ DOMAIN l = 1 .. n /\ DOMAIN m = 1 .. n + 1
  BY AppendFacts, Zenon
<1>2. m[n + 1] = e /\ \A i \in 1 .. n : m[i] = l[i]
  BY AppendFacts, Zenon
<1>3. RecoveryIndices(l) \in SUBSET (1 .. n)
  BY <1>1, Zenon DEF RecoveryIndices
<1>4. CASE e.kind \in RecoveryKinds
  <2>1. RecoveryIndices(m) = RecoveryIndices(l) \cup {n + 1}
    <3> HIDE DEF m, n
    <3> QED BY <1>1, <1>2, <1>4 DEF RecoveryIndices
  <2>2. Latest(RecoveryIndices(m)) = n + 1
    BY <1>1, <1>3, <2>1, LatestOfNew, Zenon
  <2> HIDE DEF m, n
  <2>3. RecoveryRequired(m) <=> m[n + 1].kind = "agent_run_started"
    BY <2>1, <2>2, Zenon DEF RecoveryRequired
  <2> QED BY <1>2, <1>4, <2>3, Zenon DEF m
<1>5. CASE e.kind \notin RecoveryKinds
  <2>1. RecoveryIndices(m) = RecoveryIndices(l)
    <3> HIDE DEF m, n
    <3> QED BY <1>1, <1>2, <1>5 DEF RecoveryIndices
  <2>2. CASE RecoveryIndices(l) = {}
    BY <1>5, <2>1, <2>2, Zenon DEF RecoveryRequired
  <2>3. CASE RecoveryIndices(l) # {}
    <3>1. Latest(RecoveryIndices(l)) \in 1 .. n
      BY <1>1, <1>3, <2>3, LatestIsLast, Zenon
    <3>2. m[Latest(RecoveryIndices(l))] = l[Latest(RecoveryIndices(l))]
      BY <1>2, <3>1, Zenon
    <3> HIDE DEF m, n
    <3>3. RecoveryRequired(m) <=> RecoveryRequired(l)
      BY <2>1, <2>3, <3>2, Zenon DEF RecoveryRequired
    <3> QED BY <1>5, <3>3, Zenon DEF m
  <2> QED BY <2>2, <2>3, Zenon
<1> QED BY <1>4, <1>5, Zenon

\* Replay yields approvals: what a restart reads back is well typed.
LEMMA ReplayApprovalType ==
    ASSUME NEW l \in Seq(Events)
    PROVE  ReplayApprovals(l) \in [ApprovalIds -> Approvals \cup {NoApproval}]
<1> SUFFICES ASSUME NEW id \in ApprovalIds
             PROVE  ReplayApproval(l, id) \in Approvals \cup {NoApproval}
  BY Zenon DEF ReplayApprovals
<1>1. CASE ApprovalIndices(l, id) = {}
  BY <1>1, Zenon DEF ReplayApproval
<1>2. CASE ApprovalIndices(l, id) # {}
  <2>1. Len(l) \in Nat /\ ApprovalIndices(l, id) \in SUBSET (1 .. Len(l))
    BY DEF ApprovalIndices
  <2>2. Latest(ApprovalIndices(l, id)) \in 1 .. Len(l)
    BY <1>2, <2>1, LatestIsLast, Zenon
  <2>3. l[Latest(ApprovalIndices(l, id))] \in Events
    BY <2>2
  <2> QED BY <1>2, <2>3, Zenon DEF ReplayApproval, Events
<1> QED BY <1>1, <1>2, Zenon

-----------------------------------------------------------------------------
(***************************************************************************)
(* What the handlers append is legal.                                      *)
(***************************************************************************)
PlainKinds == Kinds \ (ApprovalKinds \cup {"loadout_changed"})

\* The events of these kinds that carry no approval.
PlainEvents == {e \in Events : e.kind \in PlainKinds /\ e.id = NoId}

\* Events that name no approval are legal work in any number and order.
LEMMA PlainWorkIsLegal ==
    ASSUME NEW events \in Seq(PlainEvents)
    PROVE  events \in Seq(Events) /\ LegalWork(events)
<1>1. \A i \in DOMAIN events : events[i] \in PlainEvents
  OBVIOUS
<1>2. \A i \in DOMAIN events :
          /\ events[i].id = NoId
          /\ events[i].kind \notin ApprovalKinds
          /\ events[i].kind # "loadout_changed"
  BY <1>1, Zenon DEF PlainEvents, PlainKinds
<1>3. \A i \in DOMAIN events : Legal(events[i])
  BY <1>2, Zenon DEF Legal, ApprovalKinds
<1>4. events \in Seq(Events)
  BY DEF PlainEvents
<1> QED BY <1>2, <1>3, <1>4, Zenon DEF LegalWork

\* The event a handler builds from a plain kind is a plain event.
LEMMA PlainEvent ==
    ASSUME NEW kind \in PlainKinds
    PROVE  Event(kind) \in PlainEvents
  BY Zenon DEF Event, PlainEvents, PlainKinds, Events

\* request_safe_pause appends one plain event or, when refused, none.
LEMMA PauseRequestIsPlain == PauseRequest \in Seq(PlainEvents)
<1>1. "pause_requested" \in PlainKinds
  BY Zenon DEF PlainKinds, Kinds, PauseKinds, ApprovalKinds
<1> QED BY <1>1, PlainEvent DEF PauseRequest

\* A handler that appends one approval event has nothing left to append.
LEMMA SingleWorkIsLegal ==
    ASSUME NEW e \in Events, Legal(e), e.kind # "loadout_changed"
    PROVE  <<e>> \in Seq(Events) /\ <<e>> # <<>> /\ LegalWork(<<e>>)
  BY DEF LegalWork

\* The revision of a transition is the next one; subject and deadline stay.
LEMMA TransitionFacts ==
    ASSUME NEW a \in Approvals, NEW state \in ApprovalStates
    PROVE  /\ Transition(a, state) \in Approvals
           /\ Transition(a, state).state = state
           /\ Transition(a, state).revision = a.revision + 1
           /\ Transition(a, state).subject = a.subject
           /\ Transition(a, state).expires_at = a.expires_at
           /\ Transition(a, state) # NoApproval
<1>1. Transition(a, state) \in Approvals
  <2>1. a.revision + 1 \in Nat
    BY DEF Approvals
  <2> DEFINE b == [a EXCEPT !.state = state]
  <2>2. b \in Approvals
    BY Zenon DEF Approvals
  <2>3. [b EXCEPT !.revision = a.revision + 1] \in Approvals
    <3> HIDE DEF b
    <3> QED BY <2>1, <2>2, Zenon DEF Approvals
  <2> QED BY <2>3, Zenon DEF Transition
<1>2. /\ Transition(a, state).state = state
      /\ Transition(a, state).revision = a.revision + 1
      /\ Transition(a, state).subject = a.subject
      /\ Transition(a, state).expires_at = a.expires_at
  BY Zenon DEF Transition, Approvals
<1>3. NoApproval.state # state
  BY Zenon DEF ApprovalStates, NoApproval
<1> QED BY <1>1, <1>2, <1>3, Zenon

\* An approval event that takes a held approval one legal step further.
LEMMA TransitionIsLegal ==
    ASSUME TypeOK, NEW id \in ApprovalIds, NEW a \in Approvals,
           NEW state \in ApprovalStates, NEW kind \in ApprovalKinds,
           approvals[id] \in Approvals,
           a.revision = approvals[id].revision, a.subject = approvals[id].subject,
           a.expires_at = approvals[id].expires_at,
           Follows(approvals[id].state, state),
           \/ kind = "approval_resolved" /\ state \in {"Approved", "Denied"}
           \/ kind = "approval_revoked" /\ state = "Revoked"
           \/ kind = "approval_consumed" /\ state = "Consumed"
    PROVE  LET e == ApprovalEvent(kind, id, Transition(a, state))
           IN  e \in Events /\ Legal(e) /\ e.kind # "loadout_changed"
<1> DEFINE t == Transition(a, state)
           e == ApprovalEvent(kind, id, t)
<1>1. /\ t \in Approvals
      /\ t.state = state
      /\ t.revision = a.revision + 1
      /\ t.subject = a.subject
      /\ t.expires_at = a.expires_at
      /\ t # NoApproval
  BY TransitionFacts, Zenon
<1> HIDE DEF t
<1>2. e.kind = kind /\ e.id = id /\ e.approval = t
  BY Zenon DEF ApprovalEvent
<1>3. e \in Events
  BY <1>1, ApprovalIdsFinite, Zenon DEF ApprovalEvent, Events, Kinds
<1>4. approvals[id] # NoApproval
  BY DEF Approvals, ApprovalStates, NoApproval
<1> HIDE DEF e
<1>5. Legal(e)
  BY <1>1, <1>2, <1>4, Zenon DEF Legal, ApprovalKinds
<1>6. e.kind # "loadout_changed"
  BY <1>2, Zenon DEF ApprovalKinds
<1> QED BY <1>3, <1>5, <1>6, Zenon DEF e, t

\* A new request is legal whatever approval it replaces.
LEMMA RequestIsLegal ==
    ASSUME NEW id \in ApprovalIds, NEW subject \in Subjects, NEW expires_at \in 0 .. Never
    PROVE  LET e == ApprovalEvent("approval_requested", id, NewApproval(subject, expires_at))
           IN  e \in Events /\ Legal(e) /\ e.kind # "loadout_changed"
<1>1. NewApproval(subject, expires_at) \in Approvals
  BY Zenon DEF NewApproval, Approvals, Scopes, ApprovalStates
<1>2. NewApproval(subject, expires_at).state = "Pending"
  BY Zenon DEF NewApproval
<1>3. NewApproval(subject, expires_at) # NoApproval
  BY <1>2 DEF NoApproval
<1> HIDE DEF NewApproval
<1> QED BY <1>1, <1>2, <1>3, Zenon DEF ApprovalEvent, Events, Legal, Kinds, ApprovalKinds

\* check_loadout_change: the revocations of all live approvals, in whatever
\* order the map is visited, then loadout_changed, then the pause.
LEMMA LoadoutWorkIsLegal ==
    ASSUME TypeOK, NEW order \in Orders({id \in ApprovalIds : Live(id)})
    PROVE  LET events == Revocations(order) \o <<Event("loadout_changed")>> \o PauseRequest
           IN  events \in Seq(Events) /\ events # <<>> /\ LegalWork(events)
<1> DEFINE S == {id \in ApprovalIds : Live(id)}
           n == Cardinality(S)
           r == Revocations(order)
           L == Event("loadout_changed")
           h == r \o <<L>>
           events == h \o PauseRequest
<1>1. n \in Nat
  BY ApprovalIdsFinite, FS_Subset, FS_CardinalityType, Zenon
<1>2. /\ order \in [1 .. n -> S]
      /\ \A x \in S : \E i \in 1 .. n : order[i] = x
      /\ \A i, j \in 1 .. n : order[i] = order[j] => i = j
  BY Zenon DEF Orders
<1> HIDE DEF n
<1>3. \A i \in 1 .. n : order[i] \in ApprovalIds /\ Live(order[i])
  BY <1>2, Zenon
<1>4. \A i \in 1 .. n : approvals[order[i]] \in Approvals
  BY <1>3 DEF TypeOK, Live, NoApproval
<1>5. r = [i \in 1 .. n |-> ApprovalEvent("approval_revoked", order[i],
                                Transition(approvals[order[i]], "Revoked"))]
  BY <1>2, Zenon DEF Revocations
<1>6. \A i \in 1 .. n :
          /\ r[i] \in Events /\ Legal(r[i]) /\ r[i].kind = "approval_revoked"
          /\ r[i].id = order[i] /\ r[i].approval.state = "Revoked"
  <2> TAKE i \in 1 .. n
  <2>1. "Revoked" \in ApprovalStates /\ "approval_revoked" \in ApprovalKinds
    BY Zenon DEF ApprovalStates, ApprovalKinds
  <2>2. Follows(approvals[order[i]].state, "Revoked")
    BY <1>3, Zenon DEF Live, Follows
  <2>3. r[i] \in Events /\ Legal(r[i])
    BY <1>3, <1>4, <1>5, <2>1, <2>2, TransitionIsLegal
  <2>4. r[i].id = order[i] /\ r[i].kind = "approval_revoked"
        /\ r[i].approval = Transition(approvals[order[i]], "Revoked")
    BY <1>5 DEF ApprovalEvent
  <2>5. r[i].approval.state = "Revoked"
    BY <1>4, <2>1, <2>4, TransitionFacts
  <2> QED BY <2>3, <2>4, <2>5, Zenon
<1>7. r \in Seq(Events) /\ Len(r) = n
  <2> HIDE DEF r
  <2>1. r \in [1 .. n -> Events]
    BY <1>5, <1>6, Zenon
  <2> QED BY <1>1, <2>1
<1>8. L \in Events /\ L.kind = "loadout_changed" /\ L.id = NoId
  BY Zenon DEF Event, Events, Kinds, ApprovalKinds
<1>9. PauseRequest \in Seq(PlainEvents) /\ PauseRequest \in Seq(Events)
  BY PauseRequestIsPlain, PlainWorkIsLegal, Zenon
<1> HIDE DEF r, L
<1>10. h \in Seq(Events) /\ Len(h) = n + 1 /\ h[n + 1] = L
       /\ \A i \in 1 .. n : h[i] = r[i]
  BY <1>1, <1>7, <1>8
<1> HIDE DEF h
<1>11. /\ events \in Seq(Events)
       /\ Len(events) = n + 1 + Len(PauseRequest)
       /\ \A i \in 1 .. Len(events) :
              events[i] = IF i <= n + 1 THEN h[i] ELSE PauseRequest[i - (n + 1)]
  <2>1. /\ events \in Seq(Events)
        /\ Len(events) = Len(h) + Len(PauseRequest)
        /\ \A i \in 1 .. Len(h) + Len(PauseRequest) :
               events[i] = IF i <= Len(h) THEN h[i] ELSE PauseRequest[i - Len(h)]
    BY <1>9, <1>10, ConcatProperties, Zenon
  <2> HIDE DEF events
  <2> QED BY <1>10, <2>1, Zenon
<1>12. Len(PauseRequest) \in Nat
  BY <1>9
<1> HIDE DEF events
<1>13. DOMAIN events = 1 .. Len(events) /\ Len(events) \in Nat /\ n + 1 <= Len(events)
  BY <1>1, <1>11, <1>12
<1>14. \A i \in 1 .. n : i \in DOMAIN events /\ events[i] = r[i]
  BY <1>1, <1>10, <1>11, <1>13
<1>15. n + 1 \in DOMAIN events /\ events[n + 1] = L
  BY <1>1, <1>10, <1>11, <1>13
<1>16. \A i \in DOMAIN events : i > n + 1 => events[i] \in PlainEvents
  <2> SUFFICES ASSUME NEW i \in DOMAIN events, i > n + 1
               PROVE  events[i] \in PlainEvents
    BY Zenon
  <2>1. events[i] = PauseRequest[i - (n + 1)]
    BY <1>1, <1>11, <1>13
  <2>2. i - (n + 1) \in 1 .. Len(PauseRequest)
    BY <1>1, <1>11, <1>12, <1>13
  <2> QED BY <1>9, <2>1, <2>2
<1>17. \A i \in DOMAIN events : i > n + 1 =>
           /\ Legal(events[i]) /\ events[i].id = NoId
           /\ events[i].kind # "loadout_changed"
  BY <1>16, Zenon DEF PlainEvents, PlainKinds, Legal, ApprovalKinds
<1>18. Legal(L)
  BY <1>8, Zenon DEF Legal, ApprovalKinds
<1>19. \A i \in DOMAIN events : i \in 1 .. n \/ i = n + 1 \/ i > n + 1
  BY <1>1, <1>13
<1>20. \A i \in DOMAIN events : Legal(events[i])
  BY <1>6, <1>14, <1>15, <1>17, <1>18, <1>19
<1>21. \A i \in DOMAIN events : events[i].id # NoId => i \in 1 .. n /\ events[i].id = order[i]
  BY <1>6, <1>8, <1>14, <1>15, <1>17, <1>19
<1>22. \A i \in DOMAIN events : events[i].kind = "loadout_changed" => i = n + 1
  BY <1>6, <1>14, <1>17, <1>19
<1>23. \A i, j \in DOMAIN events :
           events[i].id # NoId /\ events[i].id = events[j].id => i = j
  BY <1>2, <1>21
<1>24. \A id \in ApprovalIds : Live(id) =>
           \E j \in DOMAIN events : j < n + 1 /\ events[j].id = id
  <2> SUFFICES ASSUME NEW id \in ApprovalIds, Live(id)
               PROVE  \E j \in DOMAIN events : j < n + 1 /\ events[j].id = id
    BY Zenon
  <2>1. PICK j \in 1 .. n : order[j] = id
    BY <1>2, Zenon
  <2> QED BY <1>1, <1>6, <1>14, <2>1
<1>25. \A j \in DOMAIN events : j < n + 1 /\ events[j].id # NoId =>
           events[j].approval.state = "Revoked"
  BY <1>6, <1>14, <1>21, Zenon
<1>26. LegalWork(events)
  BY <1>20, <1>22, <1>23, <1>24, <1>25 DEF LegalWork
<1>27. events # <<>>
  BY <1>1, <1>13
<1> QED BY <1>11, <1>26, <1>27, Zenon DEF events, h, r, L

-----------------------------------------------------------------------------
(***************************************************************************)
(* The shape of a step.                                                    *)
(***************************************************************************)

\* A live actor makes one append of legal work.
Makes ==
    /\ status = "up" /\ UNCHANGED status
    /\ \E events \in Seq(Events) :
           events # <<>> /\ LegalWork(events) /\ Call(events)

\* Ledger and memory stay as they are.
Quiet ==
    /\ UNCHANGED <<ledger, work, sequence, pause, token_counter, approvals,
                   requires_recovery>>
    /\ status' = status \/ (status # "up" /\ status' = "failed")

\* The handlers that append plain events only make legal appends.
LEMMA PlainHandler ==
    ASSUME NEW events \in Seq(PlainEvents), events # <<>>, Idle, Call(events)
    PROVE  Makes
<1>1. events \in Seq(Events) /\ LegalWork(events)
  BY PlainWorkIsLegal, Zenon
<1> QED BY <1>1, Zenon DEF Makes, Idle, Call

\* So do the handlers that append one legal event of an approval.
LEMMA SingleHandler ==
    ASSUME NEW e \in Events, Legal(e), e.kind # "loadout_changed", Idle, Call(<<e>>)
    PROVE  Makes
<1>1. <<e>> \in Seq(Events) /\ <<e>> # <<>> /\ LegalWork(<<e>>)
  BY SingleWorkIsLegal, Zenon
<1> QED BY <1>1, Zenon DEF Makes, Idle, Call

\* A handler that ends or begins with request_safe_pause appends plain events
\* if the others are plain.
LEMMA PausePlain ==
    /\ PauseRequest \in Seq(PlainEvents)
    /\ pause = "Running" => PauseRequest # <<>>
    /\ \A s \in Seq(PlainEvents) :
           /\ s \o PauseRequest \in Seq(PlainEvents)
           /\ PauseRequest \o s \in Seq(PlainEvents)
           /\ s # <<>> => s \o PauseRequest # <<>> /\ PauseRequest \o s # <<>>
<1>1. PauseRequest \in Seq(PlainEvents)
  BY PauseRequestIsPlain, Zenon
<1>2. pause = "Running" => PauseRequest # <<>>
  BY Zenon DEF PauseRequest
<1>3. ASSUME NEW s \in Seq(PlainEvents)
      PROVE  /\ s \o PauseRequest \in Seq(PlainEvents)
             /\ PauseRequest \o s \in Seq(PlainEvents)
             /\ s # <<>> => s \o PauseRequest # <<>> /\ PauseRequest \o s # <<>>
  BY <1>1, <1>3, ConcatProperties, ConcatEqualIffEmpty
<1> QED BY <1>1, <1>2, <1>3, Zenon

\* One plain event is a sequence of plain events.
LEMMA PlainOne ==
    ASSUME NEW kind \in PlainKinds
    PROVE  <<Event(kind)>> \in Seq(PlainEvents) /\ <<Event(kind)>> # <<>>
  BY PlainEvent

\* The kinds of the pause, budget, agent and recovery handlers are plain.
LEMMA PlainNames ==
    /\ "pause_requested" \in PlainKinds /\ "pause_acknowledged" \in PlainKinds
    /\ "pause_timed_out" \in PlainKinds /\ "force_terminated" \in PlainKinds
    /\ "audit" \in PlainKinds /\ AgentKinds \subseteq PlainKinds
    /\ "recovery_continued" \in PlainKinds /\ "recovery_abandoned" \in PlainKinds
  BY Zenon DEF PlainKinds, Kinds, PauseKinds, RunKinds, ApprovalKinds, AgentKinds

\* An approval the actor holds in some state of its life cycle.
LEMMA HeldApproval ==
    ASSUME TypeOK, NEW id \in ApprovalIds, approvals[id].state \in ApprovalStates
    PROVE  approvals[id] \in Approvals
  BY DEF TypeOK, NoApproval, ApprovalStates

\* The handlers that take an approval they hold one step further.
LEMMA TransitionHandler ==
    ASSUME TypeOK, Idle, NEW id \in ApprovalIds,
           NEW a \in Approvals, NEW state, NEW kind,
           approvals[id] \in Approvals,
           a.revision = approvals[id].revision, a.subject = approvals[id].subject,
           a.expires_at = approvals[id].expires_at,
           Follows(approvals[id].state, state),
           \/ kind = "approval_resolved" /\ state \in {"Approved", "Denied"}
           \/ kind = "approval_revoked" /\ state = "Revoked"
           \/ kind = "approval_consumed" /\ state = "Consumed",
           Call(<<ApprovalEvent(kind, id, Transition(a, state))>>)
    PROVE  Makes
<1>1. state \in ApprovalStates /\ kind \in ApprovalKinds
  BY Zenon DEF ApprovalStates, ApprovalKinds
<1> DEFINE e == ApprovalEvent(kind, id, Transition(a, state))
<1>2. e \in Events /\ Legal(e) /\ e.kind # "loadout_changed"
  BY <1>1, TransitionIsLegal, Zenon
<1>3. Call(<<e>>)
  BY Zenon
<1> HIDE DEF e
<1> QED BY <1>2, <1>3, SingleHandler, Zenon

\* Every step makes one append of legal work, leaves ledger and memory alone,
\* or is a crash or a restart.
LEMMA NextCases ==
    ASSUME IInv, Next
    PROVE  Makes \/ Quiet \/ Crash \/ Restart
<1> USE DEF IInv
<1>1. CASE Continue
  <2>1. work \in Seq(Events) /\ work # <<>> /\ LegalWork(work) /\ Call(work)
    BY <1>1, Zenon DEF Continue, TypeOK
  <2> QED BY <1>1, <2>1, Zenon DEF Continue, Makes, Call
<1>2. CASE RequestSafePause
  BY <1>2, PausePlain, PlainHandler DEF RequestSafePause, Handler
<1>3. CASE AcknowledgePause
  BY <1>3, PlainNames, PlainOne, PlainHandler, Zenon DEF AcknowledgePause, Handler
<1>4. CASE PauseTimeout
  BY <1>4, PlainNames, PlainOne, PlainHandler, Zenon DEF PauseTimeout, Handler
<1>5. CASE RequestForceTermination
  <2> DEFINE events == PauseRequest \o <<Event("pause_timed_out")>>
  <2>1. events \in Seq(PlainEvents) /\ events # <<>>
    BY PlainNames, PlainOne, PausePlain, Zenon
  <2>2. Idle /\ Call(events)
    BY <1>5, Zenon DEF RequestForceTermination, Handler
  <2> HIDE DEF events
  <2> QED BY <2>1, <2>2, PlainHandler, Zenon
<1>6. ASSUME NEW token \in 0 .. 1, NEW killed \in BOOLEAN, ForceTerminate(token, killed)
      PROVE  Makes
  <2> DEFINE kind == IF killed THEN "force_terminated" ELSE "audit"
  <2>1. kind \in PlainKinds
    BY PlainNames, Zenon
  <2>2. Idle /\ Call(<<Event(kind)>>)
    BY <1>6, Zenon DEF ForceTerminate, Handler
  <2> HIDE DEF kind
  <2> QED BY <2>1, <2>2, PlainOne, PlainHandler, Zenon
<1>7. ASSUME NEW connected \in BOOLEAN, SetUiConnected(connected)
      PROVE  Makes \/ Quiet
  <2>1. CASE connected \/ pause # "Running"
    BY <1>7, <2>1, Zenon DEF SetUiConnected, Quiet
  <2>2. CASE ~(connected \/ pause # "Running")
    <3>1. Idle /\ Call(PauseRequest)
      BY <1>7, <2>2, Zenon DEF SetUiConnected
    <3> QED BY <2>2, <3>1, PausePlain, PlainHandler, Zenon
  <2> QED BY <2>1, <2>2, Zenon
<1>8. ASSUME NEW id \in ApprovalIds, NEW subject \in Subjects, NEW expires_at \in 0 .. Never,
             Handler(<<ApprovalEvent("approval_requested", id, NewApproval(subject, expires_at))>>)
      PROVE  Makes
  <2> DEFINE e == ApprovalEvent("approval_requested", id, NewApproval(subject, expires_at))
  <2>1. e \in Events /\ Legal(e) /\ e.kind # "loadout_changed"
    BY RequestIsLegal, Zenon
  <2>2. Idle /\ Call(<<e>>)
    BY <1>8, Zenon DEF Handler
  <2> HIDE DEF e
  <2> QED BY <2>1, <2>2, SingleHandler, Zenon
<1>9. ASSUME NEW id \in ApprovalIds, NEW subject \in Subjects, NEW expires_at \in Deadlines,
             GateRequiresApproval(id, subject, expires_at)
      PROVE  Makes
  <2>1. expires_at \in 0 .. Never
    BY NeverIsLate
  <2> QED BY <1>8, <1>9, <2>1, Zenon DEF GateRequiresApproval
<1>10. CASE GateDenies
  BY <1>10, PausePlain, PlainHandler DEF GateDenies, Handler
<1>11. ASSUME NEW id \in ApprovalIds, NEW actor, NEW revision, NEW subject, NEW now,
              NEW scope \in Scopes, Approve(id, actor, revision, subject, now, scope)
       PROVE  Makes
  <2> DEFINE a == [approvals[id] EXCEPT !.scope = scope]
  <2>1. approvals[id].state = "Pending" /\ approvals[id] \in Approvals
    BY <1>11, HeldApproval, Zenon DEF Approve, Resolvable, ApprovalStates
  <2>2. /\ a \in Approvals
        /\ a.revision = approvals[id].revision
        /\ a.subject = approvals[id].subject
        /\ a.expires_at = approvals[id].expires_at
    BY <2>1, Zenon DEF Approvals
  <2>3. Idle /\ Call(<<ApprovalEvent("approval_resolved", id, Transition(a, "Approved"))>>)
    BY <1>11, Zenon DEF Approve, Handler
  <2>4. Follows(approvals[id].state, "Approved")
    BY <2>1, Zenon DEF Follows
  <2> HIDE DEF a
  <2> QED BY <2>1, <2>2, <2>3, <2>4, TransitionHandler
<1>12. ASSUME NEW id \in ApprovalIds, NEW actor, NEW revision, NEW subject, NEW now,
              Deny(id, actor, revision, subject, now)
       PROVE  Makes
  <2>1. approvals[id].state = "Pending" /\ approvals[id] \in Approvals
    BY <1>12, HeldApproval, Zenon DEF Deny, Resolvable, ApprovalStates
  <2>2. Idle /\ Call(<<ApprovalEvent("approval_resolved", id,
                                     Transition(approvals[id], "Denied"))>>)
    BY <1>12, Zenon DEF Deny, Handler
  <2>3. Follows(approvals[id].state, "Denied")
    BY <2>1, Zenon DEF Follows
  <2> QED BY <2>1, <2>2, <2>3, TransitionHandler
<1>13. ASSUME NEW id \in ApprovalIds, NEW actor, NEW revision, Revoke(id, actor, revision)
       PROVE  Makes
  <2>1. Live(id) /\ approvals[id] \in Approvals
    BY <1>13, HeldApproval, Zenon DEF Revoke, Live, ApprovalStates
  <2>2. Idle /\ Call(<<ApprovalEvent("approval_revoked", id,
                                     Transition(approvals[id], "Revoked"))>>)
    BY <1>13, Zenon DEF Revoke, Handler
  <2>3. Follows(approvals[id].state, "Revoked")
    BY <2>1, Zenon DEF Follows, Live
  <2> QED BY <2>1, <2>2, <2>3, TransitionHandler
<1>14. ASSUME NEW id \in ApprovalIds, NEW subject, NEW now, AuthorizeOnce(id, subject, now)
       PROVE  Makes
  <2>1. approvals[id].state = "Approved" /\ approvals[id] \in Approvals
    BY <1>14, HeldApproval, Zenon DEF AuthorizeOnce, Authorizes, ApprovalStates
  <2>2. Idle /\ Call(<<ApprovalEvent("approval_consumed", id,
                                     Transition(approvals[id], "Consumed"))>>)
    BY <1>14, Zenon DEF AuthorizeOnce
  <2>3. Follows(approvals[id].state, "Consumed")
    BY <2>1, Zenon DEF Follows
  <2> QED BY <2>1, <2>2, <2>3, TransitionHandler
<1>15. ASSUME NEW id, NEW subject, NEW now, AuthorizeByClass(id, subject, now)
       PROVE  Quiet
  BY <1>15, Zenon DEF AuthorizeByClass, Quiet
<1>16. CASE CheckLoadoutChange
  <2>1. PICK order \in Orders({id \in ApprovalIds : Live(id)}) :
            Handler(Revocations(order) \o <<Event("loadout_changed")>> \o PauseRequest)
    BY <1>16, Zenon DEF CheckLoadoutChange
  <2> DEFINE events == Revocations(order) \o <<Event("loadout_changed")>> \o PauseRequest
  <2>2. events \in Seq(Events) /\ events # <<>> /\ LegalWork(events)
    BY LoadoutWorkIsLegal, Zenon
  <2>3. Idle /\ Call(events)
    BY <2>1, Zenon DEF Handler
  <2> HIDE DEF events
  <2> QED BY <2>2, <2>3, Zenon DEF Makes, Idle, Call
<1>17. ASSUME NEW count \in 1 .. 2, NEW exceeded \in BOOLEAN,
              ApplyBudgetSignals(count, exceeded)
       PROVE  Makes
  <2> DEFINE s == [i \in 1 .. count |-> Event("audit")]
             p == IF exceeded THEN PauseRequest ELSE <<>>
  <2>1. s \in Seq(PlainEvents) /\ s # <<>>
    <3>1. Event("audit") \in PlainEvents
      BY PlainNames, PlainEvent, Zenon
    <3>2. s \in [1 .. count -> PlainEvents]
      BY <3>1, Zenon
    <3>3. Len(s) = count
      OBVIOUS
    <3> QED BY <3>2, <3>3
  <2>2. Idle /\ Call(s \o p)
    BY <1>17, Zenon DEF ApplyBudgetSignals, Handler
  <2> HIDE DEF s
  <2>3. s \o p \in Seq(PlainEvents) /\ s \o p # <<>>
    <3>1. CASE exceeded
      BY <2>1, <3>1, PausePlain, Zenon
    <3>2. CASE ~exceeded
      BY <2>1, <3>2, ConcatEmptySeq, Zenon
    <3> QED BY <3>1, <3>2, Zenon
  <2> HIDE DEF p
  <2> QED BY <2>2, <2>3, PlainHandler, Zenon
<1>18. CASE CheckFlightIdentity
  <2>1. <<Event("audit")>> \o PauseRequest \in Seq(PlainEvents)
        /\ <<Event("audit")>> \o PauseRequest # <<>>
    BY PlainNames, PlainOne, PausePlain, Zenon
  <2>2. Idle /\ Call(<<Event("audit")>> \o PauseRequest)
    BY <1>18, Zenon DEF CheckFlightIdentity, Handler
  <2> QED BY <2>1, <2>2, PlainHandler, Zenon
<1>19. ASSUME NEW kind \in AgentKinds, RecordAgentEvent(kind)
       PROVE  Makes
  BY <1>19, PlainNames, PlainOne, PlainHandler, Zenon DEF RecordAgentEvent, Handler
<1>20. ASSUME NEW id \in ApprovalIds \cup {NoId}, NEW subject \in Subjects,
              RecordAgentApproval(id, subject)
       PROVE  Makes
  <2>1. CASE id = NoId
    <3> DEFINE e == ApprovalEvent("approval_requested", NoId, NoApproval)
    <3>1. e \in Events /\ Legal(e) /\ e.kind # "loadout_changed"
      BY Zenon DEF ApprovalEvent, Events, Legal, Kinds, ApprovalKinds
    <3>2. Idle /\ Call(<<e>>)
      BY <1>20, <2>1, Zenon DEF RecordAgentApproval, Handler
    <3> HIDE DEF e
    <3> QED BY <3>1, <3>2, SingleHandler
  <2>2. CASE id # NoId
    <3>1. id \in ApprovalIds /\ Never \in 0 .. Never
      BY <2>2, NeverIsLate
    <3>2. Handler(<<ApprovalEvent("approval_requested", id, NewApproval(subject, Never))>>)
      BY <1>20, <2>2 DEF RecordAgentApproval
    <3> QED BY <1>8, <3>1, <3>2
  <2> QED BY <2>1, <2>2, Zenon
<1>21. CASE RecordEvent
  BY <1>21, PlainNames, PlainOne, PlainHandler, Zenon DEF RecordEvent, Handler
<1>22. ASSUME NEW decision \in {"recovery_continued", "recovery_abandoned"},
              ResolveRecovery(decision)
       PROVE  Makes
  BY <1>22, PlainNames, PlainOne, PlainHandler, Zenon DEF ResolveRecovery, Handler
<1>23. CASE RestoreFails
  BY <1>23, Zenon DEF RestoreFails, Quiet
<1> QED BY <1>1, <1>2, <1>3, <1>4, <1>5, <1>6, <1>7, <1>9, <1>10, <1>11, <1>12,
           <1>13, <1>14, <1>15, <1>16, <1>17, <1>18, <1>19, <1>20, <1>21, <1>22,
           <1>23, Zenon DEF Next

-----------------------------------------------------------------------------
(***************************************************************************)
(* The inductive invariant.                                                *)
(***************************************************************************)

\* The event e has been appended, legally.
Appended(e) ==
    /\ e \in Events
    /\ Legal(e)
    /\ e.kind = "loadout_changed" => \A id \in ApprovalIds : ~Live(id)
    /\ ledger' = Append(ledger, e)

\* What is left to append is legal after a step that makes it a legal sequence.
LEMMA WorkBecomes ==
    ASSUME NEW events, LegalWork(events)', work' = events
    PROVE  LegalWork(work)'
<1>1. \A i \in DOMAIN events : Legal(events[i])'
  BY Zenon DEF LegalWork
<1>2. ASSUME NEW i \in DOMAIN work'
      PROVE  Legal(work[i])'
  BY <1>1, Zenon DEF Legal
<1> QED BY <1>2 DEF LegalWork, Live

\* A step that changes neither the work nor the approvals leaves it legal.
LEMMA WorkStays ==
    ASSUME LegalWork(work), work' = work, approvals' = approvals
    PROVE  LegalWork(work)'
<1>1. ASSUME NEW i \in DOMAIN work
      PROVE  Legal(work[i])'
  BY DEF LegalWork, Legal
<1> QED BY <1>1 DEF LegalWork, Live

\* A refused append leaves the ledger, a successful one adds one legal event.
LEMMA MakesAppends ==
    ASSUME TypeOK, Makes
    PROVE  (UNCHANGED ledger) \/ \E e \in Events : Appended(e)
<1>1. PICK events \in Seq(Events) : events # <<>> /\ LegalWork(events) /\ Call(events)
  BY Zenon DEF Makes
<1>2. CASE Refuse
  BY <1>2, Zenon DEF Refuse
<1>3. CASE Commit(Head(events))
  <2>1. 1 \in DOMAIN events /\ Head(events) = events[1] /\ events[1] \in Events
    BY <1>1
  <2>2. Legal(events[1])
    BY <1>1, <2>1, Zenon DEF LegalWork
  <2>3. events[1].kind = "loadout_changed" => \A id \in ApprovalIds : ~Live(id)
    <3> SUFFICES ASSUME events[1].kind = "loadout_changed",
                        NEW id \in ApprovalIds, Live(id)
                 PROVE  FALSE
      BY Zenon
    <3>1. PICK j \in DOMAIN events : j < 1
      BY <1>1, <2>1, Zenon DEF LegalWork
    <3> QED BY <3>1
  <2>4. ledger' = Append(ledger, events[1])
    BY <1>3, <2>1, Zenon DEF Commit
  <2> QED BY <2>1, <2>2, <2>3, <2>4 DEF Appended
<1> QED BY <1>1, <1>2, <1>3 DEF Call

\* What is left of legal work after its first event has been applied.
LEMMA RestIsLegal ==
    ASSUME TypeOK, NEW events \in Seq(Events), events # <<>>, LegalWork(events),
           approvals' = ApprovalsAfter(Head(events))
    PROVE  Tail(events) \in Seq(Events) /\ LegalWork(Tail(events))'
<1> DEFINE rest == Tail(events)
           e == Head(events)
<1>1. /\ rest \in Seq(Events)
      /\ e = events[1] /\ e \in Events /\ 1 \in DOMAIN events
      /\ \A i \in DOMAIN rest : i \in Nat /\ i + 1 \in DOMAIN events /\ rest[i] = events[i + 1]
      /\ \A j \in DOMAIN events : j \in Nat /\ (j = 1 \/ (j - 1 \in DOMAIN rest /\ rest[j - 1] = events[j]))
  BY HeadTailProperties
<1> HIDE DEF rest, e
<1>2. /\ \A i \in DOMAIN events : Legal(events[i])
      /\ \A i, j \in DOMAIN events :
             events[i].id # NoId /\ events[i].id = events[j].id => i = j
      /\ \A i \in DOMAIN events : events[i].kind = "loadout_changed" =>
             /\ \A id \in ApprovalIds : Live(id) =>
                    \E j \in DOMAIN events : j < i /\ events[j].id = id
             /\ \A j \in DOMAIN events : j < i /\ events[j].id # NoId =>
                    events[j].approval.state = "Revoked"
  BY Zenon DEF LegalWork
<1>3. \A id \in ApprovalIds : approvals'[id] = IF id = e.id THEN e.approval ELSE approvals[id]
  BY ApprovalIdsFinite, <1>1, Zenon DEF ApprovalsAfter, TypeOK, e
<1>4. \A i \in DOMAIN rest : rest[i].id # NoId => rest[i].id # e.id
  <2> SUFFICES ASSUME NEW i \in DOMAIN rest, rest[i].id # NoId, rest[i].id = e.id
               PROVE  FALSE
    BY Zenon
  <2>1. i + 1 \in DOMAIN events /\ events[i + 1].id # NoId /\ events[i + 1].id = events[1].id
    BY <1>1, Zenon
  <2>2. i + 1 = 1
    BY <1>1, <1>2, <2>1, Zenon
  <2> QED BY <1>1, <2>2
<1>5. ASSUME NEW i \in DOMAIN rest
      PROVE  Legal(rest[i])'
  <2>1. Legal(rest[i])
    BY <1>1, <1>2
  <2>2. rest[i].id \in ApprovalIds => approvals'[rest[i].id] = approvals[rest[i].id]
    BY <1>3, <1>4, ApprovalIdsFinite
  <2> QED BY <2>1, <2>2 DEF Legal
<1>6. ASSUME NEW i \in DOMAIN rest, NEW j \in DOMAIN rest,
             rest[i].id # NoId, rest[i].id = rest[j].id
      PROVE  i = j
  <2>1. /\ i \in Nat /\ i + 1 \in DOMAIN events /\ rest[i] = events[i + 1]
        /\ j \in Nat /\ j + 1 \in DOMAIN events /\ rest[j] = events[j + 1]
    BY <1>1, Zenon
  <2>2. events[i + 1].id # NoId /\ events[i + 1].id = events[j + 1].id
    BY <1>6, <2>1
  <2>3. i + 1 = j + 1
    BY <1>2, <2>1, <2>2
  <2> QED BY <2>1, <2>3
<1>7. ASSUME NEW i \in DOMAIN rest, rest[i].kind = "loadout_changed"
      PROVE  /\ \A id \in ApprovalIds : Live(id)' =>
                     \E j \in DOMAIN rest : j < i /\ rest[j].id = id
             /\ \A j \in DOMAIN rest : j < i /\ rest[j].id # NoId =>
                     rest[j].approval.state = "Revoked"
  <2>1. i + 1 \in DOMAIN events /\ events[i + 1].kind = "loadout_changed" /\ i \in Nat
    BY <1>1, <1>7
  <2>2. ASSUME NEW j \in DOMAIN rest, j < i, rest[j].id # NoId
        PROVE  rest[j].approval.state = "Revoked"
    <3>1. j + 1 \in DOMAIN events /\ rest[j] = events[j + 1] /\ j + 1 < i + 1
      BY <1>1, <2>1, <2>2
    <3> QED BY <1>2, <2>1, <2>2, <3>1
  <2>3. ASSUME NEW id \in ApprovalIds, Live(id)'
        PROVE  \E j \in DOMAIN rest : j < i /\ rest[j].id = id
    <3>1. 1 < i + 1
      BY <1>1, <2>1, <1>7 DEF rest
    <3>2. e.id # id
      <4> SUFFICES ASSUME e.id = id PROVE FALSE
        BY Zenon
      <4>1. e.approval.state = "Revoked"
        BY <1>1, <1>2, <2>1, <3>1, ApprovalIdsFinite
      <4>2. approvals'[id].state = "Revoked"
        BY <1>3, <4>1, Zenon
      <4> QED BY <2>3, <4>2, Zenon DEF Live
    <3>3. Live(id)
      BY <1>3, <2>3, <3>2, Zenon DEF Live
    <3>4. PICK j \in DOMAIN events : j < i + 1 /\ events[j].id = id
      BY <1>2, <2>1, <3>3, Zenon
    <3>5. j # 1 /\ j \in Nat
      BY <1>1, <3>2, <3>4
    <3>6. j - 1 \in DOMAIN rest /\ rest[j - 1].id = id
      BY <1>1, <3>4, <3>5, Zenon
    <3>7. j - 1 < i
      BY <2>1, <3>4, <3>5
    <3> QED BY <3>6, <3>7, Zenon
  <2> QED BY <2>2, <2>3
<1>8. LegalWork(rest)'
  BY <1>5, <1>6, <1>7 DEF LegalWork, Live
<1> QED BY <1>1, <1>8 DEF rest

\* What an append does to memory: it agrees with the ledger again.
LEMMA MakesPreserves ==
    ASSUME IInv, Makes
    PROVE  /\ ledger' \in Seq(Events) /\ work' \in Seq(Events)
           /\ sequence' \in Nat /\ pause' \in PauseStates /\ token_counter' \in Nat
           /\ approvals' \in [ApprovalIds -> Approvals \cup {NoApproval}]
           /\ requires_recovery' \in BOOLEAN
           /\ MemoryMatchesLedger'
           /\ LegalWork(work)'
<1>1. PICK events \in Seq(Events) : events # <<>> /\ LegalWork(events) /\ Call(events)
  BY Zenon DEF Makes
<1> DEFINE e == Head(events)
<1>2. e \in Events
  BY <1>1
<1>3. status = "up" /\ status' = "up"
  BY Zenon DEF Makes
<1>4. /\ ledger \in Seq(Events) /\ sequence \in Nat /\ pause \in PauseStates
      /\ token_counter \in Nat /\ requires_recovery \in BOOLEAN
      /\ approvals \in [ApprovalIds -> Approvals \cup {NoApproval}]
  BY Zenon DEF IInv, TypeOK
<1>5. /\ sequence = Len(ledger)
      /\ approvals = ReplayApprovals(ledger)
      /\ requires_recovery = RecoveryRequired(ledger)
  BY <1>3, Zenon DEF IInv, MemoryMatchesLedger
<1>6. pause' \in PauseStates /\ token_counter' \in Nat
  <2>1. pause' = PauseAfter(e) /\ token_counter' = TokensAfter(e)
    BY <1>1, Zenon DEF Call
  <2>2. PauseAfter(e) \in PauseStates
    BY <1>4, Zenon DEF PauseAfter, PauseStates
  <2>3. TokensAfter(e) \in Nat
    BY <1>4 DEF TokensAfter
  <2> QED BY <2>1, <2>2, <2>3
<1>7. CASE Refuse /\ work' = <<>>
  <2>1. ledger' = ledger /\ sequence' = sequence /\ approvals' = approvals
        /\ requires_recovery' = requires_recovery
    BY <1>7, Zenon DEF Refuse
  <2>2. MemoryMatchesLedger'
    BY <1>5, <2>1 DEF MemoryMatchesLedger
  <2>3. LegalWork(work)'
    BY <1>7 DEF LegalWork
  <2> QED BY <1>4, <1>6, <1>7, <2>1, <2>2, <2>3
<1>8. CASE Commit(e) /\ work' = Tail(events)
  <2>1. /\ ledger' = Append(ledger, e) /\ sequence' = sequence + 1
        /\ approvals' = ApprovalsAfter(e)
        /\ requires_recovery' = RecoveryAfter(e)
    BY <1>8, Zenon DEF Commit
  <2>2. ledger' \in Seq(Events) /\ sequence' \in Nat /\ sequence' = Len(ledger')
    BY <1>2, <1>4, <1>5, <2>1, AppendFacts
  <2>3. approvals' \in [ApprovalIds -> Approvals \cup {NoApproval}]
    BY <1>2, <1>4, <2>1, Zenon DEF ApprovalsAfter, Events
  <2>4. requires_recovery' \in BOOLEAN
    BY <1>4, <2>1, Zenon DEF RecoveryAfter
  <2>5. approvals' = ReplayApprovals(ledger')
    <3>1. \A id \in ApprovalIds :
              approvals'[id] = IF e.id = id THEN e.approval ELSE approvals[id]
      BY <1>4, <2>1, ApprovalIdsFinite, Zenon DEF ApprovalsAfter
    <3>2. \A id \in ApprovalIds : approvals[id] = ReplayApproval(ledger, id)
      BY <1>5, Zenon DEF ReplayApprovals
    <3>3. \A id \in ApprovalIds : approvals'[id] = ReplayApproval(ledger', id)
      BY <1>2, <1>4, <2>1, <3>1, <3>2, ReplayApprovalAppend
    <3> QED BY <2>3, <3>3, Zenon DEF ReplayApprovals
  <2>6. requires_recovery' = RecoveryRequired(ledger')
    <3>1. RecoveryRequired(ledger') <=>
              IF e.kind \in RecoveryKinds THEN e.kind = "agent_run_started"
              ELSE RecoveryRequired(ledger)
      BY <1>2, <1>4, <2>1, RecoveryAppend
    <3>2. requires_recovery' <=> RecoveryRequired(ledger')
      BY <1>5, <2>1, <3>1, Zenon DEF RecoveryAfter
    <3>3. RecoveryRequired(ledger') \in BOOLEAN
      BY Zenon DEF RecoveryRequired
    <3> QED BY <2>4, <3>2, <3>3
  <2>7. MemoryMatchesLedger'
    BY <2>2, <2>5, <2>6 DEF MemoryMatchesLedger
  <2>8. Tail(events) \in Seq(Events) /\ LegalWork(Tail(events))'
    BY <1>1, <2>1, RestIsLegal DEF IInv
  <2>9. LegalWork(work)'
    BY <1>8, <2>8, WorkBecomes
  <2> QED BY <1>6, <1>8, <2>2, <2>3, <2>4, <2>7, <2>8, <2>9
<1> QED BY <1>1, <1>7, <1>8 DEF Call

\* The only steps that let an action through are the two of
\* authorize_approved_action.
Lets ==
    \E id \in ApprovalIds, subject \in Subjects, now \in Times :
        /\ dispatched' = [id |-> id, subject |-> subject, now |-> now]
        /\ \/ ledger' # ledger /\ AuthorizeOnce(id, subject, now)
           \/ AuthorizeByClass(id, subject, now)

\* What any step does to the record of the action let through and to the UI flag.
Dispatches ==
    /\ dispatched' = NoDispatch \/ (UNCHANGED <<ledger, dispatched>>) \/ Lets
    /\ ui_connected' \in BOOLEAN \/ UNCHANGED ui_connected

\* Every action of the actor is one of these.
LEMMA DispatchCases == ASSUME Next PROVE Dispatches
<1>1. ASSUME NEW events, Handler(events)
      PROVE  Dispatches
  BY <1>1, Zenon DEF Handler, Dispatches
<1>2. CASE Continue
  BY <1>2, Zenon DEF Continue, Dispatches
<1>3. ASSUME NEW connected \in BOOLEAN, SetUiConnected(connected)
      PROVE  Dispatches
  BY <1>3, Zenon DEF SetUiConnected, Dispatches
<1>4. ASSUME NEW id \in ApprovalIds, NEW subject \in Subjects, NEW now \in Times,
             AuthorizeOnce(id, subject, now)
      PROVE  Dispatches
  <2>1. /\ dispatched' = IF ledger' = ledger THEN NoDispatch
                         ELSE [id |-> id, subject |-> subject, now |-> now]
        /\ UNCHANGED ui_connected
    BY <1>4, Zenon DEF AuthorizeOnce
  <2> QED BY <1>4, <2>1, Zenon DEF Lets, Dispatches
<1>5. ASSUME NEW id \in ApprovalIds, NEW subject \in Subjects, NEW now \in Times,
             AuthorizeByClass(id, subject, now)
      PROVE  Dispatches
  <2>1. dispatched' = [id |-> id, subject |-> subject, now |-> now] /\ UNCHANGED ui_connected
    BY <1>5, Zenon DEF AuthorizeByClass
  <2> QED BY <1>5, <2>1, Zenon DEF Lets, Dispatches
<1>6. CASE Crash
  BY <1>6, Zenon DEF Crash, Dispatches
<1>7. CASE Restart
  BY <1>7, Zenon DEF Restart, Dispatches
<1>8. CASE RestoreFails
  BY <1>8, Zenon DEF RestoreFails, Dispatches
<1>9. CASE RequestSafePause \/ AcknowledgePause \/ PauseTimeout \/ RequestForceTermination
           \/ GateDenies \/ CheckFlightIdentity \/ RecordEvent
  BY <1>1, <1>9, Zenon DEF RequestSafePause, AcknowledgePause, PauseTimeout,
        RequestForceTermination, GateDenies, CheckFlightIdentity, RecordEvent
<1>10. CASE CheckLoadoutChange
  BY <1>1, <1>10 DEF CheckLoadoutChange
<1>11. ASSUME NEW token, NEW killed, ForceTerminate(token, killed) PROVE Dispatches
  BY <1>1, <1>11, Zenon DEF ForceTerminate
<1>12. ASSUME NEW id, NEW subject, NEW expires_at, GateRequiresApproval(id, subject, expires_at)
       PROVE  Dispatches
  BY <1>1, <1>12 DEF GateRequiresApproval
<1>13. ASSUME NEW id, NEW actor, NEW revision, NEW subject, NEW now, NEW scope,
              Approve(id, actor, revision, subject, now, scope)
       PROVE  Dispatches
  BY <1>1, <1>13 DEF Approve
<1>14. ASSUME NEW id, NEW actor, NEW revision, NEW subject, NEW now,
              Deny(id, actor, revision, subject, now)
       PROVE  Dispatches
  BY <1>1, <1>14 DEF Deny
<1>15. ASSUME NEW id, NEW actor, NEW revision, Revoke(id, actor, revision) PROVE Dispatches
  BY <1>1, <1>15, Zenon DEF Revoke
<1>16. ASSUME NEW count, NEW exceeded, ApplyBudgetSignals(count, exceeded) PROVE Dispatches
  BY <1>1, <1>16, Zenon DEF ApplyBudgetSignals
<1>17. ASSUME NEW kind, RecordAgentEvent(kind) PROVE Dispatches
  BY <1>1, <1>17, Zenon DEF RecordAgentEvent
<1>18. ASSUME NEW id, NEW subject, RecordAgentApproval(id, subject) PROVE Dispatches
  BY <1>1, <1>18, Zenon DEF RecordAgentApproval
<1>19. ASSUME NEW decision, ResolveRecovery(decision) PROVE Dispatches
  BY <1>1, <1>19, Zenon DEF ResolveRecovery
<1> QED
  BY <1>2, <1>3, <1>4, <1>5, <1>6, <1>7, <1>8, <1>9, <1>10, <1>11, <1>12, <1>13,
     <1>14, <1>15, <1>16, <1>17, <1>18, <1>19 DEF Next

\* A new actor has an empty ledger and nothing in memory.
LEMMA InitInv == Init => IInv
<1> SUFFICES ASSUME Init PROVE IInv
  BY Zenon
<1> USE DEF Init
<1>1. TypeOK
  <2>1. NoApprovals \in [ApprovalIds -> Approvals \cup {NoApproval}]
    BY Zenon DEF NoApprovals
  <2>2. <<>> \in Seq(Events) /\ "Running" \in PauseStates
    BY DEF PauseStates
  <2> QED BY <2>1, <2>2, Zenon DEF TypeOK
<1>2. MemoryMatchesLedger
  <2>1. \A id \in ApprovalIds : ApprovalIndices(ledger, id) = {}
    BY DEF ApprovalIndices
  <2>2. RecoveryIndices(ledger) = {}
    BY DEF RecoveryIndices
  <2>3. approvals = ReplayApprovals(ledger)
    BY <2>1, Zenon DEF ReplayApprovals, ReplayApproval, NoApprovals
  <2>4. requires_recovery = RecoveryRequired(ledger)
    BY <2>2, Zenon DEF RecoveryRequired
  <2>5. sequence = Len(ledger)
    BY Zenon
  <2> QED BY <2>3, <2>4, <2>5 DEF MemoryMatchesLedger
<1>3. LegalWork(work)
  BY DEF LegalWork
<1> QED BY <1>1, <1>2, <1>3 DEF IInv

\* Every handler, failed append, crash and restart keeps memory and ledger
\* together and the work in progress legal.
LEMMA NextInv ==
    ASSUME ReadsFail = FALSE, IInv, [Next]_vars
    PROVE  IInv'
<1>1. CASE UNCHANGED vars
  <2> USE <1>1 DEF vars
  <2>1. TypeOK'
    BY Zenon DEF IInv, TypeOK
  <2>2. MemoryMatchesLedger'
    BY Zenon DEF IInv, MemoryMatchesLedger
  <2>3. LegalWork(work)'
    BY WorkStays, Zenon DEF IInv
  <2> QED BY <2>1, <2>2, <2>3 DEF IInv
<1>2. CASE Next
  <2>1. /\ ui_connected' \in BOOLEAN
        /\ dispatched' \in [id : ApprovalIds, subject : Subjects, now : Times] \cup {NoDispatch}
    <3>1. ui_connected \in BOOLEAN
          /\ dispatched \in [id : ApprovalIds, subject : Subjects, now : Times] \cup {NoDispatch}
      BY Zenon DEF IInv, TypeOK
    <3>2. Dispatches
      BY <1>2, DispatchCases, Zenon
    <3>3. \A id \in ApprovalIds, subject \in Subjects, now \in Times :
             [id |-> id, subject |-> subject, now |-> now]
                \in [id : ApprovalIds, subject : Subjects, now : Times]
      BY Zenon
    <3> QED BY <3>1, <3>2, <3>3, Zenon DEF Dispatches, Lets
  <2>2. CASE Makes
    <3>1. status' = "up"
      BY <2>2, Zenon DEF Makes
    <3> QED BY <2>1, <2>2, <3>1, MakesPreserves, Zenon DEF IInv, TypeOK
  <2>3. CASE Quiet
    <3> USE <2>3 DEF Quiet
    <3>1. TypeOK'
      BY <2>1, Zenon DEF IInv, TypeOK
    <3>2. MemoryMatchesLedger'
      BY Zenon DEF IInv, MemoryMatchesLedger
    <3>3. LegalWork(work)'
      BY WorkStays, Zenon DEF IInv
    <3> QED BY <3>1, <3>2, <3>3, Zenon DEF IInv
  <2>4. CASE Crash
    <3> USE <2>4 DEF Crash
    <3>1. TypeOK'
      <4>1. NoApprovals \in [ApprovalIds -> Approvals \cup {NoApproval}]
        BY Zenon DEF NoApprovals
      <4>2. <<>> \in Seq(Events) /\ "Running" \in PauseStates
        BY DEF PauseStates
      <4> QED BY <2>1, <4>1, <4>2, Zenon DEF IInv, TypeOK
    <3>2. MemoryMatchesLedger'
      BY Zenon DEF MemoryMatchesLedger
    <3>3. LegalWork(work)'
      BY DEF LegalWork
    <3> QED BY <3>1, <3>2, <3>3, Zenon DEF IInv
  <2>5. CASE Restart
    <3>1. /\ status' = "up" /\ ledger' = ledger /\ work' = work /\ work = <<>>
          /\ token_counter' = token_counter
          /\ sequence' = Len(ledger) /\ pause' = ReplayPause(ledger)
          /\ approvals' = ReplayApprovals(ledger)
          /\ requires_recovery' = RecoveryRequired(ledger)
      BY <2>5, Zenon DEF Restart, Reads, IInv
    <3>2. MemoryMatchesLedger'
      BY <3>1, Zenon DEF MemoryMatchesLedger
    <3>3. ledger \in Seq(Events) /\ token_counter \in Nat
      BY Zenon DEF IInv, TypeOK
    <3>4. approvals' \in [ApprovalIds -> Approvals \cup {NoApproval}]
      BY <3>1, <3>3, ReplayApprovalType
    <3>5. pause' \in PauseStates
      BY <3>1, Zenon DEF ReplayPause, PauseOf, PauseStates
    <3>6. requires_recovery' \in BOOLEAN
      BY <3>1, Zenon DEF RecoveryRequired
    <3>7. sequence' \in Nat /\ work' \in Seq(Events)
      BY <3>1, <3>3
    <3>8. TypeOK'
      BY <2>1, <3>1, <3>3, <3>4, <3>5, <3>6, <3>7 DEF TypeOK
    <3>9. LegalWork(work)'
      BY <3>1 DEF LegalWork
    <3> QED BY <3>1, <3>2, <3>8, <3>9 DEF IInv
  <2> QED BY <1>2, <2>2, <2>3, <2>4, <2>5, NextCases
<1> QED BY <1>1, <1>2, Zenon

\* The type invariant and the append discipline hold of the actor, as long
\* as the ledger can be read when the process restarts.
THEOREM TypeCorrect ==
    ASSUME ReadsFail = FALSE
    PROVE  Spec => []TypeOK
<1>1. IInv => TypeOK
  BY Zenon DEF IInv
<1> QED BY <1>1, InitInv, NextInv, PTL DEF Spec

\* Append-then-apply: the approvals, the recovery flag and the sequence a
\* live actor acts on are what a restart would read back from the ledger.
THEOREM MemoryMatches ==
    ASSUME ReadsFail = FALSE
    PROVE  Spec => []MemoryMatchesLedger
<1>1. IInv => MemoryMatchesLedger
  BY Zenon DEF IInv
<1> QED BY <1>1, InitInv, NextInv, PTL DEF Spec

-----------------------------------------------------------------------------
(***************************************************************************)
(* Pauses.                                                                 *)
(***************************************************************************)
LEMMA PauseKept ==
    ASSUME ReadsFail = FALSE, IInv, PauseIsKept, [Next]_vars
    PROVE  PauseIsKept'
<1> DEFINE Supervised == PauseKinds \ {"adapter_paused"}
<1> SUFFICES ASSUME status' = "up",
                    NEW i \in DOMAIN ledger', ledger'[i].kind \in Supervised
             PROVE  pause' # "Running"
  BY Zenon DEF PauseIsKept
<1>1. CASE UNCHANGED <<ledger, status, pause>>
  BY <1>1, Zenon DEF PauseIsKept
<1>2. CASE UNCHANGED vars
  BY <1>1, <1>2 DEF vars
<1>3. CASE Quiet
  BY <1>1, <1>3, Zenon DEF Quiet
<1>4. CASE Crash
  BY <1>4, Zenon DEF Crash
<1>5. CASE Restart
  <2>1. pause' = ReplayPause(ledger) /\ ledger' = ledger
    BY <1>5, Zenon DEF Restart, Reads
  <2>2. i \in PauseIndices(ledger)
    BY <2>1, Zenon DEF PauseIndices
  <2> QED BY <2>1, <2>2, Zenon DEF ReplayPause, PauseOf
<1>6. CASE Makes
  <2>1. PICK events \in Seq(Events) : events # <<>> /\ LegalWork(events) /\ Call(events)
    BY <1>6, Zenon DEF Makes
  <2> DEFINE e == Head(events)
  <2>2. pause' = PauseAfter(e) /\ status = "up" /\ e \in Events
    BY <1>6, <2>1 DEF Call, Makes
  <2>3. CASE \E j \in DOMAIN ledger : ledger[j].kind \in Supervised
    <3>1. pause # "Running"
      BY <2>2, <2>3, Zenon DEF PauseIsKept
    <3> QED BY <2>2, <3>1, Zenon DEF PauseAfter
  <2>4. CASE ~ \E j \in DOMAIN ledger : ledger[j].kind \in Supervised
    <3>1. ledger' = Append(ledger, e)
      BY <2>1, <2>4 DEF Call, Commit, Refuse
    <3>2. ledger \in Seq(Events)
      BY Zenon DEF IInv, TypeOK
    <3>3. ledger'[i] = e
      BY <2>2, <2>4, <3>1, <3>2, AppendFacts
    <3> HIDE DEF e
    <3>4. e.kind \in {"pause_requested", "pause_acknowledged", "pause_timed_out", "force_terminated"}
      BY <3>3, Zenon DEF PauseKinds
    <3> QED BY <2>2, <3>4 DEF PauseAfter
  <2> QED BY <2>3, <2>4, Zenon
<1> QED BY <1>2, <1>3, <1>4, <1>5, <1>6, NextCases

\* A pause the supervisor has recorded is in force whenever the actor is up,
\* across failed appends, crashes and restarts.
THEOREM PauseSurvives ==
    ASSUME ReadsFail = FALSE
    PROVE  Spec => []PauseIsKept
<1>1. Init => PauseIsKept
  BY DEF Init, PauseIsKept
<1> QED BY <1>1, InitInv, NextInv, PauseKept, PTL DEF Spec

-----------------------------------------------------------------------------
(***************************************************************************)
(* Approvals.                                                              *)
(***************************************************************************)

\* The ledger stays, or a live actor has added one legal event to it.
LEMMA LedgerCases ==
    ASSUME IInv, [Next]_vars
    PROVE  (UNCHANGED ledger) \/ (status = "up" /\ \E e \in Events : Appended(e))
<1>1. CASE Makes
  BY <1>1, MakesAppends, Zenon DEF IInv, Makes
<1>2. CASE Quiet \/ Crash \/ Restart \/ UNCHANGED vars
  BY <1>2, Zenon DEF Quiet, Crash, Restart, vars
<1> QED BY <1>1, <1>2, NextCases, Zenon

\* A live actor holds the approval its ledger gives, and an approval it holds
\* has events.
LEMMA HeldIsReplayed ==
    ASSUME IInv, status = "up", NEW id \in ApprovalIds
    PROVE  /\ approvals[id] = ReplayApproval(ledger, id)
           /\ approvals[id] # NoApproval => ApprovalIndices(ledger, id) # {}
  BY Zenon DEF IInv, MemoryMatchesLedger, ReplayApprovals, ReplayApproval

\* Positions of an approval's events before a position do not change.
LEMMA EarlierIndices ==
    ASSUME NEW l \in Seq(Events), NEW e \in Events, NEW id, NEW j \in 1 .. Len(l) + 1
    PROVE  {i \in ApprovalIndices(Append(l, e), id) : i < j}
               = {i \in ApprovalIndices(l, id) : i < j}
  BY AppendFacts DEF ApprovalIndices

\* An appended approval event continues the latest earlier one of its id.
LEMMA ChainKept ==
    ASSUME IInv, RevisionsChain, [Next]_vars
    PROVE  RevisionsChain'
<1>1. CASE UNCHANGED ledger
  BY <1>1, Zenon DEF RevisionsChain
<1>2. ASSUME status = "up", NEW e \in Events, Appended(e)
      PROVE  RevisionsChain'
  <2> DEFINE n == Len(ledger)
             Chained(l, j) ==
                 LET earlier == {i \in ApprovalIndices(l, l[j].id) : i < j}
                     before  == l[Latest(earlier)].approval
                     after   == l[j].approval
                 IN  /\ earlier # {}
                     /\ after.revision = before.revision + 1
                     /\ after.subject = before.subject
                     /\ after.expires_at = before.expires_at
                     /\ Follows(before.state, after.state)
  <2>1. ledger \in Seq(Events) /\ ledger' = Append(ledger, e) /\ Legal(e)
    BY <1>2, Zenon DEF IInv, TypeOK, Appended
  <2>2. /\ n \in Nat /\ DOMAIN ledger = 1 .. n /\ DOMAIN ledger' = 1 .. n + 1
        /\ ledger'[n + 1] = e /\ \A i \in 1 .. n : ledger'[i] = ledger[i]
    BY <2>1, AppendFacts, Zenon
  <2> SUFFICES ASSUME NEW j \in 1 .. n + 1,
                      ledger'[j].kind \in ApprovalKinds \ {"approval_requested"}
               PROVE  Chained(ledger', j)
    BY <2>2, Zenon DEF RevisionsChain
  <2> DEFINE id == ledger'[j].id
             earlier == {i \in ApprovalIndices(ledger, id) : i < j}
  <2>3. {i \in ApprovalIndices(ledger', id) : i < j} = earlier
    BY <2>1, <2>2, EarlierIndices
  <2>4. earlier \in SUBSET (1 .. n)
    BY <2>2, Zenon DEF ApprovalIndices
  <2>5. earlier # {} => Latest(earlier) \in 1 .. n
    BY <2>2, <2>4, LatestIsLast, Zenon
  <2>6. earlier # {} => ledger'[Latest(earlier)] = ledger[Latest(earlier)]
    BY <2>2, <2>5, Zenon
  <2>7. CASE j \in 1 .. n
    <3>1. ledger'[j] = ledger[j]
      BY <2>2, <2>7, Zenon
    <3>2. Chained(ledger, j)
      BY <2>2, <2>7, <3>1, Zenon DEF RevisionsChain
    <3> HIDE DEF earlier
    <3>3. earlier = {i \in ApprovalIndices(ledger, ledger[j].id) : i < j}
      BY <3>1, Zenon DEF earlier
    <3> QED BY <2>3, <2>6, <3>1, <3>2, <3>3, Zenon
  <2>8. CASE j = n + 1
    <3>1. ledger'[j] = e /\ id = e.id
      BY <2>2, <2>8
    <3>2. /\ e.id \in ApprovalIds
          /\ approvals[e.id] # NoApproval
          /\ e.approval.revision = approvals[e.id].revision + 1
          /\ e.approval.subject = approvals[e.id].subject
          /\ e.approval.expires_at = approvals[e.id].expires_at
          /\ Follows(approvals[e.id].state, e.approval.state)
      BY <2>1, <3>1 DEF Legal
    <3>3. earlier = ApprovalIndices(ledger, e.id)
      BY <2>2, <2>8, <3>1 DEF ApprovalIndices
    <3>4. earlier # {} /\ approvals[e.id] = ledger[Latest(earlier)].approval
      BY <1>2, <3>2, <3>3, HeldIsReplayed, Zenon DEF ReplayApproval
    <3> HIDE DEF earlier, id
    <3>5. earlier # {} /\ ledger'[Latest(earlier)].approval = approvals[e.id]
      BY <2>6, <3>4, Zenon
    <3>6. {i \in ApprovalIndices(ledger', ledger'[j].id) : i < j} = earlier
      BY <2>3, Zenon DEF id
    <3> QED BY <3>1, <3>2, <3>5, <3>6, Zenon
  <2> QED BY <2>2, <2>7, <2>8
<1> QED BY <1>1, <1>2, LedgerCases, Zenon

\* Approval revisions in the ledger form a chain along the life cycle.
THEOREM ChainHolds ==
    ASSUME ReadsFail = FALSE
    PROVE  Spec => []RevisionsChain
<1>1. Init => RevisionsChain
  BY DEF Init, RevisionsChain
<1> QED BY <1>1, InitInv, NextInv, ChainKept, PTL DEF Spec

\* A new event keeps the consumed approvals reissued only along the life cycle.
LEMMA ReissuedKept ==
    ASSUME IInv, Reissued, [Next]_vars
    PROVE  Reissued'
<1>1. CASE UNCHANGED ledger
  BY <1>1, Zenon DEF Reissued
<1>2. ASSUME status = "up", NEW e \in Events, Appended(e)
      PROVE  Reissued'
  <2> DEFINE n == Len(ledger)
  <2>1. ledger \in Seq(Events) /\ ledger' = Append(ledger, e) /\ Legal(e)
    BY <1>2, Zenon DEF IInv, TypeOK, Appended
  <2>2. /\ n \in Nat /\ DOMAIN ledger = 1 .. n /\ DOMAIN ledger' = 1 .. n + 1
        /\ ledger'[n + 1] = e /\ \A i \in 1 .. n : ledger'[i] = ledger[i]
        /\ \A i \in 1 .. n + 1 : ledger'[i] \in Events
    BY <2>1, AppendFacts
  <2> SUFFICES ASSUME NEW i \in 1 .. n + 1, ledger'[i].kind = "approval_consumed"
               PROVE  LET id    == ledger'[i].id
                          state == ReplayApproval(ledger', id).state
                      IN  /\ state = "Pending" => Requested(ledger', i, id)
                          /\ state = "Approved" => RequestedAndResolved(ledger', i, id)
    BY <2>2, Zenon DEF Reissued
  <2> DEFINE id == ledger'[i].id
  <2>3. CASE i = n + 1
    <3>1. e.kind = "approval_consumed" /\ id = e.id
      BY <2>2, <2>3, Zenon
    <3>2. e.approval.state = "Consumed" /\ e.id \in ApprovalIds
      BY <2>1, <3>1, Zenon DEF Legal, ApprovalKinds
    <3>3. ReplayApproval(ledger', id) = e.approval
      BY <2>1, <3>1, <3>2, ReplayApprovalAppend, Zenon
    <3> QED BY <3>2, <3>3, Zenon
  <2>4. CASE i \in 1 .. n
    <3>1. ledger'[i] = ledger[i] /\ ledger[i].kind = "approval_consumed"
      BY <2>2, <2>4, Zenon
    <3>2. /\ ReplayApproval(ledger, id).state = "Pending" => Requested(ledger, i, id)
          /\ ReplayApproval(ledger, id).state = "Approved" => RequestedAndResolved(ledger, i, id)
      BY <2>2, <2>4, <3>1, Zenon DEF Reissued
    <3>3. \A k \in 1 .. n : k \in 1 .. n + 1 /\ ledger'[k] = ledger[k]
      BY <2>2
    <3>4. n + 1 \in 1 .. n + 1 /\ i < n + 1 /\ \A k \in 1 .. n : k < n + 1
      BY <2>2, <2>4
    <3> HIDE DEF n, id
    <3>5. CASE id \notin ApprovalIds
      BY <2>2, <3>1, <3>5 DEF id, Events, ApprovalKinds
    <3>6. CASE id \in ApprovalIds /\ e.id # id
      <4>1. ReplayApproval(ledger', id) = ReplayApproval(ledger, id)
        BY <2>1, <3>6, ReplayApprovalAppend
      <4>2. Requested(ledger, i, id) => Requested(ledger', i, id)
        BY <2>2, <3>3 DEF Requested
      <4>3. RequestedAndResolved(ledger, i, id) => RequestedAndResolved(ledger', i, id)
        BY <2>2, <3>3 DEF RequestedAndResolved
      <4> QED BY <3>2, <4>1, <4>2, <4>3 DEF id
    <3>7. CASE id \in ApprovalIds /\ e.id = id
      <4>1. ReplayApproval(ledger', id) = e.approval /\ approvals[id] = ReplayApproval(ledger, id)
        BY <1>2, <2>1, <3>7, ReplayApprovalAppend, HeldIsReplayed
      <4>2. e.kind \in ApprovalKinds
        BY <3>7, ApprovalIdsFinite DEF Events
      <4>3. CASE e.kind = "approval_requested"
        <5>1. e.approval.state = "Pending"
          BY <2>1, <3>7, <4>3, ApprovalIdsFinite DEF Legal
        <5>2. Requested(ledger', i, id)
          BY <2>2, <3>4, <3>7, <4>3 DEF Requested
        <5> QED BY <4>1, <5>1, <5>2 DEF id
      <4>4. CASE e.kind = "approval_resolved"
        <5>1. e.approval.state \in {"Approved", "Denied"}
              /\ Follows(approvals[id].state, e.approval.state)
          BY <2>1, <3>7, <4>4 DEF Legal, ApprovalKinds
        <5>2. approvals[id].state = "Pending"
          BY <5>1, Zenon DEF Follows
        <5>3. PICK k \in DOMAIN ledger :
                  i < k /\ ledger[k].kind = "approval_requested" /\ ledger[k].id = id
          BY <3>2, <4>1, <5>2 DEF Requested
        <5>4. RequestedAndResolved(ledger', i, id)
          BY <2>2, <3>3, <3>4, <3>7, <4>4, <5>3 DEF RequestedAndResolved
        <5> QED BY <4>1, <5>1, <5>4 DEF id
      <4>5. CASE e.kind = "approval_revoked" \/ e.kind = "approval_consumed"
        <5>1. e.approval.state \in {"Revoked", "Consumed"}
          BY <2>1, <4>5 DEF Legal
        <5> QED BY <4>1, <5>1 DEF id
      <4> QED BY <4>2, <4>3, <4>4, <4>5 DEF ApprovalKinds
    <3> QED BY <3>5, <3>6, <3>7, Zenon
  <2> QED BY <2>2, <2>3, <2>4
<1> QED BY <1>1, <1>2, LedgerCases

\* An appended consumption is of a granted approval, which after an earlier
\* consumption has been requested and resolved again.
LEMMA ConsumedOnceKept ==
    ASSUME IInv, Reissued, ConsumedOncePerApproval, [Next]_vars
    PROVE  ConsumedOncePerApproval'
<1>1. CASE UNCHANGED ledger
  BY <1>1 DEF ConsumedOncePerApproval
<1>2. ASSUME status = "up", NEW e \in Events, Appended(e)
      PROVE  ConsumedOncePerApproval'
  <2> DEFINE n == Len(ledger)
             Between(l, i, j) ==
                 \E k, m \in DOMAIN l :
                     /\ i < k /\ k < m /\ m < j
                     /\ l[k].kind = "approval_requested" /\ l[k].id = l[i].id
                     /\ l[m].kind = "approval_resolved" /\ l[m].id = l[i].id
  <2>1. ledger \in Seq(Events) /\ ledger' = Append(ledger, e) /\ Legal(e)
    BY <1>2, Zenon DEF IInv, TypeOK, Appended
  <2>2. /\ n \in Nat /\ DOMAIN ledger = 1 .. n /\ DOMAIN ledger' = 1 .. n + 1
        /\ ledger'[n + 1] = e /\ \A i \in 1 .. n : ledger'[i] = ledger[i]
    BY <2>1, AppendFacts, Zenon
  <2> SUFFICES ASSUME NEW i \in DOMAIN ledger', NEW j \in DOMAIN ledger', i < j,
                      ledger'[i].kind = "approval_consumed",
                      ledger'[j].kind = "approval_consumed",
                      ledger'[i].id = ledger'[j].id
               PROVE  Between(ledger', i, j)
    BY Zenon DEF ConsumedOncePerApproval
  <2>3. i \in 1 .. n /\ ledger'[i] = ledger[i]
    BY <2>2
  <2>4. CASE j \in 1 .. n
    <3>1. Between(ledger, i, j)
      BY <2>2, <2>3, <2>4 DEF ConsumedOncePerApproval
    <3> QED BY <2>2, <2>3, <3>1
  <2>5. CASE j = n + 1
    <3>1. e.kind = "approval_consumed" /\ ledger[i].id = e.id
      BY <2>2, <2>3, <2>5
    <3>2. e.id \in ApprovalIds /\ e.approval.state = "Consumed"
          /\ Follows(approvals[e.id].state, e.approval.state)
      BY <2>1, <3>1 DEF Legal, ApprovalKinds
    <3>3. approvals[e.id].state = "Approved"
      BY <3>2, Zenon DEF Follows
    <3>4. ReplayApproval(ledger, e.id).state = "Approved"
      BY <1>2, <3>2, <3>3, HeldIsReplayed
    <3>5. RequestedAndResolved(ledger, i, e.id)
      BY <2>2, <2>3, <3>1, <3>4 DEF Reissued
    <3>6. PICK k, m \in 1 .. n :
              /\ i < k /\ k < m
              /\ ledger[k].kind = "approval_requested" /\ ledger[k].id = e.id
              /\ ledger[m].kind = "approval_resolved" /\ ledger[m].id = e.id
      BY <2>2, <3>5 DEF RequestedAndResolved
    <3> QED BY <2>2, <2>3, <2>5, <3>1, <3>6
  <2> QED BY <2>2, <2>4, <2>5
<1> QED BY <1>1, <1>2, LedgerCases

\* A one-time grant lets one action through.
THEOREM ConsumedOnce ==
    ASSUME ReadsFail = FALSE
    PROVE  Spec => []ConsumedOncePerApproval
<1>1. Init => Reissued /\ ConsumedOncePerApproval
  BY DEF Init, Reissued, ConsumedOncePerApproval
<1> QED BY <1>1, InitInv, NextInv, ReissuedKept, ConsumedOnceKept, PTL DEF Spec

\* An append leaves the prefixes of the ledger.
LEMMA PrefixKept ==
    ASSUME NEW l \in Seq(Events), NEW e \in Events
    PROVE  /\ \A i \in 1 .. Len(l) : SubSeq(Append(l, e), 1, i) = SubSeq(l, 1, i)
           /\ SubSeq(Append(l, e), 1, Len(l) + 1) = Append(l, e)
<1>1. SubSeq(Append(l, e), 1, Len(l) + 1) = Append(l, e)
  BY AppendFacts, SubSeqFull, Zenon
<1>2. ASSUME NEW i \in 1 .. Len(l)
      PROVE  SubSeq(Append(l, e), 1, i) = SubSeq(l, 1, i)
  BY AppendFacts
<1> QED BY <1>1, <1>2, Zenon

\* loadout_changed is appended only when no approval is live.
LEMMA LoadoutKept ==
    ASSUME IInv, LoadoutChangeLeavesNoGrant, [Next]_vars
    PROVE  LoadoutChangeLeavesNoGrant'
<1>1. CASE UNCHANGED ledger
  BY <1>1, Zenon DEF LoadoutChangeLeavesNoGrant
<1>2. ASSUME status = "up", NEW e \in Events, Appended(e)
      PROVE  LoadoutChangeLeavesNoGrant'
  <2> DEFINE n == Len(ledger)
  <2>1. ledger \in Seq(Events) /\ ledger' = Append(ledger, e)
    BY <1>2, Zenon DEF IInv, TypeOK, Appended
  <2>2. /\ n \in Nat /\ DOMAIN ledger = 1 .. n /\ DOMAIN ledger' = 1 .. n + 1
        /\ ledger'[n + 1] = e /\ \A i \in 1 .. n : ledger'[i] = ledger[i]
    BY <2>1, AppendFacts, Zenon
  <2> SUFFICES ASSUME NEW i \in DOMAIN ledger', ledger'[i].kind = "loadout_changed",
                      NEW id \in ApprovalIds
               PROVE  ReplayApproval(SubSeq(ledger', 1, i), id).state
                          \notin {"Pending", "Approved"}
    BY Zenon DEF LoadoutChangeLeavesNoGrant
  <2>3. CASE i \in 1 .. n
    <3>1. SubSeq(ledger', 1, i) = SubSeq(ledger, 1, i)
      BY <2>1, <2>3, PrefixKept
    <3> QED BY <2>2, <2>3, <3>1, Zenon DEF LoadoutChangeLeavesNoGrant
  <2>4. CASE i = n + 1
    <3>1. e.kind = "loadout_changed" /\ SubSeq(ledger', 1, i) = ledger'
      BY <2>1, <2>2, <2>4, PrefixKept
    <3>2. ~Live(id)
      BY <1>2, <3>1, Zenon DEF Appended
    <3>3. e.id # id
      BY <3>1, ApprovalIdsFinite DEF Events, ApprovalKinds
    <3>4. ReplayApproval(ledger', id) = approvals[id]
      BY <1>2, <2>1, <3>3, ReplayApprovalAppend, HeldIsReplayed
    <3> QED BY <3>1, <3>2, <3>4, Zenon DEF Live
  <2> QED BY <2>2, <2>3, <2>4
<1> QED BY <1>1, <1>2, LedgerCases

\* No grant or request made under the previous loadout outlives the event
\* that records the change of loadout.
THEOREM LoadoutChangeRevokes ==
    ASSUME ReadsFail = FALSE
    PROVE  Spec => []LoadoutChangeLeavesNoGrant
<1>1. Init => LoadoutChangeLeavesNoGrant
  BY DEF Init, LoadoutChangeLeavesNoGrant
<1> QED BY <1>1, InitInv, NextInv, LoadoutKept, PTL DEF Spec

\* An action is let through by a grant in the ledger, and the next step
\* forgets it.
LEMMA DispatchKept ==
    ASSUME IInv, DispatchIsCovered, [Next]_vars
    PROVE  DispatchIsCovered'
<1>1. CASE dispatched' = NoDispatch
  BY <1>1, Zenon DEF DispatchIsCovered
<1>2. CASE UNCHANGED <<ledger, dispatched>>
  BY <1>2, Zenon DEF DispatchIsCovered
<1>3. ASSUME NEW id \in ApprovalIds, NEW subject \in Subjects, NEW now \in Times,
             dispatched' = [id |-> id, subject |-> subject, now |-> now],
             Idle, Authorizes(approvals[id], subject, now)
      PROVE  /\ ApprovalIndices(ledger, id) # {}
             /\ LET i == Latest(ApprovalIndices(ledger, id))
                IN  /\ i \in ApprovalIndices(ledger, id)
                    /\ {j \in ApprovalIndices(ledger, id) : j > i} = {}
                    /\ ledger[i].approval = approvals[id]
  <2>1. approvals[id] # NoApproval /\ approvals[id] = ReplayApproval(ledger, id)
        /\ ApprovalIndices(ledger, id) # {}
    BY <1>3, HeldIsReplayed DEF Authorizes, Idle, NoApproval
  <2>2. ledger \in Seq(Events)
    BY Zenon DEF IInv, TypeOK
  <2>3. Len(ledger) \in Nat /\ ApprovalIndices(ledger, id) \in SUBSET (1 .. Len(ledger))
    BY <2>2 DEF ApprovalIndices
  <2>4. /\ Latest(ApprovalIndices(ledger, id)) \in ApprovalIndices(ledger, id)
        /\ \A j \in ApprovalIndices(ledger, id) : j <= Latest(ApprovalIndices(ledger, id))
    BY <2>1, <2>3, LatestIsLast, Zenon
  <2>5. {j \in ApprovalIndices(ledger, id) : j > Latest(ApprovalIndices(ledger, id))} = {}
    BY <2>3, <2>4
  <2> QED BY <2>1, <2>4, <2>5 DEF ReplayApproval
<1>4. ASSUME NEW id \in ApprovalIds, NEW subject \in Subjects, NEW now \in Times,
             dispatched' = [id |-> id, subject |-> subject, now |-> now],
             AuthorizeByClass(id, subject, now)
      PROVE  DispatchIsCovered'
  <2> DEFINE i == Latest(ApprovalIndices(ledger, id))
  <2>1. /\ Idle /\ Authorizes(approvals[id], subject, now)
        /\ approvals[id].scope = "RouteActionClass" /\ ledger' = ledger
    BY <1>4, Zenon DEF AuthorizeByClass
  <2>2. /\ i \in ApprovalIndices(ledger, id)
        /\ {j \in ApprovalIndices(ledger, id) : j > i} = {}
        /\ ledger[i].approval = approvals[id]
    BY <1>3, <1>4, <2>1, Zenon
  <2>3. dispatched'.id = id /\ dispatched'.subject = subject /\ dispatched'.now = now
    BY <1>4, Zenon
  <2> HIDE DEF i
  <2>4. approvals[id].state = "Approved"
        /\ approvals[id].subject.authority = subject.authority
        /\ now < approvals[id].expires_at
    BY <2>1, Zenon DEF Authorizes
  <2> QED BY <2>1, <2>2, <2>3, <2>4, Zenon DEF DispatchIsCovered
<1>5. ASSUME NEW id \in ApprovalIds, NEW subject \in Subjects, NEW now \in Times,
             dispatched' = [id |-> id, subject |-> subject, now |-> now],
             ledger' # ledger, AuthorizeOnce(id, subject, now)
      PROVE  DispatchIsCovered'
  <2> DEFINE i == Latest(ApprovalIndices(ledger, id))
             n == Len(ledger)
             e == ApprovalEvent("approval_consumed", id, Transition(approvals[id], "Consumed"))
  <2>1. /\ Idle /\ Authorizes(approvals[id], subject, now)
        /\ approvals[id].scope = "Once" /\ Call(<<e>>)
    BY <1>5, Zenon DEF AuthorizeOnce
  <2>2. /\ i \in ApprovalIndices(ledger, id)
        /\ {j \in ApprovalIndices(ledger, id) : j > i} = {}
        /\ ledger[i].approval = approvals[id]
    BY <1>3, <1>5, <2>1, Zenon
  <2>3. dispatched'.id = id /\ dispatched'.subject = subject /\ dispatched'.now = now
    BY <1>5, Zenon
  <2>4. /\ approvals[id].state = "Approved"
        /\ approvals[id].subject.authority = subject.authority
        /\ approvals[id].subject.digest = subject.digest
        /\ now < approvals[id].expires_at
    BY <2>1, Zenon DEF Authorizes
  <2>5. approvals[id] \in Approvals
    BY <2>4, HeldApproval, Zenon DEF IInv, ApprovalStates
  <2>6. e \in Events /\ e.id = id /\ e.kind = "approval_consumed"
    <3>1. Transition(approvals[id], "Consumed") \in Approvals
          /\ Transition(approvals[id], "Consumed") # NoApproval
      BY <2>5, TransitionFacts DEF ApprovalStates
    <3> QED BY <3>1, ApprovalIdsFinite DEF ApprovalEvent, Events, Kinds, ApprovalKinds
  <2> HIDE DEF e
  <2>7. ledger' = Append(ledger, e)
    BY <1>5, <2>1 DEF Call, Commit, Refuse
  <2>8. ledger \in Seq(Events)
    BY DEF IInv, TypeOK
  <2>9. /\ n \in Nat /\ DOMAIN ledger = 1 .. n /\ DOMAIN ledger' = 1 .. n + 1
        /\ ledger'[n + 1] = e /\ \A k \in 1 .. n : ledger'[k] = ledger[k]
    BY <2>6, <2>7, <2>8, AppendFacts
  <2> HIDE DEF i, n
  <2>10. ApprovalIndices(ledger', id) = ApprovalIndices(ledger, id) \cup {n + 1}
    BY <2>6, <2>9 DEF ApprovalIndices, ApprovalKinds
  <2>11. ApprovalIndices(ledger, id) \subseteq 1 .. n
    BY <2>9, Zenon DEF ApprovalIndices
  <2>12. {j \in ApprovalIndices(ledger', id) : j > i} = {n + 1}
    BY <2>2, <2>9, <2>10, <2>11
  <2>13. i \in ApprovalIndices(ledger', id) /\ ledger'[i].approval = approvals[id]
    BY <2>2, <2>9, <2>10, <2>11, Zenon
  <2>14. n + 1 \in {j \in ApprovalIndices(ledger', id) : j > i}
         /\ ledger'[n + 1].kind = "approval_consumed"
    BY <2>6, <2>9, <2>12
  <2> QED BY <2>1, <2>3, <2>4, <2>12, <2>13, <2>14, Zenon DEF DispatchIsCovered
<1>6. CASE Lets
  BY <1>4, <1>5, <1>6 DEF Lets
<1>7. CASE UNCHANGED vars
  BY <1>2, <1>7 DEF vars
<1>8. CASE Next
  BY <1>1, <1>2, <1>6, <1>8, DispatchCases DEF Dispatches
<1> QED BY <1>7, <1>8, Zenon

\* No action before approval: what the actor lets through is covered by an
\* approval in the ledger, consumed in the ledger first when granted once.
THEOREM DispatchCovered ==
    ASSUME ReadsFail = FALSE
    PROVE  Spec => []DispatchIsCovered
<1>1. Init => DispatchIsCovered
  BY Zenon DEF Init, DispatchIsCovered
<1> QED BY <1>1, InitInv, NextInv, DispatchKept, PTL DEF Spec
=============================================================================
