----------------------------- MODULE MemoryStore ----------------------------
(***************************************************************************)
(* The memory of a mission (crates/memory): items extracted from events    *)
(* are reviewed by the user (lifecycle.rs), and the confirmed ones are     *)
(* recalled (recall.rs) and packed for the agent within a token budget     *)
(* (context_pack.rs).                                                      *)
(***************************************************************************)
EXTENDS Naturals, Sequences, FiniteSets, Iteration

CONSTANTS
    MaxItems,      \* bound: items of a mission
    MaxTokens,     \* of a context pack
    MaxHistory     \* bound: changes of the store

\* Item identifiers are compared when candidates are ordered.
Ids == 1 .. MaxItems

\* What the events are made of: an inferred event gives an inference.
Sources == {"contract_updated", "approval_resolved", "evidence_recorded", "inferred"}

Texts == {"short", "long"}

\* Who reviews, or sent the event: the user, or any of the other authors.
Authors == {"user", "other"}

VARIABLES
    items,         \* per id: {} or {the item}
    history,       \* every change, with the item after it
    pack           \* the context pack built last: {} or {the pack}

vars == <<items, history, pack>>

Init ==
    /\ items = [i \in Ids |-> {}]
    /\ history = <<>>
    /\ pack = {}

-----------------------------------------------------------------------------
\* from_event
KindOf(source) ==
    CASE source = "inferred" -> "inference"
      [] source = "contract_updated" -> "constraint"
      [] source = "approval_resolved" -> "confirmed_decision"
      [] source = "evidence_recorded" -> "fact"

FromEvent(id, source, content, author) ==
    [id |-> id, kind |-> KindOf(source), content |-> content, version |-> 1,
     status |-> "candidate", author |-> author]

AppendMutation(action, actor, item) ==
    /\ Len(history) < MaxHistory
    /\ items' = [items EXCEPT ![item.id] = {item}]
    /\ history' = Append(history, [action |-> action, actor |-> actor, item |-> item])
    /\ UNCHANGED pack

Insert(id, source, content, author) ==
    /\ items[id] = {}
    /\ AppendMutation("created", author, FromEvent(id, source, content, author))

\* mutate: the user alone may, and every change is a new version.
Mutate(id, actor, action, status, content) ==
    /\ actor = "user"
    /\ \E item \in items[id] :
          AppendMutation(action, actor, [item EXCEPT !.status = status, !.version = @ + 1,
                                                     !.content = content, !.author = actor])

HasStatus(id, statuses) == \E item \in items[id] : item.status \in statuses

ContentOf(id) == (CHOOSE item \in items[id] : TRUE).content

Confirm(id, actor) ==
    /\ \A item \in items[id] : item.kind # "inference"
    /\ HasStatus(id, {"candidate", "deferred"})
    /\ Mutate(id, actor, "confirmed", "confirmed", ContentOf(id))

\* Mutant: an edited item keeps its status.
StatusKept(id) == (CHOOSE item \in items[id] : TRUE).status

StatusOfEdited(id) == "candidate"

\* edit and narrow
Edit(id, actor, action, content) ==
    /\ HasStatus(id, {"candidate", "confirmed", "deferred"})
    /\ Mutate(id, actor, action, StatusOfEdited(id), content)

Defer(id, actor) ==
    /\ HasStatus(id, {"candidate", "confirmed"})
    /\ Mutate(id, actor, "deferred", "deferred", ContentOf(id))

Invalidate(id, actor) ==
    /\ HasStatus(id, {"candidate", "confirmed", "deferred"})
    /\ Mutate(id, actor, "invalidated", "invalidated", ContentOf(id))

Reject(id, actor) ==
    /\ HasStatus(id, {"candidate", "deferred"})
    /\ Mutate(id, actor, "rejected", "rejected", ContentOf(id))

-----------------------------------------------------------------------------
\* recall_confirmed, of the items in scope; the query is left out.
Recall(limit) ==
    LET found == {id \in Ids : HasStatus(id, {"confirmed"})}
    IN {id \in found : Cardinality({other \in found : other < id}) < limit}

\* A contract comes first, the memory last and in order of the identifiers.
Contract == [id |-> 0, content |-> "long", version |-> 1]

Tokens(content) == IF content = "long" THEN 2 ELSE 1

\* build_context_pack: each candidate in turn is taken if it still fits.
Charge(used, candidate) == used + Tokens(candidate.content)

Used(taken) == Iterate(Charge, 0, taken)

Fits(taken, candidate) == Charge(Used(taken), candidate) <= MaxTokens

Take(taken, candidate) == IF Fits(taken, candidate) THEN Append(taken, candidate) ELSE taken

Packed(candidates) == Iterate(Take, <<>>, candidates)

Candidates(ids) ==
    <<Contract>> \o
        [n \in 1 .. Cardinality(ids) |->
            LET id == CHOOSE i \in ids : Cardinality({j \in ids : j < i}) = n - 1
                item == CHOOSE item \in items[id] : TRUE
            IN [id |-> id, content |-> item.content, version |-> item.version]]

BuildContextPack(limit) ==
    /\ pack' = {Packed(Candidates(Recall(limit)))}
    /\ UNCHANGED <<items, history>>

Next ==
    \/ \E id \in Ids, source \in Sources, content \in Texts, author \in Authors :
          Insert(id, source, content, author)
    \/ \E id \in Ids, actor \in Authors :
          Confirm(id, actor) \/ Defer(id, actor) \/ Invalidate(id, actor) \/ Reject(id, actor)
    \/ \E id \in Ids, actor \in Authors, action \in {"edited", "narrowed"}, content \in Texts :
          Edit(id, actor, action, content)
    \/ \E limit \in 0 .. Cardinality(Ids) : BuildContextPack(limit)

Spec == Init /\ [][Next]_vars
-----------------------------------------------------------------------------
\* What an agent is given from memory was confirmed by the user in exactly the version
\* and the words that it is given, is no inference, and fits the budget: a change of a
\* confirmed item takes the confirmation away, whatever the order of the reviews.
PackWasConfirmed ==
    \A taken \in pack :
        /\ Used(taken) <= MaxTokens
        /\ \A n \in 1 .. Len(taken) :
              taken[n].id \in Ids =>
                  \E k \in 1 .. Len(history) :
                      /\ history[k].action = "confirmed"
                      /\ history[k].actor = "user"
                      /\ history[k].item.id = taken[n].id
                      /\ history[k].item.version = taken[n].version
                      /\ history[k].item.content = taken[n].content
                      /\ history[k].item.kind # "inference"
=============================================================================
