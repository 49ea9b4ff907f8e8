---------------------------- MODULE LedgerStore -----------------------------
(***************************************************************************)
(* The encrypted ledger and the blob store that shares its database        *)
(* (sqlcipher.rs, delete.rs, retention.rs, blob_store.rs).                 *)
(*                                                                         *)
(* The mission actors append on connections of their own.  Commands of the *)
(* service run one after the other beside them: an archive or a deletion   *)
(* checks its plan before its transaction begins, and the steps of a blob  *)
(* operation that touch the file system are no part of a transaction.  The *)
(* process may die between any two steps.                                  *)
(***************************************************************************)
EXTENDS Integers, FiniteSets, FiniteSetsExt, Sequences

CONSTANTS
    Missions,
    Blobs,
    MaxEvents,     \* bound: events of a mission
    MaxLives,      \* bound: creations under one mission id
    MaxInputs      \* bound: commands, appends and crashes

ASSUME StoreAssumption ==
    /\ IsFiniteSet(Missions) /\ IsFiniteSet(Blobs)
    /\ "none" \notin Missions
    /\ MaxEvents \in Nat

VARIABLES
    rows,          \* the table events: [mission, sequence, id, payload, hash]
    archived,      \* mission_lifecycle: archived missions
    lives,         \* per mission: how often it was created
    deleted,       \* per mission: how often it was deleted; mission_lifecycle keeps
                   \* whether ever
    audit,         \* lifecycle_audit: [operation, plan]
    counts,        \* blob_refs: per blob its reference count, or Absent
    attached,      \* mission_blob_refs: pairs of mission and blob
    files,         \* blobs whose file is in place
    temps,         \* blobs with a temporary file
    torn,          \* history: blobs whose file was removed and whose row was not, until put again
    holds,         \* per blob: retains that were not released
    next,          \* per mission: the sequence its actor will append, 1 without actor
    plan,          \* the plan the user was shown last
    cmd,           \* the command: its step and its subject
    inputs         \* commands, appends and crashes so far

vars == <<rows, archived, lives, deleted, audit, counts, attached, files, temps, torn, holds, next,
          plan, cmd, inputs>>

tables == <<rows, archived, lives, deleted, audit, counts, attached>>

Absent == -1

\* A step from outside the store.
Input ==
    /\ inputs < MaxInputs
    /\ inputs' = inputs + 1

NoPlan == [operation |-> "none"]

Idle == [at |-> "idle"]

Init ==
    /\ rows = {}
    /\ archived = {}
    /\ lives = [m \in Missions |-> 0]
    /\ deleted = [m \in Missions |-> 0]
    /\ audit = {}
    /\ counts = [b \in Blobs |-> Absent]
    /\ attached = {}
    /\ files = {}
    /\ temps = {}
    /\ torn = {}
    /\ holds = [b \in Blobs |-> 0]
    /\ next = [m \in Missions |-> 1]
    /\ plan = NoPlan
    /\ cmd = Idle
    /\ inputs = 0

-----------------------------------------------------------------------------
(***************************************************************************)
(* Events.                                                                 *)
(***************************************************************************)
\* What the redactor leaves of a payload.
Redacted(payload) == IF payload = "secret" THEN "redacted" ELSE payload

\* persisted_payload_hash is taken of the redacted payload, injectively.
Hash(payload) == <<"sha256", payload>>

\* Mutant: the hash is taken before the payload is redacted.
RowHashedFirst(event) ==
    [mission |-> event.mission, sequence |-> event.sequence, id |-> event.id,
     payload |-> Redacted(event.payload), hash |-> Hash(event.payload)]

Row(event) ==
    [mission |-> event.mission, sequence |-> event.sequence, id |-> event.id,
     payload |-> Redacted(event.payload), hash |-> Hash(Redacted(event.payload))]

RowsOf(table, m) == {r \in table : r.mission = m}

LastSequence(table, m) == Max({r.sequence : r \in RowsOf(table, m)} \cup {0})

\* Mutant: the first event of a mission may have any sequence.
FollowsAny(table, event) ==
    LastSequence(table, event.mission) # 0
        => event.sequence = LastSequence(table, event.mission) + 1

Follows(table, event) == event.sequence = LastSequence(table, event.mission) + 1

Known(table, event) == \E r \in table : r.id = event.id

\* An event that is known must be the same; its row stays as it is.
Accepts(table, event) ==
    IF Known(table, event) THEN Row(event) \in table ELSE Follows(table, event)

Insert(table, event) == table \cup {Row(event)}

\* append
Append1(event) ==
    /\ Input
    /\ rows' = IF Accepts(rows, event) THEN Insert(rows, event) ELSE rows
    /\ next' = IF Accepts(rows, event) /\ next[event.mission] = event.sequence
               THEN [next EXCEPT ![event.mission] = @ + 1] ELSE next
    /\ UNCHANGED <<archived, lives, deleted, audit, counts, attached, files, temps, torn, holds,
                   plan, cmd>>

\* The table after the first n events of a group.
Inserted(group, n) == rows \cup {Row(group[i]) : i \in 1 .. n}

\* Mutant: events before the one that fails are kept.
AppendBatchUpTo(group, bad) ==
    LET good == {n \in 0 .. Len(group) :
                    \A i \in 1 .. n : i # bad /\ Accepts(Inserted(group, i - 1), group[i])}
    IN Inserted(group, Max(good))

\* append_batch: one transaction, rolled back by the first error.  Writing the row
\* of event bad fails; 0 is no failure.
AppendBatch(group, bad) ==
    IF bad = 0 /\ \A i \in DOMAIN group : Accepts(Inserted(group, i - 1), group[i])
    THEN Inserted(group, Len(group)) ELSE rows

\* Identifiers are new: they carry the life of the mission and a number.
Event(m, n, payload) ==
    [mission |-> m, id |-> <<m, lives[m], n>>, sequence |-> n, payload |-> payload]

Creation == 1 .. 3

\* create_mission appends three events together, unless an actor or an event of the
\* mission exists.  A deleted mission may be created again.
CreateMission(m, bad) ==
    /\ Input
    /\ lives[m] < MaxLives
    /\ next[m] = 1
    /\ RowsOf(rows, m) = {}
    /\ LET group == [n \in Creation |-> [Event(m, n, "plain") EXCEPT !.id[2] = @ + 1]]
           table == AppendBatch(group, bad) IN
       /\ rows' = table
       /\ next' = IF bad = 0 THEN [next EXCEPT ![m] = 4] ELSE next
       /\ lives' = IF table # rows THEN [lives EXCEPT ![m] = @ + 1] ELSE lives
    /\ UNCHANGED <<archived, deleted, audit, counts, attached, files, temps, torn, holds, plan,
                   cmd>>

\* The actor appends its next event, or repeats its last one after a lost reply.
ActorAppends(m, payload, again) ==
    /\ next[m] \in 4 .. MaxEvents + 1
    /\ again \/ next[m] <= MaxEvents
    /\ LET n == IF again THEN next[m] - 1 ELSE next[m] IN
       Append1(Event(m, n, payload))

\* integrity_report: sequences without a gap and hashes that match.
IntegrityReport ==
    /\ \A m \in Missions :
          {r.sequence : r \in RowsOf(rows, m)} = 1 .. Cardinality(RowsOf(rows, m))
    /\ \A r \in rows : r.hash = Hash(r.payload)

-----------------------------------------------------------------------------
(***************************************************************************)
(* Blobs.  A blob is named by its content.                                 *)
(***************************************************************************)
\* put: a file that is in place is taken as it is.
\* Mutant: a blob with a row is taken to have its file.
PresentByRow(b) == counts[b] # Absent

Present(b) == b \in files

BeginPut(b, owner) ==
    /\ Input
    /\ cmd = Idle
    /\ IF Present(b)
       THEN cmd' = [at |-> "row", blob |-> b, owner |-> owner] /\ UNCHANGED temps
       ELSE cmd' = [at |-> "rename", blob |-> b, owner |-> owner] /\ temps' = temps \cup {b}
    /\ UNCHANGED <<tables, files, torn, holds, next, plan>>

RenameTemp ==
    /\ cmd.at = "rename"
    /\ files' = files \cup {cmd.blob}
    /\ temps' = temps \ {cmd.blob}
    /\ cmd' = [cmd EXCEPT !.at = "row"]
    /\ UNCHANGED <<tables, torn, holds, next, plan, inputs>>

InsertBlobRow ==
    /\ cmd.at = "row"
    /\ counts' = IF counts[cmd.blob] = Absent THEN [counts EXCEPT ![cmd.blob] = 0] ELSE counts
    /\ torn' = torn \ {cmd.blob}
    /\ cmd' = [cmd EXCEPT !.at = "retain"]
    /\ UNCHANGED <<rows, archived, lives, deleted, audit, attached, files, temps, holds, next, plan,
                   inputs>>

\* Mutant: every call counts.
CountedAlways(m, b) == TRUE

\* Only a mission that does not have the blob yet counts.
Counted(m, b) == <<m, b>> \notin attached

\* retain, or retain_for_mission when a mission is to own the blob.
Referred(b, m) ==
    /\ IF m = "none"
       THEN /\ holds' = [holds EXCEPT ![b] = @ + 1]
            /\ counts' = [counts EXCEPT ![b] = @ + 1]
            /\ UNCHANGED attached
       ELSE /\ attached' = attached \cup {<<m, b>>}
            /\ counts' = IF Counted(m, b) THEN [counts EXCEPT ![b] = @ + 1] ELSE counts
            /\ UNCHANGED holds
    /\ UNCHANGED <<rows, archived, lives, deleted, audit, files, temps, torn, next, plan>>

\* The command that put the blob refers to it.
Retain ==
    /\ cmd.at = "retain"
    /\ cmd' = Idle
    /\ Referred(cmd.blob, cmd.owner)
    /\ UNCHANGED inputs

\* A blob is referred to again: any row will do.
RetainKnown(b, m) ==
    /\ Input
    /\ cmd = Idle
    /\ counts[b] # Absent
    /\ Referred(b, m)
    /\ UNCHANGED cmd

\* The command that put the blob goes no further.
KeepUnreferenced ==
    /\ cmd.at = "retain"
    /\ cmd' = Idle
    /\ UNCHANGED <<tables, files, temps, torn, holds, next, plan, inputs>>

Minus(n) == Max({n - 1, 0})

ReleaseForMission(m, b) ==
    /\ Input
    /\ cmd = Idle
    /\ <<m, b>> \in attached
    /\ attached' = attached \ {<<m, b>>}
    /\ counts' = [counts EXCEPT ![b] = Minus(@)]
    /\ UNCHANGED <<rows, archived, lives, deleted, audit, files, temps, torn, holds, next, plan, cmd>>

\* release is called by a holder of the blob.
Release(b) ==
    /\ Input
    /\ cmd = Idle
    /\ holds[b] > 0
    /\ counts[b] > 0
    /\ holds' = [holds EXCEPT ![b] = @ - 1]
    /\ counts' = [counts EXCEPT ![b] = @ - 1]
    /\ UNCHANGED <<rows, archived, lives, deleted, audit, attached, files, temps, torn, next, plan,
                   cmd>>

Removable(b) == counts[b] = 0

\* delete_if_unreferenced: the file goes before the row, inside the transaction
\* but not part of it.
Unlink ==
    /\ cmd.at = "cleanup"
    /\ cmd.blobs # {}
    /\ \E b \in cmd.blobs :
          IF Removable(b)
          THEN /\ files' = files \ {b}
               /\ cmd' = [at |-> "unlinked", mission |-> cmd.mission, blob |-> b,
                           blobs |-> cmd.blobs \ {b}]
          ELSE /\ cmd' = [cmd EXCEPT !.blobs = @ \ {b}]
               /\ UNCHANGED files
    /\ UNCHANGED <<tables, temps, torn, holds, next, plan, inputs>>

DropBlobRow ==
    /\ cmd.at = "unlinked"
    /\ counts' = [counts EXCEPT ![cmd.blob] = Absent]
    /\ cmd' = [at |-> "cleanup", mission |-> cmd.mission, blobs |-> cmd.blobs]
    /\ UNCHANGED <<rows, archived, lives, deleted, audit, attached, files, temps, torn, holds, next,
                   plan, inputs>>

\* The row cannot be deleted: the transaction is rolled back, the file is gone.
DropBlobRowFails ==
    /\ cmd.at = "unlinked"
    /\ torn' = torn \cup {cmd.blob}
    /\ cmd' = Idle
    /\ UNCHANGED <<tables, files, temps, holds, next, plan, inputs>>

\* The service forgets the actor of the mission, unless cleaning up failed.
CleanedUp(ok) ==
    /\ cmd.at = "cleanup"
    /\ ok => cmd.blobs = {}
    /\ ~ok => cmd.blobs # {}
    /\ next' = IF ok THEN [next EXCEPT ![cmd.mission] = 1] ELSE next
    /\ cmd' = Idle
    /\ UNCHANGED <<tables, files, temps, torn, holds, plan, inputs>>

-----------------------------------------------------------------------------
(***************************************************************************)
(* Archive and deletion.                                                   *)
(***************************************************************************)
BlobsOf(m) == {b \in Blobs : <<m, b>> \in attached}

\* usage: bytes are the number of events and of blobs, each of size one.
Usage(m) == Cardinality(RowsOf(rows, m)) + Cardinality(BlobsOf(m))

\* Mutant: blobs with one reference are left out.
CountedBlobsAboveOne == {b \in Blobs : counts[b] > 1}

CountedBlobs == {b \in Blobs : counts[b] > 0}

GlobalUsage == Cardinality(rows) + Cardinality(CountedBlobs)

\* delete_impact and archive_plan; the hash covers all of it.
PlanFor(operation, m) ==
    [operation |-> operation, mission |-> m, events |-> Cardinality(RowsOf(rows, m)),
     bytes |-> Usage(m),
     blobs |-> IF operation = "delete" THEN {<<b, counts[b]>> : b \in BlobsOf(m)} ELSE {}]

Preview(operation, m) ==
    /\ Input
    /\ cmd = Idle
    /\ RowsOf(rows, m) # {}
    /\ plan' = PlanFor(operation, m)
    /\ UNCHANGED <<tables, files, temps, torn, holds, next, cmd>>

Receipt == [operation |-> plan.operation, plan |-> plan]

\* Mutant: an archived mission is archived again under a newer plan.
NotArchivedIgnored(m) == TRUE

NotArchived(m) == m \notin archived

\* The plan still describes the mission; the receipts are looked up.
CheckPlan ==
    /\ cmd = Idle
    /\ plan # NoPlan
    /\ RowsOf(rows, plan.mission) # {}
    /\ plan = PlanFor(plan.operation, plan.mission)
    /\ Receipt \notin audit
    /\ plan.operation = "archive" => NotArchived(plan.mission)
    /\ cmd' = [at |-> plan.operation]
    /\ UNCHANGED <<tables, files, temps, torn, holds, next, plan, inputs>>

Archive ==
    /\ cmd.at = "archive"
    /\ cmd' = Idle
    /\ archived' = archived \cup {plan.mission}
    /\ audit' = audit \cup {Receipt}
    /\ UNCHANGED <<rows, lives, deleted, counts, attached, files, temps, torn, holds, next, plan,
                   inputs>>

\* The transaction of delete_mission; the blobs of the plan lose a reference.
DeleteMission ==
    LET m == plan.mission
        listed == {p[1] : p \in plan.blobs} IN
    /\ cmd.at = "delete"
    /\ rows' = rows \ RowsOf(rows, m)
    /\ attached' = {p \in attached : p[1] # m}
    /\ counts' = [b \in Blobs |-> IF b \in listed THEN Minus(counts[b]) ELSE counts[b]]
    /\ deleted' = [deleted EXCEPT ![m] = @ + 1]
    /\ audit' = audit \cup {Receipt}
    /\ cmd' = [at |-> "cleanup", mission |-> m, blobs |-> listed]
    /\ UNCHANGED <<archived, lives, files, temps, torn, holds, next, plan, inputs>>

-----------------------------------------------------------------------------
\* The process dies.  Committed tables and files stay; the actors start again from
\* what replay_events returns, and the user has lost the plan.
Crash ==
    /\ Input
    /\ next' = [m \in Missions |-> LastSequence(rows, m) + 1]
    /\ plan' = NoPlan
    /\ cmd' = Idle
    /\ torn' = IF cmd.at = "unlinked" THEN torn \cup {cmd.blob} ELSE torn
    /\ UNCHANGED <<tables, files, temps, holds>>

Command ==
    \/ RenameTemp \/ InsertBlobRow \/ Retain \/ KeepUnreferenced
    \/ Unlink \/ DropBlobRow \/ DropBlobRowFails \/ (\E ok \in BOOLEAN : CleanedUp(ok))
    \/ CheckPlan \/ Archive \/ DeleteMission

Next ==
    \/ \E m \in Missions :
          \/ \E bad \in 0 .. 3 : CreateMission(m, bad)
          \/ \E payload \in {"plain", "secret"}, again \in BOOLEAN : ActorAppends(m, payload, again)
          \/ \E operation \in {"archive", "delete"} : Preview(operation, m)
    \/ \E b \in Blobs :
          \/ \E owner \in Missions \cup {"none"} : BeginPut(b, owner) \/ RetainKnown(b, owner)
          \/ \E m \in Missions : ReleaseForMission(m, b)
          \/ Release(b)
    \/ Command
    \/ Crash

Spec == Init /\ [][Next]_vars

-----------------------------------------------------------------------------
(***************************************************************************)
(* Properties.                                                             *)
(***************************************************************************)
\* Whatever the actors, the commands and the crashes did, opening the ledger again
\* finds nothing to complain about: integrity_report passes on what was written.
LedgerPassesIntegrity == IntegrityReport

\* The events that create a mission are there together or not at all: append_batch
\* leaves no half of a mission behind when one of its rows cannot be written.
BatchAllOrNothing ==
    \A m \in Missions, life \in 1 .. MaxLives :
        LET there == {n \in Creation : \E r \in rows : r.id = <<m, life, n>>}
        IN there \in {{}, Creation}

\* The count of a blob is the number of missions and of holders that refer to it:
\* repeated attachments, releases, deletions and crashes leave neither a leak nor a
\* count that is too low.
CountsAreExact ==
    \A b \in Blobs : counts[b] # Absent =>
        counts[b] = holds[b] + Cardinality({m \in Missions : <<m, b>> \in attached})

\* A blob that someone refers to has its file, although files and rows change in
\* separate steps and a crash may come between them.  Only a row whose file
\* delete_if_unreferenced removed before it was cut short can be referred to without,
\* until the blob is put again.
ReferencedBlobHasFile == \A b \in Blobs : counts[b] > 0 => b \in files \/ b \in torn

\* Until it is created again a deleted mission has no event: its actor, which lives
\* on through the cleanup and beyond one that failed, cannot write a row.
DeletedStaysDeleted ==
    \A m \in Missions : deleted[m] = lives[m] => RowsOf(rows, m) = {}

\* A mission is archived at most once, however its plan changed since.
ArchivedOnce ==
    \A m \in Missions :
        Cardinality({a \in audit : a.operation = "archive" /\ a.plan.mission = m}) <= 1

\* What one mission is reported to use is within what the whole ledger uses: the two
\* queries of usage count a blob by attachment and by reference.
UsageWithinGlobal == \A m \in Missions : Usage(m) <= GlobalUsage
=============================================================================
