------------------------ MODULE LedgerStore_invariant ------------------------
(***************************************************************************)
(* Proofs about the ledger and its blobs, for any finite sets of missions  *)
(* and blobs, any number of events, commands and crashes.                  *)
(*                                                                         *)
(* The blobs: a reference count is exact, and a blob that someone refers   *)
(* to has its file.  Rows and files change in separate steps, so the       *)
(* invariant is about every row, referred to or not, and says what the     *)
(* command in progress has established: the file before the row, the row   *)
(* before the reference, and that a file is unlinked at count 0.           *)
(*                                                                         *)
(* The events: no gap, no half of a creation, no row of a deleted mission, *)
(* and one receipt of an archive.                                          *)
(***************************************************************************)
EXTENDS LedgerStore, FiniteSetTheorems, FunctionTheorems, TLAPS

Owners(b, pairs) == {m \in Missions : <<m, b>> \in pairs}

StoreType ==
    /\ counts \in [Blobs -> Nat \cup {Absent}]
    /\ holds \in [Blobs -> Nat]
    /\ attached \subseteq Missions \X Blobs
    /\ IsFiniteSet(rows)

\* The count of a blob with a row is exact, and a blob without one has no reference.
Exact ==
    \A b \in Blobs :
        IF counts[b] = Absent THEN holds[b] = 0 /\ Owners(b, attached) = {}
        ELSE counts[b] = holds[b] + Cardinality(Owners(b, attached))

PutCommands ==
    [at : {"rename", "row", "retain"}, blob : Blobs, owner : Missions \cup {"none"}]

CleanCommands == [at : {"cleanup"}, mission : Missions, blobs : SUBSET Blobs]

UnlinkCommands == [at : {"unlinked"}, mission : Missions, blob : Blobs, blobs : SUBSET Blobs]

Commands ==
    {Idle} \cup [at : {"archive", "delete"}] \cup PutCommands \cup CleanCommands
        \cup UnlinkCommands

\* A row has its file, unless the file was removed and the row was to follow.
RowHasFile ==
    \A b \in Blobs :
        counts[b] # Absent =>
            b \in files \/ b \in torn \/ (cmd.at = "unlinked" /\ cmd.blob = b)

\* What the steps of the command so far have established.
Established ==
    /\ cmd \in Commands
    /\ cmd.at \in {"row", "retain"} => cmd.blob \in files
    /\ cmd.at = "retain" => counts[cmd.blob] # Absent
    /\ cmd.at = "unlinked" => counts[cmd.blob] = 0
    /\ plan # NoPlan => plan.mission \in Missions /\ plan.operation \in {"archive", "delete"}
    /\ cmd.at = "delete" =>
          plan.mission \in Missions /\ {p[1] : p \in plan.blobs} = BlobsOf(plan.mission)

BlobInv ==
    /\ StoreType
    /\ Exact
    /\ RowHasFile
    /\ Established

-----------------------------------------------------------------------------
\* The count saturates at zero.
LEMMA MinusFacts ==
    ASSUME NEW n \in Nat
    PROVE  Minus(n) = IF n = 0 THEN 0 ELSE n - 1
<1> DEFINE S == {n - 1, 0}
<1>1. \E x \in S : \A y \in S : x >= y
  <2>1. CASE n = 0
    BY <2>1
  <2>2. CASE n # 0
    BY <2>2
  <2>3. QED
    BY <2>1, <2>2, Zenon
<1>2. Max(S) \in S /\ \A y \in S : Max(S) >= y
  BY <1>1, Zenon DEF Max
<1>3. QED
  BY <1>2 DEF Minus

\* The missions a blob is attached to are finitely many.
LEMMA OwnersFacts ==
    ASSUME NEW b, NEW pairs
    PROVE  /\ IsFiniteSet(Owners(b, pairs))
           /\ Cardinality(Owners(b, pairs)) \in Nat
           /\ Owners(b, pairs) = {} <=> Cardinality(Owners(b, pairs)) = 0
<1>1. IsFiniteSet(Owners(b, pairs))
  BY StoreAssumption, FS_Subset, Zenon DEF Owners
<1>2. QED
  BY <1>1, FS_CardinalityType, FS_EmptySet, Zenon

\* A pair that comes or goes changes the owners of its blob by one.
LEMMA OwnersWith ==
    ASSUME NEW m \in Missions, NEW b, NEW pairs, <<m, b>> \notin pairs
    PROVE  Cardinality(Owners(b, pairs \cup {<<m, b>>})) = Cardinality(Owners(b, pairs)) + 1
<1>1. Owners(b, pairs \cup {<<m, b>>}) = Owners(b, pairs) \cup {m}
  BY Zenon DEF Owners
<1>2. m \notin Owners(b, pairs)
  BY Zenon DEF Owners
<1>3. QED
  BY <1>1, <1>2, OwnersFacts, FS_AddElement, Zenon

\* A mission that lets a blob go takes one from its owners.
LEMMA OwnersWithout ==
    ASSUME NEW m \in Missions, NEW b, NEW pairs, <<m, b>> \in pairs,
           NEW rest, Owners(b, rest) = Owners(b, pairs) \ {m}
    PROVE  /\ Cardinality(Owners(b, rest)) = Cardinality(Owners(b, pairs)) - 1
           /\ Cardinality(Owners(b, pairs)) >= 1
<1>1. m \in Owners(b, pairs)
  BY Zenon DEF Owners
<1>2. Cardinality(Owners(b, rest)) = Cardinality(Owners(b, pairs)) - 1
  BY <1>1, OwnersFacts, FS_RemoveElement, Zenon
<1>3. QED
  BY <1>2, OwnersFacts

\* The point a command has reached says which command it is.
LEMMA CommandShapes ==
    ASSUME cmd \in Commands
    PROVE  /\ cmd.at \in {"rename", "row", "retain"} => cmd \in PutCommands
           /\ cmd.at = "cleanup" => cmd \in CleanCommands
           /\ cmd.at = "unlinked" => cmd \in UnlinkCommands
  BY DEF Commands, PutCommands, CleanCommands, UnlinkCommands, Idle

-----------------------------------------------------------------------------
(***************************************************************************)
(* Steps that change no blob, count or reference.                          *)
(***************************************************************************)
LEMMA StoreKept ==
    ASSUME BlobInv, UNCHANGED <<counts, holds, attached, files>>, IsFiniteSet(rows'),
           torn \subseteq torn',
           cmd.at = "unlinked" => cmd' = cmd \/ cmd.blob \in torn'
    PROVE  StoreType' /\ Exact' /\ RowHasFile'
  BY Zenon DEF BlobInv, StoreType, Exact, RowHasFile

\* The actors write rows of events beside the command.
LEMMA EventsKeep ==
    ASSUME BlobInv, NEW m \in Missions,
           \/ \E bad \in 0 .. 3 : CreateMission(m, bad)
           \/ \E payload \in {"plain", "secret"}, again \in BOOLEAN : ActorAppends(m, payload, again)
    PROVE  BlobInv'
<1>1. UNCHANGED <<counts, holds, attached, files, torn, plan, cmd>>
  BY Zenon DEF CreateMission, ActorAppends, Append1
<1>2. IsFiniteSet(rows')
  <2>1. IsFiniteSet(rows)
    BY Zenon DEF BlobInv, StoreType
  <2>2. ASSUME NEW payload \in {"plain", "secret"}, NEW again \in BOOLEAN,
               ActorAppends(m, payload, again)
        PROVE  IsFiniteSet(rows')
    <3>1. \E row : rows' = rows \/ rows' = rows \cup {row}
      BY <2>2, Zenon DEF ActorAppends, Append1, Insert
    <3>2. QED
      BY <2>1, <3>1, FS_AddElement, Zenon
  <2>3. ASSUME NEW bad \in 0 .. 3, CreateMission(m, bad)
        PROVE  IsFiniteSet(rows')
    <3> DEFINE group == [n \in Creation |-> [Event(m, n, "plain") EXCEPT !.id[2] = @ + 1]]
               a == Row(group[1])
               b == Row(group[2])
               c == Row(group[3])
    <3>1. rows' = AppendBatch(group, bad)
      BY <2>3, Zenon DEF CreateMission
    <3>2. Len(group) = 3
      BY DEF Creation
    <3> HIDE DEF group
    <3>3. rows' = rows \/ rows' = rows \cup {Row(group[i]) : i \in 1 .. 3}
      BY <3>1, <3>2, Zenon DEF AppendBatch, Inserted
    <3>4. {Row(group[i]) : i \in 1 .. 3} = {a, b, c}
      <4>1. 1 .. 3 = {1, 2, 3}
        OBVIOUS
      <4>2. QED
        BY <4>1, Zenon
    <3> HIDE DEF a, b, c
    <3>5. rows \cup {a, b, c} = ((rows \cup {a}) \cup {b}) \cup {c}
      BY Zenon
    <3>6. IsFiniteSet(rows \cup {a})
      BY <2>1, FS_AddElement, Zenon
    <3>7. IsFiniteSet((rows \cup {a}) \cup {b})
      BY <3>6, FS_AddElement, Zenon
    <3>8. IsFiniteSet(((rows \cup {a}) \cup {b}) \cup {c})
      BY <3>7, FS_AddElement, Zenon
    <3>9. QED
      BY <2>1, <3>3, <3>4, <3>5, <3>8, Zenon
  <2>4. QED
    BY <2>2, <2>3, Zenon
<1>3. Established'
  BY <1>1, Zenon DEF BlobInv, Established, BlobsOf
<1>4. QED
  BY <1>1, <1>2, <1>3, StoreKept, Zenon DEF BlobInv

\* Steps that touch neither counts nor files, or end a command (retention.rs, delete.rs).
LEMMA PlansKeep ==
    ASSUME BlobInv,
           \/ \E m \in Missions, operation \in {"archive", "delete"} : Preview(operation, m)
           \/ CheckPlan \/ Archive \/ Crash \/ DropBlobRowFails \/ KeepUnreferenced
           \/ \E ok \in BOOLEAN : CleanedUp(ok)
    PROVE  BlobInv'
<1>1. UNCHANGED <<counts, holds, attached, files, rows>>
  BY Zenon DEF Preview, CheckPlan, Archive, Crash, DropBlobRowFails, KeepUnreferenced,
               CleanedUp, tables
<1>2. Idle \in Commands /\ Idle.at = "idle"
  BY Zenon DEF Commands, Idle
<1>3. torn \subseteq torn' /\ (cmd.at = "unlinked" => cmd.blob \in torn')
  <2>1. CASE Crash
    BY <2>1, Zenon DEF Crash
  <2>2. CASE DropBlobRowFails
    BY <2>2, Zenon DEF DropBlobRowFails
  <2>3. CASE ~Crash /\ ~DropBlobRowFails
    <3>1. torn' = torn /\ (cmd = Idle \/ cmd.at \in {"archive", "retain", "cleanup"})
      BY <2>3, Zenon DEF Preview, CheckPlan, Archive, KeepUnreferenced, CleanedUp
    <3>2. QED
      BY <1>2, <3>1
  <2>4. QED
    BY <2>1, <2>2, <2>3, Zenon
<1>4. CASE \E m \in Missions, operation \in {"archive", "delete"} : Preview(operation, m)
  <2>1. cmd = Idle /\ cmd' = Idle
    BY <1>4, Zenon DEF Preview
  <2>2. plan'.mission \in Missions /\ plan'.operation \in {"archive", "delete"}
    BY <1>4 DEF Preview, PlanFor
  <2>3. Established'
    BY <1>2, <2>1, <2>2 DEF Established
  <2>4. QED
    BY <1>1, <1>3, <2>3, StoreKept, Zenon DEF BlobInv, StoreType
<1>5. CASE CheckPlan
  <2>1. /\ plan # NoPlan
        /\ plan = PlanFor(plan.operation, plan.mission)
        /\ cmd' = [at |-> plan.operation]
        /\ plan' = plan
    BY <1>5, Zenon DEF CheckPlan
  <2>2. plan.mission \in Missions /\ plan.operation \in {"archive", "delete"}
    BY <2>1, Zenon DEF BlobInv, Established
  <2>3. cmd' \in Commands /\ cmd'.at = plan.operation
    BY <2>1, <2>2, Zenon DEF Commands
  <2>4. ASSUME plan.operation = "delete"
        PROVE  {p[1] : p \in plan.blobs} = BlobsOf(plan.mission)
    <3>1. plan.blobs = {<<b, counts[b]>> : b \in BlobsOf(plan.mission)}
      BY <2>1, <2>4 DEF PlanFor
    <3> DEFINE owned == BlobsOf(plan.mission)
    <3> HIDE DEF owned
    <3>2. {p[1] : p \in {<<b, counts[b]>> : b \in owned}} = owned
      <4>1. \A b \in owned : <<b, counts[b]>>[1] = b
        BY Zenon
      <4>2. QED
        BY <4>1, Zenon
    <3>3. QED
      BY <3>1, <3>2, Zenon DEF owned
  <2>5. BlobsOf(plan.mission)' = BlobsOf(plan.mission)
    BY <1>1, <2>1, Zenon DEF BlobsOf
  <2>6. Established'
    BY <1>1, <2>1, <2>2, <2>3, <2>4, <2>5 DEF Established
  <2>7. QED
    BY <1>1, <1>3, <2>6, StoreKept, Zenon DEF BlobInv, StoreType
<1>6. CASE \/ Archive \/ Crash \/ DropBlobRowFails \/ KeepUnreferenced
           \/ \E ok \in BOOLEAN : CleanedUp(ok)
  <2>1. cmd' = Idle /\ plan' \in {plan, NoPlan}
    BY <1>6, Zenon DEF Archive, Crash, DropBlobRowFails, KeepUnreferenced, CleanedUp
  <2>2. Established'
    BY <1>2, <2>1, Zenon DEF BlobInv, Established
  <2>3. QED
    BY <1>1, <1>3, <2>2, StoreKept, Zenon DEF BlobInv, StoreType
<1>7. QED
  BY <1>4, <1>5, <1>6, Zenon

-----------------------------------------------------------------------------
(***************************************************************************)
(* The steps of put and retain.                                            *)
(***************************************************************************)
LEMMA BeginPutKeeps ==
    ASSUME BlobInv, NEW b \in Blobs, NEW owner \in Missions \cup {"none"}, BeginPut(b, owner)
    PROVE  BlobInv'
<1>1. UNCHANGED <<counts, holds, attached, files, torn, rows, plan>> /\ cmd.at = "idle"
  BY Zenon DEF BeginPut, tables, Idle
<1>2. \/ b \in files /\ cmd' = [at |-> "row", blob |-> b, owner |-> owner]
      \/ cmd' = [at |-> "rename", blob |-> b, owner |-> owner]
  BY Zenon DEF BeginPut, Present
<1>3. cmd' \in Commands
  BY <1>2 DEF Commands, PutCommands
<1>4. Established'
  BY <1>1, <1>2, <1>3 DEF BlobInv, Established
<1>5. cmd.at # "unlinked"
  BY <1>1
<1>6. QED
  BY <1>1, <1>4, <1>5, StoreKept, Zenon DEF BlobInv, StoreType

\* A put renames its temporary file, which is then there (blob.rs).
LEMMA RenameTempKeeps ==
    ASSUME BlobInv, RenameTemp
    PROVE  BlobInv'
<1>1. /\ UNCHANGED <<counts, holds, attached, torn, rows, plan>>
      /\ cmd.at = "rename" /\ cmd' = [cmd EXCEPT !.at = "row"]
      /\ files' = files \cup {cmd.blob}
  BY Zenon DEF RenameTemp, tables
<1>2. cmd \in PutCommands
  BY <1>1, CommandShapes, Zenon DEF BlobInv, Established
<1>3. cmd' \in PutCommands /\ cmd'.at = "row" /\ cmd'.blob = cmd.blob
  BY <1>1, <1>2, Zenon DEF PutCommands
<1>4. Established'
  BY <1>1, <1>3 DEF BlobInv, Established, Commands
<1>5. StoreType' /\ Exact'
  BY <1>1, Zenon DEF BlobInv, StoreType, Exact
<1>6. cmd.at # "unlinked"
  BY <1>1
<1>7. RowHasFile'
  BY <1>1, <1>6, Zenon DEF BlobInv, RowHasFile
<1>8. QED
  BY <1>4, <1>5, <1>7, Zenon DEF BlobInv

\* A row is inserted with count 0, for a blob that has no reference yet.
LEMMA InsertBlobRowKeeps ==
    ASSUME BlobInv, InsertBlobRow
    PROVE  BlobInv'
<1> DEFINE b == cmd.blob
<1>1. /\ UNCHANGED <<holds, attached, files, rows, plan>> /\ torn' = torn \ {b}
      /\ cmd.at = "row" /\ cmd' = [cmd EXCEPT !.at = "retain"]
      /\ counts' = IF counts[b] = Absent THEN [counts EXCEPT ![b] = 0] ELSE counts
  BY Zenon DEF InsertBlobRow
<1>2. cmd \in PutCommands
  BY <1>1, CommandShapes, Zenon DEF BlobInv, Established
<1>3. /\ cmd' \in PutCommands /\ cmd'.at = "retain" /\ cmd'.blob = b
      /\ b \in Blobs /\ b \in files
  BY <1>1, <1>2, Zenon DEF PutCommands, BlobInv, Established
<1> HIDE DEF b
<1>4. /\ counts' \in [Blobs -> Nat \cup {Absent}]
      /\ counts'[b] = IF counts[b] = Absent THEN 0 ELSE counts[b]
      /\ \A c \in Blobs : c # b => counts'[c] = counts[c]
  BY <1>1, <1>3 DEF BlobInv, StoreType, Absent
<1>5. StoreType'
  BY <1>1, <1>4, Zenon DEF BlobInv, StoreType
<1>6. Exact'
  <2>1. counts'[b] # Absent
    BY <1>4 DEF Absent
  <2>2. counts'[b] = holds[b] + Cardinality(Owners(b, attached))
    <3>1. CASE counts[b] = Absent
      <4>1. holds[b] = 0 /\ Owners(b, attached) = {} /\ counts'[b] = 0
        BY <1>3, <1>4, <3>1, Zenon DEF BlobInv, Exact
      <4>2. Cardinality(Owners(b, attached)) = 0
        BY <4>1, FS_EmptySet, Zenon
      <4>3. QED
        BY <4>1, <4>2
    <3>2. CASE counts[b] # Absent
      BY <1>3, <1>4, <3>2, Zenon DEF BlobInv, Exact
    <3>3. QED
      BY <3>1, <3>2, Zenon
  <2>3. QED
    BY <1>1, <1>4, <2>1, <2>2, Zenon DEF BlobInv, Exact
<1>7. RowHasFile'
  <2>1. cmd.at # "unlinked"
    BY <1>1
  <2>2. QED
    BY <1>1, <1>3, <1>4, <2>1, Zenon DEF BlobInv, RowHasFile
<1>8. counts'[b] # Absent
  BY <1>4 DEF Absent
<1>9. Established'
  BY <1>1, <1>3, <1>8, Zenon DEF BlobInv, Established, Commands
<1>10. QED
  BY <1>5, <1>6, <1>7, <1>9, Zenon DEF BlobInv

\* A new reference and its count come in one transaction, for a blob that has a row.
LEMMA ReferredKeeps ==
    ASSUME BlobInv, NEW b \in Blobs, NEW m \in Missions \cup {"none"}, Referred(b, m),
           counts[b] # Absent, cmd.at # "unlinked", cmd' = Idle
    PROVE  BlobInv'
<1>1. /\ UNCHANGED <<files, torn, rows, plan>>
      /\ IF m = "none"
         THEN /\ holds' = [holds EXCEPT ![b] = @ + 1]
              /\ counts' = [counts EXCEPT ![b] = @ + 1]
              /\ attached' = attached
         ELSE /\ attached' = attached \cup {<<m, b>>}
              /\ counts' = IF <<m, b>> \notin attached THEN [counts EXCEPT ![b] = @ + 1] ELSE counts
              /\ holds' = holds
  BY Zenon DEF Referred, Counted
<1>3. counts[b] \in Nat
  BY Zenon DEF BlobInv, StoreType
<1>4. Established'
  BY <1>1, Zenon DEF BlobInv, Established, Commands, Idle
<1>5. \A c \in Blobs : c # b => Owners(c, attached') = Owners(c, attached)
  BY <1>1, Zenon DEF Owners
<1>6. CASE m = "none" \/ <<m, b>> \notin attached
  <2>1. /\ counts' = [counts EXCEPT ![b] = counts[b] + 1]
        /\ counts' \in [Blobs -> Nat \cup {Absent}]
        /\ counts'[b] = counts[b] + 1
        /\ \A c \in Blobs : c # b => counts'[c] = counts[c]
    BY <1>1, <1>3, <1>6 DEF BlobInv, StoreType
  <2>2. /\ StoreType'
        /\ \A c \in Blobs : c # b => holds'[c] = holds[c]
    BY <1>1, <1>3, <2>1 DEF BlobInv, StoreType
  <2>3. counts'[b] # Absent
    BY <1>3, <2>1 DEF Absent
  <2>4. counts'[b] = holds'[b] + Cardinality(Owners(b, attached'))
    <3>1. CASE m = "none"
      BY <1>1, <1>3, <2>1, <3>1, OwnersFacts DEF BlobInv, StoreType, Exact
    <3>2. CASE m # "none"
      <4>1. m \in Missions /\ <<m, b>> \notin attached /\ holds' = holds
            /\ attached' = attached \cup {<<m, b>>}
        BY <1>1, <1>3, <1>6, <3>2, Zenon
      <4>2. Cardinality(Owners(b, attached')) = Cardinality(Owners(b, attached)) + 1
        BY <4>1, OwnersWith
      <4>3. QED
        BY <1>3, <2>1, <4>1, <4>2, OwnersFacts DEF BlobInv, StoreType, Exact
    <3>3. QED
      BY <3>1, <3>2, Zenon
  <2>5. Exact'
    BY <1>5, <2>1, <2>2, <2>3, <2>4, Zenon DEF BlobInv, Exact
  <2>6. RowHasFile'
    BY <1>1, <2>1, Zenon DEF BlobInv, RowHasFile
  <2>7. QED
    BY <1>4, <2>2, <2>5, <2>6, Zenon DEF BlobInv
<1>7. CASE m # "none" /\ <<m, b>> \in attached
  <2>1. UNCHANGED <<counts, holds>> /\ attached' = attached
    BY <1>1, <1>7, Zenon
  <2>2. QED
    BY <1>1, <1>4, <2>1, StoreKept, Zenon DEF BlobInv, StoreType
<1>8. QED
  BY <1>6, <1>7, Zenon

\* The command that put the blob refers to it, or a later one does (blob_store.rs).
LEMMA RetainKeeps ==
    ASSUME BlobInv,
           Retain \/ \E b \in Blobs, m \in Missions \cup {"none"} : RetainKnown(b, m)
    PROVE  BlobInv'
<1>1. CASE Retain
  <2>1. cmd.at = "retain" /\ cmd' = Idle /\ Referred(cmd.blob, cmd.owner)
    BY <1>1, Zenon DEF Retain
  <2>2. cmd \in PutCommands
    BY <2>1, CommandShapes, Zenon DEF BlobInv, Established
  <2>3. /\ cmd.blob \in Blobs /\ cmd.owner \in Missions \cup {"none"}
        /\ counts[cmd.blob] # Absent
    BY <2>1, <2>2, Zenon DEF PutCommands, BlobInv, Established
  <2>4. cmd.at # "unlinked"
    BY <2>1
  <2>5. QED
    BY <2>1, <2>3, <2>4, ReferredKeeps, Zenon
<1>2. ASSUME NEW b \in Blobs, NEW m \in Missions \cup {"none"}, RetainKnown(b, m)
      PROVE  BlobInv'
  <2>1. cmd.at = "idle" /\ cmd' = Idle /\ Referred(b, m) /\ counts[b] # Absent
    BY <1>2, Zenon DEF RetainKnown, Idle
  <2>2. cmd.at # "unlinked"
    BY <2>1
  <2>3. QED
    BY <2>1, <2>2, ReferredKeeps, Zenon
<1>3. QED
  BY <1>1, <1>2, Zenon

-----------------------------------------------------------------------------
(***************************************************************************)
(* The steps that take references, files and rows away.                    *)
(***************************************************************************)
LEMMA ReleaseForMissionKeeps ==
    ASSUME BlobInv, NEW m \in Missions, NEW b \in Blobs, ReleaseForMission(m, b)
    PROVE  BlobInv'
<1>1. /\ UNCHANGED <<files, torn, rows, plan, cmd, holds>>
      /\ cmd = Idle
      /\ <<m, b>> \in attached
      /\ attached' = attached \ {<<m, b>>}
      /\ counts' = [counts EXCEPT ![b] = Minus(counts[b])]
  BY Zenon DEF ReleaseForMission
<1>2. /\ Cardinality(Owners(b, attached')) = Cardinality(Owners(b, attached)) - 1
      /\ Cardinality(Owners(b, attached)) >= 1
  <2> DEFINE rest == attached \ {<<m, b>>}
  <2>1. Owners(b, rest) = Owners(b, attached) \ {m}
    BY Zenon DEF Owners
  <2>2. attached' = rest
    BY <1>1, Zenon
  <2> HIDE DEF rest
  <2>3. <<m, b>> \in attached
    BY <1>1, Zenon
  <2>4. /\ Cardinality(Owners(b, rest)) = Cardinality(Owners(b, attached)) - 1
        /\ Cardinality(Owners(b, attached)) >= 1
    BY <2>1, <2>3, OwnersWithout, Zenon
  <2>5. QED
    BY <2>2, <2>4, Zenon
<1>3. \A c \in Blobs : c # b => Owners(c, attached') = Owners(c, attached)
  BY <1>1, Zenon DEF Owners
<1>4. counts[b] # Absent
  <2>1. Owners(b, attached) # {}
    BY <1>1, Zenon DEF Owners
  <2>2. QED
    BY <2>1, Zenon DEF BlobInv, Exact
<1>5. counts[b] \in Nat /\ counts[b] >= 1 /\ counts[b] = holds[b] + Cardinality(Owners(b, attached))
  BY <1>2, <1>4, OwnersFacts DEF BlobInv, StoreType, Exact
<1>6. /\ counts' \in [Blobs -> Nat \cup {Absent}]
      /\ counts'[b] = counts[b] - 1 /\ counts'[b] # Absent
      /\ \A c \in Blobs : c # b => counts'[c] = counts[c]
  <2>1. Minus(counts[b]) = counts[b] - 1
    BY <1>5, MinusFacts
  <2>2. QED
    BY <1>1, <1>5, <2>1 DEF BlobInv, StoreType, Absent
<1>7. StoreType'
  BY <1>1, <1>6, Zenon DEF BlobInv, StoreType
<1>8. Exact'
  <2>1. counts'[b] = holds[b] + Cardinality(Owners(b, attached'))
    BY <1>2, <1>5, <1>6, OwnersFacts DEF BlobInv, StoreType
  <2>2. QED
    BY <1>1, <1>3, <1>6, <2>1, Zenon DEF BlobInv, Exact
<1>9. RowHasFile'
  BY <1>1, <1>4, <1>6, Zenon DEF BlobInv, RowHasFile
<1>10. Established'
  BY <1>1, Zenon DEF BlobInv, Established, Idle
<1>11. QED
  BY <1>7, <1>8, <1>9, <1>10, Zenon DEF BlobInv

\* A holder gives its reference back, which it had (blob.rs).
LEMMA ReleaseKeeps ==
    ASSUME BlobInv, NEW b \in Blobs, Release(b)
    PROVE  BlobInv'
<1>1. /\ UNCHANGED <<files, torn, rows, plan, cmd, attached>>
      /\ cmd = Idle
      /\ holds[b] > 0 /\ counts[b] > 0
      /\ holds' = [holds EXCEPT ![b] = holds[b] - 1]
      /\ counts' = [counts EXCEPT ![b] = counts[b] - 1]
  BY Zenon DEF Release
<1>2. counts[b] \in Nat /\ counts[b] # Absent /\ holds[b] \in Nat
  BY <1>1 DEF BlobInv, StoreType, Absent
<1>3. /\ counts' \in [Blobs -> Nat \cup {Absent}]
      /\ counts'[b] = counts[b] - 1 /\ counts'[b] # Absent
      /\ \A c \in Blobs : c # b => counts'[c] = counts[c]
  BY <1>1, <1>2 DEF BlobInv, StoreType, Absent
<1>4. /\ holds' \in [Blobs -> Nat]
      /\ holds'[b] = holds[b] - 1
      /\ \A c \in Blobs : c # b => holds'[c] = holds[c]
  BY <1>1, <1>2 DEF BlobInv, StoreType
<1>5. StoreType'
  BY <1>1, <1>3, <1>4, Zenon DEF BlobInv, StoreType
<1>6. Exact'
  <2>1. counts'[b] = holds'[b] + Cardinality(Owners(b, attached))
    BY <1>2, <1>3, <1>4, OwnersFacts DEF BlobInv, Exact
  <2>2. QED
    BY <1>1, <1>3, <1>4, <2>1, Zenon DEF BlobInv, Exact
<1>7. RowHasFile'
  BY <1>1, <1>2, <1>3, Zenon DEF BlobInv, RowHasFile
<1>8. Established'
  BY <1>1, Zenon DEF BlobInv, Established, Idle
<1>9. QED
  BY <1>5, <1>6, <1>7, <1>8, Zenon DEF BlobInv

\* A file goes only at count 0.
LEMMA UnlinkKeeps ==
    ASSUME BlobInv, Unlink
    PROVE  BlobInv'
<1>1. UNCHANGED <<counts, holds, attached, torn, rows, plan>> /\ cmd.at = "cleanup"
  BY Zenon DEF Unlink, tables
<1>2. cmd \in CleanCommands
  BY <1>1, CommandShapes, Zenon DEF BlobInv, Established
<1>3. PICK b \in cmd.blobs :
        \/ /\ counts[b] = 0
           /\ files' = files \ {b}
           /\ cmd' = [at |-> "unlinked", mission |-> cmd.mission, blob |-> b,
                       blobs |-> cmd.blobs \ {b}]
        \/ files' = files /\ cmd' = [cmd EXCEPT !.blobs = @ \ {b}]
  BY Zenon DEF Unlink, Removable
<1>4. cmd' \in CleanCommands \cup UnlinkCommands
  BY <1>2, <1>3 DEF CleanCommands, UnlinkCommands
<1>5. Established'
  <2>1. cmd' \in Commands
    BY <1>4, Zenon DEF Commands
  <2>2. cmd'.at \in {"cleanup", "unlinked"}
    BY <1>4, Zenon DEF CleanCommands, UnlinkCommands
  <2>3. cmd'.at = "unlinked" => counts[cmd'.blob] = 0
    BY <1>2, <1>3 DEF CleanCommands
  <2>4. QED
    BY <1>1, <2>1, <2>2, <2>3, Zenon DEF BlobInv, Established
<1>6. StoreType' /\ Exact'
  BY <1>1, Zenon DEF BlobInv, StoreType, Exact
<1>7. RowHasFile'
  <2>1. cmd.at # "unlinked"
    BY <1>1
  <2>2. \/ files' = files \ {b} /\ cmd'.at = "unlinked" /\ cmd'.blob = b
        \/ files' = files
    BY <1>3
  <2>3. QED
    BY <1>1, <2>1, <2>2, Zenon DEF BlobInv, RowHasFile
<1>8. QED
  BY <1>5, <1>6, <1>7, Zenon DEF BlobInv

\* A row goes only when nobody refers to its blob.
LEMMA DropBlobRowKeeps ==
    ASSUME BlobInv, DropBlobRow
    PROVE  BlobInv'
<1> DEFINE b == cmd.blob
<1>1. /\ UNCHANGED <<holds, attached, files, torn, rows, plan>>
      /\ cmd.at = "unlinked"
      /\ counts' = [counts EXCEPT ![b] = Absent]
      /\ cmd' = [at |-> "cleanup", mission |-> cmd.mission, blobs |-> cmd.blobs]
  BY Zenon DEF DropBlobRow
<1>2. cmd \in UnlinkCommands
  BY <1>1, CommandShapes, Zenon DEF BlobInv, Established
<1>3. b \in Blobs /\ counts[b] = 0 /\ cmd' \in CleanCommands
  BY <1>1, <1>2, Zenon DEF UnlinkCommands, CleanCommands, BlobInv, Established
<1> HIDE DEF b
<1>4. /\ counts' \in [Blobs -> Nat \cup {Absent}]
      /\ counts'[b] = Absent
      /\ \A c \in Blobs : c # b => counts'[c] = counts[c]
  BY <1>1, <1>3, Zenon DEF BlobInv, StoreType
<1>5. holds[b] = 0 /\ Owners(b, attached) = {}
  <2>1. 0 = holds[b] + Cardinality(Owners(b, attached))
    BY <1>3 DEF BlobInv, Exact, Absent
  <2>2. holds[b] \in Nat
    BY <1>3, Zenon DEF BlobInv, StoreType
  <2>3. Cardinality(Owners(b, attached)) = 0 /\ holds[b] = 0
    BY <2>1, <2>2, OwnersFacts
  <2>4. QED
    BY <2>3, OwnersFacts, Zenon
<1>6. StoreType'
  BY <1>1, <1>4, Zenon DEF BlobInv, StoreType
<1>7. Exact'
  BY <1>1, <1>4, <1>5, Zenon DEF BlobInv, Exact
<1>8. RowHasFile'
  BY <1>1, <1>4, Zenon DEF BlobInv, RowHasFile, b
<1>9. Established'
  BY <1>1, <1>3, Zenon DEF BlobInv, Established, Commands
<1>10. QED
  BY <1>6, <1>7, <1>8, <1>9 DEF BlobInv

\* The blobs of the plan are the blobs of the mission: each loses one owner and one
\* reference, and no other blob loses any.
LEMMA DeleteMissionKeeps ==
    ASSUME BlobInv, DeleteMission
    PROVE  BlobInv'
<1> DEFINE m == plan.mission
           listed == {p[1] : p \in plan.blobs}
           rest == {p \in attached : p[1] # m}
<1>1. /\ UNCHANGED <<holds, files, torn, plan>>
      /\ cmd.at = "delete"
      /\ rows' = rows \ RowsOf(rows, m)
      /\ attached' = rest
      /\ counts' = [b \in Blobs |-> IF b \in listed THEN Minus(counts[b]) ELSE counts[b]]
      /\ cmd' = [at |-> "cleanup", mission |-> m, blobs |-> listed]
  BY Zenon DEF DeleteMission
<1>2. m \in Missions /\ listed = BlobsOf(m)
  BY <1>1, Zenon DEF BlobInv, Established
<1>3. attached \subseteq Missions \X Blobs
  BY Zenon DEF BlobInv, StoreType
<1>4. \A b \in Blobs : b \in listed <=> <<m, b>> \in attached
  BY <1>2, Zenon DEF BlobsOf
<1>5. cmd' \in Commands /\ cmd'.at = "cleanup"
  BY <1>1, <1>2, Zenon DEF Commands, CleanCommands, BlobsOf
<1>6. rest \subseteq attached
  BY Zenon
<1>7. \A b \in Blobs : Owners(b, rest) = Owners(b, attached) \ {m}
  BY <1>3, Zenon DEF Owners
<1>8. Established'
  BY <1>1, <1>5, Zenon DEF BlobInv, Established
<1> HIDE DEF m, listed, rest
<1>9. ASSUME NEW b \in Blobs
      PROVE  /\ counts'[b] \in Nat \cup {Absent}
             /\ counts'[b] # Absent => counts[b] # Absent
             /\ IF counts'[b] = Absent THEN holds[b] = 0 /\ Owners(b, rest) = {}
                ELSE counts'[b] = holds[b] + Cardinality(Owners(b, rest))
  <2>1. CASE b \in listed
    <3>1. <<m, b>> \in attached
      BY <1>4, <2>1, Zenon
    <3>2. /\ Cardinality(Owners(b, rest)) = Cardinality(Owners(b, attached)) - 1
          /\ Cardinality(Owners(b, attached)) >= 1
      BY <1>2, <1>7, <3>1, OwnersWithout, Zenon
    <3>3. m \in Owners(b, attached)
      BY <1>2, <3>1, Zenon DEF Owners
    <3>4. counts[b] # Absent /\ counts[b] = holds[b] + Cardinality(Owners(b, attached))
      BY <3>3, Zenon DEF BlobInv, Exact
    <3>5. counts[b] \in Nat /\ counts[b] >= 1
      BY <3>2, <3>4, OwnersFacts DEF BlobInv, StoreType
    <3>6. counts'[b] = counts[b] - 1
      BY <1>1, <2>1, <3>5, MinusFacts
    <3>7. counts'[b] # Absent /\ counts'[b] = holds[b] + Cardinality(Owners(b, rest))
      BY <3>2, <3>4, <3>5, <3>6, OwnersFacts DEF BlobInv, StoreType, Absent
    <3>8. counts'[b] \in Nat
      BY <3>5, <3>6
    <3>9. QED
      BY <3>4, <3>7, <3>8, Zenon
  <2>2. CASE b \notin listed
    <3>1. Owners(b, rest) = Owners(b, attached)
      BY <1>2, <1>4, <1>7, <2>2, Zenon DEF Owners
    <3>2. counts'[b] = counts[b]
      BY <1>1, <2>2, Zenon
    <3>3. QED
      BY <3>1, <3>2, Zenon DEF BlobInv, StoreType, Exact
  <2>3. QED
    BY <2>1, <2>2, Zenon
<1>10. StoreType'
  <2>1. counts' \in [Blobs -> Nat \cup {Absent}]
    BY <1>1, <1>9, Zenon
  <2>2. IsFiniteSet(rows')
    BY <1>1, FS_Subset, Zenon DEF BlobInv, StoreType
  <2>3. QED
    BY <1>1, <1>3, <1>6, <2>1, <2>2, Zenon DEF BlobInv, StoreType
<1>11. Exact'
  BY <1>1, <1>9, Zenon DEF Exact
<1>12. RowHasFile'
  <2>1. cmd.at # "unlinked"
    BY <1>1
  <2>2. QED
    BY <1>1, <1>9, <2>1, Zenon DEF BlobInv, RowHasFile
<1>13. QED
  BY <1>8, <1>10, <1>11, <1>12, Zenon DEF BlobInv

-----------------------------------------------------------------------------
\* An empty store refers to nothing.
LEMMA BlobInit == Init => BlobInv
<1> SUFFICES ASSUME Init PROVE BlobInv
  BY Zenon
<1>1. StoreType
  BY FS_EmptySet, Zenon DEF Init, StoreType, Absent
<1>2. Exact
  BY Zenon DEF Init, Exact, Owners
<1>3. RowHasFile
  BY Zenon DEF Init, RowHasFile
<1>4. Established
  BY Zenon DEF Init, Established, Commands, Idle
<1>5. QED
  BY <1>1, <1>2, <1>3, <1>4, Zenon DEF BlobInv

\* Every step keeps the counts exact and the files of what is referred to.
LEMMA BlobStep == BlobInv /\ [Next]_vars => BlobInv'
<1> SUFFICES ASSUME BlobInv, [Next]_vars PROVE BlobInv'
  BY Zenon
<1>1. ASSUME NEW m \in Missions,
             \/ \E bad \in 0 .. 3 : CreateMission(m, bad)
             \/ \E payload \in {"plain", "secret"}, again \in BOOLEAN :
                   ActorAppends(m, payload, again)
      PROVE  BlobInv'
  BY <1>1, EventsKeep, Zenon
<1>2. CASE \/ \E m \in Missions, operation \in {"archive", "delete"} : Preview(operation, m)
           \/ CheckPlan \/ Archive \/ Crash \/ DropBlobRowFails \/ KeepUnreferenced
           \/ \E ok \in BOOLEAN : CleanedUp(ok)
  BY <1>2, PlansKeep, Zenon
<1>3. CASE \/ RenameTemp \/ InsertBlobRow \/ Retain
           \/ \E b \in Blobs, m \in Missions \cup {"none"} : RetainKnown(b, m)
  BY <1>3, RenameTempKeeps, InsertBlobRowKeeps, RetainKeeps, Zenon
<1>4. CASE Unlink \/ DropBlobRow \/ DeleteMission
  BY <1>4, UnlinkKeeps, DropBlobRowKeeps, DeleteMissionKeeps, Zenon
<1>5. ASSUME NEW b \in Blobs, NEW owner \in Missions \cup {"none"}, BeginPut(b, owner)
      PROVE  BlobInv'
  BY <1>5, BeginPutKeeps, Zenon
<1>6. ASSUME NEW b \in Blobs, NEW m \in Missions, ReleaseForMission(m, b)
      PROVE  BlobInv'
  BY <1>6, ReleaseForMissionKeeps, Zenon
<1>7. ASSUME NEW b \in Blobs, Release(b)
      PROVE  BlobInv'
  BY <1>7, ReleaseKeeps, Zenon
<1>8. CASE UNCHANGED vars
  <2>1. Established'
    BY <1>8, Zenon DEF vars, BlobInv, Established, BlobsOf
  <2>2. QED
    BY <1>8, <2>1, StoreKept, Zenon DEF vars, BlobInv, StoreType
<1>9. QED
  BY <1>1, <1>2, <1>3, <1>4, <1>5, <1>6, <1>7, <1>8, Zenon DEF Next, Command

\* The invariant from which the theorems on blobs follow.
LEMMA BlobInvHolds == Spec => []BlobInv
  BY BlobInit, BlobStep, PTL DEF Spec

\* A blob that a mission or a holder refers to has its file, whatever was put, released,
\* deleted or cut short by a crash, unless delete_if_unreferenced removed the file and
\* did not get to the row, which was then referred to again (blob_store.rs, delete.rs).
THEOREM FilesOutliveReferences == Spec => []ReferencedBlobHasFile
<1>1. ASSUME BlobInv, NEW b \in Blobs, counts[b] > 0
      PROVE  b \in files \/ b \in torn
  <2>1. counts[b] # Absent /\ counts[b] # 0
    BY <1>1 DEF Absent
  <2>2. ~(cmd.at = "unlinked" /\ cmd.blob = b)
    BY <1>1, <2>1, Zenon DEF BlobInv, Established
  <2>3. QED
    BY <1>1, <2>1, <2>2, Zenon DEF BlobInv, RowHasFile
<1>2. QED
  <2>1. BlobInv => ReferencedBlobHasFile
    BY <1>1, Zenon DEF ReferencedBlobHasFile
  <2>2. QED
    BY <2>1, BlobInvHolds, PTL

\* The count of a blob in blob_refs is the number of missions and holders that refer to
\* it (blob_store.rs, delete.rs).
THEOREM CountsStayExact == Spec => []CountsAreExact
<1>1. BlobInv => CountsAreExact
  BY Zenon DEF BlobInv, Exact, CountsAreExact, Owners
<1>2. QED
  BY <1>1, BlobInvHolds, PTL

\* What one mission is reported to use is within what the whole ledger uses
\* (retention.rs): every attached blob is a counted one.
THEOREM UsageStaysWithinGlobal == Spec => []UsageWithinGlobal
<1>1. ASSUME BlobInv, NEW m \in Missions PROVE Usage(m) <= GlobalUsage
  <2>1. BlobsOf(m) \subseteq CountedBlobs
    <3> SUFFICES ASSUME NEW b \in BlobsOf(m) PROVE b \in CountedBlobs
      BY Zenon
    <3>1. b \in Blobs /\ m \in Owners(b, attached)
      BY Zenon DEF BlobsOf, Owners
    <3>2. Cardinality(Owners(b, attached)) \in Nat /\ Cardinality(Owners(b, attached)) # 0
      BY <3>1, OwnersFacts, Zenon
    <3>3. counts[b] = holds[b] + Cardinality(Owners(b, attached)) /\ holds[b] \in Nat
      BY <1>1, <3>1, Zenon DEF BlobInv, Exact, StoreType
    <3>4. QED
      BY <3>1, <3>2, <3>3 DEF CountedBlobs
  <2>2. IsFiniteSet(CountedBlobs) /\ IsFiniteSet(rows)
    BY <1>1, StoreAssumption, FS_Subset, Zenon DEF CountedBlobs, BlobInv, StoreType
  <2>3. /\ Cardinality(BlobsOf(m)) <= Cardinality(CountedBlobs)
        /\ IsFiniteSet(BlobsOf(m))
    BY <2>1, <2>2, FS_Subset, Zenon
  <2>4. RowsOf(rows, m) \subseteq rows
    BY Zenon DEF RowsOf
  <2>5. /\ Cardinality(RowsOf(rows, m)) <= Cardinality(rows)
        /\ IsFiniteSet(RowsOf(rows, m))
    BY <2>2, <2>4, FS_Subset, Zenon
  <2>6. /\ Cardinality(BlobsOf(m)) \in Nat /\ Cardinality(CountedBlobs) \in Nat
        /\ Cardinality(RowsOf(rows, m)) \in Nat /\ Cardinality(rows) \in Nat
    BY <2>2, <2>3, <2>5, FS_CardinalityType, Zenon
  <2>7. QED
    BY <2>3, <2>5, <2>6 DEF Usage, GlobalUsage
<1>2. BlobInv => UsageWithinGlobal
  BY <1>1, Zenon DEF UsageWithinGlobal
<1>3. QED
  BY <1>2, BlobInvHolds, PTL

-----------------------------------------------------------------------------
(***************************************************************************)
(* The events.  Every row carries the present life of its mission, so that *)
(* an event is known by its sequence; the rows of a mission are there from *)
(* 1 on without a gap, at least the three of its creation, and as long as  *)
(* it was created once more often than deleted.                            *)
(***************************************************************************)
LedgerType ==
    /\ lives \in [Missions -> Nat]
    /\ deleted \in [Missions -> Nat]
    /\ next \in [Missions -> Nat]

RowIsSound(r) ==
    /\ r.mission \in Missions
    /\ r.id = <<r.mission, lives[r.mission], r.sequence>>
    /\ r.hash = Hash(r.payload)

IsRow(r, m, life, n) ==
    /\ r.mission = m
    /\ r.sequence = n
    /\ r.id = <<m, life, n>>
    /\ r.hash = Hash(r.payload)

SequencesOf(table, m) == {r.sequence : r \in RowsOf(table, m)}

Gapless(table, m, n) ==
    /\ n \in Nat \ {1, 2}
    /\ SequencesOf(table, m) = 1 .. n
    /\ \A r, s \in RowsOf(table, m) : r.sequence = s.sequence => r = s

Lived(m, n) == lives[m] = IF n = 0 THEN deleted[m] ELSE deleted[m] + 1

\* An archive leaves one receipt, and the command that is about to write one has found
\* the mission not archived; a deletion has found events to delete.
ReceiptsAreSingle ==
    /\ \A a \in audit : a.operation = "archive" => a.plan.mission \in archived
    /\ \A a, b \in audit :
          a.operation = "archive" /\ b.operation = "archive" /\ a.plan.mission = b.plan.mission
              => a = b
    /\ cmd.at = "archive" => plan.operation = "archive" /\ plan.mission \notin archived
    /\ cmd.at = "delete" => plan.operation = "delete" /\ RowsOf(rows, plan.mission) # {}

LedgerInv ==
    /\ LedgerType
    /\ \A r \in rows : RowIsSound(r)
    /\ \A m \in Missions :
          /\ Gapless(rows, m, LastSequence(rows, m))
          /\ Lived(m, LastSequence(rows, m))
    /\ ReceiptsAreSingle

\* The last sequence of rows without a gap is their number.
LEMMA LastOfGapless ==
    ASSUME NEW table, NEW m, NEW n \in Nat, SequencesOf(table, m) = 1 .. n
    PROVE  LastSequence(table, m) = n
<1> DEFINE T == (1 .. n) \cup {0}
<1>1. n \in T /\ \A y \in T : n >= y
  OBVIOUS
<1>2. \A x \in T : (\A y \in T : x >= y) => x = n
  BY <1>1
<1>3. Max(T) = n
  BY <1>1, <1>2, Zenon DEF Max
<1>4. LastSequence(table, m) = Max(T)
  BY Zenon DEF LastSequence, SequencesOf
<1>5. QED
  BY <1>3, <1>4, Zenon

\* A mission has no row, or the three of its creation.
LEMMA LastFacts ==
    ASSUME LedgerInv, NEW m \in Missions
    PROVE  /\ LastSequence(rows, m) \in Nat \ {1, 2}
           /\ LastSequence(rows, m) = 0 <=> RowsOf(rows, m) = {}
<1>1. Gapless(rows, m, LastSequence(rows, m))
  BY Zenon DEF LedgerInv
<1> DEFINE n == LastSequence(rows, m)
<1> HIDE DEF n
<1>2. n \in Nat \ {1, 2} /\ SequencesOf(rows, m) = 1 .. n
  BY <1>1, Zenon DEF Gapless, n
<1>3. n = 0 => RowsOf(rows, m) = {}
  <2>1. ASSUME n = 0, NEW r \in RowsOf(rows, m) PROVE FALSE
    <3>1. r.sequence \in 1 .. 0
      BY <1>2, <2>1, Zenon DEF SequencesOf
    <3>2. QED
      BY <3>1
  <2>2. QED
    BY <2>1, Zenon
<1>4. RowsOf(rows, m) = {} => n = 0
  <2>1. ASSUME RowsOf(rows, m) = {} PROVE n = 0
    <3>1. SequencesOf(rows, m) = {}
      BY <2>1, Zenon DEF SequencesOf
    <3>2. 1 .. n = {}
      BY <1>2, <3>1, Zenon
    <3>3. QED
      BY <1>2, <3>2
  <2>2. QED
    BY <2>1, Zenon
<1>5. QED
  BY <1>2, <1>3, <1>4, Zenon DEF n

\* What depends only on the rows of a mission.
LEMMA SameRowsSameLast ==
    ASSUME NEW s, NEW t, NEW m, RowsOf(s, m) = RowsOf(t, m), NEW n
    PROVE  /\ LastSequence(s, m) = LastSequence(t, m)
           /\ Gapless(s, m, n) <=> Gapless(t, m, n)
  BY Zenon DEF LastSequence, Gapless, SequencesOf

\* A step that leaves the rows, the lives and the receipts alone.
LEMMA LedgerKept ==
    ASSUME LedgerInv, UNCHANGED <<rows, lives, deleted>>, next' \in [Missions -> Nat],
           ReceiptsAreSingle'
    PROVE  LedgerInv'
<1>1. LedgerType'
  BY Zenon DEF LedgerInv, LedgerType
<1>2. \A r \in rows' : RowIsSound(r)'
  BY Zenon DEF LedgerInv, RowIsSound
<1>3. \A m \in Missions : LastSequence(rows, m)' = LastSequence(rows, m)
  BY Zenon DEF LastSequence, RowsOf
<1>4. ASSUME NEW m \in Missions
      PROVE  Gapless(rows, m, LastSequence(rows, m))' /\ Lived(m, LastSequence(rows, m))'
  BY <1>3, Zenon DEF LedgerInv, Gapless, SequencesOf, RowsOf, Lived
<1>5. QED
  BY <1>1, <1>2, <1>4, Zenon DEF LedgerInv

\* No command is about to archive or delete after the step, and no receipt is new.
LEMMA ReceiptsKept ==
    ASSUME ReceiptsAreSingle, UNCHANGED <<audit, archived>>, cmd'.at \notin {"archive", "delete"}
    PROVE  ReceiptsAreSingle'
  BY Zenon DEF ReceiptsAreSingle

-----------------------------------------------------------------------------
\* A row that follows the others of its mission.
LEMMA RowAdded ==
    ASSUME LedgerInv, NEW m \in Missions, NEW w, NEW k \in Nat, NEW last \in Nat,
           last = LastSequence(rows, m), k = last + 1, last >= 3,
           IsRow(w, m, lives[m], k),
           rows' = rows \cup {w}, UNCHANGED <<lives, deleted, archived, audit, plan, cmd>>,
           next' \in [Missions -> Nat]
    PROVE  LedgerInv'
<1>1. \A r \in rows' : RowIsSound(r)'
  <2>1. ASSUME NEW r \in rows PROVE RowIsSound(r)'
    BY Zenon DEF LedgerInv, RowIsSound
  <2>2. RowIsSound(w)'
    BY Zenon DEF RowIsSound, IsRow
  <2>3. QED
    BY <2>1, <2>2, Zenon
<1>2. RowsOf(rows', m) = RowsOf(rows, m) \cup {w}
  BY Zenon DEF RowsOf, IsRow
<1>3. Gapless(rows, m, last) /\ Lived(m, last)
  BY Zenon DEF LedgerInv
<1>4. SequencesOf(rows', m) = 1 .. k
  <2>1. SequencesOf(rows', m) = SequencesOf(rows, m) \cup {k}
    BY <1>2, Zenon DEF SequencesOf, IsRow
  <2>2. SequencesOf(rows, m) = 1 .. last
    BY <1>3, Zenon DEF Gapless
  <2>3. (1 .. last) \cup {k} = 1 .. k
    OBVIOUS
  <2>4. QED
    BY <2>1, <2>2, <2>3, Zenon
<1>5. LastSequence(rows', m) = k
  BY <1>4, LastOfGapless, Zenon
<1>6. Gapless(rows', m, k)
  <2>1. ASSUME NEW r \in RowsOf(rows, m) PROVE r.sequence # k
    <3>1. r.sequence \in 1 .. last
      BY <1>3, Zenon DEF Gapless, SequencesOf
    <3>2. QED
      BY <3>1
  <2>2. \A r, s \in RowsOf(rows', m) : r.sequence = s.sequence => r = s
    <3>1. ASSUME NEW r \in RowsOf(rows, m), NEW s \in RowsOf(rows, m), r.sequence = s.sequence
          PROVE  r = s
      BY <1>3, <3>1, Zenon DEF Gapless
    <3>2. QED
      BY <1>2, <2>1, <3>1 DEF IsRow
  <2>3. k \in Nat \ {1, 2}
    OBVIOUS
  <2>4. QED
    BY <1>4, <2>2, <2>3, Zenon DEF Gapless
<1>7. Lived(m, k)'
  BY <1>3 DEF Lived
<1>8. ASSUME NEW q \in Missions, q # m
      PROVE  Gapless(rows', q, LastSequence(rows', q)) /\ Lived(q, LastSequence(rows, q))'
  <2>1. RowsOf(rows', q) = RowsOf(rows, q)
    BY <1>8, Zenon DEF RowsOf, IsRow
  <2>2. LastSequence(rows', q) = LastSequence(rows, q)
    BY <2>1, SameRowsSameLast
  <2>3. Gapless(rows', q, LastSequence(rows, q))
    BY <2>1, SameRowsSameLast, Zenon DEF LedgerInv
  <2>4. Lived(q, LastSequence(rows, q))
    BY Zenon DEF LedgerInv
  <2>5. QED
    BY <2>2, <2>3, <2>4, Zenon DEF Lived
<1>9. \A q \in Missions :
        Gapless(rows', q, LastSequence(rows', q)) /\ Lived(q, LastSequence(rows, q))'
  BY <1>5, <1>6, <1>7, <1>8, Zenon DEF Lived
<1>10. ReceiptsAreSingle'
  BY Zenon DEF LedgerInv, ReceiptsAreSingle, RowsOf
<1>11. LedgerType'
  BY Zenon DEF LedgerInv, LedgerType
<1>12. QED
  BY <1>1, <1>9, <1>10, <1>11, Zenon DEF LedgerInv, Gapless, SequencesOf

\* An actor appends its next event or its last one again (sqlcipher.rs, append).
LEMMA ActorAppendsKeeps ==
    ASSUME LedgerInv, NEW m \in Missions, NEW payload, NEW again \in BOOLEAN,
           ActorAppends(m, payload, again)
    PROVE  LedgerInv'
<1> DEFINE k == IF again THEN next[m] - 1 ELSE next[m]
           e == Event(m, k, payload)
           last == LastSequence(rows, m)
<1>1. /\ next[m] \in 4 .. MaxEvents + 1
      /\ Append1(e)
  BY Zenon DEF ActorAppends
<1>2. k \in Nat /\ k >= 3 /\ next[m] \in Nat
  BY <1>1, StoreAssumption DEF LedgerInv, LedgerType
<1>3. /\ e.mission = m /\ e.sequence = k /\ e.id = <<m, lives[m], k>>
      /\ Row(e).mission = m /\ Row(e).sequence = k /\ Row(e).id = <<m, lives[m], k>>
      /\ Row(e).hash = Hash(Row(e).payload)
  BY Zenon DEF Event, Row
<1>4. last \in Nat \ {1, 2}
  BY LastFacts, Zenon
<1> HIDE DEF k, e, last
<1>5. UNCHANGED <<lives, deleted, archived, audit, plan, cmd>>
  BY <1>1, Zenon DEF Append1
<1>6. next' \in [Missions -> Nat]
  <2>1. next \in [Missions -> Nat]
    BY Zenon DEF LedgerInv, LedgerType
  <2>2. next' = next \/ next' = [next EXCEPT ![m] = next[m] + 1]
    BY <1>1, <1>3, Zenon DEF Append1
  <2>3. QED
    BY <1>2, <2>1, <2>2
<1>7. CASE rows' = rows
  <2>1. ReceiptsAreSingle'
    BY <1>5, <1>7, Zenon DEF LedgerInv, ReceiptsAreSingle
  <2>2. QED
    BY <1>5, <1>6, <1>7, <2>1, LedgerKept
<1>8. CASE rows' # rows
  <2> DEFINE w == Row(e)
  <2>1. Follows(rows, e) /\ rows' = rows \cup {w}
    <3>1. Accepts(rows, e) /\ rows' = rows \cup {w}
      BY <1>1, <1>8, Zenon DEF Append1, Insert
    <3>2. w \notin rows
      BY <1>8, <3>1, Zenon
    <3>3. QED
      BY <3>1, <3>2, Zenon DEF Accepts
  <2>2. k = last + 1 /\ last >= 3
    <3>1. k = last + 1
      BY <1>3, <2>1, Zenon DEF Follows, last
    <3>2. QED
      BY <1>2, <1>4, <3>1
  <2>3. IsRow(w, m, lives[m], k)
    BY <1>3, Zenon DEF IsRow
  <2> HIDE DEF w
  <2>4. QED
    BY <1>2, <1>4, <1>5, <1>6, <2>1, <2>2, <2>3, RowAdded DEF last
<1>9. QED
  BY <1>7, <1>8, Zenon

\* The three events of a creation come together, for a mission without a row.
LEMMA CreationAdded ==
    ASSUME LedgerInv, NEW m \in Missions, NEW a, NEW b, NEW c,
           RowsOf(rows, m) = {},
           IsRow(a, m, lives[m] + 1, 1), IsRow(b, m, lives[m] + 1, 2),
           IsRow(c, m, lives[m] + 1, 3),
           rows' = rows \cup {a, b, c},
           lives' = [lives EXCEPT ![m] = lives[m] + 1],
           UNCHANGED <<deleted, archived, audit, plan, cmd>>,
           next' \in [Missions -> Nat]
    PROVE  LedgerInv'
<1>1. /\ lives[m] \in Nat /\ lives' \in [Missions -> Nat] /\ lives'[m] = lives[m] + 1
      /\ \A q \in Missions : q # m => lives'[q] = lives[q]
  BY DEF LedgerInv, LedgerType
<1>2. \A r \in rows' : RowIsSound(r)'
  <2>1. ASSUME NEW r \in rows PROVE RowIsSound(r)'
    <3>1. r.mission # m
      BY Zenon DEF RowsOf
    <3>2. RowIsSound(r)
      BY Zenon DEF LedgerInv
    <3>3. QED
      BY <1>1, <3>1, <3>2, Zenon DEF RowIsSound
  <2>2. ASSUME NEW r \in {a, b, c} PROVE RowIsSound(r)'
    BY <1>1 DEF RowIsSound, IsRow
  <2>3. QED
    BY <2>1, <2>2, Zenon
<1>3. RowsOf(rows', m) = {a, b, c}
  BY Zenon DEF RowsOf, IsRow
<1>4. SequencesOf(rows', m) = 1 .. 3
  <2>1. SequencesOf(rows', m) = {1, 2, 3}
    BY <1>3 DEF SequencesOf, IsRow
  <2>2. {1, 2, 3} = 1 .. 3
    OBVIOUS
  <2>3. QED
    BY <2>1, <2>2, Zenon
<1>5. LastSequence(rows', m) = 3
  BY <1>4, LastOfGapless, Zenon
<1>6. Gapless(rows', m, 3)
  <2>1. \A r, s \in {a, b, c} : r.sequence = s.sequence => r = s
    BY DEF IsRow
  <2>2. 3 \in Nat \ {1, 2}
    OBVIOUS
  <2>3. QED
    BY <1>3, <1>4, <2>1, <2>2, Zenon DEF Gapless
<1>7. Lived(m, 3)'
  <2>1. LastSequence(rows, m) = 0
    BY LastFacts, Zenon
  <2>2. Lived(m, 0)
    BY <2>1, Zenon DEF LedgerInv
  <2>3. QED
    BY <1>1, <2>2 DEF Lived
<1>8. ASSUME NEW q \in Missions, q # m
      PROVE  Gapless(rows', q, LastSequence(rows', q)) /\ Lived(q, LastSequence(rows, q))'
  <2>1. RowsOf(rows', q) = RowsOf(rows, q)
    BY <1>8, Zenon DEF RowsOf, IsRow
  <2>2. LastSequence(rows', q) = LastSequence(rows, q)
    BY <2>1, SameRowsSameLast
  <2>3. Gapless(rows', q, LastSequence(rows, q))
    BY <2>1, SameRowsSameLast, Zenon DEF LedgerInv
  <2>4. Lived(q, LastSequence(rows, q)) /\ lives'[q] = lives[q]
    BY <1>1, <1>8, Zenon DEF LedgerInv
  <2>5. QED
    BY <2>2, <2>3, <2>4, Zenon DEF Lived
<1>9. \A q \in Missions :
        Gapless(rows', q, LastSequence(rows', q)) /\ Lived(q, LastSequence(rows, q))'
  BY <1>5, <1>6, <1>7, <1>8, Zenon DEF Lived
<1>10. ReceiptsAreSingle'
  BY Zenon DEF LedgerInv, ReceiptsAreSingle, RowsOf
<1>11. LedgerType'
  BY <1>1, Zenon DEF LedgerInv, LedgerType
<1>12. QED
  BY <1>2, <1>9, <1>10, <1>11, Zenon DEF LedgerInv, Gapless, SequencesOf

\* A mission is created, whole or not at all (sqlcipher.rs, append_batch).
LEMMA CreateMissionKeeps ==
    ASSUME LedgerInv, NEW m \in Missions, NEW bad \in 0 .. 3, CreateMission(m, bad)
    PROVE  LedgerInv'
<1> DEFINE group == [n \in Creation |-> [Event(m, n, "plain") EXCEPT !.id[2] = @ + 1]]
           w(n) == Row(group[n])
<1>1. /\ RowsOf(rows, m) = {}
      /\ rows' = AppendBatch(group, bad)
      /\ next' = IF bad = 0 THEN [next EXCEPT ![m] = 4] ELSE next
      /\ lives' = IF rows' # rows THEN [lives EXCEPT ![m] = lives[m] + 1] ELSE lives
      /\ UNCHANGED <<deleted, archived, audit, plan, cmd>>
  BY Zenon DEF CreateMission
<1>2. next' \in [Missions -> Nat]
  BY <1>1, Zenon DEF LedgerInv, LedgerType
<1>3. ASSUME NEW n \in Creation
      PROVE  IsRow(w(n), m, lives[m] + 1, n)
  <2>1. [<<m, lives[m], n>> EXCEPT ![2] = @ + 1] = <<m, lives[m] + 1, n>>
    OBVIOUS
  <2>2. group[n] = [mission |-> m, id |-> <<m, lives[m] + 1, n>>, sequence |-> n,
                    payload |-> "plain"]
    BY <2>1, Zenon DEF Event
  <2> HIDE DEF group
  <2>3. QED
    BY <2>2 DEF Row, IsRow
<1>4. Len(group) = 3 /\ Creation = {1, 2, 3}
  BY DEF Creation
<1> HIDE DEF group
<1>5. \/ rows' = rows
      \/ rows' = rows \cup {w(1), w(2), w(3)}
  <2>1. rows' = rows \/ rows' = rows \cup {w(i) : i \in 1 .. 3}
    BY <1>1, <1>4, Zenon DEF AppendBatch, Inserted
  <2>2. {w(i) : i \in 1 .. 3} = {w(1), w(2), w(3)}
    <3>1. 1 .. 3 = {1, 2, 3}
      OBVIOUS
    <3>2. QED
      BY <3>1, Zenon
  <2>3. QED
    BY <2>1, <2>2, Zenon
<1>6. CASE rows' = rows
  <2>1. lives' = lives
    BY <1>1, <1>6, Zenon
  <2>2. ReceiptsAreSingle'
    BY <1>1, <1>6, Zenon DEF LedgerInv, ReceiptsAreSingle
  <2>3. QED
    BY <1>1, <1>2, <1>6, <2>1, <2>2, LedgerKept
<1>7. CASE rows' = rows \cup {w(1), w(2), w(3)}
  <2>1. PICK a, b, c : a = w(1) /\ b = w(2) /\ c = w(3)
    BY Zenon
  <2>2. /\ IsRow(a, m, lives[m] + 1, 1) /\ IsRow(b, m, lives[m] + 1, 2)
        /\ IsRow(c, m, lives[m] + 1, 3)
    BY <1>3, <1>4, <2>1, Zenon
  <2>3. rows' = rows \cup {a, b, c}
    BY <1>7, <2>1, Zenon
  <2>4. rows' # rows
    BY <1>1, <2>2, <2>3, Zenon DEF RowsOf, IsRow
  <2>5. lives' = [lives EXCEPT ![m] = lives[m] + 1]
    BY <1>1, <2>4, Zenon
  <2>6. QED
    BY <1>1, <1>2, <2>2, <2>3, <2>5, CreationAdded, Zenon
<1>8. QED
  BY <1>5, <1>6, <1>7, Zenon
\* The steps on blobs touch no row of the events (blob.rs).
LEMMA BlobStepsKeepLedger ==
    ASSUME BlobInv, LedgerInv,
           \/ \E b \in Blobs :
                 \/ \E owner \in Missions \cup {"none"} :
                       BeginPut(b, owner) \/ RetainKnown(b, owner)
                 \/ \E m \in Missions : ReleaseForMission(m, b)
                 \/ Release(b)
           \/ RenameTemp \/ InsertBlobRow \/ Retain \/ KeepUnreferenced
           \/ Unlink \/ DropBlobRow \/ DropBlobRowFails \/ (\E ok \in BOOLEAN : CleanedUp(ok))
    PROVE  LedgerInv'
<1>1. UNCHANGED <<rows, lives, deleted, archived, audit>>
  BY Zenon DEF BeginPut, ReleaseForMission, Release, RenameTemp, InsertBlobRow, Retain,
         RetainKnown, Referred, KeepUnreferenced, Unlink, DropBlobRow, DropBlobRowFails, CleanedUp,
         tables
<1>2. cmd'.at \notin {"archive", "delete"}
  <2>1. ASSUME NEW b \in Blobs, NEW owner \in Missions \cup {"none"}, BeginPut(b, owner)
        PROVE  cmd'.at \notin {"archive", "delete"}
    <3>1. cmd' = [at |-> "row", blob |-> b, owner |-> owner]
          \/ cmd' = [at |-> "rename", blob |-> b, owner |-> owner]
      BY <2>1, Zenon DEF BeginPut
    <3>2. QED
      BY <3>1
  <2>2. CASE RenameTemp
    <3>1. cmd \in PutCommands
      BY <2>2, CommandShapes, Zenon DEF BlobInv, Established, RenameTemp
    <3>2. QED
      BY <2>2, <3>1, Zenon DEF RenameTemp, PutCommands
  <2>3. CASE InsertBlobRow
    <3>1. cmd \in PutCommands
      BY <2>3, CommandShapes, Zenon DEF BlobInv, Established, InsertBlobRow
    <3>2. QED
      BY <2>3, <3>1, Zenon DEF InsertBlobRow, PutCommands
  <2>4. CASE Unlink
    <3>1. cmd \in CleanCommands
      BY <2>4, CommandShapes, Zenon DEF BlobInv, Established, Unlink
    <3>2. QED
      BY <2>4, <3>1 DEF Unlink, CleanCommands
  <2>5. CASE DropBlobRow
    <3>1. cmd' = [at |-> "cleanup", mission |-> cmd.mission, blobs |-> cmd.blobs]
      BY <2>5, Zenon DEF DropBlobRow
    <3>2. QED
      BY <3>1, Zenon
  <2>6. CASE \/ \E b \in Blobs : Release(b) \/ \E m \in Missions : ReleaseForMission(m, b)
             \/ \E b \in Blobs, m \in Missions \cup {"none"} : RetainKnown(b, m)
             \/ Retain \/ KeepUnreferenced \/ DropBlobRowFails
             \/ \E ok \in BOOLEAN : CleanedUp(ok)
    <3>1. cmd' = Idle
      BY <2>6, Zenon DEF ReleaseForMission, Release, RetainKnown, Retain, KeepUnreferenced,
                         DropBlobRowFails, CleanedUp
    <3>2. QED
      BY <3>1, Zenon DEF Idle
  <2>7. QED
    BY <2>1, <2>2, <2>3, <2>4, <2>5, <2>6
<1>3. next' \in [Missions -> Nat]
  <2>1. CASE \E ok \in BOOLEAN : CleanedUp(ok)
    <3>1. next \in [Missions -> Nat]
      BY Zenon DEF LedgerInv, LedgerType
    <3>2. next' = next \/ next' = [next EXCEPT ![cmd.mission] = 1]
      BY <2>1, Zenon DEF CleanedUp
    <3>3. QED
      BY <3>1, <3>2
  <2>2. CASE ~\E ok \in BOOLEAN : CleanedUp(ok)
    <3>1. next' = next
      BY <2>2, Zenon DEF BeginPut, ReleaseForMission, Release, RenameTemp, InsertBlobRow,
         RetainKnown, Referred, Retain, KeepUnreferenced, Unlink, DropBlobRow, DropBlobRowFails
    <3>2. QED
      BY <3>1, Zenon DEF LedgerInv, LedgerType
  <2>3. QED
    BY <2>1, <2>2, Zenon
<1>4. ReceiptsAreSingle'
  BY <1>1, <1>2, ReceiptsKept, Zenon DEF LedgerInv
<1>5. QED
  BY <1>1, <1>3, <1>4, LedgerKept, Zenon

\* A preview, the check of a plan and a crash write nothing (retention.rs, delete.rs).
LEMMA PlansKeepLedger ==
    ASSUME BlobInv, LedgerInv,
           \/ \E m \in Missions, operation \in {"archive", "delete"} : Preview(operation, m)
           \/ CheckPlan \/ Crash
    PROVE  LedgerInv'
<1>1. UNCHANGED <<rows, lives, deleted, archived, audit>>
  BY Zenon DEF Preview, CheckPlan, Crash, tables
<1>2. next' \in [Missions -> Nat]
  <2>1. CASE Crash
    <3>1. \A m \in Missions : LastSequence(rows, m) \in Nat
      BY LastFacts, Zenon
    <3>2. QED
      BY <2>1, <3>1 DEF Crash
  <2>2. CASE ~Crash
    <3>1. next' = next
      BY <2>2, Zenon DEF Preview, CheckPlan
    <3>2. QED
      BY <3>1, Zenon DEF LedgerInv, LedgerType
  <2>3. QED
    BY <2>1, <2>2, Zenon
<1>3. ReceiptsAreSingle'
  <2>1. CASE \E m \in Missions, operation \in {"archive", "delete"} : Preview(operation, m)
    <3>1. cmd' = Idle
      BY <2>1, Zenon DEF Preview
    <3>2. QED
      BY <1>1, <3>1, ReceiptsKept, Zenon DEF LedgerInv, Idle
  <2>2. CASE Crash
    BY <1>1, <2>2, ReceiptsKept, Zenon DEF LedgerInv, Crash, Idle
  <2>3. CASE CheckPlan
    <3>1. /\ cmd' = [at |-> plan.operation] /\ plan' = plan /\ plan # NoPlan
          /\ RowsOf(rows, plan.mission) # {}
          /\ plan.operation = "archive" => plan.mission \notin archived
      BY <2>3, Zenon DEF CheckPlan, NotArchived
    <3>2. cmd'.at = plan.operation
      BY <3>1, Zenon
    <3>3. RowsOf(rows, plan.mission)' # {}
      BY <1>1, <3>1, Zenon DEF RowsOf
    <3>4. QED
      BY <1>1, <3>1, <3>2, <3>3, Zenon DEF LedgerInv, ReceiptsAreSingle
  <2>4. QED
    BY <2>1, <2>2, <2>3, Zenon
<1>4. QED
  BY <1>1, <1>2, <1>3, LedgerKept, Zenon

\* The command that is about to write carries out its own plan.
LEMMA PlanOfCommand ==
    ASSUME BlobInv, LedgerInv, cmd.at \in {"archive", "delete"}
    PROVE  plan.mission \in Missions /\ plan.operation = cmd.at
<1>1. plan.operation = cmd.at
  BY DEF LedgerInv, ReceiptsAreSingle
<1>2. plan # NoPlan
  BY <1>1 DEF NoPlan
<1>3. QED
  BY <1>1, <1>2, Zenon DEF BlobInv, Established

\* A mission that was not archived is archived, with one receipt (retention.rs).
LEMMA ArchiveKeepsLedger ==
    ASSUME BlobInv, LedgerInv, Archive
    PROVE  LedgerInv'
<1>1. /\ cmd.at = "archive" /\ cmd' = Idle
      /\ archived' = archived \cup {plan.mission}
      /\ audit' = audit \cup {Receipt}
      /\ UNCHANGED <<rows, lives, deleted, next>>
  BY Zenon DEF Archive
<1>2. plan.mission \notin archived
  BY <1>1, Zenon DEF LedgerInv, ReceiptsAreSingle
<1>3. Receipt.plan.mission = plan.mission
  BY Zenon DEF Receipt
<1>4. PICK w : w = Receipt
  BY Zenon
<1>5. ASSUME NEW a \in audit, a.operation = "archive"
      PROVE  a.plan.mission \in archived /\ a.plan.mission # w.plan.mission
  BY <1>2, <1>3, <1>4, <1>5, Zenon DEF LedgerInv, ReceiptsAreSingle
<1>6. \A a \in audit' : a.operation = "archive" => a.plan.mission \in archived'
  BY <1>1, <1>3, <1>4, <1>5, Zenon
<1>7. ASSUME NEW a \in audit', NEW b \in audit', a.operation = "archive",
             b.operation = "archive", a.plan.mission = b.plan.mission
      PROVE  a = b
  <2>1. CASE a \in audit /\ b \in audit
    BY <1>7, <2>1, Zenon DEF LedgerInv, ReceiptsAreSingle
  <2>2. CASE a = w \/ b = w
    BY <1>1, <1>4, <1>5, <1>7, <2>2
  <2>3. QED
    BY <1>1, <1>4, <2>1, <2>2
<1>8. ReceiptsAreSingle'
  BY <1>1, <1>6, <1>7, Zenon DEF ReceiptsAreSingle, Idle
<1>9. next' \in [Missions -> Nat]
  BY <1>1, Zenon DEF LedgerInv, LedgerType
<1>10. QED
  BY <1>1, <1>8, <1>9, LedgerKept, Zenon

\* A deletion takes all rows of a mission that has some (delete.rs).
LEMMA DeleteMissionKeepsLedger ==
    ASSUME BlobInv, LedgerInv, DeleteMission
    PROVE  LedgerInv'
<1>1. PICK m : m = plan.mission
  BY Zenon
<1>2. /\ cmd.at = "delete"
      /\ rows' = rows \ RowsOf(rows, m)
      /\ deleted' = [deleted EXCEPT ![m] = deleted[m] + 1]
      /\ audit' = audit \cup {Receipt}
      /\ cmd'.at = "cleanup"
      /\ UNCHANGED <<archived, lives, next, plan>>
  BY <1>1, Zenon DEF DeleteMission
<1>3. m \in Missions /\ plan.operation = "delete" /\ RowsOf(rows, m) # {}
  BY <1>1, <1>2, PlanOfCommand, Zenon DEF LedgerInv, ReceiptsAreSingle
<1>4. RowsOf(rows', m) = {} /\ \A q : q # m => RowsOf(rows', q) = RowsOf(rows, q)
  BY <1>2, Zenon DEF RowsOf
<1>5. /\ deleted' \in [Missions -> Nat] /\ deleted'[m] = deleted[m] + 1
      /\ \A q \in Missions : q # m => deleted'[q] = deleted[q]
  BY <1>2, <1>3 DEF LedgerInv, LedgerType
<1>6. LedgerType'
  BY <1>2, <1>5, Zenon DEF LedgerInv, LedgerType
<1>7. \A r \in rows' : RowIsSound(r)'
  BY <1>2, Zenon DEF LedgerInv, RowIsSound
<1>8. Gapless(rows', m, LastSequence(rows', m)) /\ Lived(m, LastSequence(rows, m))'
  <2>1. SequencesOf(rows', m) = 1 .. 0
    BY <1>4 DEF SequencesOf
  <2>2. LastSequence(rows', m) = 0
    BY <2>1, LastOfGapless, Zenon
  <2>3. LastSequence(rows, m) # 0
    BY <1>3, LastFacts, Zenon
  <2>4. lives[m] = deleted[m] + 1
    BY <1>3, <2>3, Zenon DEF LedgerInv, Lived
  <2>5. Lived(m, LastSequence(rows, m))'
    BY <1>2, <1>5, <2>2, <2>4, Zenon DEF Lived
  <2>6. Gapless(rows', m, 0)
    BY <1>4, <2>1 DEF Gapless
  <2>7. QED
    BY <2>2, <2>5, <2>6, Zenon
<1>9. ASSUME NEW q \in Missions, q # m
      PROVE  Gapless(rows', q, LastSequence(rows', q)) /\ Lived(q, LastSequence(rows, q))'
  <2>1. LastSequence(rows', q) = LastSequence(rows, q)
    BY <1>4, <1>9, SameRowsSameLast, Zenon
  <2>2. Gapless(rows', q, LastSequence(rows, q))
    BY <1>4, <1>9, SameRowsSameLast, Zenon DEF LedgerInv
  <2>3. Lived(q, LastSequence(rows, q)) /\ lives' = lives /\ deleted'[q] = deleted[q]
    BY <1>2, <1>5, <1>9, Zenon DEF LedgerInv
  <2>4. QED
    BY <2>1, <2>2, <2>3, Zenon DEF Lived
<1>10. Receipt.operation = "delete"
  BY <1>3, Zenon DEF Receipt
<1>11. ReceiptsAreSingle'
  BY <1>2, <1>10, Zenon DEF LedgerInv, ReceiptsAreSingle
<1>12. \A q \in Missions :
        Gapless(rows', q, LastSequence(rows', q)) /\ Lived(q, LastSequence(rows, q))'
  BY <1>8, <1>9, Zenon
<1>13. QED
  BY <1>6, <1>7, <1>11, <1>12 DEF LedgerInv, Gapless, SequencesOf

\* An empty ledger is sound.
LEMMA LedgerInit == Init => LedgerInv
<1> SUFFICES ASSUME Init PROVE LedgerInv
  OBVIOUS
<1>1. LedgerType
  BY Zenon DEF Init, LedgerType
<1>2. ASSUME NEW m \in Missions
      PROVE  Gapless(rows, m, LastSequence(rows, m)) /\ Lived(m, LastSequence(rows, m))
  <2>1. RowsOf(rows, m) = {}
    BY Zenon DEF Init, RowsOf
  <2>2. SequencesOf(rows, m) = 1 .. 0
    BY <2>1 DEF SequencesOf
  <2>3. LastSequence(rows, m) = 0
    BY <2>2, LastOfGapless, Zenon
  <2>4. Gapless(rows, m, 0)
    BY <2>1, <2>2 DEF Gapless
  <2>5. Lived(m, 0)
    BY Zenon DEF Init, Lived
  <2>6. QED
    BY <2>3, <2>4, <2>5, Zenon
<1>3. ReceiptsAreSingle
  BY Zenon DEF Init, ReceiptsAreSingle, Idle
<1>4. \A r \in rows : RowIsSound(r)
  BY Zenon DEF Init
<1>5. QED
  BY <1>1, <1>2, <1>3, <1>4, Zenon DEF LedgerInv

\* Every step keeps the rows of every mission without a gap.
LEMMA LedgerStep == BlobInv /\ LedgerInv /\ [Next]_vars => LedgerInv'
<1> SUFFICES ASSUME BlobInv, LedgerInv, [Next]_vars PROVE LedgerInv'
  BY Zenon
<1>1. ASSUME NEW m \in Missions, NEW bad \in 0 .. 3, CreateMission(m, bad)
      PROVE  LedgerInv'
  BY <1>1, CreateMissionKeeps, Zenon
<1>2. ASSUME NEW m \in Missions, NEW payload \in {"plain", "secret"}, NEW again \in BOOLEAN,
             ActorAppends(m, payload, again)
      PROVE  LedgerInv'
  BY <1>2, ActorAppendsKeeps, Zenon
<1>3. CASE \/ \E m \in Missions, operation \in {"archive", "delete"} : Preview(operation, m)
           \/ CheckPlan \/ Crash
  BY <1>3, PlansKeepLedger, Zenon
<1>4. CASE \/ \E b \in Blobs :
                 \/ \E owner \in Missions \cup {"none"} :
                       BeginPut(b, owner) \/ RetainKnown(b, owner)
                 \/ \E m \in Missions : ReleaseForMission(m, b)
                 \/ Release(b)
           \/ RenameTemp \/ InsertBlobRow \/ Retain \/ KeepUnreferenced
           \/ Unlink \/ DropBlobRow \/ DropBlobRowFails \/ (\E ok \in BOOLEAN : CleanedUp(ok))
  BY <1>4, BlobStepsKeepLedger, Zenon
<1>5. CASE Archive \/ DeleteMission
  BY <1>5, ArchiveKeepsLedger, DeleteMissionKeepsLedger, Zenon
<1>6. CASE UNCHANGED vars
  <2>1. UNCHANGED <<rows, lives, deleted, audit, archived, next, plan, cmd>>
    BY <1>6, Zenon DEF vars
  <2>2. ReceiptsAreSingle'
    BY <2>1, Zenon DEF LedgerInv, ReceiptsAreSingle, RowsOf
  <2>3. QED
    BY <2>1, <2>2, LedgerKept, Zenon DEF LedgerInv, LedgerType
<1>7. QED
  BY <1>1, <1>2, <1>3, <1>4, <1>5, <1>6 DEF Next, Command

\* The invariant from which the theorems on the ledger follow.
LEMMA LedgerInvHolds == Spec => []LedgerInv
  BY BlobInvHolds, LedgerInit, LedgerStep, PTL DEF Spec

-----------------------------------------------------------------------------
\* Rows without a gap, each sequence once, are as many as the last sequence says.
LEMMA CountOfGapless ==
    ASSUME NEW table, NEW m, NEW n \in Nat, Gapless(table, m, n)
    PROVE  Cardinality(RowsOf(table, m)) = n
<1> DEFINE S == RowsOf(table, m)
           f == [r \in S |-> r.sequence]
<1>1. f \in [S -> 1 .. n]
  BY Zenon DEF Gapless, SequencesOf
<1>2. \A r, s \in S : f[r] = f[s] => r = s
  BY Zenon DEF Gapless
<1>3. \A k \in 1 .. n : \E r \in S : f[r] = k
  BY Zenon DEF Gapless, SequencesOf
<1> HIDE DEF f
<1>4. f \in Bijection(S, 1 .. n)
  BY <1>1, <1>2, <1>3 DEF Bijection, Injection, Surjection, IsInjective
<1>5. IsFiniteSet(1 .. n) /\ Cardinality(1 .. n) = n
  BY FS_Interval
<1>6. ExistsBijection(S, 1 .. n)
  BY <1>4, Zenon DEF ExistsBijection
<1>7. Cardinality(S) = n
  BY <1>5, <1>6, Fun_ExistsBijSymmetric, FS_Bijection
<1>8. QED
  BY <1>7, Zenon

\* Whatever the actors, the commands and the crashes did, integrity_report passes
\* (sqlcipher.rs): the sequences of a mission have no gap and the hashes match.
THEOREM IntegrityHolds == Spec => []LedgerPassesIntegrity
<1>1. ASSUME LedgerInv PROVE LedgerPassesIntegrity
  <2>1. ASSUME NEW m \in Missions
        PROVE  {r.sequence : r \in RowsOf(rows, m)} = 1 .. Cardinality(RowsOf(rows, m))
    <3>1. PICK n : n = LastSequence(rows, m)
      BY Zenon
    <3>2. n \in Nat /\ Gapless(rows, m, n)
      BY <1>1, <3>1, LastFacts DEF LedgerInv
    <3>3. Cardinality(RowsOf(rows, m)) = n
      BY <3>2, CountOfGapless, Zenon
    <3>4. QED
      BY <3>2, <3>3, Zenon DEF Gapless, SequencesOf
  <2>2. \A r \in rows : r.hash = Hash(r.payload)
    BY <1>1, Zenon DEF LedgerInv, RowIsSound
  <2>3. QED
    BY <2>1, <2>2, Zenon DEF LedgerPassesIntegrity, IntegrityReport
<1>2. QED
  BY <1>1, LedgerInvHolds, PTL

\* The events that create a mission are there together or not at all (append_batch).
THEOREM CreationIsAtomic == Spec => []BatchAllOrNothing
<1>1. ASSUME LedgerInv, NEW m \in Missions, NEW life
      PROVE  {n \in Creation : \E r \in rows : r.id = <<m, life, n>>} \in {{}, Creation}
  <2>1. \A r \in rows : \A n : r.id = <<m, life, n>> =>
            r \in RowsOf(rows, m) /\ r.sequence = n /\ life = lives[m]
    BY <1>1 DEF LedgerInv, RowIsSound, RowsOf
  <2>2. \A r \in RowsOf(rows, m) : r \in rows /\ r.id = <<m, lives[m], r.sequence>>
    BY <1>1, Zenon DEF LedgerInv, RowIsSound, RowsOf
  <2>3. PICK n : n = LastSequence(rows, m)
    OBVIOUS
  <2>4. n \in Nat \ {1, 2} /\ SequencesOf(rows, m) = 1 .. n /\ (n = 0 <=> RowsOf(rows, m) = {})
    BY <1>1, <2>3, LastFacts, Zenon DEF LedgerInv, Gapless
  <2>5. CASE n = 0 \/ life # lives[m]
    BY <2>1, <2>4, <2>5, Zenon
  <2>6. CASE n # 0 /\ life = lives[m]
    <3>1. ASSUME NEW k \in Creation PROVE \E r \in rows : r.id = <<m, life, k>>
      <4>1. k \in 1 .. n
        BY <2>4, <2>6 DEF Creation
      <4>2. PICK r \in RowsOf(rows, m) : r.sequence = k
        BY <2>4, <4>1, Zenon DEF SequencesOf
      <4>3. QED
        BY <2>2, <2>6, <4>2, Zenon
    <3>2. QED
      BY <3>1, Zenon
  <2>7. QED
    BY <2>5, <2>6, Zenon
<1>2. LedgerInv => BatchAllOrNothing
  BY <1>1, Zenon DEF BatchAllOrNothing
<1>3. QED
  BY <1>2, LedgerInvHolds, PTL

\* Until it is created again a deleted mission has no event: the actor that outlives the
\* deletion cannot write one (delete.rs, sqlcipher.rs).
THEOREM DeletionIsFinal == Spec => []DeletedStaysDeleted
<1>1. ASSUME LedgerInv, NEW m \in Missions, deleted[m] = lives[m]
      PROVE  RowsOf(rows, m) = {}
  <2>1. deleted[m] \in Nat /\ Lived(m, LastSequence(rows, m))
    BY <1>1, Zenon DEF LedgerInv, LedgerType
  <2>2. LastSequence(rows, m) = 0
    BY <1>1, <2>1 DEF Lived
  <2>3. QED
    BY <1>1, <2>2, LastFacts, Zenon
<1>2. LedgerInv => DeletedStaysDeleted
  BY <1>1, Zenon DEF DeletedStaysDeleted
<1>3. QED
  BY <1>2, LedgerInvHolds, PTL

\* A mission is archived at most once, however its plan changed since (retention.rs).
THEOREM ArchiveIsSingle == Spec => []ArchivedOnce
<1>1. ASSUME LedgerInv, NEW m \in Missions
      PROVE  Cardinality({a \in audit : a.operation = "archive" /\ a.plan.mission = m}) <= 1
  <2> DEFINE S == {a \in audit : a.operation = "archive" /\ a.plan.mission = m}
  <2> SUFFICES Cardinality(S) <= 1
    BY Zenon
  <2>1. \A a, b \in S : a = b
    BY <1>1, Zenon DEF LedgerInv, ReceiptsAreSingle
  <2> HIDE DEF S
  <2>2. CASE S = {}
    BY <2>2, FS_EmptySet
  <2>3. CASE S # {}
    <3>1. PICK a \in S : TRUE
      BY <2>3, Zenon
    <3>2. S = {a}
      BY <2>1, <3>1, Zenon
    <3>3. Cardinality(S) = 1
      BY <3>2, FS_Singleton, Zenon
    <3>4. QED
      BY <3>3
  <2>4. QED
    BY <2>2, <2>3, Zenon
<1>2. LedgerInv => ArchivedOnce
  BY <1>1, Zenon DEF ArchivedOnce
<1>3. QED
  BY <1>2, LedgerInvHolds, PTL

=============================================================================
