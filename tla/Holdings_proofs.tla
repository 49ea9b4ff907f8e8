-------------------------- MODULE Holdings_proofs ---------------------------
(***************************************************************************)
(* Proofs for the parts that hold and count: snapshots and the blobs they  *)
(* refer to, budgets, and memory with its context packs, for every value of*)
(* the constants.                                                          *)
(***************************************************************************)
EXTENDS Holdings, Sequences, FiniteSetTheorems, TLAPS
-----------------------------------------------------------------------------
(***************************************************************************)
(* Snapshots.  A create has collected nothing for the paths it has yet to  *)
(* visit, so each file adds one entry and one reference, and what a        *)
(* clean-up takes back or leaves behind adds up to what was collected.     *)
(***************************************************************************)
Entries == Paths \X Contents

Works == [op : {"none", "create", "restore"}, entries : SUBSET Entries,
          todo : SUBSET (Paths \cup Entries), of : Nat]

\* The entries of complete snapshots that refer to a content.
HeldBy(made, c) ==
    {held \in (DOMAIN made) \X Entries : held[2] \in made[held[1]] /\ held[2][2] = c}

SnapshotInv ==
    /\ project \in [Paths -> SUBSET Contents]
    /\ \A path \in Paths : IsFiniteSet(project[path])
    /\ refs \in [Contents -> Int]
    /\ lost \in [Contents -> Int]
    /\ work \in Works
    /\ IsFiniteSet(work.entries)
    /\ work.op # "create" => work.entries = {}
    /\ work.op = "create" => \A e \in work.entries : e[1] \notin work.todo
    /\ snapshots \in Seq(SUBSET Entries)
    /\ \A c \in Contents :
          /\ IsFiniteSet(HeldBy(snapshots, c))
          /\ refs[c] = Cardinality(HeldBy(snapshots, c)) + Snapshot!Count(work.entries, c) + lost[c]

\* Two sets that have no element in common count for themselves.
LEMMA DisjointSets ==
    ASSUME NEW S, NEW T, IsFiniteSet(S), IsFiniteSet(T), S \cap T = {}
    PROVE  IsFiniteSet(S \cup T) /\ Cardinality(S \cup T) = Cardinality(S) + Cardinality(T)
<1>1. Cardinality(S) \in Nat /\ Cardinality(T) \in Nat
  BY FS_CardinalityType, Zenon
<1>2. /\ IsFiniteSet(S \cup T)
      /\ Cardinality(S \cup T) = Cardinality(S) + Cardinality(T) - Cardinality(S \cap T)
  BY FS_Union, Zenon
<1>3. QED
  BY <1>1, <1>2, FS_EmptySet

\* How often a content is among entries is the number of its entries.
LEMMA CountIs ==
    ASSUME NEW entries, NEW c
    PROVE  Snapshot!Count(entries, c) = Cardinality({e \in entries : e[2] = c})
<1>1. \A S : Snapshot!Cardinality(S) = Cardinality(S)
  BY Zenon DEF Cardinality, Snapshot!Cardinality
<1>2. QED
  BY <1>1, Zenon DEF Snapshot!Count

\* Finitely many entries count a content finitely often.
LEMMA CountType ==
    ASSUME NEW entries, IsFiniteSet(entries), NEW c
    PROVE  /\ IsFiniteSet({e \in entries : e[2] = c})
           /\ Snapshot!Count(entries, c) \in Nat
<1>1. IsFiniteSet({e \in entries : e[2] = c})
  BY FS_Subset, Zenon
<1>2. QED
  BY <1>1, FS_CardinalityType, CountIs, Zenon

\* No entries refer to nothing.
LEMMA CountOfNothing == \A c : Snapshot!Count({}, c) = 0
<1>1. \A c : {e \in {} : e[2] = c} = {}
  BY Zenon
<1>2. QED
  BY <1>1, FS_EmptySet, CountIs, Zenon

\* What is kept and what is not add up.
LEMMA CountSplits ==
    ASSUME NEW entries, IsFiniteSet(entries), NEW kept \in SUBSET entries, NEW c
    PROVE  /\ Snapshot!Count(entries, c)
                 = Snapshot!Count(entries \ kept, c) + Snapshot!Count(kept, c)
           /\ Snapshot!Count(entries \ kept, c) \in Nat
           /\ Snapshot!Count(kept, c) \in Nat
<1> DEFINE S == {e \in entries \ kept : e[2] = c}
           T == {e \in kept : e[2] = c}
           U == {e \in entries : e[2] = c}
<1>1. IsFiniteSet(kept) /\ IsFiniteSet(entries \ kept)
  BY FS_Subset, Zenon
<1>2. IsFiniteSet(S) /\ IsFiniteSet(T)
  BY <1>1, CountType, Zenon
<1>3. S \cap T = {} /\ S \cup T = U
  BY Zenon
<1>4. Snapshot!Count(entries, c) = Cardinality(U) /\ Snapshot!Count(kept, c) = Cardinality(T)
      /\ Snapshot!Count(entries \ kept, c) = Cardinality(S)
  BY CountIs, Zenon
<1> HIDE DEF S, T, U
<1>5. Cardinality(U) = Cardinality(S) + Cardinality(T)
  BY <1>2, <1>3, DisjointSets, Zenon
<1>6. QED
  BY <1>2, <1>4, <1>5, FS_CardinalityType, Zenon

\* No entry of the path is among the entries.
Fresh(path, entries) == \A e \in entries : e[1] # path

\* The entry of one file.
EntryOf(path, found) == {path} \X found

\* A file that is collected counts for its content.
LEMMA CountOfFile ==
    ASSUME NEW entries \in SUBSET Entries, IsFiniteSet(entries), NEW path,
           NEW found, IsFiniteSet(found), Fresh(path, entries), NEW c
    PROVE  /\ IsFiniteSet(entries \cup EntryOf(path, found))
           /\ c \in found => Snapshot!Count(entries \cup EntryOf(path, found), c)
                                = Snapshot!Count(entries, c) + 1
           /\ c \notin found => Snapshot!Count(entries \cup EntryOf(path, found), c)
                                   = Snapshot!Count(entries, c)
<1> DEFINE new == EntryOf(path, found)
           S == {e \in entries : e[2] = c}
           T == {e \in new : e[2] = c}
           U == {e \in entries \cup new : e[2] = c}
<1>1. IsFiniteSet(new)
  BY FS_Product, FS_Singleton, Zenon DEF EntryOf
<1>2. IsFiniteSet(entries \cup new)
  BY <1>1, FS_Union, Zenon
<1>3. IsFiniteSet(S) /\ IsFiniteSet(T)
  BY <1>1, CountType, Zenon
<1>4. S \cup T = U
  BY Zenon
<1>5. S \cap T = {}
  BY Zenon DEF Entries, Fresh, EntryOf
<1>6. T = IF c \in found THEN {<<path, c>>} ELSE {}
  BY DEF EntryOf
<1>7. Cardinality(T) = IF c \in found THEN 1 ELSE 0
  BY <1>6, FS_Singleton, FS_EmptySet, Zenon
<1>8. Snapshot!Count(entries, c) = Cardinality(S)
      /\ Snapshot!Count(entries \cup new, c) = Cardinality(U)
  BY CountIs, Zenon
<1> HIDE DEF S, T, U
<1>9. Cardinality(U) = Cardinality(S) + Cardinality(T)
  BY <1>3, <1>4, <1>5, DisjointSets
<1>10. Cardinality(S) \in Nat
  BY <1>3, FS_CardinalityType, Zenon
<1>11. QED
  BY <1>2, <1>7, <1>8, <1>9, <1>10

\* A snapshot that is complete holds what it collected.
LEMMA HeldByOneMore ==
    ASSUME NEW made \in Seq(SUBSET Entries), NEW entries \in SUBSET Entries, IsFiniteSet(entries),
           NEW c, IsFiniteSet(HeldBy(made, c))
    PROVE  /\ IsFiniteSet(HeldBy(Append(made, entries), c))
           /\ Cardinality(HeldBy(Append(made, entries), c))
                 = Cardinality(HeldBy(made, c)) + Snapshot!Count(entries, c)
<1> DEFINE n == Len(made) + 1
           S == {e \in entries : e[2] = c}
           T == {<<n, e>> : e \in S}
           f == [e \in S |-> <<n, e>>]
<1>1. f \in Bijection(S, T)
  <2>1. f \in [S -> T] /\ \A t \in T : \E e \in S : f[e] = t
    BY Zenon
  <2>2. \A d, e \in S : f[d] = f[e] => d = e
    BY Zenon
  <2> HIDE DEF f, S, T
  <2>3. QED
    BY <2>1, <2>2, Zenon DEF Bijection, Injection, Surjection, IsInjective
<1>2. IsFiniteSet(S) /\ Snapshot!Count(entries, c) = Cardinality(S)
  BY CountType, CountIs, Zenon
<1>3. ExistsBijection(S, T)
  BY <1>1, Zenon DEF ExistsBijection
<1>4. HeldBy(Append(made, entries), c) = HeldBy(made, c) \cup T
  <2> DEFINE later == Append(made, entries)
  <2>1. /\ DOMAIN made = 1 .. Len(made) /\ DOMAIN later = DOMAIN made \cup {n}
        /\ n \notin DOMAIN made /\ later[n] = entries
        /\ \A i \in DOMAIN made : later[i] = made[i]
    OBVIOUS
  <2>2. S \subseteq Entries /\ \A e \in Entries : e \in S <=> e \in entries /\ e[2] = c
    BY Zenon
  <2> HIDE DEF later, n, S
  <2>3. ASSUME NEW i, NEW e \in Entries
        PROVE  <<i, e>> \in HeldBy(later, c) <=> <<i, e>> \in HeldBy(made, c) \cup T
    BY <2>1, <2>2, Zenon DEF HeldBy
  <2>4. \A x \in HeldBy(later, c) \cup HeldBy(made, c) \cup T :
           \E i : \E e \in Entries : x = <<i, e>>
    BY <2>2 DEF HeldBy
  <2>5. QED
    BY <2>3, <2>4 DEF later
<1>5. HeldBy(made, c) \cap T = {}
  <2>1. n \notin DOMAIN made
    OBVIOUS
  <2> HIDE DEF n, S
  <2>2. QED
    BY <2>1 DEF HeldBy
<1> HIDE DEF S, T
<1>6. IsFiniteSet(T) /\ Cardinality(T) = Cardinality(S)
  BY <1>2, <1>3, FS_Bijection, Zenon
<1>7. QED
  BY <1>2, <1>4, <1>5, <1>6, DisjointSets, Zenon

\* The references add up when none is taken or released and nothing is collected.
LEMMA SnapshotKeptByOthers ==
    ASSUME SnapshotInv,
           UNCHANGED <<refs, snapshots, lost>>,
           project' \in [Paths -> SUBSET Contents], \A path \in Paths : IsFiniteSet(project'[path]),
           work' \in Works,
           work'.entries = work.entries,
           work'.op # "create" => work'.entries = {},
           work'.op = "create" => \A e \in work'.entries : e[1] \notin work'.todo
    PROVE  SnapshotInv'
BY Zenon DEF SnapshotInv

\* A file of the project changes, which no snapshot looks at again (snapshot.rs).
LEMMA SnapshotKeptByFileChanges ==
    ASSUME SnapshotInv, NEW path \in Paths,
           NEW content \in {{}} \cup {{c} : c \in Contents}, Snapshot!FileChanges(path, content)
    PROVE  SnapshotInv'
<1>1. project' = [project EXCEPT ![path] = content] /\ UNCHANGED <<refs, work, snapshots, lost>>
  BY Zenon DEF Snapshot!FileChanges
<1>2. content \in SUBSET Contents /\ IsFiniteSet(content)
  BY FS_EmptySet, FS_Singleton, Zenon
<1>3. /\ project' \in [Paths -> SUBSET Contents]
      /\ \A p \in Paths : IsFiniteSet(project'[p])
  BY <1>1, <1>2, Zenon DEF SnapshotInv
<1>4. QED
  BY <1>1, <1>3, Zenon DEF SnapshotInv

\* One more file is put into the store for the snapshot being made (snapshot.rs).
LEMMA SnapshotKeptByCollectFile ==
    ASSUME SnapshotInv, NEW path \in Paths, Snapshot!CollectFile(path)
    PROVE  SnapshotInv'
<1> DEFINE new == {path} \X project[path]
<1>1. /\ work.op = "create" /\ path \in work.todo
      /\ refs' = [c \in Contents |-> IF c \in project[path] THEN refs[c] + 1 ELSE refs[c]]
      /\ work' = [work EXCEPT !.todo = @ \ {path}, !.entries = @ \cup new]
      /\ UNCHANGED <<project, snapshots, lost>>
  BY Zenon DEF Snapshot!CollectFile
<1>2. /\ work.entries \in SUBSET Entries /\ IsFiniteSet(work.entries)
      /\ IsFiniteSet(project[path]) /\ project[path] \in SUBSET Contents
      /\ \A e \in work.entries : e[1] # path
  BY <1>1, Zenon DEF SnapshotInv, Works
<1>3. new \in SUBSET Entries
  BY <1>2 DEF Entries
<1>4. /\ IsFiniteSet(work.entries \cup new)
      /\ \A c : Snapshot!Count(work.entries \cup new, c)
                   = Snapshot!Count(work.entries, c) + (IF c \in project[path] THEN 1 ELSE 0)
  <2>1. ASSUME NEW c
        PROVE  /\ IsFiniteSet(work.entries \cup new)
               /\ Snapshot!Count(work.entries \cup new, c)
                     = Snapshot!Count(work.entries, c) + (IF c \in project[path] THEN 1 ELSE 0)
    <3> HIDE DEF new
    <3>1. new = EntryOf(path, project[path]) /\ Fresh(path, work.entries)
      BY <1>2, Zenon DEF new, EntryOf, Fresh
    <3>2. /\ IsFiniteSet(work.entries \cup new)
          /\ c \in project[path] => Snapshot!Count(work.entries \cup new, c)
                                        = Snapshot!Count(work.entries, c) + 1
          /\ c \notin project[path] => Snapshot!Count(work.entries \cup new, c)
                                           = Snapshot!Count(work.entries, c)
      BY <1>2, <3>1, CountOfFile
    <3>3. Snapshot!Count(work.entries, c) \in Nat
      BY <1>2, CountType, Zenon
    <3>4. QED
      BY <3>2, <3>3
  <2>2. QED
    BY <2>1, Zenon
<1>5. \A e \in new : e[1] = path
  BY Zenon
<1> HIDE DEF new
<1>6. /\ work'.entries = work.entries \cup new /\ work'.todo = work.todo \ {path}
      /\ work'.op = "create"
      /\ work' \in Works
  BY <1>1, <1>3, Zenon DEF SnapshotInv, Works
<1>7. \A e \in work'.entries : e[1] \notin work'.todo
  BY <1>1, <1>5, <1>6, Zenon DEF SnapshotInv
<1>8. ASSUME NEW c \in Contents
      PROVE  refs'[c] = Cardinality(HeldBy(snapshots, c)) + Snapshot!Count(work'.entries, c) + lost[c]
  <2>1. /\ refs[c] = Cardinality(HeldBy(snapshots, c)) + Snapshot!Count(work.entries, c) + lost[c]
        /\ refs[c] \in Int /\ lost[c] \in Int
        /\ IsFiniteSet(HeldBy(snapshots, c))
    BY Zenon DEF SnapshotInv
  <2>2. Cardinality(HeldBy(snapshots, c)) \in Nat /\ Snapshot!Count(work.entries, c) \in Nat
    BY <1>2, <2>1, CountType, FS_CardinalityType, Zenon
  <2>3. Snapshot!Count(work'.entries, c)
           = Snapshot!Count(work.entries, c) + (IF c \in project[path] THEN 1 ELSE 0)
    BY <1>4, <1>6, Zenon
  <2>4. refs'[c] = refs[c] + (IF c \in project[path] THEN 1 ELSE 0)
    BY <1>1, <2>1
  <2>5. QED
    BY <2>1, <2>2, <2>3, <2>4
<1>9. refs' \in [Contents -> Int]
  BY <1>1 DEF SnapshotInv
<1>10. QED
  BY <1>1, <1>4, <1>6, <1>7, <1>8, <1>9, Zenon DEF SnapshotInv

\* A create ends with some of its references released and the others left behind.
LEMMA SnapshotKeptByGivingUp ==
    ASSUME SnapshotInv, NEW kept \in SUBSET work.entries,
           refs' = [c \in Contents |-> refs[c] - Snapshot!Count(work.entries \ kept, c)],
           lost' = [c \in Contents |-> lost[c] + Snapshot!Count(kept, c)],
           work' = Snapshot!Idle, UNCHANGED <<project, snapshots>>
    PROVE  SnapshotInv'
<1>1. /\ work'.entries = {} /\ work'.op = "none"
      /\ work' \in Works
  BY Zenon DEF Snapshot!Idle, Works
<1>2. IsFiniteSet(work.entries)
  BY Zenon DEF SnapshotInv
<1>3. ASSUME NEW c \in Contents
      PROVE  /\ refs'[c] \in Int /\ lost'[c] \in Int
             /\ refs'[c] = Cardinality(HeldBy(snapshots, c)) + Snapshot!Count(work'.entries, c)
                             + lost'[c]
  <2>1. /\ refs[c] = Cardinality(HeldBy(snapshots, c)) + Snapshot!Count(work.entries, c) + lost[c]
        /\ refs[c] \in Int /\ lost[c] \in Int
        /\ IsFiniteSet(HeldBy(snapshots, c))
    BY Zenon DEF SnapshotInv
  <2>2. Cardinality(HeldBy(snapshots, c)) \in Nat
    BY <2>1, FS_CardinalityType, Zenon
  <2>3. /\ Snapshot!Count(work.entries, c)
              = Snapshot!Count(work.entries \ kept, c) + Snapshot!Count(kept, c)
        /\ Snapshot!Count(work.entries \ kept, c) \in Nat
        /\ Snapshot!Count(kept, c) \in Nat
    BY <1>2, CountSplits, Zenon
  <2>4. Snapshot!Count(work'.entries, c) = 0
    BY <1>1, CountOfNothing, Zenon
  <2>5. /\ refs'[c] = refs[c] - Snapshot!Count(work.entries \ kept, c)
        /\ lost'[c] = lost[c] + Snapshot!Count(kept, c)
    BY Zenon
  <2>6. QED
    BY <2>1, <2>2, <2>3, <2>4, <2>5
<1>4. refs' \in [Contents -> Int] /\ lost' \in [Contents -> Int]
  BY <1>3, Zenon
<1>5. QED
  BY <1>1, <1>3, <1>4, FS_EmptySet, Zenon DEF SnapshotInv

\* Making a snapshot fails and its clean-up keeps what it cannot release, or the process dies.
LEMMA SnapshotKeptByFailure ==
    ASSUME SnapshotInv,
           (\E kept \in SUBSET work.entries : Snapshot!CreateFails(kept)) \/ Snapshot!Crash
    PROVE  SnapshotInv'
<1>1. ASSUME NEW kept \in SUBSET work.entries, Snapshot!CreateFails(kept) PROVE SnapshotInv'
  BY <1>1, SnapshotKeptByGivingUp, Zenon
     DEF Snapshot!CreateFails, Snapshot!Released, Snapshot!Lost
<1>2. CASE Snapshot!Crash
  <2>1. work.entries \ work.entries = {}
    BY Zenon
  <2>2. \A c \in Contents : refs[c] \in Int
    BY Zenon DEF SnapshotInv
  <2>3. refs' = [c \in Contents |-> refs[c] - Snapshot!Count(work.entries \ work.entries, c)]
    <3>1. \A c \in Contents : refs[c] - Snapshot!Count(work.entries \ work.entries, c) = refs[c]
      BY <2>1, <2>2, CountOfNothing
    <3>2. refs = [c \in Contents |-> refs[c]] /\ refs' = refs
      BY <1>2, Zenon DEF SnapshotInv, Snapshot!Crash
    <3>3. QED
      BY <3>1, <3>2, Zenon
  <2>4. QED
    BY <1>2, <2>3, SnapshotKeptByGivingUp DEF Snapshot!Crash, Snapshot!Lost
<1>3. QED
  BY <1>1, <1>2

\* A complete snapshot takes over the references of the one being made (snapshot.rs).
LEMMA SnapshotKeptByFinish ==
    ASSUME SnapshotInv, Snapshot!Finish
    PROVE  SnapshotInv'
<1>1. /\ snapshots' = Append(snapshots, work.entries) /\ work' = Snapshot!Idle
      /\ UNCHANGED <<project, refs, lost>>
  BY Zenon DEF Snapshot!Finish
<1>2. /\ work'.entries = {} /\ work'.op = "none"
      /\ work' \in Works
  BY <1>1, Zenon DEF Snapshot!Idle, Works
<1>3. /\ snapshots \in Seq(SUBSET Entries) /\ work.entries \in SUBSET Entries
      /\ IsFiniteSet(work.entries)
  BY Zenon DEF SnapshotInv, Works
<1>4. snapshots' \in Seq(SUBSET Entries)
  BY <1>1, <1>3
<1>5. ASSUME NEW c \in Contents
      PROVE  /\ IsFiniteSet(HeldBy(snapshots', c))
             /\ refs[c] = Cardinality(HeldBy(snapshots', c)) + Snapshot!Count(work'.entries, c)
                             + lost[c]
  <2>1. /\ refs[c] = Cardinality(HeldBy(snapshots, c)) + Snapshot!Count(work.entries, c) + lost[c]
        /\ lost[c] \in Int /\ IsFiniteSet(HeldBy(snapshots, c))
    BY Zenon DEF SnapshotInv
  <2>2. /\ IsFiniteSet(HeldBy(snapshots', c))
        /\ Cardinality(HeldBy(snapshots', c))
              = Cardinality(HeldBy(snapshots, c)) + Snapshot!Count(work.entries, c)
    BY <1>1, <1>3, <2>1, HeldByOneMore, Zenon
  <2>3. Snapshot!Count(work'.entries, c) = 0
    BY <1>2, CountOfNothing, Zenon
  <2>4. Cardinality(HeldBy(snapshots', c)) \in Nat
    BY <2>2, FS_CardinalityType, Zenon
  <2>5. QED
    BY <2>1, <2>2, <2>3, <2>4
<1>6. QED
  BY <1>1, <1>2, <1>4, <1>5, FS_EmptySet DEF SnapshotInv

\* A create begins, a restore begins, goes on, ends or fails: no reference is touched.
LEMMA SnapshotKeptByRestore ==
    ASSUME SnapshotInv,
           \/ Snapshot!Create \/ Snapshot!RestoreEnds \/ Snapshot!RestoreFails
           \/ \E i \in DOMAIN snapshots : Snapshot!PrepareRestore(i)
           \/ \E entry \in Paths \X Contents : Snapshot!RestoreFile(entry)
    PROVE  SnapshotInv'
<1>1. UNCHANGED <<project, refs, snapshots, lost>> /\ work.op # "create"
  BY Zenon DEF Snapshot!Create, Snapshot!RestoreEnds, Snapshot!RestoreFails,
     Snapshot!PrepareRestore, Snapshot!RestoreFile
<1>2. work \in Works /\ work.entries = {}
  BY <1>1, Zenon DEF SnapshotInv
<1>3. work' \in Works /\ work'.entries = {}
  <2>1. CASE Snapshot!Create \/ Snapshot!RestoreEnds \/ Snapshot!RestoreFails
    <3>1. \/ work' = [Snapshot!Idle EXCEPT !.op = "create", !.todo = Paths]
          \/ work' = Snapshot!Idle
      BY <2>1, Zenon DEF Snapshot!Create, Snapshot!RestoreEnds, Snapshot!RestoreFails
    <3>2. CASE work' = Snapshot!Idle
      BY <3>2, Zenon DEF Snapshot!Idle, Works
    <3>3. CASE work' = [Snapshot!Idle EXCEPT !.op = "create", !.todo = Paths]
      <4>1. work' = [op |-> "create", entries |-> {}, todo |-> Paths, of |-> 0]
        BY <3>3, Zenon DEF Snapshot!Idle
      <4>2. QED
        BY <4>1, Zenon DEF Works
    <3>4. QED
      BY <3>1, <3>2, <3>3, Zenon
  <2>2. ASSUME NEW i \in DOMAIN snapshots, Snapshot!PrepareRestore(i)
        PROVE  work' \in Works /\ work'.entries = {}
    <3>1. snapshots[i] \in SUBSET Entries /\ i \in Nat
      BY DEF SnapshotInv
    <3>2. QED
      BY <2>2, <3>1, Zenon DEF Snapshot!PrepareRestore, Snapshot!Idle, Works
  <2>3. ASSUME NEW entry \in Paths \X Contents, Snapshot!RestoreFile(entry)
        PROVE  work' \in Works /\ work'.entries = {}
    BY <1>2, <2>3, Zenon DEF Snapshot!RestoreFile, Works
  <2>4. QED
    BY <2>1, <2>2, <2>3, Zenon
<1>4. QED
  BY <1>1, <1>2, <1>3, SnapshotKeptByOthers DEF SnapshotInv

\* Every step keeps the counts equal to the entries.
LEMMA SnapshotStep == SnapshotInv /\ [Snapshot!Next]_snapshot => SnapshotInv'
<1> SUFFICES ASSUME SnapshotInv, [Snapshot!Next]_snapshot PROVE SnapshotInv'
  BY Zenon
<1>1. CASE UNCHANGED snapshot
  BY <1>1, Zenon DEF snapshot, SnapshotInv
<1>2. QED
  BY <1>1, SnapshotKeptByFileChanges, SnapshotKeptByCollectFile, SnapshotKeptByFailure,
     SnapshotKeptByFinish, SnapshotKeptByRestore, Zenon DEF Snapshot!Next

\* The store counts one reference for every entry of every snapshot, of the one being
\* made and of those that a failed clean-up or a crash left behind, so that no clean-up
\* takes a blob from another snapshot, for any paths and contents (snapshot.rs).
THEOREM BlobsAreHeld == Snapshot!Spec => []SnapshotsHoldTheirBlobs
<1>1. Snapshot!Init => SnapshotInv
  <2> SUFFICES ASSUME Snapshot!Init PROVE SnapshotInv
    BY Zenon
  <2>1. /\ project \in [Paths -> {{c} : c \in Contents}]
        /\ refs = [c \in Contents |-> 0] /\ lost = [c \in Contents |-> 0]
        /\ work = Snapshot!Idle /\ snapshots = <<>>
    BY Zenon DEF Snapshot!Init
  <2>2. /\ project \in [Paths -> SUBSET Contents]
        /\ \A path \in Paths : IsFiniteSet(project[path])
    <3>1. ASSUME NEW path \in Paths
          PROVE  project[path] \in SUBSET Contents /\ IsFiniteSet(project[path])
      <4>1. PICK c \in Contents : project[path] = {c}
        BY <2>1, Zenon
      <4>2. QED
        BY <4>1, FS_Singleton, Zenon
    <3>2. QED
      BY <2>1, <3>1, Zenon
  <2>3. /\ work.entries = {} /\ work.op = "none"
        /\ work \in Works
    BY <2>1, Zenon DEF Snapshot!Idle, Works
  <2>4. ASSUME NEW c \in Contents
        PROVE  /\ IsFiniteSet(HeldBy(snapshots, c))
               /\ refs[c] = Cardinality(HeldBy(snapshots, c)) + Snapshot!Count(work.entries, c)
                               + lost[c]
    <3>1. HeldBy(snapshots, c) = {}
      BY <2>1 DEF HeldBy
    <3>2. Snapshot!Count(work.entries, c) = 0 /\ refs[c] = 0 /\ lost[c] = 0
      BY <2>1, <2>3, CountOfNothing, Zenon
    <3>3. QED
      BY <3>1, <3>2, FS_EmptySet
  <2>5. QED
    BY <2>1, <2>2, <2>3, <2>4, FS_EmptySet DEF SnapshotInv
<1>2. SnapshotInv /\ [Snapshot!Next]_(Snapshot!vars) => SnapshotInv'
  BY SnapshotStep, Zenon DEF snapshot, Snapshot!vars
<1>3. SnapshotInv => SnapshotsHoldTheirBlobs
  <2>1. \A S : Snapshot!Cardinality(S) = Cardinality(S)
    BY DEF Cardinality, Snapshot!Cardinality
  <2>2. QED
    BY <2>1, Zenon DEF SnapshotInv, HeldBy, Entries, SnapshotsHoldTheirBlobs,
                Snapshot!SnapshotsHoldTheirBlobs
<1>4. QED
  BY <1>1, <1>2, <1>3, PTL DEF Snapshot!Spec

-----------------------------------------------------------------------------
(***************************************************************************)
(* Budgets.  The consumer of a run remembers the highest total the run     *)
(* reported, so that a report is charged by what it adds to that.          *)
(***************************************************************************)
Plus(a, b) == a + b

SumOver(f, S) == FoldFunctionOnSet(Plus, 0, f, S)

AnyOf(s) == CHOOSE x \in s : TRUE

\* The function that FoldFunctionOnSet defines by recursion on the element chosen.
IsSumFunction(g, f, S) ==
    g = [s \in SUBSET S |-> IF s = {} THEN 0 ELSE Plus(f[AnyOf(s)], g[s \ {AnyOf(s)}])]

\* A fold is the value of that function at the whole set.
LEMMA SumOverIs ==
    ASSUME NEW f, NEW S
    PROVE  SumOver(f, S) = (CHOOSE g : IsSumFunction(g, f, S))[S]
BY Zenon DEF SumOver, FoldFunctionOnSet, MapThenFoldSet, IsSumFunction, AnyOf

\* Among sets of subsets of a finite set there is one that contains no other.
LEMMA SmallestSet ==
    ASSUME NEW S, IsFiniteSet(S), NEW T \in SUBSET (SUBSET S), T # {}
    PROVE  \E t \in T : \A u \in T : u \subseteq t => u = t
<1> DEFINE R == StrictSubsetOrdering(S)
<1>1. T \subseteq FiniteSubsetsOf(S)
  BY FS_Subset, Zenon DEF FiniteSubsetsOf
<1>2. IsWellFoundedOn(R, FiniteSubsetsOf(S))
  BY FS_StrictSubsetOrderingWellFounded, Zenon
<1>3. \A t, u \in T : u \subseteq t /\ u # t => <<u, t>> \in R
  BY Zenon DEF StrictSubsetOrdering
<1> HIDE DEF R
<1>4. PICK t \in T : \A u \in T : ~(<<u, t>> \in R)
  BY <1>1, <1>2, WFMin, Zenon
<1>5. QED
  BY <1>3, <1>4, Zenon

\* Solutions for a set and a part of it agree on the part.
LEMMA SumFunctionUnique ==
    ASSUME NEW f, NEW S, NEW R \in SUBSET S, IsFiniteSet(R),
           NEW g, IsSumFunction(g, f, S), NEW h, IsSumFunction(h, f, R)
    PROVE  \A s \in SUBSET R : g[s] = h[s]
<1> DEFINE T == {s \in SUBSET R : g[s] # h[s]}
<1>1. SUFFICES ASSUME T # {} PROVE FALSE
  BY Zenon
<1>2. PICK t \in T : \A u \in T : u \subseteq t => u = t
  <2>1. T \in SUBSET (SUBSET R)
    BY Zenon
  <2> HIDE DEF T
  <2>2. QED
    BY <1>1, <2>1, SmallestSet
<1>3. t \in SUBSET R /\ t \in SUBSET S /\ g[t] # h[t]
  BY <1>2, Zenon
<1>4. t # {}
  BY <1>3, Zenon DEF IsSumFunction
<1>5. AnyOf(t) \in t
  BY <1>4, Zenon DEF AnyOf
<1> DEFINE e == t \ {AnyOf(t)}
<1>6. g[t] = Plus(f[AnyOf(t)], g[e]) /\ h[t] = Plus(f[AnyOf(t)], h[e])
  BY <1>3, <1>4, Zenon DEF IsSumFunction
<1>7. e \in SUBSET R /\ e \subseteq t /\ e # t
  BY <1>3, <1>5, Zenon
<1>8. g[e] = h[e]
  BY <1>2, <1>7, Zenon
<1>9. QED
  BY <1>3, <1>6, <1>8, Zenon

\* The recursion has a solution.
LEMMA SumFunctionExists ==
    ASSUME NEW f, NEW S, IsFiniteSet(S)
    PROVE  \E g : IsSumFunction(g, f, S)
<1> DEFINE T == {t \in SUBSET S : ~\E g : IsSumFunction(g, f, t)}
<1>1. SUFFICES ASSUME T # {} PROVE FALSE
  BY Zenon
<1>2. PICK t \in T : \A u \in T : u \subseteq t => u = t
  <2>1. T \in SUBSET (SUBSET S)
    BY Zenon
  <2> HIDE DEF T
  <2>2. QED
    BY <1>1, <2>1, SmallestSet
<1>3. t \in SUBSET S /\ ~\E g : IsSumFunction(g, f, t)
  BY <1>2, Zenon
<1>4. ASSUME NEW u \in SUBSET t, u # t
      PROVE  IsFiniteSet(u) /\ IsSumFunction(CHOOSE g : IsSumFunction(g, f, u), f, u)
  <2>1. u \in SUBSET S /\ u \notin T
    BY <1>2, <1>4, Zenon
  <2>2. QED
    BY <2>1, FS_Subset, Zenon
<1> DEFINE V(s) == (CHOOSE g : IsSumFunction(g, f, s))[s]
           h == [s \in SUBSET t |-> IF s = {} THEN 0 ELSE Plus(f[AnyOf(s)], V(s \ {AnyOf(s)}))]
<1>5. ASSUME NEW u \in SUBSET t, u # t PROVE h[u] = V(u)
  <2> DEFINE G == CHOOSE g : IsSumFunction(g, f, u)
  <2>1. IsSumFunction(G, f, u) /\ V(u) = G[u]
    BY <1>4, <1>5, Zenon
  <2> HIDE DEF G
  <2>2. CASE u = {}
    BY <2>1, <2>2, Zenon DEF IsSumFunction
  <2>3. CASE u # {}
    <3> DEFINE e == u \ {AnyOf(u)}
    <3>1. AnyOf(u) \in u
      BY <2>3, Zenon DEF AnyOf
    <3>2. e \in SUBSET t /\ e \in SUBSET u /\ e # t
      BY <1>5, <3>1, Zenon
    <3>3. V(u) = Plus(f[AnyOf(u)], G[e])
      BY <2>1, <2>3, Zenon DEF IsSumFunction
    <3> DEFINE H == CHOOSE g : IsSumFunction(g, f, e)
    <3>4. IsFiniteSet(e) /\ IsSumFunction(H, f, e) /\ V(e) = H[e]
      BY <1>4, <3>2, Zenon
    <3>5. h[u] = Plus(f[AnyOf(u)], V(e))
      BY <1>5, <2>3, Zenon
    <3> HIDE DEF H, e, V, h
    <3>6. G[e] = H[e]
      BY <2>1, <3>2, <3>4, SumFunctionUnique
    <3>7. QED
      BY <3>3, <3>4, <3>5, <3>6, Zenon
  <2>4. QED
    BY <2>2, <2>3, Zenon
<1>6. ASSUME NEW s \in SUBSET t
      PROVE  h[s] = IF s = {} THEN 0 ELSE Plus(f[AnyOf(s)], h[s \ {AnyOf(s)}])
  <2>1. CASE s = {}
    BY <2>1, Zenon
  <2>2. CASE s # {}
    <3>1. AnyOf(s) \in s
      BY <2>2 DEF AnyOf
    <3> DEFINE e == s \ {AnyOf(s)}
    <3>2. e \in SUBSET t /\ e # t
      BY <3>1, Zenon
    <3>3. h[s] = Plus(f[AnyOf(s)], V(e))
      BY <2>2, Zenon
    <3> HIDE DEF e, V, h
    <3>4. h[e] = V(e)
      BY <1>5, <3>2, Zenon
    <3>5. QED
      BY <2>2, <3>3, <3>4, Zenon DEF e
  <2>3. QED
    BY <2>1, <2>2, Zenon
<1>7. h = [s \in SUBSET t |-> h[s]]
  OBVIOUS
<1> HIDE DEF h
<1>8. IsSumFunction(h, f, t)
  BY <1>6, <1>7, Zenon DEF IsSumFunction
<1>9. QED
  BY <1>3, <1>8, Zenon

\* Folding over the empty set gives the base.
LEMMA SumOverEmpty ==
    ASSUME NEW f
    PROVE  SumOver(f, {}) = 0
<1> DEFINE G == CHOOSE g : IsSumFunction(g, f, {})
<1>1. IsSumFunction(G, f, {})
  BY SumFunctionExists, FS_EmptySet, Zenon
<1>2. SumOver(f, {}) = G[{}]
  BY SumOverIs, Zenon
<1> HIDE DEF G
<1>3. QED
  BY <1>1, <1>2, Zenon DEF IsSumFunction

\* One step of folding, with the element that CHOOSE takes.
LEMMA SumOverStep ==
    ASSUME NEW f, NEW S, IsFiniteSet(S), S # {}
    PROVE  /\ AnyOf(S) \in S
           /\ SumOver(f, S) = Plus(f[AnyOf(S)], SumOver(f, S \ {AnyOf(S)}))
<1> DEFINE e == S \ {AnyOf(S)}
           G == CHOOSE g : IsSumFunction(g, f, S)
           H == CHOOSE g : IsSumFunction(g, f, e)
<1>1. AnyOf(S) \in S
  BY Zenon DEF AnyOf
<1>2. IsFiniteSet(e) /\ e \in SUBSET S
  BY FS_Subset, Zenon
<1>3. IsSumFunction(G, f, S) /\ IsSumFunction(H, f, e)
  BY <1>2, SumFunctionExists, Zenon
<1>4. SumOver(f, S) = G[S] /\ SumOver(f, e) = H[e]
  BY SumOverIs, Zenon
<1> HIDE DEF G, H
<1>5. G[S] = Plus(f[AnyOf(S)], G[e])
  BY <1>3, Zenon DEF IsSumFunction
<1> HIDE DEF e
<1>6. G[e] = H[e]
  BY <1>2, <1>3, SumFunctionUnique
<1>7. QED
  BY <1>1, <1>4, <1>5, <1>6 DEF e

\* What is folded depends only on the values at the elements of the set.
LEMMA SumOverAgrees ==
    ASSUME NEW f, NEW h, NEW S, IsFiniteSet(S), \A x \in S : f[x] = h[x]
    PROVE  SumOver(f, S) = SumOver(h, S)
<1> DEFINE T == {t \in SUBSET S : SumOver(f, t) # SumOver(h, t)}
<1>1. SUFFICES ASSUME T # {} PROVE FALSE
  BY Zenon
<1>2. PICK t \in T : \A u \in T : u \subseteq t => u = t
  <2>1. T \in SUBSET (SUBSET S)
    BY Zenon
  <2> HIDE DEF T
  <2>2. QED
    BY <1>1, <2>1, SmallestSet
<1>3. t \in SUBSET S /\ IsFiniteSet(t) /\ SumOver(f, t) # SumOver(h, t)
  BY <1>2, FS_Subset, Zenon
<1>4. t # {}
  BY <1>3, SumOverEmpty, Zenon
<1> DEFINE e == t \ {AnyOf(t)}
<1>5. /\ AnyOf(t) \in t
      /\ SumOver(f, t) = Plus(f[AnyOf(t)], SumOver(f, e))
      /\ SumOver(h, t) = Plus(h[AnyOf(t)], SumOver(h, e))
  BY <1>3, <1>4, SumOverStep
<1>6. e \in SUBSET S /\ e \subseteq t /\ e # t
  BY <1>3, <1>5
<1>7. SumOver(f, e) = SumOver(h, e)
  BY <1>2, <1>6
<1>8. QED
  BY <1>3, <1>5, <1>7, Zenon

\* The operator takes values into results, in any order.
Commutes(Values, Results) ==
    /\ 0 \in Results
    /\ \A v \in Values, r \in Results : Plus(v, r) \in Results
    /\ \A v, w \in Values, r \in Results : Plus(v, Plus(w, r)) = Plus(w, Plus(v, r))

\* A fold of values is a result.
LEMMA SumOverType ==
    ASSUME NEW Values, NEW Results, Commutes(Values, Results),
           NEW f, NEW S, IsFiniteSet(S), \A x \in S : f[x] \in Values
    PROVE  SumOver(f, S) \in Results
<1> DEFINE T == {t \in SUBSET S : SumOver(f, t) \notin Results}
<1>1. SUFFICES ASSUME T # {} PROVE FALSE
  BY Zenon
<1>2. PICK t \in T : \A u \in T : u \subseteq t => u = t
  <2>1. T \in SUBSET (SUBSET S)
    BY Zenon
  <2> HIDE DEF T
  <2>2. QED
    BY <1>1, <2>1, SmallestSet
<1>3. t \in SUBSET S /\ IsFiniteSet(t) /\ SumOver(f, t) \notin Results
  BY <1>2, FS_Subset, Zenon
<1>4. t # {}
  BY <1>3, SumOverEmpty, Zenon DEF Commutes
<1> DEFINE e == t \ {AnyOf(t)}
<1>5. AnyOf(t) \in t /\ SumOver(f, t) = Plus(f[AnyOf(t)], SumOver(f, e))
  BY <1>3, <1>4, SumOverStep, Zenon
<1>6. e \in SUBSET S /\ e \subseteq t /\ e # t
  BY <1>3, <1>5, Zenon
<1>7. SumOver(f, e) \in Results /\ f[AnyOf(t)] \in Values
  BY <1>2, <1>3, <1>5, <1>6, Zenon
<1>8. QED
  BY <1>3, <1>5, <1>7 DEF Commutes

\* The step of folding can be taken with any element.
LEMMA SumOverRemove ==
    ASSUME NEW Values, NEW Results, Commutes(Values, Results),
           NEW f, NEW S, IsFiniteSet(S), \A x \in S : f[x] \in Values, NEW y \in S
    PROVE  SumOver(f, S) = Plus(f[y], SumOver(f, S \ {y}))
<1> DEFINE T == {t \in SUBSET S : \E x \in t : SumOver(f, t) # Plus(f[x], SumOver(f, t \ {x}))}
<1>1. SUFFICES ASSUME T # {} PROVE FALSE
  <2>1. S \notin T
    BY <1>1, Zenon
  <2>2. QED
    BY <2>1, Zenon
<1>2. PICK t \in T : \A u \in T : u \subseteq t => u = t
  <2>1. T \in SUBSET (SUBSET S)
    BY Zenon
  <2> HIDE DEF T
  <2>2. QED
    BY <1>1, <2>1, SmallestSet
<1>3. PICK x \in t : SumOver(f, t) # Plus(f[x], SumOver(f, t \ {x}))
  BY <1>2, Zenon
<1>4. t \in SUBSET S /\ IsFiniteSet(t)
  BY <1>2, FS_Subset, Zenon
<1>5. PICK c : c = AnyOf(t)
  BY Zenon
<1>6. c \in t /\ SumOver(f, t) = Plus(f[c], SumOver(f, t \ {c}))
  BY <1>3, <1>4, <1>5, SumOverStep, Zenon
<1>7. c # x
  BY <1>3, <1>6, Zenon
<1> DEFINE e == t \ {c, x}
<1>8. /\ (t \ {c}) \ {x} = e /\ (t \ {x}) \ {c} = e
      /\ x \in t \ {c} /\ c \in t \ {x}
  BY <1>6, <1>7, Zenon
<1>9. /\ t \ {c} \in SUBSET S /\ t \ {c} \subseteq t /\ t \ {c} # t
      /\ t \ {x} \in SUBSET S /\ t \ {x} \subseteq t /\ t \ {x} # t
  BY <1>4, <1>6, Zenon
<1>10. t \ {c} \notin T /\ t \ {x} \notin T
  BY <1>2, <1>9, Zenon
<1>11. SumOver(f, t \ {c}) = Plus(f[x], SumOver(f, e))
  BY <1>8, <1>9, <1>10, Zenon
<1>12. SumOver(f, t \ {x}) = Plus(f[c], SumOver(f, e))
  BY <1>8, <1>9, <1>10, Zenon
<1>13. e \in SUBSET S /\ IsFiniteSet(e)
  BY <1>4, FS_Subset
<1> HIDE DEF e
<1>14. SumOver(f, e) \in Results
  BY <1>13, SumOverType
<1>15. f[c] \in Values /\ f[x] \in Values
  BY <1>4, <1>6
<1>16. Plus(f[c], Plus(f[x], SumOver(f, e))) = Plus(f[x], Plus(f[c], SumOver(f, e)))
  BY <1>14, <1>15 DEF Commutes
<1>17. QED
  BY <1>3, <1>6, <1>11, <1>12, <1>16, Zenon

Sum(f) == SumOver(f, Runs)

\* The fold of the budget's module adds up the values of a function.
LEMMA FoldIsSum ==
    ASSUME NEW f, DOMAIN f = Runs
    PROVE  Budget!FoldFunction(LAMBDA a, b : a + b, 0, f) = Sum(f)
BY Zenon DEF Sum, Plus, SumOver, FoldFunctionOnSet, MapThenFoldSet,
       Budget!FoldFunction, Budget!FoldFunctionOnSet, Budget!MapThenFoldSet

\* Addition may be done in any order, on numbers and on zeros.
LEMMA PlusCommutes == Commutes(Nat, Nat) /\ Commutes({0}, {0})
BY DEF Commutes, Plus

\* A sum of numbers is a number; a value more changes it by what the value changes.
LEMMA SumChanges ==
    ASSUME NEW f \in [Runs -> Nat], NEW r \in Runs, NEW v \in Nat
    PROVE  Sum(f) \in Nat /\ Sum([f EXCEPT ![r] = v]) = Sum(f) + v - f[r]
<1> DEFINE h == [f EXCEPT ![r] = v]
           rest == Runs \ {r}
<1>1. IsFiniteSet(Runs) /\ IsFiniteSet(rest)
  BY HoldingsAssumption, FS_Subset, Zenon
<1>2. (\A x \in Runs : f[x] \in Nat /\ h[x] \in Nat) /\ h[r] = v /\ \A x \in rest : f[x] = h[x]
  BY Zenon
<1> HIDE DEF h
<1>3. Sum(f) \in Nat
  BY <1>1, <1>2, PlusCommutes, SumOverType DEF Sum
<1>4. Sum(f) = f[r] + SumOver(f, rest) /\ Sum(h) = h[r] + SumOver(h, rest)
  BY <1>1, <1>2, PlusCommutes, SumOverRemove DEF Sum, Plus
<1> HIDE DEF rest
<1>5. SumOver(f, rest) = SumOver(h, rest)
  BY <1>1, <1>2, SumOverAgrees, Zenon
<1>6. SumOver(f, rest) \in Nat
  BY <1>1, <1>2, PlusCommutes, SumOverType, Zenon DEF rest
<1>7. QED
  BY <1>2, <1>3, <1>4, <1>5, <1>6 DEF h

\* Runs that reported nothing add nothing.
LEMMA SumOfZeros == Sum([r \in Runs |-> 0]) = 0
<1> DEFINE f == [r \in Runs |-> 0]
<1>1. \A x \in Runs : f[x] \in {0}
  BY Zenon
<1>2. IsFiniteSet(Runs)
  BY HoldingsAssumption, Zenon
<1> HIDE DEF f
<1>3. Sum(f) \in {0}
  BY <1>1, <1>2, PlusCommutes, SumOverType, Zenon DEF Sum
<1>4. QED
  BY <1>3, Zenon DEF f

BudgetInv ==
    /\ DOMAIN used = Budget!Dimensions
    /\ used["tokens"] \in Int
    /\ base \in Int
    /\ peaks \in [Runs -> Nat]
    /\ previous \in [Runs -> Int]
    /\ \A r \in Runs : previous[r] # Budget!None => previous[r] = peaks[r]
    /\ used["tokens"] # Budget!Unknown => used["tokens"] = base + Sum(peaks)

\* What is charged for a report is what it adds to the highest total.
LEMMA BudgetKeptByReport ==
    ASSUME BudgetInv, NEW r \in Runs, NEW total \in Totals, Budget!Report(r, total)
    PROVE  BudgetInv'
<1>1. total \in Nat
  BY HoldingsAssumption, Zenon
<1> DEFINE peak == IF total > peaks[r] THEN total ELSE peaks[r]
           delta == IF total > peaks[r] THEN total - peaks[r] ELSE 0
<1>2. peaks[r] \in Nat /\ previous[r] = peaks[r]
  BY Zenon DEF BudgetInv, Budget!Report
<1>3. Budget!Delta(r, total) = delta
  BY <1>2 DEF Budget!Delta
<1>4. Budget!Max({peaks[r], total}) = peak
  BY <1>1, <1>2 DEF Budget!Max
<1>5. /\ previous' = [previous EXCEPT ![r] = peak]
      /\ peaks' = [peaks EXCEPT ![r] = peak]
      /\ base' = base
  BY <1>2, <1>4, Zenon DEF Budget!Report, Budget!Remembered
<1>6. /\ DOMAIN used' = Budget!Dimensions
      /\ used'["tokens"] = IF used["tokens"] = Budget!Unknown THEN Budget!Unknown
                           ELSE used["tokens"] + delta
  BY <1>3, Zenon DEF Budget!Report, Budget!Sampled, Budget!Dimensions
<1>7. peak \in Nat /\ delta \in Nat /\ delta = peak - peaks[r]
  BY <1>1, <1>2
<1> HIDE DEF peak, delta
<1>8. Sum(peaks) \in Nat /\ Sum(peaks') = Sum(peaks) + peak - peaks[r]
  BY <1>5, <1>7, SumChanges, Zenon DEF BudgetInv
<1>9. used'["tokens"] \in Int
  BY <1>6, <1>7 DEF BudgetInv, Budget!Unknown
<1>10. used'["tokens"] # Budget!Unknown => used'["tokens"] = base' + Sum(peaks')
  BY <1>2, <1>5, <1>6, <1>7, <1>8 DEF BudgetInv
<1>11. /\ peaks' \in [Runs -> Nat] /\ previous' \in [Runs -> Int]
       /\ \A x \in Runs : previous'[x] # Budget!None => previous'[x] = peaks'[x]
  BY <1>5, <1>7 DEF BudgetInv
<1>12. QED
  BY <1>5, <1>6, <1>9, <1>10, <1>11, Zenon DEF BudgetInv

\* A launch, an unreadable report and the end of a run charge no tokens (budget.rs).
LEMMA BudgetKeptByOthers ==
    ASSUME BudgetInv, NEW r \in Runs,
           \/ Budget!Launch(r) \/ Budget!ReportUnreadable(r)
           \/ \E elapsed \in 1 .. 2 : Budget!RunEnds(r, elapsed)
    PROVE  BudgetInv'
<1>1. UNCHANGED <<peaks, base>> /\ peaks \in [Runs -> Nat] /\ previous \in [Runs -> Int]
  BY Zenon DEF BudgetInv, Budget!Launch, Budget!ReportUnreadable, Budget!RunEnds
<1>2. CASE Budget!Launch(r)
  BY <1>1, <1>2 DEF BudgetInv, Budget!Launch, Budget!None
<1>3. CASE Budget!ReportUnreadable(r)
  <2>1. /\ UNCHANGED previous /\ DOMAIN used' = Budget!Dimensions
        /\ used'["tokens"] = Budget!Unknown
    BY <1>3, Zenon DEF BudgetInv, Budget!ReportUnreadable, Budget!Dimensions
  <2>2. QED
    BY <1>1, <2>1 DEF BudgetInv, Budget!Unknown
<1>4. ASSUME NEW elapsed \in 1 .. 2, Budget!RunEnds(r, elapsed) PROVE BudgetInv'
  <2>1. previous' = [previous EXCEPT ![r] = Budget!None]
    BY <1>4, Zenon DEF Budget!RunEnds
  <2>2. /\ DOMAIN used' = Budget!Dimensions
        /\ used'["tokens"] = IF used["tokens"] = Budget!Unknown THEN Budget!Unknown
                             ELSE used["tokens"] + 0
    BY <1>4, Zenon DEF Budget!RunEnds, Budget!Sampled, Budget!Dimensions
  <2>3. used'["tokens"] = used["tokens"]
    BY <2>2 DEF BudgetInv
  <2>4. QED
    BY <1>1, <2>1, <2>2, <2>3 DEF BudgetInv, Budget!None
<1>5. QED
  BY <1>2, <1>3, <1>4, Zenon

\* Nothing is charged at the start.
LEMMA BudgetStarts ==
    ASSUME base = 0, peaks = [r \in Runs |-> 0], previous = [r \in Runs |-> Budget!None],
           used = [d \in Budget!Dimensions |-> 0]
    PROVE  BudgetInv
<1>1. used["tokens"] = 0 /\ DOMAIN used = Budget!Dimensions
  BY Zenon DEF Budget!Dimensions
<1>2. Sum(peaks) = 0
  BY SumOfZeros, Zenon
<1>3. QED
  BY <1>1, <1>2 DEF BudgetInv, Budget!None

\* Every step keeps the tokens equal to the sum of the highest totals.
LEMMA BudgetStep == BudgetInv /\ [Budget!Next]_budget => BudgetInv'
<1> SUFFICES ASSUME BudgetInv, [Budget!Next]_budget PROVE BudgetInv'
  OBVIOUS
<1>1. ASSUME NEW total \in Totals, Budget!Correct(total) PROVE BudgetInv'
  <2>1. /\ used' = [used EXCEPT !["tokens"] = total]
        /\ base' = total - Sum(peaks)
        /\ UNCHANGED <<previous, peaks>>
    BY <1>1, FoldIsSum, Zenon DEF Budget!Correct, BudgetInv
  <2>2. total \in Int /\ Sum(peaks) \in Int
    <3>1. total \in Nat
      BY HoldingsAssumption, Zenon
    <3>2. Sum(peaks) \in Nat
      BY HoldingsAssumption, PlusCommutes, SumOverType, Zenon DEF BudgetInv, Sum
    <3>3. QED
      BY <3>1, <3>2
  <2>3. DOMAIN used' = Budget!Dimensions /\ used'["tokens"] = total
    BY <2>1, Zenon DEF BudgetInv, Budget!Dimensions
  <2>4. QED
    BY <2>1, <2>2, <2>3 DEF BudgetInv
<1>2. CASE Budget!Restart
  <2>1. /\ base' = 0 /\ peaks' = [r \in Runs |-> 0] /\ previous' = [r \in Runs |-> Budget!None]
        /\ used' = [d \in Budget!Dimensions |-> 0]
    BY <1>2, Zenon DEF Budget!Restart, Budget!NewTracker
  <2>2. used'["tokens"] = 0 /\ DOMAIN used' = Budget!Dimensions
    BY <2>1, Zenon DEF Budget!Dimensions
  <2>3. Sum(peaks') = 0
    BY <2>1, SumOfZeros, Zenon
  <2>4. QED
    BY <2>1, <2>2, <2>3 DEF BudgetInv, Budget!None
<1>3. CASE \/ \E request \in Requests : Budget!ReplaceLimits(request)
           \/ Budget!UpdateMissionContract \/ UNCHANGED budget
  <2>1. UNCHANGED <<used, base, peaks, previous>>
    BY <1>3, Zenon DEF Budget!ReplaceLimits, Budget!UpdateMissionContract, budget
  <2>2. QED
    BY <2>1, Zenon DEF BudgetInv
<1>4. QED
  BY <1>1, <1>2, <1>3, BudgetKeptByReport, BudgetKeptByOthers, Zenon DEF Budget!Next

\* The tokens charged to a mission are the sum over its runs of the highest total each
\* reported, for any number of runs and any totals (budget.rs, usage_record_from_event).
THEOREM TokensAreCountedOnce == Budget!Spec => []TokensCountedOnce
<1>1. Budget!Init => BudgetInv
  BY BudgetStarts, Zenon DEF Budget!Init
<1>2. BudgetInv /\ [Budget!Next]_(Budget!vars) => BudgetInv'
  BY BudgetStep, Zenon DEF budget, Budget!vars
<1>3. BudgetInv => TokensCountedOnce
  BY FoldIsSum, Zenon DEF BudgetInv, TokensCountedOnce, Budget!TokensCountedOnce
<1>4. QED
  BY <1>1, <1>2, <1>3, PTL DEF Budget!Spec

-----------------------------------------------------------------------------
(***************************************************************************)
(* Memory.  An item that is confirmed was confirmed as it is now, because  *)
(* every change of it is a new version with a status of its own.           *)
(***************************************************************************)
Marks == {"candidate", "confirmed", "deferred", "invalidated", "rejected"}

Deeds == {"created", "confirmed", "edited", "narrowed", "deferred", "invalidated", "rejected"}

Items == [id : Memory!Ids, kind : {"inference", "constraint", "confirmed_decision", "fact"},
          content : Memory!Texts, version : Nat, status : Marks, author : Memory!Authors]

Changes == [action : Deeds, actor : Memory!Authors, item : Items]

\* The user has confirmed this version with these words.
WasConfirmed(c) ==
    \E k \in 1 .. Len(history) :
        /\ history[k].action = "confirmed" /\ history[k].actor = "user"
        /\ history[k].item.id = c.id
        /\ history[k].item.version = c.version
        /\ history[k].item.content = c.content
        /\ history[k].item.kind # "inference"

MemoryInv ==
    /\ items \in [Memory!Ids -> SUBSET Items]
    /\ \A i \in Memory!Ids : \A x, y \in items[i] : x = y
    /\ \A i \in Memory!Ids : \A x \in items[i] : x.id = i
    /\ history \in Seq(Changes)
    /\ \A i \in Memory!Ids : \A x \in items[i] : x.status = "confirmed" => WasConfirmed(x)
    /\ \A taken \in pack :
          /\ Memory!Used(taken) <= MaxTokens
          /\ \A n \in 1 .. Len(taken) : taken[n].id \in Memory!Ids => WasConfirmed(taken[n])

\* The only change that gives an item the status is the confirmation by the user.
Justified(action, actor, item) ==
    item.status = "confirmed" => action = "confirmed" /\ actor = "user" /\ item.kind # "inference"

\* A change with its entry in the history, of which only a confirmation confirms (lifecycle.rs).
LEMMA MemoryKeptByMutation ==
    ASSUME MemoryInv, NEW action \in Deeds, NEW actor \in Memory!Authors, NEW item \in Items,
           Justified(action, actor, item), Memory!AppendMutation(action, actor, item)
    PROVE  MemoryInv'
<1> DEFINE change == [action |-> action, actor |-> actor, item |-> item]
<1>1. /\ items' = [items EXCEPT ![item.id] = {item}] /\ history' = Append(history, change)
      /\ UNCHANGED pack /\ item.id \in Memory!Ids
  BY Zenon DEF Memory!AppendMutation, Items
<1>2. /\ history \in Seq(Changes)
      /\ change \in Changes /\ change.action = action /\ change.actor = actor /\ change.item = item
  BY Zenon DEF MemoryInv, Changes
<1> HIDE DEF change
<1>3. /\ history' \in Seq(Changes)
      /\ Len(history') = Len(history) + 1 /\ Len(history) \in Nat
      /\ history'[Len(history) + 1] = change
      /\ \A k \in 1 .. Len(history) : k \in 1 .. Len(history') /\ history'[k] = history[k]
  BY <1>1, <1>2
<1>4. ASSUME NEW c, WasConfirmed(c) PROVE WasConfirmed(c)'
  <2>1. PICK k \in 1 .. Len(history) :
           /\ history[k].action = "confirmed" /\ history[k].actor = "user"
           /\ history[k].item.id = c.id
           /\ history[k].item.version = c.version
           /\ history[k].item.content = c.content
           /\ history[k].item.kind # "inference"
    BY <1>4 DEF WasConfirmed
  <2>2. k \in 1 .. Len(history') /\ history'[k] = history[k]
    BY <1>3, Zenon
  <2>3. QED
    BY <2>1, <2>2 DEF WasConfirmed
<1>5. item.status = "confirmed" => WasConfirmed(item)'
  <2>1. Len(history) + 1 \in 1 .. Len(history')
    BY <1>3
  <2>2. QED
    BY <1>2, <1>3, <2>1 DEF WasConfirmed, Justified
<1>6. \A i \in Memory!Ids : items'[i] = IF i = item.id THEN {item} ELSE items[i]
  BY <1>1, Zenon DEF MemoryInv
<1>7. /\ items' \in [Memory!Ids -> SUBSET Items]
      /\ \A i \in Memory!Ids : \A x, y \in items'[i] : x = y
      /\ \A i \in Memory!Ids : \A x \in items'[i] : x.id = i
  BY <1>1, <1>6 DEF MemoryInv
<1>8. ASSUME NEW i \in Memory!Ids, NEW x \in items'[i], x.status = "confirmed"
      PROVE  WasConfirmed(x)'
  <2>1. CASE i = item.id
    BY <1>5, <1>6, <1>8, <2>1, Zenon
  <2>2. CASE i # item.id
    <3>1. WasConfirmed(x)
      BY <1>6, <1>8, <2>2 DEF MemoryInv
    <3>2. QED
      BY <1>4, <3>1
  <2>3. QED
    BY <2>1, <2>2, Zenon
<1>9. ASSUME NEW taken \in pack'
      PROVE  /\ Memory!Used(taken) <= MaxTokens
             /\ \A n \in 1 .. Len(taken) : taken[n].id \in Memory!Ids => WasConfirmed(taken[n])'
  BY <1>1, <1>4 DEF MemoryInv
<1>10. QED
  BY <1>3, <1>7, <1>8, <1>9, Zenon DEF MemoryInv

\* What the user makes of an item is an item.
Changed(item, to, words) ==
    [item EXCEPT !.status = to, !.version = @ + 1, !.content = words, !.author = "user"]

\* A changed item is an item of the same kind, with the status it was given.
LEMMA MutatedItem ==
    ASSUME NEW item \in Items, NEW to \in Marks, NEW words \in Memory!Texts, NEW changed,
           changed = Changed(item, to, words)
    PROVE  changed \in Items /\ changed.status = to /\ changed.kind = item.kind
<1>1. /\ item = [id |-> item.id, kind |-> item.kind, content |-> item.content,
                 version |-> item.version, status |-> item.status, author |-> item.author]
      /\ item.version + 1 \in Nat
  BY DEF Items
<1>2. changed = [id |-> item.id, kind |-> item.kind, content |-> words,
                 version |-> item.version + 1, status |-> to, author |-> "user"]
  BY <1>1, Zenon DEF Changed
<1>3. QED
  BY <1>1, <1>2 DEF Items, Memory!Authors

\* A review keeps the words of an item or gives it others.
Reviewed(id, action, to, words) ==
    /\ words = Memory!ContentOf(id) \/ words \in Memory!Texts
    /\ to = "confirmed" => /\ action = "confirmed"
                           /\ \A item \in items[id] : item.kind # "inference"
    /\ \E actor \in Memory!Authors : Memory!Mutate(id, actor, action, to, words)

\* A review changes an item that is there (lifecycle.rs).
LEMMA MemoryKeptByMutate ==
    ASSUME MemoryInv, NEW id \in Memory!Ids, NEW action \in Deeds, NEW to \in Marks, NEW words,
           Reviewed(id, action, to, words)
    PROVE  MemoryInv'
<1>1. PICK item \in items[id] : Memory!AppendMutation(action, "user", Changed(item, to, words))
  BY Zenon DEF Memory!Mutate, Reviewed, Changed
<1>2. item \in Items /\ (CHOOSE x \in items[id] : TRUE) \in Items
  BY <1>1, Zenon DEF MemoryInv
<1>3. words \in Memory!Texts
  BY <1>2, Zenon DEF Items, Memory!ContentOf, Reviewed
<1>4. PICK changed : changed = Changed(item, to, words)
  BY Zenon
<1>5. changed \in Items /\ changed.status = to /\ changed.kind = item.kind
  BY <1>2, <1>3, <1>4, MutatedItem
<1>6. Justified(action, "user", changed) /\ "user" \in Memory!Authors
  BY <1>1, <1>5, Zenon DEF Justified, Reviewed, Memory!Authors
<1>7. Memory!AppendMutation(action, "user", changed)
  BY <1>1, <1>4, Zenon
<1>8. QED
  BY <1>5, <1>6, <1>7, MemoryKeptByMutation

\* Each of the reviews of the user is such a change (lifecycle.rs).
LEMMA MemoryKeptByReview ==
    ASSUME MemoryInv, NEW id \in Memory!Ids, NEW actor \in Memory!Authors,
           \/ Memory!Confirm(id, actor) \/ Memory!Defer(id, actor)
           \/ Memory!Invalidate(id, actor) \/ Memory!Reject(id, actor)
           \/ \E action \in {"edited", "narrowed"}, words \in Memory!Texts :
                 Memory!Edit(id, actor, action, words)
    PROVE  MemoryInv'
<1>1. \E action \in Deeds, to \in Marks : \E words : Reviewed(id, action, to, words)
  <2>1. CASE Memory!Confirm(id, actor)
    <3>1. Reviewed(id, "confirmed", "confirmed", Memory!ContentOf(id)) /\ "confirmed" \in Marks \cap Deeds
      BY <2>1, Zenon DEF Memory!Confirm, Reviewed, Marks, Deeds
    <3>2. QED
      BY <3>1, Zenon
  <2>2. CASE Memory!Defer(id, actor)
    <3>1. Reviewed(id, "deferred", "deferred", Memory!ContentOf(id)) /\ "deferred" \in Marks \cap Deeds
      BY <2>2, Zenon DEF Memory!Defer, Reviewed, Marks, Deeds
    <3>2. QED
      BY <3>1, Zenon
  <2>3. CASE Memory!Invalidate(id, actor)
    <3>1. Reviewed(id, "invalidated", "invalidated", Memory!ContentOf(id)) /\ "invalidated" \in Marks \cap Deeds
      BY <2>3, Zenon DEF Memory!Invalidate, Reviewed, Marks, Deeds
    <3>2. QED
      BY <3>1, Zenon
  <2>4. CASE Memory!Reject(id, actor)
    <3>1. Reviewed(id, "rejected", "rejected", Memory!ContentOf(id)) /\ "rejected" \in Marks \cap Deeds
      BY <2>4, Zenon DEF Memory!Reject, Reviewed, Marks, Deeds
    <3>2. QED
      BY <3>1, Zenon
  <2>5. ASSUME NEW action \in {"edited", "narrowed"}, NEW words \in Memory!Texts,
               Memory!Edit(id, actor, action, words)
        PROVE  \E act \in Deeds, to \in Marks : \E said : Reviewed(id, act, to, said)
    <3>1. Reviewed(id, action, "candidate", words) /\ "candidate" \in Marks /\ action \in Deeds
      BY <2>5, Zenon DEF Memory!Edit, Memory!StatusOfEdited, Reviewed, Marks, Deeds
    <3>2. QED
      BY <3>1, Zenon
  <2>6. QED
    BY <2>1, <2>2, <2>3, <2>4, <2>5, Zenon
<1>2. QED
  BY <1>1, MemoryKeptByMutate, Zenon

\* A new item is a candidate and not confirmed (lifecycle.rs).
LEMMA MemoryKeptByInsert ==
    ASSUME MemoryInv, NEW id \in Memory!Ids, NEW origin \in Memory!Sources,
           NEW words \in Memory!Texts, NEW author \in Memory!Authors,
           Memory!Insert(id, origin, words, author)
    PROVE  MemoryInv'
<1>1. /\ Memory!FromEvent(id, origin, words, author) \in Items
      /\ Memory!FromEvent(id, origin, words, author).status = "candidate"
  BY Zenon DEF Items, Marks, Memory!FromEvent, Memory!KindOf, Memory!Sources
<1>2. Memory!AppendMutation("created", author, Memory!FromEvent(id, origin, words, author))
  BY Zenon DEF Memory!Insert
<1>3. Justified("created", author, Memory!FromEvent(id, origin, words, author)) /\ "created" \in Deeds
  BY <1>1, Zenon DEF Justified, Deeds
<1>4. QED
  BY <1>1, <1>2, <1>3, MemoryKeptByMutation

Below(S, i) == {j \in S : j < i}

\* A set of numbers has a least one.
LEMMA LeastNumber ==
    ASSUME NEW T \in SUBSET Nat, T # {}
    PROVE  \E n \in T : \A m \in T : n <= m
<1> DEFINE R == OpToRel(<, Nat)
<1>1. IsWellFoundedOn(R, Nat)
  BY NatLessThanWellFounded, Zenon
<1>2. \A x, y \in Nat : <<x, y>> \in R <=> x < y
  BY Zenon DEF OpToRel
<1> HIDE DEF R
<1>3. PICK n \in T : \A m \in T : ~(<<m, n>> \in R)
  BY <1>1, WFMin, Zenon
<1>4. ASSUME NEW m \in T PROVE n <= m
  <2>1. m \in Nat /\ n \in Nat
    BY Zenon
  <2>2. ~(m < n)
    BY <1>2, <1>3, <2>1, Zenon
  <2>3. QED
    BY <2>1, <2>2
<1>5. QED
  BY <1>4, Zenon

\* For every place there is one element that has it, counting from the least.
LEMMA RankedElement ==
    ASSUME NEW m \in Nat, NEW S \in SUBSET (1 .. m), NEW n \in 1 .. Cardinality(S)
    PROVE  \E i \in S : Cardinality(Below(S, i)) = n - 1
<1>0. \A x \in S : x \in Nat /\ m - x \in Nat
  OBVIOUS
<1>1. /\ IsFiniteSet(S) /\ Cardinality(S) \in Nat
      /\ \A i \in S : IsFiniteSet(Below(S, i)) /\ Cardinality(Below(S, i)) \in Nat
  <2>1. IsFiniteSet(1 .. m)
    BY FS_Interval
  <2>2. IsFiniteSet(S)
    BY <2>1, FS_Subset, Zenon
  <2>3. \A i \in S : Below(S, i) \in SUBSET S
    BY Zenon DEF Below
  <2>4. QED
    BY <2>2, <2>3, FS_Subset, FS_CardinalityType
<1>2. ASSUME NEW T \in SUBSET S, T # {} PROVE \E g \in T : \A x \in T : x <= g
  <2> DEFINE N == {m - x : x \in T}
  <2>1. N \in SUBSET Nat /\ N # {}
    BY <1>0, <1>2, Zenon
  <2>2. PICK d \in N : \A e \in N : d <= e
    BY <2>1, LeastNumber, Zenon
  <2>3. PICK g \in T : d = m - g
    BY <2>2, Zenon
  <2>4. \A x \in T : m - g <= m - x
    BY <2>2, <2>3, Zenon
  <2>5. QED
    BY <1>0, <2>3, <2>4
<1>3. PICK g \in S : \A x \in S : x <= g
  <2>1. S # {}
    BY FS_EmptySet
  <2>2. QED
    BY <1>2, <2>1, Zenon
<1>4. Cardinality(Below(S, g)) >= n - 1
  <2>1. Below(S, g) = S \ {g}
    <3>1. \A x \in S : x < g <=> x # g
      BY <1>0, <1>3
    <3>2. QED
      BY <1>3, <3>1, Zenon DEF Below
  <2>2. Cardinality(S \ {g}) = Cardinality(S) - 1
    BY <1>1, <1>3, FS_RemoveElement, Zenon
  <2>3. QED
    BY <1>1, <2>1, <2>2
<1> DEFINE T == {i \in S : Cardinality(Below(S, i)) >= n - 1}
<1>5. PICK i \in T : \A j \in T : i <= j
  <2>1. T \in SUBSET Nat /\ T # {}
    <3>1. g \in T
      BY <1>3, <1>4, Zenon
    <3>2. QED
      BY <1>0, <3>1, Zenon
  <2>2. QED
    BY <2>1, LeastNumber, Zenon
<1>6. ASSUME Cardinality(Below(S, i)) # n - 1 PROVE FALSE
  <2>1. Cardinality(Below(S, i)) >= n /\ i \in S
    BY <1>1, <1>5, <1>6
  <2>2. Below(S, i) # {}
    BY <2>1, FS_EmptySet
  <2>3. PICK p \in Below(S, i) : \A x \in Below(S, i) : x <= p
    BY <1>2, <2>2, Zenon DEF Below
  <2>4. p \in S /\ p < i
    BY <2>3, Zenon DEF Below
  <2>5. Below(S, p) = Below(S, i) \ {p}
    <3>1. \A x \in S : x < p <=> x < i /\ x # p
      <4>1. \A x \in S : x < i => x <= p
        BY <2>3, Zenon DEF Below
      <4>2. QED
        BY <1>0, <2>1, <2>4, <4>1
    <3>2. QED
      BY <3>1, Zenon DEF Below
  <2>6. Cardinality(Below(S, i) \ {p}) = Cardinality(Below(S, i)) - 1
    BY <1>1, <2>1, <2>3, FS_RemoveElement, Zenon
  <2>7. p \in T
    BY <1>1, <2>1, <2>4, <2>5, <2>6
  <2>8. QED
    BY <1>5, <2>4, <2>7
<1>7. QED
  BY <1>5, <1>6, Zenon

\* The elements of a sequence that was given a first one.
LEMMA FirstAndRest ==
    ASSUME NEW R, NEW t \in Seq(R), NEW first
    PROVE  /\ Len(<<first>> \o t) = Len(t) + 1
           /\ (<<first>> \o t)[1] = first
           /\ \A n \in 2 .. Len(t) + 1 : (<<first>> \o t)[n] = t[n - 1]
OBVIOUS

\* Whatever is recalled, the candidates of the memory are confirmed items.
LEMMA CandidatesConfirmed ==
    ASSUME MemoryInv, NEW ids \in SUBSET Memory!Ids,
           \A id \in ids : Memory!HasStatus(id, {"confirmed"})
    PROVE  /\ Len(Memory!Candidates(ids)) \in Nat
           /\ \A n \in 1 .. Len(Memory!Candidates(ids)) :
                 Memory!Candidates(ids)[n].id \in Memory!Ids => WasConfirmed(Memory!Candidates(ids)[n])
<1> DEFINE Pick(n) == CHOOSE i \in ids : Memory!Cardinality({j \in ids : j < i}) = n - 1
           Held(n) == CHOOSE item \in items[Pick(n)] : TRUE
           Entry(n) == [id |-> Pick(n), content |-> Held(n).content, version |-> Held(n).version]
           k == Memory!Cardinality(ids)
           rest == [n \in 1 .. k |-> Entry(n)]
<1>1. Memory!Candidates(ids) = <<Memory!Contract>> \o rest
  BY Zenon DEF Memory!Candidates
<1>2. \A S : Memory!Cardinality(S) = Cardinality(S)
  BY Zenon DEF Cardinality, Memory!Cardinality
<1>3. ids \in SUBSET (1 .. MaxItems) /\ MaxItems \in Nat /\ k \in Nat
  <2>1. ids \in SUBSET (1 .. MaxItems) /\ MaxItems \in Nat
    BY HoldingsAssumption, Zenon DEF Memory!Ids
  <2>2. IsFiniteSet(ids)
    <3>1. IsFiniteSet(1 .. MaxItems)
      BY <2>1, FS_Interval
    <3>2. QED
      BY <2>1, <3>1, FS_Subset, Zenon
  <2>3. QED
    BY <1>2, <2>1, <2>2, FS_CardinalityType, Zenon
<1>4. ASSUME NEW n \in 1 .. k PROVE Pick(n) \in ids
  <2>1. \E i \in ids : Cardinality(Below(ids, i)) = n - 1
    BY <1>2, <1>3, RankedElement, Zenon
  <2>2. \E i \in ids : Memory!Cardinality({j \in ids : j < i}) = n - 1
    BY <1>2, <2>1, Zenon DEF Below
  <2>3. QED
    BY <2>2, Zenon
<1>5. ASSUME NEW n \in 1 .. k PROVE WasConfirmed(Entry(n))
  <2> HIDE DEF Pick
  <2>1. PICK item \in items[Pick(n)] : item.status = "confirmed"
    BY <1>4, Zenon DEF Memory!HasStatus
  <2>2. Pick(n) \in Memory!Ids
    BY <1>4, Zenon
  <2>3. Held(n) = item /\ item.id = Pick(n) /\ WasConfirmed(item)
    BY <2>1, <2>2, Zenon DEF MemoryInv
  <2> HIDE DEF Held
  <2>4. /\ Entry(n).id = item.id /\ Entry(n).version = item.version
        /\ Entry(n).content = item.content
    BY <2>3, Zenon
  <2> HIDE DEF Entry
  <2>5. QED
    BY <2>3, <2>4, Zenon DEF WasConfirmed
<1> HIDE DEF Entry, k
<1>6. /\ Len(Memory!Candidates(ids)) = k + 1
      /\ Memory!Candidates(ids)[1] = Memory!Contract
      /\ \A n \in 2 .. k + 1 : n - 1 \in 1 .. k /\ Memory!Candidates(ids)[n] = Entry(n - 1)
  <2> DEFINE R == {Entry(n) : n \in 1 .. k}
  <2>1. rest \in Seq(R) /\ Len(rest) = k
    BY <1>3
  <2>3. \A n \in 1 .. k : rest[n] = Entry(n)
    BY Zenon
  <2> HIDE DEF R, rest
  <2>4. /\ Len(<<Memory!Contract>> \o rest) = Len(rest) + 1
        /\ (<<Memory!Contract>> \o rest)[1] = Memory!Contract
        /\ \A n \in 2 .. Len(rest) + 1 : (<<Memory!Contract>> \o rest)[n] = rest[n - 1]
    BY <2>1, FirstAndRest
  <2>5. \A n \in 2 .. k + 1 : n - 1 \in 1 .. k
    BY <1>3
  <2>6. QED
    BY <1>1, <2>1, <2>3, <2>4, <2>5, Zenon
<1>7. Memory!Contract.id \notin Memory!Ids
  BY <1>3 DEF Memory!Contract, Memory!Ids
<1>8. QED
  BY <1>3, <1>5, <1>6, <1>7

Charging(tokens, c) == Memory!Charge(tokens, c)

Charged == INSTANCE FoldRules WITH Op <- Charging

\* What a pack has used grows by what is added to it.
LEMMA UsedGrows ==
    ASSUME NEW C, NEW taken \in Seq(C), NEW c
    PROVE  /\ Memory!Used(<<>>) = 0
           /\ Memory!Used(Append(taken, c)) = Memory!Charge(Memory!Used(taken), c)
<1>1. \A t : Memory!Used(t) = Charged!Iterate(Charging, 0, t)
  BY Zenon DEF Memory!Used, Memory!Iterate, Charged!Iterate, Charging
<1>2. /\ Charged!Iterate(Charging, 0, <<>>) = 0
      /\ Charged!Iterate(Charging, 0, Append(taken, c))
            = Charging(Charged!Iterate(Charging, 0, taken), c)
  <2>1. Charged!Iterate(Charging, 0, <<>>) = 0
    BY LeastNumber, Charged!IterateEmpty, Zenon DEF Charged!LeastNumbers
  <2>2. Charged!Iterate(Charging, 0, Append(taken, c))
           = Charging(Charged!Iterate(Charging, 0, taken), c)
    BY LeastNumber, Charged!IterateAppend, Zenon DEF Charged!LeastNumbers
  <2>3. QED
    BY <2>1, <2>2, Zenon
<1>3. \A n : Charging(n, c) = Memory!Charge(n, c)
  BY Zenon DEF Charging
<1>4. QED
  BY <1>1, <1>2, <1>3, Zenon

Taking(taken, c) == Memory!Take(taken, c)

Taken == INSTANCE FoldRules WITH Op <- Taking

\* A pack is made of candidates and fits the budget.
LEMMA PackedFits ==
    ASSUME NEW candidates, Len(candidates) \in Nat
    PROVE  /\ Memory!Packed(candidates)
                 \in Seq({candidates[n] : n \in 1 .. Len(candidates)})
           /\ Memory!Used(Memory!Packed(candidates)) <= MaxTokens
<1> DEFINE C == {candidates[n] : n \in 1 .. Len(candidates)}
           Good == {taken \in Seq(C) : Memory!Used(taken) <= MaxTokens}
           T == [k \in 0 .. Len(candidates) |-> Good]
<1>1. Memory!Packed(candidates) = Taken!Iterate(Taking, <<>>, candidates)
  BY Zenon DEF Memory!Packed, Memory!Iterate, Taken!Iterate, Taking
<1>2. <<>> \in Good
  <2>1. <<>> \in Seq(C) /\ 0 <= MaxTokens
    BY HoldingsAssumption
  <2>2. Memory!Used(<<>>) = 0
    BY <2>1, UsedGrows, Zenon
  <2>3. QED
    BY <2>1, <2>2
<1>3. ASSUME NEW taken \in Good, NEW c \in C PROVE Taking(taken, c) \in Good
  <2>1. taken \in Seq(C)
    BY Zenon
  <2>2. CASE Memory!Fits(taken, c)
    <3>1. Taking(taken, c) = Append(taken, c)
      BY <2>2, Zenon DEF Taking, Memory!Take
    <3>2. Append(taken, c) \in Seq(C)
      BY <2>1
    <3>3. Memory!Used(Append(taken, c)) = Memory!Charge(Memory!Used(taken), c)
      BY <2>1, UsedGrows
    <3>4. QED
      BY <2>2, <3>1, <3>2, <3>3 DEF Memory!Fits
  <2>3. CASE ~Memory!Fits(taken, c)
    BY <2>3 DEF Taking, Memory!Take
  <2>4. QED
    BY <2>2, <2>3
<1>4. /\ \A k \in 1 .. Len(candidates) : k - 1 \in 0 .. Len(candidates) /\ k \in 0 .. Len(candidates)
      /\ 0 \in 0 .. Len(candidates) /\ Len(candidates) \in 0 .. Len(candidates)
  OBVIOUS
<1>5. \A k \in 0 .. Len(candidates) : T[k] = Good
  BY Zenon
<1>6. \A k \in 1 .. Len(candidates) : candidates[k] \in C
  BY Zenon
<1> HIDE DEF T, Good, C
<1>7. <<>> \in T[0]
  BY <1>2, <1>4, <1>5
<1>8. \A k \in 1 .. Len(candidates) : \A taken \in T[k - 1] : Taking(taken, candidates[k]) \in T[k]
  BY <1>3, <1>4, <1>5, <1>6
<1>9. Taken!Iterate(Taking, <<>>, candidates) \in T[Len(candidates)]
  BY <1>7, <1>8, LeastNumber, Taken!IterateWithin, Zenon DEF Taken!LeastNumbers
<1>10. Memory!Packed(candidates) \in Good
  BY <1>1, <1>4, <1>5, <1>9, Zenon
<1>11. QED
  BY <1>10, Zenon DEF Good, C

\* A pack is made of confirmed items and fits the budget (context_pack.rs).
LEMMA MemoryKeptByPack ==
    ASSUME MemoryInv, NEW limit, Memory!BuildContextPack(limit)
    PROVE  MemoryInv'
<1> DEFINE ids == Memory!Recall(limit)
           candidates == Memory!Candidates(ids)
<1>1. ids \in SUBSET Memory!Ids /\ \A id \in ids : Memory!HasStatus(id, {"confirmed"})
  BY Zenon DEF Memory!Recall
<1>2. pack' = {Memory!Packed(candidates)} /\ UNCHANGED <<items, history>>
  BY Zenon DEF Memory!BuildContextPack
<1> HIDE DEF ids
<1>3. /\ Len(candidates) \in Nat
      /\ \A n \in 1 .. Len(candidates) :
            candidates[n].id \in Memory!Ids => WasConfirmed(candidates[n])
  BY <1>1, CandidatesConfirmed
<1> HIDE DEF candidates
<1>4. PICK taken : taken = Memory!Packed(candidates)
  BY Zenon
<1>5. /\ taken \in Seq({candidates[n] : n \in 1 .. Len(candidates)})
      /\ Memory!Used(taken) <= MaxTokens
  BY <1>3, <1>4, PackedFits
<1>6. ASSUME NEW n \in 1 .. Len(taken), taken[n].id \in Memory!Ids PROVE WasConfirmed(taken[n])
  <2>1. taken[n] \in {candidates[i] : i \in 1 .. Len(candidates)}
    BY <1>5
  <2>2. QED
    BY <1>3, <1>6, <2>1
<1>7. \A c : WasConfirmed(c)' <=> WasConfirmed(c)
  BY <1>2, Zenon DEF WasConfirmed
<1>8. QED
  BY <1>2, <1>4, <1>5, <1>6, <1>7 DEF MemoryInv

\* Every step keeps the confirmed items confirmed in the history.
LEMMA MemoryStep == MemoryInv /\ [Memory!Next]_memory => MemoryInv'
<1> SUFFICES ASSUME MemoryInv, [Memory!Next]_memory PROVE MemoryInv'
  OBVIOUS
<1>1. CASE UNCHANGED memory
  BY <1>1, Zenon DEF memory, MemoryInv, WasConfirmed
<1>2. QED
  BY <1>1, MemoryKeptByInsert, MemoryKeptByReview, MemoryKeptByPack DEF Memory!Next

\* What a context pack takes from memory fits its budget and was confirmed by the user
\* in the version and the words it has, for any number of items, reviews and tokens
\* (lifecycle.rs, recall.rs, context_pack.rs).
THEOREM PackIsConfirmed == Memory!Spec => []PackWasConfirmed
<1>1. Memory!Init => MemoryInv
  BY DEF Memory!Init, MemoryInv
<1>2. MemoryInv /\ [Memory!Next]_(Memory!vars) => MemoryInv'
  BY MemoryStep, Zenon DEF memory, Memory!vars
<1>3. MemoryInv => PackWasConfirmed
  BY Zenon DEF MemoryInv, WasConfirmed, PackWasConfirmed, Memory!PackWasConfirmed
<1>4. QED
  BY <1>1, <1>2, <1>3, PTL DEF Memory!Spec

=============================================================================
