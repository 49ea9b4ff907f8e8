------------------------------ MODULE Snapshots -----------------------------
(***************************************************************************)
(* Snapshots of a project that is not in git (workspace's snapshot.rs):    *)
(* every file is put into the blob store and retained, then the manifest   *)
(* that lists them; a failure releases what was retained.  A snapshot is   *)
(* restored into a directory of its own.                                   *)
(***************************************************************************)
EXTENDS Integers, Sequences, FiniteSets

CONSTANTS
    Paths,
    Contents,
    MaxSnapshots,  \* bound: snapshots made
    MaxInputs      \* bound: files changed, failures and crashes

VARIABLES
    files,         \* per path: {} or {its content}
    refs,          \* per content: the references the store has counted
    work,          \* the call in progress: a create or a restore, and how far it is
    snapshots,     \* the snapshots made, each a set of entries <<path, content>>
    restored,      \* the snapshots whose restore directory exists, with its files
    lost,          \* history: per content, the references nobody will release
    inputs

vars == <<files, refs, work, snapshots, restored, lost, inputs>>

Idle == [op |-> "none", entries |-> {}, todo |-> {}, of |-> 0]

Init ==
    /\ files \in [Paths -> {{c} : c \in Contents}]
    /\ refs = [c \in Contents |-> 0]
    /\ work = Idle
    /\ snapshots = <<>>
    /\ restored = {}
    /\ lost = [c \in Contents |-> 0]
    /\ inputs = 0

Input == inputs < MaxInputs /\ inputs' = inputs + 1

\* The project goes on changing, during a create too.
FileChanges(path, content) ==
    /\ Input
    /\ files' = [files EXCEPT ![path] = content]
    /\ UNCHANGED <<refs, work, snapshots, restored, lost>>

-----------------------------------------------------------------------------
Create ==
    /\ work.op = "none"
    /\ Len(snapshots) < MaxSnapshots
    /\ work' = [Idle EXCEPT !.op = "create", !.todo = Paths]
    /\ UNCHANGED <<files, refs, snapshots, restored, lost, inputs>>

\* collect_files, for one path: what is there now is put and retained.
CollectFile(path) ==
    /\ work.op = "create"
    /\ path \in work.todo
    /\ refs' = [c \in Contents |-> IF c \in files[path] THEN refs[c] + 1 ELSE refs[c]]
    /\ work' = [work EXCEPT !.todo = @ \ {path},
                            !.entries = @ \cup ({path} \X files[path])]
    /\ UNCHANGED <<files, snapshots, restored, lost, inputs>>

Count(entries, c) == Cardinality({e \in entries : e[2] = c})

\* Mutant: a content that two files share is released once.
ReleasedOnce(counts, entries) ==
    [c \in Contents |-> IF Count(entries, c) > 0 THEN counts[c] - 1 ELSE counts[c]]

\* release_entries
Released(counts, entries) == [c \in Contents |-> counts[c] - Count(entries, c)]

Lost(entries) == [c \in Contents |-> lost[c] + Count(entries, c)]

\* A file, the manifest or its reference cannot be stored; a listed file is gone.
\* A release that fails as well (kept) goes unnoticed.
CreateFails(kept) ==
    /\ work.op = "create"
    /\ Input
    /\ refs' = Released(refs, work.entries \ kept)
    /\ lost' = Lost(kept)
    /\ work' = Idle
    /\ UNCHANGED <<files, snapshots, restored>>

\* The manifest is put and retained: the snapshot is complete.
Finish ==
    /\ work.op = "create"
    /\ work.todo = {}
    /\ snapshots' = Append(snapshots, work.entries)
    /\ work' = Idle
    /\ UNCHANGED <<files, refs, restored, lost, inputs>>

-----------------------------------------------------------------------------
\* prepare_restore: into a directory named after the snapshot, which must not exist.
PrepareRestore(i) ==
    /\ work.op = "none"
    /\ i \notin {r.of : r \in restored}
    /\ restored' = restored \cup {[of |-> i, files |-> {}]}
    /\ work' = [Idle EXCEPT !.op = "restore", !.todo = snapshots[i], !.of = i]
    /\ UNCHANGED <<files, refs, snapshots, lost, inputs>>

Target == CHOOSE r \in restored : r.of = work.of

\* One file of the manifest is read from the store and written.
RestoreFile(entry) ==
    /\ work.op = "restore"
    /\ entry \in work.todo
    /\ refs[entry[2]] > 0
    /\ restored' = (restored \ {Target}) \cup {[Target EXCEPT !.files = @ \cup {entry}]}
    /\ work' = [work EXCEPT !.todo = @ \ {entry}]
    /\ UNCHANGED <<files, refs, snapshots, lost, inputs>>

RestoreEnds ==
    /\ work.op = "restore"
    /\ work.todo = {}
    /\ work' = Idle
    /\ UNCHANGED <<files, refs, snapshots, restored, lost, inputs>>

\* A failure removes the directory.
RestoreFails ==
    /\ work.op = "restore"
    /\ Input
    /\ restored' = restored \ {Target}
    /\ work' = Idle
    /\ UNCHANGED <<files, refs, snapshots, lost>>

\* The process dies: a create leaves its references, a restore its directory.
Crash ==
    /\ Input
    /\ work.op # "none"
    /\ lost' = Lost(work.entries)
    /\ work' = Idle
    /\ UNCHANGED <<files, refs, snapshots, restored>>

Next ==
    \/ \E path \in Paths, content \in {{}} \cup {{c} : c \in Contents} : FileChanges(path, content)
    \/ Create
    \/ \E path \in Paths : CollectFile(path)
    \/ \E kept \in SUBSET work.entries : CreateFails(kept)
    \/ Finish
    \/ \E i \in DOMAIN snapshots : PrepareRestore(i)
    \/ \E entry \in Paths \X Contents : RestoreFile(entry)
    \/ RestoreEnds \/ RestoreFails
    \/ Crash

Spec == Init /\ [][Next]_vars
-----------------------------------------------------------------------------
\* The store counts one reference for every entry of every snapshot and of the one
\* being made, two files of one content included; a failed create takes back its own
\* and nobody else's, whatever else failed or crashed before: no snapshot loses a blob
\* to the clean-up of another.
SnapshotsHoldTheirBlobs ==
    \A c \in Contents :
        refs[c] = Cardinality({held \in (DOMAIN snapshots) \X (Paths \X Contents) :
                                  held[2] \in snapshots[held[1]] /\ held[2][2] = c})
                    + Count(work.entries, c) + lost[c]
=============================================================================
