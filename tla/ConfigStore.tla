------------------------------ MODULE ConfigStore ------------------------------
(***************************************************************************)
(* The configuration repository (ConfigRepository.ets) over its files      *)
(* (SnapshotStore.ets): immutable snapshots numbered by revision, two      *)
(* manifest slots written in turn, and a recovery that looks for the       *)
(* newest snapshot a manifest vouches for.                                 *)
(*                                                                         *)
(* Calls wait in one queue; the one whose turn it is runs to its end       *)
(* without an await, so that only a crash, or an error of a file           *)
(* operation, can fall between two of its steps.  A file is its content,   *)
(* or None when it is absent or cannot be parsed: no code tells these two  *)
(* apart.  A content is the set of calls whose change it includes, and     *)
(* stands for its own checksum.                                            *)
(***************************************************************************)
EXTENDS Naturals, Sequences, FiniteSets

CONSTANTS MaxCalls,       \* commitInitial, commit and rollbackTo calls
          MaxCrashes,     \* crashes of the process
          MaxFaults       \* file operations that fail

Calls == 1..MaxCalls
Revisions == 1..MaxCalls   \* each call writes at most one revision
Contents == SUBSET Calls
None == {0}                \* no content: there is no call 0
KEEP_REVISIONS == 3

ASSUME StoreAssumption ==
    /\ MaxCalls \in Nat \ {0} /\ MaxCrashes \in Nat /\ MaxFaults \in Nat

Slots == {0, 1}   \* manifest-a.json and manifest-b.json
Manifests == [activeRevision : Revisions, checksum : Contents]
NoManifest == [activeRevision |-> 0, checksum |-> None]

VARIABLES
    snapshot,   \* snapshot[r]: content of config-snapshot-<r>.json, or None
    manifest,   \* manifest[s]: content of slot s, or NoManifest
    active,     \* revision of the active snapshot, 0 if none
    content,    \* its content, or None
    writerQueue,
    pc,         \* "down", "idle", or the file operation the call is at
    draft,      \* content the call writes, or None
    kind, goal, \* of each call: which operation, and the revision to return to
    reply,      \* what each call returned
    published,  \* published[r]: the content acknowledged as revision r, or None
    crashes, faults

fileVars == <<snapshot, manifest>>
activeVars == <<active, content>>
callVars == <<kind, goal>>
budgetVars == <<crashes, faults>>
vars == <<fileVars, activeVars, writerQueue, pc, draft, callVars, reply,
          published, budgetVars>>

Init ==
    /\ snapshot = [r \in Revisions |-> None]
    /\ manifest = [s \in Slots |-> NoManifest]
    /\ active = 0 /\ content = None
    /\ writerQueue = <<>> /\ pc = "down" /\ draft = None
    /\ kind = [c \in Calls |-> "none"] /\ goal = [c \in Calls |-> 0]
    /\ reply = [c \in Calls |-> "none"]
    /\ published = [r \in Revisions |-> None]
    /\ crashes = 0 /\ faults = 0

-------------------------------------------------------------------------------
(* Recovery, from what can be read of the files. *)

Newest(R) == IF R = {} THEN 0 ELSE CHOOSE r \in R : \A q \in R : q <= r

Ceiling(ms) == Newest({ms[s].activeRevision : s \in Slots})

\* The revisions whose snapshot is the one a manifest vouches for.
Vouched(ms, ss) ==
    {r \in Revisions : ss[r] # None /\
        \E s \in Slots : ms[s] = [activeRevision |-> r, checksum |-> ss[r]]}

\* Without any: the readable snapshots no newer than the manifests allow.
Salvaged(ms, ss) ==
    {r \in Revisions : ss[r] # None /\ (Ceiling(ms) > 0 => r <= Ceiling(ms))}

\* The manifests tried from the oldest on.
RecoveredOldest(ms, ss) ==
    IF Vouched(ms, ss) # {}
    THEN CHOOSE r \in Vouched(ms, ss) : \A q \in Vouched(ms, ss) : r <= q
    ELSE Newest(Salvaged(ms, ss))

Recovered(ms, ss) ==
    IF Vouched(ms, ss) # {} THEN Newest(Vouched(ms, ss))
    ELSE Newest(Salvaged(ms, ss))

\* Unlinking is best effort.
Unlink(files) ==
    \E gone \in SUBSET {r \in files : snapshot[r] # None} :
        snapshot' = [r \in Revisions |-> IF r \in gone THEN None ELSE snapshot[r]]

\* ConfigRepository.init; cleanupOrphans deletes what is newer.
Adopt(r) ==
    /\ pc = "down"
    /\ active' = r
    /\ content' = IF r = 0 THEN None ELSE snapshot[r]
    /\ IF r = 0 THEN UNCHANGED snapshot ELSE Unlink({q \in Revisions : q > r})
    /\ pc' = "idle"
    /\ UNCHANGED <<manifest, writerQueue, draft, callVars, reply, published,
                   budgetVars>>

Start == Adopt(Recovered(manifest, snapshot))

Crash ==
    /\ pc # "down" /\ crashes < MaxCrashes
    /\ crashes' = crashes + 1
    /\ pc' = "down"
    /\ active' = 0 /\ content' = None /\ draft' = None /\ writerQueue' = <<>>
    /\ reply' = [c \in Calls |-> IF kind[c] # "none" /\ reply[c] = "none"
                                 THEN "lost" ELSE reply[c]]
    /\ UNCHANGED <<fileVars, callVars, published, faults>>

-------------------------------------------------------------------------------
(* Calls. *)

\* A caller enters the queue; the turn of a call comes when the ones before it
\* are over, whether they failed or not.
Enqueue(c) ==
    /\ pc = "idle"
    /\ kind[c] = "none" /\ \A b \in 1..(c - 1) : kind[b] # "none"
    /\ \E k \in {"commitInitial", "commit", "rollbackTo"} :
         kind' = [kind EXCEPT ![c] = k]
    /\ \E r \in Revisions :
         goal' = [goal EXCEPT ![c] = IF kind'[c] = "rollbackTo" THEN r ELSE 0]
    /\ writerQueue' = Append(writerQueue, c)
    /\ UNCHANGED <<fileVars, activeVars, pc, draft, reply, published, budgetVars>>

Turn(k) ==
    /\ pc = "idle" /\ writerQueue # <<>>
    /\ kind[Head(writerQueue)] = k

\* The call returns without having written.
Return(r) ==
    /\ reply' = [reply EXCEPT ![Head(writerQueue)] = r]
    /\ writerQueue' = Tail(writerQueue)
    /\ UNCHANGED <<fileVars, activeVars, pc, draft, callVars, published, budgetVars>>

\* persist begins: the new snapshot is built from the active one.
Persist(c) ==
    /\ draft' = c
    /\ pc' = "snapshot"
    /\ UNCHANGED <<fileVars, activeVars, writerQueue, callVars, reply, published,
                   budgetVars>>

\* The first content, unless there is one already.
CommitInitial ==
    /\ Turn("commitInitial")
    /\ \/ active # 0 /\ Return("ok")
       \/ active = 0 /\ Persist({Head(writerQueue)})

\* No look at whether there is an active snapshot.
CommitUnchecked ==
    /\ Turn("commit")
    /\ Persist(content \cup {Head(writerQueue)})

\* A change made to a copy of the active content; it may itself throw.
Commit ==
    /\ Turn("commit")
    /\ \/ Return("failed")
       \/ active # 0 /\ Persist(content \cup {Head(writerQueue)})

\* An older content as a new revision.
RollbackTo ==
    LET r == goal[Head(writerQueue)]
    IN  /\ Turn("rollbackTo")
        /\ \/ active # 0 /\ r = active /\ Return("ok")
           \/ (active = 0 \/ (r # active /\ snapshot[r] = None)) /\ Return("failed")
           \/ active # 0 /\ r # active /\ snapshot[r] # None /\ Persist(snapshot[r])

-------------------------------------------------------------------------------
(* persist, one file operation at a time. *)

target == active + 1
Slot(r) == r % 2

fillVars == <<activeVars, writerQueue, draft, callVars, reply, published, budgetVars>>

\* writeTextAtomic of the snapshot: the rename replaces the file at once; where
\* it fails, the file is truncated and written in place.
WriteSnapshot ==
    /\ pc \in {"snapshot", "fill snapshot"}
    /\ snapshot' = [snapshot EXCEPT ![target] = draft]
    /\ pc' = "manifest"
    /\ UNCHANGED <<manifest, fillVars>>

TruncateSnapshot ==
    /\ pc = "snapshot"
    /\ snapshot' = [snapshot EXCEPT ![target] = None]
    /\ pc' = "fill snapshot"
    /\ UNCHANGED <<manifest, fillVars>>

\* The snapshot read back well; the manifest is written the same way.
WriteManifest ==
    /\ pc \in {"manifest", "fill manifest"}
    /\ manifest' = [manifest EXCEPT ![Slot(target)] =
                        [activeRevision |-> target, checksum |-> draft]]
    /\ pc' = "confirm"
    /\ UNCHANGED <<snapshot, fillVars>>

TruncateManifest ==
    /\ pc = "manifest"
    /\ manifest' = [manifest EXCEPT ![Slot(target)] = NoManifest]
    /\ pc' = "fill manifest"
    /\ UNCHANGED <<snapshot, fillVars>>

\* Any operation throws, or a file does not read back: the call fails, and what
\* has been written stays.
GiveUp(answer) ==
    /\ pc \notin {"down", "idle"}
    /\ faults < MaxFaults
    /\ faults' = faults + 1
    /\ pc' = "idle" /\ draft' = None
    /\ reply' = [reply EXCEPT ![Head(writerQueue)] = answer]
    /\ writerQueue' = Tail(writerQueue)
    /\ UNCHANGED <<fileVars, activeVars, callVars, published, crashes>>

\* A failure that is not passed on to the caller.
FailSilently == GiveUp("none")

Fail == GiveUp("failed")

\* One snapshot fewer is kept.
GarbageEager(r) == {q \in Revisions : q > r \/ q + (KEEP_REVISIONS - 2) < r}

Garbage(r) == {q \in Revisions : q > r \/ q + (KEEP_REVISIONS - 1) < r}

\* The manifest read back well: the revision is active; gc (not after the first).
Activate(collect) ==
    /\ pc = "confirm"
    /\ active' = target /\ content' = draft
    /\ published' = [published EXCEPT ![target] = draft]
    /\ IF collect THEN Unlink(Garbage(target)) ELSE UNCHANGED snapshot
    /\ reply' = [reply EXCEPT ![Head(writerQueue)] = "ok"]
    /\ writerQueue' = Tail(writerQueue)
    /\ pc' = "idle" /\ draft' = None
    /\ UNCHANGED <<manifest, callVars, budgetVars>>

Finish == Activate(kind[Head(writerQueue)] # "commitInitial")

PersistStep ==
    \/ WriteSnapshot \/ TruncateSnapshot \/ WriteManifest \/ TruncateManifest
    \/ Fail \/ Finish

QueueStep == CommitInitial \/ Commit \/ RollbackTo

Next ==
    \/ Start \/ Crash
    \/ \E c \in Calls : Enqueue(c)
    \/ QueueStep \/ PersistStep

Spec == Init /\ [][Next]_vars

\* The event loop takes the next call, and file operations return.
FairSpec == Spec /\ WF_vars(QueueStep) /\ WF_vars(PersistStep)

-------------------------------------------------------------------------------
(* Properties. *)

\* Every variable stays in its type.
TypeOK ==
    /\ snapshot \in [Revisions -> Contents \cup {None}]
    /\ manifest \in [Slots -> Manifests \cup {NoManifest}]
    /\ active \in Revisions \cup {0} /\ content \in Contents \cup {None}
    /\ writerQueue \in Seq(Calls)
    /\ pc \in {"down", "idle", "snapshot", "fill snapshot", "manifest",
               "fill manifest", "confirm"}
    /\ draft \in Contents \cup {None}
    /\ kind \in [Calls -> {"none", "commitInitial", "commit", "rollbackTo"}]
    /\ goal \in [Calls -> Revisions \cup {0}]
    /\ reply \in [Calls -> {"none", "ok", "failed", "lost"}]
    /\ published \in [Revisions -> Contents \cup {None}]
    /\ crashes \in 0..MaxCrashes /\ faults \in 0..MaxFaults

\* "Immutable snapshot files, never rewritten in place": a revision that was
\* once acknowledged never names another content, whatever failed since.
PublishedNeverRewritten ==
    \A r \in Revisions : published[r] # None => snapshot[r] \in {published[r], None}

\* The active snapshot and the two before it can be read: there is something to
\* roll back to, and the extension finds the revision it is told to apply.
RollbackPointsKept ==
    pc # "down" => \A r \in Revisions :
        published[r] # None /\ r <= active /\ active < r + KEEP_REVISIONS =>
            snapshot[r] = published[r]

\* Every call is answered, unless the process dies.
EveryCallAnswered == \A c \in Calls : kind[c] # "none" ~> reply[c] # "none"

Found == Recovered(manifest, snapshot)
FoundContent == IF Found = 0 THEN None ELSE snapshot[Found]

Abstract == INSTANCE StoreContract
    WITH Nobody <- 0,
         value <- IF pc = "down" THEN FoundContent ELSE content,
         after <- FoundContent,
         kept <- {snapshot[r] : r \in Revisions} \ {None},
         writer <- IF pc \in {"down", "idle"} THEN 0 ELSE Head(writerQueue),
         attempt <- draft

\* The files implement the contract of one durable value.
ImplementsStore == Abstract!Store

-------------------------------------------------------------------------------
(* A claim of the code that it does not keep. *)

\* A recovery during which one file cannot be read, "and goes on to the others".
StartPartlyBlind ==
    \/ \E r \in Revisions :
          Adopt(Recovered(manifest, [snapshot EXCEPT ![r] = None]))
    \/ \E s \in Slots :
          Adopt(Recovered([manifest EXCEPT ![s] = NoManifest], snapshot))

PartlyBlindSpec == Init /\ [][Next \/ StartPartlyBlind]_vars

\* Snapshots newer than the active revision "can only be orphans of an interrupted
\* commit": the clean-up never deletes one that was acknowledged.
OnlyOrphansDeleted ==
    [][\A r \in Revisions : pc = "down" /\ published[r] # None =>
          snapshot'[r] = snapshot[r]]_vars
===============================================================================
