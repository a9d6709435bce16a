--------------------------- MODULE ConfigStore_proofs ---------------------------
(***************************************************************************)
(* Proofs about ConfigStore, for any number of calls, of crashes and of    *)
(* failing file operations.                                                *)
(*                                                                         *)
(* The heart of the argument is what the files can look like when revision *)
(* a is active: Near says that they hold nothing beyond the revision that  *)
(* is being written, a + 1, so that a restart finds a or a + 1; Stored     *)
(* says that once something is published, a is vouched for, so that a      *)
(* restart finds nothing older.  A crash forgets which revision was        *)
(* active, but not that there was one (Based).  The same invariant then    *)
(* shows that ConfigStore implements StoreContract, step by step.          *)
(***************************************************************************)
EXTENDS ConfigStore, WellFoundedInduction, TLAPS

Writing == {"snapshot", "fill snapshot", "manifest", "fill manifest", "confirm"}
ManifestType == [Slots -> Manifests \cup {NoManifest}]
SnapshotType == [Revisions -> Contents \cup {None}]

(***************************************************************************)
(* Lemmas on the operators.                                                *)
(***************************************************************************)

\* A set of naturals with an element has a smallest one.
LEMMA SmallestExists ==
    ASSUME NEW T \in SUBSET Nat, T # {}
    PROVE  \E m \in T : \A k \in T : m <= k
  <1>1. PICK m \in T : \A k \in T : ~ (<<k, m>> \in OpToRel(<, Nat))
    BY NatLessThanWellFounded, WFMin
  <1>2. \A k \in T : ~(k < m)
    BY <1>1 DEF OpToRel
  <1> QED
    BY <1>2

\* A bounded set of naturals with an element has a greatest one.
LEMMA GreatestExists ==
    ASSUME NEW n \in Nat, NEW R \in SUBSET (0..n), R # {}
    PROVE  \E m \in R : \A k \in R : k <= m
  <1> DEFINE T == {n - r : r \in R}
  <1>1. PICK t \in T : \A k \in T : t <= k
    <2>1. T \subseteq Nat
      <3>1. \A r \in R : n - r \in Nat
        OBVIOUS
      <3> QED
        BY <3>1
    <2>2. T # {}
      OBVIOUS
    <2> HIDE DEF T
    <2> QED
      BY <2>1, <2>2, SmallestExists
  <1>2. PICK m \in R : t = n - m
    BY <1>1
  <1>3. ASSUME NEW k \in R PROVE k <= m
    <2>1. n - k \in T
      OBVIOUS
    <2>2. t <= n - k
      BY <1>1, <2>1
    <2> QED
      BY <1>2, <2>2
  <1> QED
    BY <1>3

\* Revisions are naturals above 0.
LEMMA RevisionsAreNumbers ==
    /\ \A r \in Revisions \cup {0} : r \in Nat
    /\ 0 \notin Revisions
  BY StoreAssumption DEF Revisions

\* Newest is the greatest of the revisions, 0 when there is none.
LEMMA NewestIsGreatest ==
    ASSUME NEW R \in SUBSET (Revisions \cup {0})
    PROVE  /\ R = {} => Newest(R) = 0
           /\ R # {} => Newest(R) \in R /\ \A q \in R : q <= Newest(R)
           /\ \A r \in R : (\A q \in R : q <= r) => Newest(R) = r
           /\ Newest(R) \in Revisions \cup {0}
  <1>1. MaxCalls \in Nat /\ R \in SUBSET (0..MaxCalls)
    BY StoreAssumption DEF Revisions
  <1>2. \A q \in R : q \in Nat /\ q \in Revisions \cup {0}
    BY <1>1
  <1>3. CASE R = {}
    BY <1>3 DEF Newest
  <1>4. CASE R # {}
    <2>1. \E m \in R : \A q \in R : q <= m
      BY <1>1, <1>4, GreatestExists
    <2>2. Newest(R) \in R /\ \A q \in R : q <= Newest(R)
      BY <2>1, <1>4 DEF Newest
    <2>3. ASSUME NEW r \in R, \A q \in R : q <= r PROVE Newest(R) = r
      <3>1. Newest(R) <= r /\ r <= Newest(R)
        BY <2>2, <2>3
      <3>2. Newest(R) \in Nat /\ r \in Nat
        BY <2>2, <1>2
      <3> QED
        BY <3>1, <3>2
    <2> QED
      BY <2>2, <2>3, <1>2, <1>4
  <1> QED
    BY <1>3, <1>4

\* Manifests alternate between the two slots.
LEMMA SlotsAlternate ==
    ASSUME NEW a \in Nat
    PROVE  /\ Slot(a) \in Slots /\ Slot(a + 1) \in Slots
           /\ Slot(a) # Slot(a + 1) /\ Slot(a + 2) = Slot(a)
           /\ Slots = {Slot(a), Slot(a + 1)}
  BY DEF Slot, Slots

\* No content is None, and no manifest is NoManifest.
LEMMA NoneIsNoContent ==
    /\ None \notin Contents
    /\ \A m \in Manifests : m # NoManifest /\ m.activeRevision \in Revisions
                            /\ m.checksum \in Contents
    /\ NoManifest.activeRevision = 0
  <1>1. 0 \notin Calls /\ 0 \notin Revisions
    BY StoreAssumption DEF Calls, Revisions
  <1>2. None \notin Contents
    BY <1>1 DEF None, Contents
  <1> QED
    BY <1>1, <1>2 DEF Manifests, NoManifest

(***************************************************************************)
(* The inductive invariant.                                                *)
(***************************************************************************)

\* Calls are made, and served, in the order of their numbers.
Queue ==
    /\ \A c \in Calls : kind[c] # "none" => \A b \in 1..(c - 1) : kind[b] # "none"
    /\ \A i \in 1..Len(writerQueue) :
         kind[writerQueue[i]] # "none" /\ reply[writerQueue[i]] = "none"
    /\ \A c \in Calls : kind[c] = "rollbackTo" => goal[c] \in Revisions
    /\ \A c \in Calls : kind[c] = "none" => reply[c] = "none"
    /\ \A i, j \in 1..Len(writerQueue) : i < j => writerQueue[i] < writerQueue[j]
    /\ pc \in Writing => writerQueue # <<>>
    /\ pc = "down" => writerQueue = <<>>

\* There are no more revisions than calls that have been made, and the active
\* one is below the number of every call that waits: the next one has a number.
Numbered ==
    /\ \A r \in Revisions : snapshot[r] # None => kind[r] # "none"
    /\ active # 0 => kind[active] # "none"
    /\ \A i \in 1..Len(writerQueue) : active < writerQueue[i]

\* What is in memory is in the files, as far as the write under way has come.
Draft ==
    /\ pc = "down" => active = 0
    /\ active = 0 => content = None
    /\ active # 0 => content \in Contents /\ snapshot[active] = content
    /\ draft \in IF pc \in Writing THEN Contents ELSE {None}
    /\ pc \in {"manifest", "fill manifest", "confirm"} => snapshot[target] = draft
    /\ pc = "confirm" => manifest[Slot(target)] =
                           [activeRevision |-> target, checksum |-> draft]

\* With a active, the files hold a, what may come next, and no manifest between;
\* and no manifest vouches for an older one, unless one does for a.
Near(a, ms, ss) ==
    /\ a # 0 => ss[a] # None
    /\ \A r \in Revisions : ss[r] # None => r <= a + 1
    /\ \A s \in Slots : /\ ms[s].activeRevision <= a + 1
                        /\ ms[s] # NoManifest => s = Slot(ms[s].activeRevision)
    /\ \/ ms[Slot(a)].activeRevision = a
       \/ /\ ms[Slot(a)] = NoManifest
          /\ ms[Slot(a + 1)].activeRevision \in {0, a + 1}
    /\ a \in Vouched(ms, ss) \/ \A r \in Vouched(ms, ss) : a < r

\* Once anything is published, a is vouched for, and the rollback points are kept.
Stored(a, ms, ss, pub) ==
    \A r \in Revisions : pub[r] # None =>
        /\ r <= a /\ ss[a] # None
        /\ ms[Slot(a)] = [activeRevision |-> a, checksum |-> ss[a]]
        /\ a < r + KEEP_REVISIONS => ss[r] = pub[r]

Based(a) == Near(a, manifest, snapshot) /\ Stored(a, manifest, snapshot, published)

Durable ==
    IF pc = "down" THEN \E a \in Revisions \cup {0} : Based(a) ELSE Based(active)

Inv ==
    /\ TypeOK /\ Queue /\ Numbered /\ Draft /\ Durable
    /\ PublishedNeverRewritten

(***************************************************************************)
(* What a restart finds.                                                   *)
(***************************************************************************)

\* The ceiling is the greatest revision a manifest names.
LEMMA CeilingIsGreatest ==
    ASSUME NEW ms \in ManifestType
    PROVE  /\ Ceiling(ms) \in Revisions \cup {0}
           /\ \A s \in Slots : ms[s].activeRevision <= Ceiling(ms)
           /\ \E s \in Slots : ms[s].activeRevision = Ceiling(ms)
  <1> DEFINE R == {ms[s].activeRevision : s \in Slots}
  <1>1. \A s \in Slots : ms[s].activeRevision \in Revisions \cup {0}
    BY NoneIsNoContent DEF ManifestType
  <1>2. R \in SUBSET (Revisions \cup {0}) /\ R # {}
    BY <1>1 DEF Slots
  <1>3. Ceiling(ms) = Newest(R)
    BY DEF Ceiling
  <1>4. /\ Newest(R) \in R /\ \A q \in R : q <= Newest(R)
        /\ Newest(R) \in Revisions \cup {0}
    <2> HIDE DEF R
    <2> QED
      BY <1>2, NewestIsGreatest
  <1> QED
    BY <1>3, <1>4

\* A restart finds the active revision or the one that was being written, and
\* the files are around it as they have to be.
LEMMA RecoveredNear ==
    ASSUME NEW a \in Revisions \cup {0},
           NEW ms \in ManifestType, NEW ss \in SnapshotType, Near(a, ms, ss)
    PROVE  /\ Recovered(ms, ss) \in {a, a + 1}
           /\ Recovered(ms, ss) \in Revisions \cup {0}
           /\ Near(Recovered(ms, ss), ms, ss)
  <1> DEFINE R == Recovered(ms, ss)
             V == Vouched(ms, ss)
             S == Salvaged(ms, ss)
             c == Ceiling(ms)
  <1>1. /\ \A r \in Revisions : r \in Nat
        /\ a \in Nat /\ Slots = {Slot(a), Slot(a + 1)}
        /\ Slot(a) \in Slots /\ Slot(a + 1) \in Slots /\ Slot(a + 2) = Slot(a)
    BY SlotsAlternate DEF Revisions
  <1>2. /\ V \in SUBSET (Revisions \cup {0})
        /\ \A r \in V : /\ r \in Revisions /\ ss[r] # None /\ r <= a + 1
                        /\ ms[Slot(r)].activeRevision = r
    <2>1. ASSUME NEW r \in V
          PROVE  /\ r \in Revisions /\ ss[r] # None /\ r <= a + 1
                 /\ ms[Slot(r)].activeRevision = r
      <3>1. r \in Revisions /\ ss[r] # None /\ r # 0
        BY StoreAssumption DEF Vouched, Revisions
      <3>2. PICK s \in Slots : ms[s] = [activeRevision |-> r, checksum |-> ss[r]]
        BY DEF Vouched
      <3>3. ms[s].activeRevision = r /\ ms[s] # NoManifest
        BY <3>1, <3>2, NoneIsNoContent
      <3> QED
        BY <3>1, <3>3 DEF Near
    <2> QED
      BY <2>1
  <1>3. /\ S \in SUBSET (Revisions \cup {0})
        /\ \A r \in S : /\ r \in Revisions /\ ss[r] # None /\ r <= a + 1
                        /\ c > 0 => r <= c
    BY DEF Salvaged, Near
  <1>4. \/ V # {} /\ R \in V /\ \A r \in V : r <= R
        \/ V = {} /\ S # {} /\ R \in S /\ \A r \in S : r <= R
        \/ V = {} /\ S = {} /\ R = 0
    <2>1. CASE V # {}
      <3>1. R = Newest(V)
        BY <2>1 DEF Recovered
      <3> HIDE DEF R, V
      <3> QED
        BY <2>1, <3>1, <1>2, NewestIsGreatest
    <2>2. CASE V = {}
      <3>1. R = Newest(S)
        BY <2>2 DEF Recovered
      <3> HIDE DEF R, V, S
      <3> QED
        BY <2>2, <3>1, <1>3, NewestIsGreatest
    <2> QED
      BY <2>1, <2>2
  <1>5. a \in V \/ \A r \in V : a < r
    BY DEF Near
  <1>6. /\ c \in Nat /\ c <= a + 1
        /\ \A s \in Slots : ms[s].activeRevision <= c
        /\ \E s \in Slots : ms[s].activeRevision = c
    BY CeilingIsGreatest DEF Near, Revisions
  <1>7. a # 0 => a \in S
    <2>1. a # 0 => a \in Revisions /\ ss[a] # None
      BY DEF Near
    <2>2. c > 0 => a <= c
      <3>1. CASE ms[Slot(a)].activeRevision = a
        BY <3>1, <1>1, <1>6
      <3>2. CASE /\ ms[Slot(a)].activeRevision = 0
                 /\ ms[Slot(a + 1)].activeRevision \in {0, a + 1}
        BY <3>2, <1>1, <1>6
      <3> HIDE DEF c
      <3> QED
        BY <3>1, <3>2, NoneIsNoContent DEF Near
    <2> QED
      BY <2>1, <2>2 DEF Salvaged
  <1>8. R \in {a, a + 1} /\ R \in Revisions \cup {0}
    <2> HIDE DEF R, V, S, c
    <2>1. CASE R \in V /\ \A r \in V : r <= R
      <3>1. R \in Nat /\ R \in Revisions /\ R <= a + 1
        BY <2>1, <1>1, <1>2
      <3>2. a <= R
        BY <2>1, <3>1, <1>1, <1>5
      <3> QED
        BY <3>1, <3>2, <1>1
    <2>2. CASE R \in S /\ \A r \in S : r <= R
      BY <2>2, <1>1, <1>3, <1>7
    <2>3. CASE S = {} /\ R = 0
      BY <2>3, <1>7
    <2> QED
      BY <1>4, <2>1, <2>2, <2>3
  <1>9. CASE R = a
    BY <1>8, <1>9
  <1>10. CASE R = a + 1
    <2>1. R \in Revisions /\ ss[R] # None
      BY <1>1, <1>2, <1>3, <1>4, <1>10
    <2>2. /\ \A r \in Revisions : ss[r] # None => r <= R + 1
          /\ \A s \in Slots : /\ ms[s].activeRevision <= R + 1
                              /\ ms[s] # NoManifest => s = Slot(ms[s].activeRevision)
      <3>1. \A s \in Slots : ms[s].activeRevision \in Nat
        <4> TAKE s \in Slots
        <4>1. ms[s] \in Manifests \cup {NoManifest}
          BY DEF ManifestType
        <4>2. ms[s].activeRevision \in Revisions \cup {0}
          BY <4>1, NoneIsNoContent
        <4> QED
          BY <4>2 DEF Revisions
      <3> QED
        BY <1>1, <1>10, <3>1 DEF Near
    <2>3. R \in V \/ \A r \in V : R < r
      BY <1>4
    <2>4. \/ ms[Slot(R)].activeRevision = R
          \/ /\ ms[Slot(R)] = NoManifest
             /\ ms[Slot(R + 1)].activeRevision \in {0, R + 1}
      <3>1. CASE R \in V
        BY <3>1, <1>2
      <3>2. CASE R \notin V
        <4>1. c > 0 => c = R
          BY <3>2, <1>1, <1>3, <1>4, <1>6, <1>10
        <4>2. CASE c = R
          <5>1. PICK s \in Slots : ms[s].activeRevision = R
            BY <4>2, <1>6
          <5>2. ms[s] # NoManifest
            BY <5>1, <1>1, <1>10, NoneIsNoContent
          <5> QED
            BY <5>1, <5>2 DEF Near
        <4>3. CASE c = 0
          <5>1. \A s \in Slots : ms[s].activeRevision = 0 /\ ms[s] = NoManifest
            <6> TAKE s \in Slots
            <6>1. ms[s] \in Manifests \cup {NoManifest}
              BY DEF ManifestType
            <6>2. ms[s].activeRevision <= 0
              BY <1>6, <4>3
            <6>3. ms[s].activeRevision \notin Revisions
              BY <6>2 DEF Revisions
            <6> QED
              BY <6>1, <6>3, NoneIsNoContent
          <5> QED
            BY <5>1, <1>1, <1>10, SlotsAlternate
        <4> QED
          BY <4>1, <4>2, <4>3, <1>6
      <3> QED
        BY <3>1, <3>2
    <2> QED
      BY <1>8, <1>10, <2>1, <2>2, <2>3, <2>4 DEF Near
  <1> QED
    BY <1>8, <1>9, <1>10

\* A restart that finds files in which a is stored finds a revision that is.
LEMMA RecoveredStored ==
    ASSUME NEW a \in Revisions \cup {0},
           NEW ms \in ManifestType, NEW ss \in SnapshotType, NEW pub,
           Near(a, ms, ss), Stored(a, ms, ss, pub)
    PROVE  Stored(Recovered(ms, ss), ms, ss, pub)
  <1> SUFFICES ASSUME NEW r \in Revisions, pub[r] # None
               PROVE  LET R == Recovered(ms, ss)
                      IN  /\ r <= R /\ ss[R] # None
                          /\ ms[Slot(R)] = [activeRevision |-> R, checksum |-> ss[R]]
                          /\ R < r + KEEP_REVISIONS => ss[r] = pub[r]
    BY DEF Stored
  <1> DEFINE R == Recovered(ms, ss)
             V == Vouched(ms, ss)
  <1>1. /\ r \in Nat /\ a \in Nat /\ r # 0
        /\ r <= a /\ ss[a] # None
        /\ ms[Slot(a)] = [activeRevision |-> a, checksum |-> ss[a]]
        /\ a < r + KEEP_REVISIONS => ss[r] = pub[r]
    BY DEF Stored, Revisions
  <1>2. a \in V
    <2>1. a \in Revisions
      BY <1>1
    <2> QED
      BY <1>1, <2>1, SlotsAlternate DEF Vouched
  <1>3. V \in SUBSET (Revisions \cup {0})
    BY DEF Vouched
  <1>4. R \in V /\ a <= R
    <2>1. R = Newest(V)
      BY <1>2 DEF Recovered
    <2> HIDE DEF R, V
    <2> QED
      BY <2>1, <1>2, <1>3, NewestIsGreatest
  <1>5. R \in Revisions /\ R \in Nat /\ ss[R] # None
    BY <1>4 DEF Vouched, Revisions
  <1>6. PICK s \in Slots : ms[s] = [activeRevision |-> R, checksum |-> ss[R]]
    BY <1>4 DEF Vouched
  <1>7. s = Slot(R)
    <2>1. ms[s] \in Manifests /\ ms[s].activeRevision = R
      BY <1>5, <1>6, NoneIsNoContent DEF ManifestType, SnapshotType, NoManifest, Manifests
    <2> QED
      BY <2>1, NoneIsNoContent DEF Near
  <1>8. r <= R /\ (R < r + KEEP_REVISIONS => a < r + KEEP_REVISIONS)
    BY <1>1, <1>4, <1>5 DEF KEEP_REVISIONS
  <1> QED
    BY <1>1, <1>5, <1>6, <1>7, <1>8

(***************************************************************************)
(* The steps.                                                              *)
(***************************************************************************)

\* The head of the queue, and what follows it.
LEMMA HeadAndTail ==
    ASSUME NEW q \in Seq(Calls), q # <<>>
    PROVE  /\ Len(q) \in Nat \ {0} /\ Head(q) = q[1] /\ Head(q) \in Calls
           /\ Tail(q) \in Seq(Calls) /\ Len(Tail(q)) = Len(q) - 1
           /\ \A i \in 1..Len(Tail(q)) : Tail(q)[i] = q[i + 1]
  OBVIOUS

\* A call that enters the queue is its last.
LEMMA AppendIsLast ==
    ASSUME NEW q \in Seq(Calls), NEW c \in Calls
    PROVE  /\ Len(q) \in Nat /\ Len(Append(q, c)) = Len(q) + 1
           /\ Append(q, c)[Len(q) + 1] = c
           /\ \A i \in 1..Len(q) : Append(q, c)[i] = q[i] /\ q[i] \in Calls
  OBVIOUS

\* Unlinking removes some of the files it is given and touches no other.
LEMMA UnlinkRemoves ==
    ASSUME TypeOK, NEW files, Unlink(files)
    PROVE  /\ snapshot' \in SnapshotType
           /\ \A r \in Revisions : /\ snapshot'[r] \in {snapshot[r], None}
                                   /\ r \notin files => snapshot'[r] = snapshot[r]
  BY DEF TypeOK, SnapshotType, Unlink

\* The call whose turn it is has a number above the active revision, so that the
\* revision it writes exists.
LEMMA TargetExists ==
    ASSUME TypeOK, Queue, Numbered, writerQueue # <<>>
    PROVE  /\ target \in Revisions /\ active \in Nat /\ target = active + 1
           /\ active # target
           /\ target <= Head(writerQueue) /\ Head(writerQueue) \in Calls
           /\ kind[target] # "none"
  <1>1. /\ Head(writerQueue) = writerQueue[1] /\ Head(writerQueue) \in Calls
        /\ 1 \in 1..Len(writerQueue)
    <2>1. writerQueue \in Seq(Calls)
      BY DEF TypeOK
    <2>2. /\ Head(writerQueue) = writerQueue[1] /\ Head(writerQueue) \in Calls
          /\ Len(writerQueue) \in Nat \ {0}
      BY <2>1, HeadAndTail
    <2> QED
      BY <2>2
  <1>2. active \in Nat /\ active < Head(writerQueue) /\ kind[Head(writerQueue)] # "none"
    <2>1. active \in Nat
      BY RevisionsAreNumbers DEF TypeOK
    <2>2. active < writerQueue[1] /\ kind[writerQueue[1]] # "none"
      BY <1>1 DEF Queue, Numbered
    <2> QED
      BY <1>1, <2>1, <2>2
  <1>3. /\ target = active + 1 /\ target <= Head(writerQueue)
        /\ target \in 1..Head(writerQueue)
    BY <1>1, <1>2 DEF target, Calls
  <1>4. target \in Revisions
    BY <1>1, <1>3, StoreAssumption DEF Calls, Revisions
  <1>5. kind[target] # "none"
    <2>1. CASE target = Head(writerQueue)
      BY <2>1, <1>2
    <2>2. CASE target # Head(writerQueue)
      <3>1. target \in 1..(Head(writerQueue) - 1)
        BY <2>2, <1>1, <1>3 DEF Calls
      <3> QED
        BY <3>1, <1>1, <1>2 DEF Queue
    <2> QED
      BY <2>1, <2>2
  <1> QED
    BY <1>1, <1>2, <1>3, <1>4, <1>5

\* The turn of a call that writes nothing, and of one that begins to write.
Declined == pc = "idle" /\ writerQueue # <<>> /\ \E r \in {"ok", "failed"} : Return(r)
Begun == pc = "idle" /\ writerQueue # <<>> /\ \E d \in Contents : Persist(d)

\* commitInitial, commit and rollbackTo end at once or begin to write a content.
LEMMA QueueStepCases ==
    ASSUME TypeOK, Queue, Draft, QueueStep
    PROVE  Declined \/ Begun
  <1>1. CASE CommitInitial
    <2>1. writerQueue # <<>> /\ {Head(writerQueue)} \in Contents
      BY <1>1, HeadAndTail DEF CommitInitial, Turn, TypeOK, Contents
    <2> QED
      BY <1>1, <2>1 DEF CommitInitial, Turn, Declined, Begun
  <1>2. CASE Commit
    <2>1. /\ writerQueue # <<>>
          /\ active # 0 => content \cup {Head(writerQueue)} \in Contents
      BY <1>2, HeadAndTail DEF Commit, Turn, TypeOK, Contents, Draft
    <2> QED
      BY <1>2, <2>1 DEF Commit, Turn, Declined, Begun
  <1>3. CASE RollbackTo
    <2>1. /\ writerQueue # <<>> /\ pc = "idle"
          /\ Head(writerQueue) \in Calls
          /\ kind[Head(writerQueue)] = "rollbackTo"
      BY <1>3, HeadAndTail DEF RollbackTo, Turn, TypeOK
    <2>2. goal[Head(writerQueue)] \in Revisions
      BY <2>1 DEF Queue
    <2> QED
      BY <1>3, <2>1, <2>2 DEF RollbackTo, TypeOK, Declined, Begun
  <1> QED
    BY <1>1, <1>2, <1>3 DEF QueueStep

\* What a start makes of the files.
LEMMA StartFacts ==
    ASSUME Inv, Start
    PROVE  LET R == Recovered(manifest, snapshot)
           IN  /\ R \in Revisions \cup {0}
               /\ Near(R, manifest, snapshot)
               /\ Stored(R, manifest, snapshot, published)
               /\ active' = R
               /\ content' = IF R = 0 THEN None ELSE snapshot[R]
               /\ R # 0 => snapshot[R] \in Contents
               /\ snapshot' \in SnapshotType
               /\ \A r \in Revisions : /\ snapshot'[r] \in {snapshot[r], None}
                                       /\ r <= R => snapshot'[r] = snapshot[r]
  <1> DEFINE R == Recovered(manifest, snapshot)
  <1>1. manifest \in ManifestType /\ snapshot \in SnapshotType
    BY DEF Inv, TypeOK, ManifestType, SnapshotType
  <1>2. PICK a \in Revisions \cup {0} : Based(a)
    BY DEF Inv, Durable, Start, Adopt
  <1>3. R \in Revisions \cup {0} /\ Near(R, manifest, snapshot)
    BY <1>1, <1>2, RecoveredNear DEF Based
  <1>4. Stored(R, manifest, snapshot, published)
    BY <1>1, <1>2, RecoveredStored DEF Based
  <1>5. active' = R /\ content' = IF R = 0 THEN None ELSE snapshot[R]
    BY DEF Start, Adopt
  <1>6. R # 0 => snapshot[R] \in Contents
    BY <1>1, <1>3 DEF Near, SnapshotType
  <1>7. /\ snapshot' \in SnapshotType
        /\ \A r \in Revisions : /\ snapshot'[r] \in {snapshot[r], None}
                                /\ r <= R => snapshot'[r] = snapshot[r]
    <2>1. CASE R = 0
      BY <2>1, <1>1 DEF Start, Adopt
    <2>2. CASE R # 0
      <3> DEFINE newer == {q \in Revisions : q > R}
      <3>1. Unlink(newer)
        BY <2>2 DEF Start, Adopt
      <3>2. \A r \in Revisions : r <= R => r \notin newer
        BY <1>3, RevisionsAreNumbers
      <3> HIDE DEF newer, R
      <3> QED
        BY <3>1, <3>2, UnlinkRemoves DEF Inv
    <2> QED
      BY <2>1, <2>2
  <1> HIDE DEF R
  <1> QED
    BY <1>3, <1>4, <1>5, <1>6, <1>7 DEF R

\* What the end of a write makes of the files: the active revision moves by one,
\* and what can be rolled back to is left alone.
LEMMA FinishFacts ==
    ASSUME Inv, Finish
    PROVE  /\ pc = "confirm" /\ writerQueue # <<>>
           /\ target \in Revisions /\ active \in Nat /\ target = active + 1
           /\ draft \in Contents /\ snapshot[target] = draft
           /\ active' = target /\ content' = draft
           /\ published' = [published EXCEPT ![target] = draft]
           /\ writerQueue' = Tail(writerQueue)
           /\ reply' = [reply EXCEPT ![Head(writerQueue)] = "ok"]
           /\ pc' = "idle" /\ draft' = None
           /\ UNCHANGED <<manifest, callVars, budgetVars>>
           /\ snapshot' \in SnapshotType /\ snapshot'[target] = draft
           /\ \A r \in Revisions :
                /\ snapshot'[r] \in {snapshot[r], None}
                /\ r <= target /\ target < r + KEEP_REVISIONS =>
                     snapshot'[r] = snapshot[r]
  <1>1. /\ pc = "confirm" /\ active' = target /\ content' = draft
        /\ published' = [published EXCEPT ![target] = draft]
        /\ writerQueue' = Tail(writerQueue)
        /\ reply' = [reply EXCEPT ![Head(writerQueue)] = "ok"]
        /\ pc' = "idle" /\ draft' = None
        /\ UNCHANGED <<manifest, callVars, budgetVars>>
        /\ Unlink(Garbage(target)) \/ UNCHANGED snapshot
    BY DEF Finish, Activate
  <1>2. writerQueue # <<>> /\ draft \in Contents /\ snapshot[target] = draft
    BY <1>1 DEF Inv, Queue, Draft, Writing
  <1>3. target \in Revisions /\ active \in Nat /\ target = active + 1
    BY <1>2, TargetExists DEF Inv
  <1>4. \A r \in Revisions : r <= target /\ target < r + KEEP_REVISIONS =>
          r \notin Garbage(target)
    <2> TAKE r \in Revisions
    <2>1. r \in Nat /\ target \in Nat
      BY <1>3, RevisionsAreNumbers
    <2> HIDE DEF target
    <2> QED
      BY <2>1 DEF Garbage, KEEP_REVISIONS
  <1>5. /\ snapshot' \in SnapshotType
        /\ \A r \in Revisions :
             /\ snapshot'[r] \in {snapshot[r], None}
             /\ r <= target /\ target < r + KEEP_REVISIONS =>
                  snapshot'[r] = snapshot[r]
    <2>1. CASE Unlink(Garbage(target))
      BY <2>1, <1>4, UnlinkRemoves DEF Inv
    <2>2. CASE UNCHANGED snapshot
      BY <2>2 DEF Inv, TypeOK, SnapshotType
    <2> QED
      BY <1>1, <2>1, <2>2
  <1>6. snapshot'[target] = draft
    <2>1. target \in Nat /\ target < target + KEEP_REVISIONS
      BY <1>3, RevisionsAreNumbers DEF KEEP_REVISIONS
    <2> QED
      BY <2>1, <1>2, <1>3, <1>5
  <1> QED
    BY <1>1, <1>2, <1>3, <1>5, <1>6

\* Every step of a call, of persist, of init and a crash keep the types.
LEMMA TypeStep == Inv /\ [Next]_vars => TypeOK'
  <1> SUFFICES ASSUME Inv, [Next]_vars PROVE TypeOK'
    OBVIOUS
  <1> USE StoreAssumption DEF Inv, vars, fileVars, activeVars, callVars, budgetVars, fillVars
  <1>1. CASE Start
    BY <1>1, StartFacts DEF Start, Adopt, TypeOK, SnapshotType
  <1>2. CASE Crash
    <2>1. crashes' \in 0..MaxCrashes
      <3>1. crashes \in 0..MaxCrashes /\ crashes < MaxCrashes /\ crashes' = crashes + 1
        BY <1>2 DEF Crash, TypeOK
      <3> QED
        BY <3>1
    <2>2. reply' \in [Calls -> {"none", "ok", "failed", "lost"}]
      BY <1>2 DEF Crash, TypeOK
    <2>3. /\ pc' = "down" /\ active' = 0 /\ content' = None /\ draft' = None
          /\ writerQueue' \in Seq(Calls)
          /\ UNCHANGED <<fileVars, callVars, published, faults>>
      BY <1>2 DEF Crash
    <2> QED
      BY <2>1, <2>2, <2>3 DEF TypeOK
  <1>3. ASSUME NEW c \in Calls, Enqueue(c) PROVE TypeOK'
    BY <1>3 DEF Enqueue, TypeOK
  <1>4. CASE Declined
    BY <1>4, HeadAndTail DEF Declined, Return, TypeOK
  <1>5. CASE Begun
    BY <1>5 DEF Begun, Persist, TypeOK
  <1>6. CASE WriteSnapshot
    BY <1>6 DEF WriteSnapshot, TypeOK
  <1>7. CASE TruncateSnapshot
    BY <1>7 DEF TruncateSnapshot, TypeOK
  <1>8. CASE WriteManifest
    <2>1. /\ target \in Revisions /\ draft \in Contents /\ Slot(target) \in Slots
      BY <1>8, TargetExists, RevisionsAreNumbers, SlotsAlternate
      DEF WriteManifest, Queue, Draft, Writing
    <2>2. [activeRevision |-> target, checksum |-> draft] \in Manifests
      BY <2>1 DEF Manifests
    <2> QED
      BY <1>8, <2>2 DEF WriteManifest, TypeOK
  <1>9. CASE TruncateManifest
    BY <1>9 DEF TruncateManifest, TypeOK
  <1>10. CASE Fail
    <2>1. writerQueue' \in Seq(Calls) /\ faults' \in 0..MaxFaults
      <3>1. writerQueue \in Seq(Calls) /\ writerQueue # <<>>
        BY <1>10 DEF Fail, GiveUp, TypeOK, Queue, Writing
      <3>2. /\ writerQueue' = Tail(writerQueue)
            /\ faults \in 0..MaxFaults /\ faults < MaxFaults /\ faults' = faults + 1
        BY <1>10 DEF Fail, GiveUp, TypeOK
      <3>3. Tail(writerQueue) \in Seq(Calls)
        BY <3>1, HeadAndTail
      <3> QED
        BY <3>2, <3>3
    <2> QED
      BY <1>10, <2>1 DEF Fail, GiveUp, TypeOK
  <1>11. CASE Finish
    <2>1. writerQueue' \in Seq(Calls)
      <3>1. writerQueue \in Seq(Calls)
        BY DEF TypeOK
      <3>2. writerQueue # <<>> /\ writerQueue' = Tail(writerQueue)
        BY <1>11, FinishFacts
      <3> QED
        BY <3>1, <3>2, HeadAndTail
    <2>2. published' \in [Revisions -> Contents \cup {None}]
      BY <1>11, FinishFacts DEF TypeOK
    <2>3. reply' \in [Calls -> {"none", "ok", "failed", "lost"}]
      BY <1>11, FinishFacts DEF TypeOK
    <2>4. /\ active' \in Revisions /\ content' \in Contents
          /\ pc' = "idle" /\ draft' = None
          /\ snapshot' \in SnapshotType
          /\ UNCHANGED <<manifest, callVars, budgetVars>>
      BY <1>11, FinishFacts
    <2> QED
      BY <2>1, <2>2, <2>3, <2>4 DEF TypeOK, SnapshotType
  <1>12. CASE UNCHANGED vars
    BY <1>12 DEF TypeOK
  <1> QED
    BY <1>1, <1>2, <1>3, <1>4, <1>5, <1>6, <1>7, <1>8, <1>9,
       <1>10, <1>11, <1>12, QueueStepCases
    DEF Next, PersistStep

\* When the call at its head returns, the queue keeps its order.
LEMMA DequeueKeeps ==
    ASSUME TypeOK, Queue, writerQueue # <<>>, writerQueue' = Tail(writerQueue),
           reply' = [reply EXCEPT ![Head(writerQueue)] = reply'[Head(writerQueue)]],
           pc' = "idle", UNCHANGED callVars
    PROVE  Queue'
  <1>1. /\ Len(writerQueue) \in Nat \ {0} /\ Head(writerQueue) = writerQueue[1]
        /\ Head(writerQueue) \in Calls
        /\ Len(Tail(writerQueue)) = Len(writerQueue) - 1
        /\ \A i \in 1..Len(Tail(writerQueue)) :
             /\ i + 1 \in 1..Len(writerQueue) /\ Tail(writerQueue)[i] = writerQueue[i + 1]
             /\ writerQueue[i + 1] \in Calls
    <2>1. writerQueue \in Seq(Calls)
      BY DEF TypeOK
    <2>2. /\ Len(writerQueue) \in Nat \ {0} /\ Head(writerQueue) = writerQueue[1]
          /\ Head(writerQueue) \in Calls
          /\ Len(Tail(writerQueue)) = Len(writerQueue) - 1
          /\ \A i \in 1..Len(Tail(writerQueue)) :
               Tail(writerQueue)[i] = writerQueue[i + 1]
      BY <2>1, HeadAndTail
    <2>3. \A i \in 1..Len(Tail(writerQueue)) :
             i + 1 \in 1..Len(writerQueue) /\ writerQueue[i + 1] \in Calls
      BY <2>1, <2>2
    <2> QED
      BY <2>2, <2>3
  <1>2. \A i \in 1..Len(Tail(writerQueue)) : writerQueue[1] < writerQueue[i + 1]
    BY <1>1 DEF Queue
  <1>3. \A i \in 1..Len(Tail(writerQueue)) : writerQueue[i + 1] # writerQueue[1]
    BY <1>1, <1>2 DEF Calls
  <1>4. \A i \in 1..Len(writerQueue') :
           kind'[writerQueue'[i]] # "none" /\ reply'[writerQueue'[i]] = "none"
    <2> TAKE i \in 1..Len(writerQueue')
    <2>1. /\ i + 1 \in 1..Len(writerQueue) /\ writerQueue'[i] = writerQueue[i + 1]
          /\ writerQueue[i + 1] \in Calls /\ writerQueue[i + 1] # Head(writerQueue)
      BY <1>1, <1>3
    <2>2. reply'[writerQueue[i + 1]] = reply[writerQueue[i + 1]]
      BY <2>1 DEF TypeOK
    <2> QED
      BY <2>1, <2>2 DEF Queue, callVars
  <1>5. \A i, j \in 1..Len(writerQueue') : i < j => writerQueue'[i] < writerQueue'[j]
    BY <1>1 DEF Queue
  <1> QED
    <2>1. \A c \in Calls : kind'[c] = "none" => reply'[c] = "none"
      <3>1. kind[Head(writerQueue)] # "none"
        BY <1>1 DEF Queue
      <3> QED
        BY <1>1, <3>1 DEF Queue, callVars, TypeOK
    <2> QED
      BY <1>4, <1>5, <2>1 DEF Queue, callVars, Writing

\* Every step keeps the calls in the order of their numbers.
LEMMA QueueStepKeeps == Inv /\ TypeOK' /\ [Next]_vars => Queue'
  <1> SUFFICES ASSUME Inv, TypeOK', [Next]_vars PROVE Queue'
    OBVIOUS
  <1> USE StoreAssumption DEF Inv, vars, fileVars, activeVars, callVars, budgetVars, fillVars
  <1>1. CASE Start
    BY <1>1 DEF Start, Adopt, TypeOK, Queue, Writing
  <1>2. CASE Crash
    <2>1. /\ writerQueue' = <<>> /\ Len(writerQueue') = 0 /\ pc' = "down"
          /\ UNCHANGED callVars
          /\ \A c \in Calls : kind[c] = "none" => reply'[c] = "none"
      BY <1>2 DEF Crash, Queue
    <2>2. 1..Len(writerQueue') = {}
      BY <2>1
    <2> QED
      BY <2>1, <2>2 DEF Queue, Writing
  <1>3. ASSUME NEW c \in Calls, Enqueue(c) PROVE Queue'
    <2>1. /\ writerQueue' = Append(writerQueue, c) /\ kind[c] = "none"
          /\ kind'[c] # "none" /\ pc = "idle" /\ pc' = "idle" /\ reply' = reply
          /\ \A b \in Calls \ {c} : kind'[b] = kind[b] /\ goal'[b] = goal[b]
          /\ \A b \in 1..(c - 1) : kind[b] # "none"
          /\ kind'[c] = "rollbackTo" => goal'[c] \in Revisions
      BY <1>3 DEF Enqueue, TypeOK
    <2>2. /\ Len(writerQueue) \in Nat /\ Len(writerQueue') = Len(writerQueue) + 1
          /\ writerQueue'[Len(writerQueue) + 1] = c
          /\ \A i \in 1..Len(writerQueue) :
               writerQueue'[i] = writerQueue[i] /\ writerQueue[i] \in Calls
      BY <2>1, AppendIsLast DEF TypeOK
    <2>3. \A i \in 1..Len(writerQueue) : writerQueue[i] # c /\ writerQueue[i] < c
      <3> TAKE i \in 1..Len(writerQueue)
      <3>1. kind[writerQueue[i]] # "none" /\ writerQueue[i] \in Calls
        BY <2>2 DEF Queue
      <3>2. ~(c \in 1..(writerQueue[i] - 1))
        BY <3>1, <2>1 DEF Queue
      <3> QED
        BY <3>1, <3>2, <2>1 DEF Calls
    <2>4. reply[c] = "none"
      BY <2>1 DEF Queue
    <2>5. \A b \in Calls : kind'[b] # "none" => \A a \in 1..(b - 1) : kind'[a] # "none"
      BY <2>1 DEF Queue, Calls
    <2>6. \A i \in 1..Len(writerQueue') :
             kind'[writerQueue'[i]] # "none" /\ reply'[writerQueue'[i]] = "none"
      <3> TAKE i \in 1..Len(writerQueue')
      <3>1. i \in 1..Len(writerQueue) \/ (i = Len(writerQueue) + 1 /\ writerQueue'[i] = c)
        BY <2>2
      <3>2. CASE i \in 1..Len(writerQueue)
        BY <2>1, <2>2, <2>3, <3>2 DEF Queue
      <3> QED
        BY <2>1, <2>4, <3>1, <3>2
    <2>7. /\ \A b \in Calls : kind'[b] = "rollbackTo" => goal'[b] \in Revisions
          /\ \A b \in Calls : kind'[b] = "none" => reply'[b] = "none"
      BY <2>1 DEF Queue
    <2>8. \A i, j \in 1..Len(writerQueue') : i < j => writerQueue'[i] < writerQueue'[j]
      BY <2>2, <2>3 DEF Queue
    <2> QED
      BY <2>1, <2>5, <2>6, <2>7, <2>8 DEF Queue, Writing
  <1>4. CASE Declined
    <2>1. /\ writerQueue # <<>> /\ writerQueue' = Tail(writerQueue)
          /\ reply' = [reply EXCEPT ![Head(writerQueue)] = reply'[Head(writerQueue)]]
          /\ pc' = "idle" /\ UNCHANGED callVars
      BY <1>4 DEF Declined, Return, Queue, Writing, TypeOK
    <2> QED
      BY <2>1, DequeueKeeps
  <1>5. CASE Begun
    BY <1>5 DEF Begun, Persist, TypeOK, Queue, Writing
  <1>6. CASE WriteSnapshot
    BY <1>6 DEF WriteSnapshot, TypeOK, Queue, Writing
  <1>7. CASE TruncateSnapshot
    BY <1>7 DEF TruncateSnapshot, TypeOK, Queue, Writing
  <1>8. CASE WriteManifest
    BY <1>8 DEF WriteManifest, TypeOK, Queue, Writing
  <1>9. CASE TruncateManifest
    BY <1>9 DEF TruncateManifest, TypeOK, Queue, Writing
  <1>10. CASE Fail
    <2>1. /\ writerQueue # <<>> /\ writerQueue' = Tail(writerQueue)
          /\ reply' = [reply EXCEPT ![Head(writerQueue)] = "failed"]
          /\ pc' = "idle" /\ UNCHANGED callVars
      BY <1>10 DEF Fail, GiveUp, Queue, Writing, TypeOK
    <2>2. reply'[Head(writerQueue)] = "failed"
      BY <2>1, HeadAndTail DEF TypeOK
    <2> QED
      BY <2>1, <2>2, DequeueKeeps
  <1>11. CASE Finish
    <2>1. /\ writerQueue # <<>> /\ writerQueue' = Tail(writerQueue)
          /\ reply' = [reply EXCEPT ![Head(writerQueue)] = reply'[Head(writerQueue)]]
          /\ pc' = "idle" /\ UNCHANGED callVars
      <3>1. /\ writerQueue # <<>> /\ writerQueue' = Tail(writerQueue)
            /\ reply' = [reply EXCEPT ![Head(writerQueue)] = "ok"]
            /\ pc' = "idle" /\ UNCHANGED callVars
        BY <1>11, FinishFacts
      <3>2. reply \in [Calls -> {"none", "ok", "failed", "lost"}] /\ Head(writerQueue) \in Calls
        BY <3>1, HeadAndTail DEF TypeOK
      <3> QED
        BY <3>1, <3>2
    <2> QED
      BY <2>1, DequeueKeeps
  <1>12. CASE UNCHANGED vars
    BY <1>12 DEF Queue, Writing
  <1> QED
    BY <1>1, <1>2, <1>3, <1>4, <1>5, <1>6, <1>7, <1>8, <1>9,
       <1>10, <1>11, <1>12, QueueStepCases
    DEF Next, PersistStep

\* What follows the head of the queue was in it, and has a greater number.
LEMMA TailFollows ==
    ASSUME TypeOK, Queue, writerQueue # <<>>, NEW i \in 1..Len(Tail(writerQueue))
    PROVE  /\ i + 1 \in 1..Len(writerQueue)
           /\ Tail(writerQueue)[i] = writerQueue[i + 1]
           /\ writerQueue[i + 1] \in Calls /\ Head(writerQueue) < writerQueue[i + 1]
  <1>1. writerQueue \in Seq(Calls)
    BY DEF TypeOK
  <1>2. /\ Len(writerQueue) \in Nat \ {0} /\ Head(writerQueue) = writerQueue[1]
        /\ Len(Tail(writerQueue)) = Len(writerQueue) - 1
        /\ Tail(writerQueue)[i] = writerQueue[i + 1]
    BY <1>1, HeadAndTail
  <1>3. i + 1 \in 1..Len(writerQueue) /\ 1 \in 1..Len(writerQueue) /\ 1 < i + 1
    BY <1>2
  <1>4. writerQueue[i + 1] \in Calls
    BY <1>1, <1>3
  <1>5. writerQueue[1] < writerQueue[i + 1]
    BY <1>3 DEF Queue
  <1> QED
    BY <1>2, <1>3, <1>4, <1>5

\* Every step keeps the revisions below the calls that are still to write.
LEMMA NumberedStep == Inv /\ TypeOK' /\ [Next]_vars => Numbered'
  <1> SUFFICES ASSUME Inv, TypeOK', [Next]_vars PROVE Numbered'
    OBVIOUS
  <1> USE StoreAssumption DEF Inv, vars, fileVars, activeVars, callVars, budgetVars, fillVars
  <1>1. CASE Start
    <2>1. /\ UNCHANGED <<kind, writerQueue>> /\ 1..Len(writerQueue) = {}
      BY <1>1 DEF Start, Adopt, Queue
    <2>2. active' # 0 => kind[active'] # "none"
      BY <1>1, StartFacts DEF Near, Numbered
    <2> QED
      BY <1>1, <2>1, <2>2, StartFacts DEF Numbered
  <1>2. CASE Crash
    <2>1. /\ active' = 0 /\ Len(writerQueue') = 0 /\ UNCHANGED <<snapshot, kind>>
      BY <1>2 DEF Crash
    <2>2. 1..Len(writerQueue') = {}
      BY <2>1
    <2> QED
      BY <2>1, <2>2 DEF Numbered
  <1>3. ASSUME NEW c \in Calls, Enqueue(c) PROVE Numbered'
    <2>1. /\ writerQueue' = Append(writerQueue, c) /\ kind[c] = "none"
          /\ \A b \in Calls : kind[b] # "none" => kind'[b] # "none"
          /\ UNCHANGED <<snapshot, active>>
      BY <1>3 DEF Enqueue, TypeOK
    <2>2. /\ Len(writerQueue) \in Nat /\ Len(writerQueue') = Len(writerQueue) + 1
          /\ writerQueue'[Len(writerQueue) + 1] = c
          /\ \A i \in 1..Len(writerQueue) : writerQueue'[i] = writerQueue[i]
      <3>1. writerQueue \in Seq(Calls)
        BY DEF TypeOK
      <3> QED
        BY <2>1, <3>1, AppendIsLast
    <2>3. active < c
      <3>1. active \in Nat /\ c \in Nat /\ c # 0
        <4>1. active \in Nat
          BY RevisionsAreNumbers DEF TypeOK
        <4> QED
          BY <4>1 DEF Calls
      <3>2. active # 0 => active \in Calls /\ kind[active] # "none"
        BY DEF TypeOK, Numbered, Calls, Revisions
      <3>3. active # 0 => c \notin 1..(active - 1) /\ c # active
        BY <3>2, <2>1 DEF Queue
      <3> QED
        BY <3>1, <3>3
    <2>4. \A r \in Revisions : r \in Calls
      BY DEF Revisions, Calls
    <2>5. \A i \in 1..Len(writerQueue') : active' < writerQueue'[i]
      <3> TAKE i \in 1..Len(writerQueue')
      <3>1. i \in 1..Len(writerQueue) \/ i = Len(writerQueue) + 1
        BY <2>2
      <3> QED
        BY <3>1, <2>1, <2>2, <2>3 DEF Numbered
    <2> QED
      BY <2>1, <2>4, <2>5 DEF Numbered, TypeOK
  <1>4. CASE Declined
    <2>1. /\ writerQueue # <<>> /\ writerQueue' = Tail(writerQueue)
          /\ UNCHANGED <<snapshot, active, kind>>
      BY <1>4 DEF Declined, Return, Queue, Writing, TypeOK
    <2> QED
      BY <2>1, TailFollows DEF Numbered
  <1>5. CASE Begun
    BY <1>5 DEF Begun, Persist, Numbered
  <1>6. CASE WriteSnapshot
    <2>1. kind[target] # "none" /\ target \in Revisions
      BY <1>6, TargetExists DEF WriteSnapshot, Queue, Writing
    <2> QED
      BY <1>6, <2>1 DEF WriteSnapshot, Numbered, TypeOK
  <1>7. CASE TruncateSnapshot
    BY <1>7 DEF TruncateSnapshot, Numbered, TypeOK
  <1>8. CASE WriteManifest
    BY <1>8 DEF WriteManifest, Numbered
  <1>9. CASE TruncateManifest
    BY <1>9 DEF TruncateManifest, Numbered
  <1>10. CASE Fail
    <2>1. /\ writerQueue # <<>> /\ writerQueue' = Tail(writerQueue)
          /\ UNCHANGED <<snapshot, active, kind>>
      BY <1>10 DEF Fail, GiveUp, Queue, Writing, TypeOK
    <2> QED
      BY <2>1, TailFollows DEF Numbered
  <1>11. CASE Finish
    <2>1. /\ writerQueue # <<>> /\ writerQueue' = Tail(writerQueue) /\ kind' = kind
          /\ active' = target /\ target \in Nat /\ Head(writerQueue) \in Nat
          /\ kind[target] # "none" /\ target <= Head(writerQueue)
      BY <1>11, FinishFacts, TargetExists, RevisionsAreNumbers DEF callVars, Calls
    <2>2. \A i \in 1..Len(writerQueue') : target < writerQueue'[i]
      BY <2>1, TailFollows DEF Calls
    <2> QED
      BY <1>11, <2>1, <2>2, FinishFacts DEF Numbered
  <1>12. CASE UNCHANGED vars
    BY <1>12 DEF TypeOK, Numbered
  <1> QED
    BY <1>1, <1>2, <1>3, <1>4, <1>5, <1>6, <1>7, <1>8, <1>9,
       <1>10, <1>11, <1>12, QueueStepCases
    DEF Next, PersistStep

\* Every step keeps memory in agreement with the files.
LEMMA DraftStep == Inv /\ TypeOK' /\ [Next]_vars => Draft'
  <1> SUFFICES ASSUME Inv, TypeOK', [Next]_vars PROVE Draft'
    OBVIOUS
  <1> USE StoreAssumption DEF Inv, vars, fileVars, activeVars, callVars, budgetVars, fillVars
  <1>1. CASE Start
    <2>1. pc = "down" /\ pc' = "idle" /\ draft' = draft
      BY <1>1 DEF Start, Adopt
    <2>2. /\ active' = 0 => content' = None
          /\ active' # 0 => content' \in Contents /\ snapshot'[active'] = content'
      BY <1>1, StartFacts, RevisionsAreNumbers
    <2> QED
      BY <2>1, <2>2 DEF Draft, Writing
  <1>2. CASE Crash
    BY <1>2 DEF Crash, Draft, Writing, TypeOK, target
  <1>3. ASSUME NEW c \in Calls, Enqueue(c) PROVE Draft'
    BY <1>3 DEF Enqueue, Draft, Writing, TypeOK, target
  <1>4. CASE Declined
    BY <1>4 DEF Declined, Return, Draft, Writing, TypeOK, target
  <1>5. CASE Begun
    BY <1>5 DEF Begun, Persist, Draft, Writing, TypeOK, target
  <1>6. CASE WriteSnapshot
    <2>1. target \in Revisions /\ active # target /\ pc \in Writing
      BY <1>6, TargetExists DEF WriteSnapshot, Queue, Writing
    <2>2. /\ snapshot' = [snapshot EXCEPT ![target] = draft] /\ pc' = "manifest"
          /\ target' = target /\ UNCHANGED <<active, content, draft>>
      BY <1>6 DEF WriteSnapshot, target
    <2>3. /\ snapshot'[target] = draft
          /\ active # 0 => snapshot'[active] = snapshot[active]
      BY <2>1, <2>2 DEF TypeOK
    <2> QED
      BY <2>1, <2>2, <2>3 DEF Draft, Writing
  <1>7. CASE TruncateSnapshot
    <2>1. target \in Revisions /\ active # target /\ pc \in Writing
      BY <1>7, TargetExists DEF TruncateSnapshot, Queue, Writing
    <2>2. /\ snapshot' = [snapshot EXCEPT ![target] = None] /\ pc' = "fill snapshot"
          /\ UNCHANGED <<active, content, draft>>
      BY <1>7 DEF TruncateSnapshot
    <2>3. active # 0 => snapshot'[active] = snapshot[active]
      BY <2>1, <2>2 DEF TypeOK
    <2> QED
      BY <2>1, <2>2, <2>3 DEF Draft, Writing
  <1>8. CASE WriteManifest
    <2>1. target \in Nat /\ Slot(target) \in Slots
      BY <1>8, TargetExists, SlotsAlternate, RevisionsAreNumbers DEF WriteManifest, Queue, Writing
    <2>2. /\ manifest' = [manifest EXCEPT ![Slot(target)] =
                             [activeRevision |-> target, checksum |-> draft]]
          /\ target' = target /\ Slot(target)' = Slot(target) /\ pc' = "confirm"
          /\ UNCHANGED <<snapshot, active, content, draft>>
      BY <1>8 DEF WriteManifest, target, Slot
    <2>3. manifest'[Slot(target)] = [activeRevision |-> target, checksum |-> draft]
      BY <2>1, <2>2 DEF TypeOK
    <2>4. /\ pc \in {"manifest", "fill manifest"}
      BY <1>8 DEF WriteManifest
    <2> QED
      BY <2>2, <2>3, <2>4 DEF Draft, Writing
  <1>9. CASE TruncateManifest
    BY <1>9 DEF TruncateManifest, Draft, Writing, TypeOK, target
  <1>10. CASE Fail
    BY <1>10 DEF Fail, GiveUp, Draft, Writing, TypeOK, target
  <1>11. CASE Finish
    <2>1. target # 0
      BY <1>11, FinishFacts, RevisionsAreNumbers
    <2> QED
      BY <1>11, <2>1, FinishFacts DEF Draft, Writing
  <1>12. CASE UNCHANGED vars
    BY <1>12 DEF Draft, Writing, target, Slot
  <1> QED
    BY <1>1, <1>2, <1>3, <1>4, <1>5, <1>6, <1>7, <1>8, <1>9,
       <1>10, <1>11, <1>12, QueueStepCases
    DEF Next, PersistStep

(***************************************************************************)
(* What a write, and what unlinking, make of Near and Stored.              *)
(***************************************************************************)

\* Snapshots other than the active one may go.
LEMMA NearFewerSnapshots ==
    ASSUME NEW a \in Revisions \cup {0}, NEW ms \in ManifestType,
           NEW ss \in SnapshotType, NEW fewer \in SnapshotType, Near(a, ms, ss),
           \A r \in Revisions : fewer[r] \in {ss[r], None},
           a # 0 => fewer[a] = ss[a]
    PROVE  Near(a, ms, fewer)
  <1>1. Vouched(ms, fewer) \subseteq Vouched(ms, ss)
    BY DEF Vouched
  <1>2. a \in Vouched(ms, ss) => a \in Vouched(ms, fewer)
    BY RevisionsAreNumbers DEF Vouched
  <1> QED
    BY <1>1, <1>2 DEF Near

\* The snapshot of the next revision may be written.
LEMMA NearWritesSnapshot ==
    ASSUME NEW a \in Nat, a + 1 \in Revisions, a \in Revisions \cup {0},
           NEW ms \in ManifestType, NEW ss \in SnapshotType, NEW d, Near(a, ms, ss)
    PROVE  Near(a, ms, [ss EXCEPT ![a + 1] = d])
  <1> DEFINE more == [ss EXCEPT ![a + 1] = d]
  <1>1. \A r \in Revisions : r # a + 1 => more[r] = ss[r]
    BY DEF SnapshotType
  <1>2. \A r \in Vouched(ms, more) : r \in Vouched(ms, ss) \/ r = a + 1
    BY <1>1 DEF Vouched
  <1>3. a \in Vouched(ms, ss) => a \in Vouched(ms, more)
    BY <1>1 DEF Vouched
  <1>4. a # 0 => more[a] # None
    BY <1>1 DEF Near
  <1>5. \A r \in Revisions : more[r] # None => r <= a + 1
    BY <1>1, RevisionsAreNumbers DEF Near
  <1> HIDE DEF more
  <1>6. a \in Vouched(ms, more) \/ \A r \in Vouched(ms, more) : a < r
    BY <1>2, <1>3 DEF Near
  <1> QED
    BY <1>4, <1>5, <1>6 DEF Near, more

\* The manifest of the next revision may be written, or cut off.
LEMMA NearWritesManifest ==
    ASSUME NEW a \in Nat, a + 1 \in Revisions, a \in Revisions \cup {0},
           NEW ms \in ManifestType, NEW ss \in SnapshotType, Near(a, ms, ss),
           NEW m, \/ m = NoManifest
                  \/ m \in Manifests /\ m.activeRevision = a + 1
    PROVE  Near(a, [ms EXCEPT ![Slot(a + 1)] = m], ss)
  <1> DEFINE new == [ms EXCEPT ![Slot(a + 1)] = m]
  <1>1. /\ Slot(a) \in Slots /\ Slot(a + 1) \in Slots /\ Slot(a) # Slot(a + 1)
        /\ Slots = {Slot(a), Slot(a + 1)}
    BY SlotsAlternate
  <1>2. new[Slot(a + 1)] = m /\ \A s \in Slots : s # Slot(a + 1) => new[s] = ms[s]
    BY <1>1 DEF ManifestType
  <1> HIDE DEF new
  <1>3. m.activeRevision \in {0, a + 1} /\ (m # NoManifest => m.activeRevision = a + 1)
    BY NoneIsNoContent
  <1>4. \A r \in Vouched(new, ss) : r \in Vouched(ms, ss) \/ r = a + 1
    <2> SUFFICES ASSUME NEW r \in Vouched(new, ss), r # a + 1
                 PROVE  r \in Vouched(ms, ss)
      OBVIOUS
    <2>1. PICK s \in Slots : new[s] = [activeRevision |-> r, checksum |-> ss[r]]
      BY DEF Vouched
    <2>2. s # Slot(a + 1)
      <3>1. new[s].activeRevision = r /\ r # 0
        BY <2>1, RevisionsAreNumbers DEF Vouched
      <3> QED
        BY <3>1, <1>2, <1>3
    <2> QED
      BY <2>1, <2>2, <1>2 DEF Vouched
  <1>5. a \in Vouched(ms, ss) => a \in Vouched(new, ss)
    <2> SUFFICES ASSUME a \in Vouched(ms, ss) PROVE a \in Vouched(new, ss)
      OBVIOUS
    <2>1. PICK s \in Slots : ms[s] = [activeRevision |-> a, checksum |-> ss[a]]
      BY DEF Vouched
    <2>2. ms[s].activeRevision = a /\ a # 0
      BY <2>1, RevisionsAreNumbers DEF Vouched
    <2>3. s = Slot(a)
      BY <2>2, NoneIsNoContent DEF Near
    <2> QED
      BY <2>1, <2>3, <1>1, <1>2 DEF Vouched
  <1>6. \A s \in Slots : /\ new[s].activeRevision <= a + 1
                         /\ new[s] # NoManifest => s = Slot(new[s].activeRevision)
    BY <1>1, <1>2, <1>3 DEF Near
  <1>7. \/ new[Slot(a)].activeRevision = a
        \/ /\ new[Slot(a)] = NoManifest
           /\ new[Slot(a + 1)].activeRevision \in {0, a + 1}
    BY <1>1, <1>2, <1>3 DEF Near
  <1>8. a \in Vouched(new, ss) \/ \A r \in Vouched(new, ss) : a < r
    BY <1>4, <1>5 DEF Near
  <1> QED
    BY <1>6, <1>7, <1>8 DEF Near, new

\* Once snapshot and manifest of the next revision are there, it may be active.
LEMMA NearAdvances ==
    ASSUME NEW a \in Nat, a + 1 \in Revisions,
           NEW ms \in ManifestType, NEW ss \in SnapshotType, Near(a, ms, ss),
           ss[a + 1] # None,
           ms[Slot(a + 1)] = [activeRevision |-> a + 1, checksum |-> ss[a + 1]]
    PROVE  Near(a + 1, ms, ss)
  <1>1. Slot(a + 1) \in Slots
    BY SlotsAlternate
  <1>2. a + 1 \in Vouched(ms, ss)
    BY <1>1 DEF Vouched
  <1>3. ms[Slot(a + 1)].activeRevision = a + 1
    OBVIOUS
  <1>4. \A r \in Revisions : ss[r] # None => r <= (a + 1) + 1
    BY RevisionsAreNumbers DEF Near
  <1>5. \A s \in Slots : /\ ms[s].activeRevision <= (a + 1) + 1
                         /\ ms[s] # NoManifest => s = Slot(ms[s].activeRevision)
    <2> TAKE s \in Slots
    <2>1. ms[s].activeRevision \in Revisions \cup {0}
      <3>1. ms[s] \in Manifests \cup {NoManifest}
        BY DEF ManifestType
      <3> QED
        BY <3>1, NoneIsNoContent
    <2>2. ms[s].activeRevision \in Nat
      BY <2>1, RevisionsAreNumbers
    <2> QED
      BY <2>2 DEF Near
  <1> QED
    BY <1>2, <1>3, <1>4, <1>5 DEF Near

\* Files that no published revision needs may change.
LEMMA StoredUntouched ==
    ASSUME NEW a \in Revisions \cup {0}, NEW ms, NEW ss, NEW ms2, NEW ss2, NEW pub,
           Stored(a, ms, ss, pub),
           ms2[Slot(a)] = ms[Slot(a)], \A r \in Revisions : r <= a => ss2[r] = ss[r]
    PROVE  Stored(a, ms2, ss2, pub)
  <1> SUFFICES ASSUME NEW r \in Revisions, pub[r] # None
               PROVE  /\ r <= a /\ ss2[a] # None
                      /\ ms2[Slot(a)] = [activeRevision |-> a, checksum |-> ss2[a]]
                      /\ a < r + KEEP_REVISIONS => ss2[r] = pub[r]
    BY DEF Stored
  <1>1. /\ r <= a /\ ss[a] # None
        /\ ms[Slot(a)] = [activeRevision |-> a, checksum |-> ss[a]]
        /\ a < r + KEEP_REVISIONS => ss[r] = pub[r]
    BY DEF Stored
  <1>2. a \in Revisions /\ a <= a /\ ss2[a] = ss[a] /\ ss2[r] = ss[r]
    <2>1. a \in Nat /\ r \in Nat /\ r # 0
      BY RevisionsAreNumbers
    <2>2. a # 0 /\ a <= a
      BY <1>1, <2>1
    <2> QED
      BY <1>1, <2>2
  <1> QED
    BY <1>1, <1>2

\* Every step keeps a stored revision in the files, the active one while there is
\* one: what was acknowledged survives failures and crashes.
LEMMA DurableStep == Inv /\ TypeOK' /\ [Next]_vars => Durable'
  <1> SUFFICES ASSUME Inv, TypeOK', [Next]_vars PROVE Durable'
    OBVIOUS
  <1> USE StoreAssumption DEF Inv, vars, fileVars, activeVars, callVars, budgetVars, fillVars
  <1>1. CASE Start
    <2>1. /\ manifest \in ManifestType /\ snapshot \in SnapshotType
          /\ active \in Revisions \cup {0}
      BY DEF TypeOK, ManifestType, SnapshotType
    <2> DEFINE R == Recovered(manifest, snapshot)
    <2>2. /\ R \in Revisions \cup {0} /\ R \in Nat /\ active' = R
          /\ Near(R, manifest, snapshot) /\ Stored(R, manifest, snapshot, published)
          /\ snapshot' \in SnapshotType
          /\ \A r \in Revisions : /\ snapshot'[r] \in {snapshot[r], None}
                                  /\ r <= R => snapshot'[r] = snapshot[r]
      BY <1>1, StartFacts, RevisionsAreNumbers
    <2>3. pc' = "idle" /\ UNCHANGED <<manifest, published>>
      BY <1>1 DEF Start, Adopt
    <2> HIDE DEF R
    <2>4. R # 0 => snapshot'[R] = snapshot[R]
      BY <2>2
    <2>5. Near(R, manifest, snapshot')
      BY <2>1, <2>2, <2>4, NearFewerSnapshots
    <2>6. Stored(R, manifest, snapshot', published)
      BY <2>2, StoredUntouched
    <2> QED
      BY <2>2, <2>3, <2>5, <2>6 DEF Durable, Based
  <1>2. CASE Crash
    <2>1. /\ pc # "down" /\ pc' = "down" /\ UNCHANGED <<manifest, snapshot, published>>
      BY <1>2 DEF Crash
    <2> QED
      BY <2>1 DEF Durable, Based, TypeOK
  <1>3. ASSUME NEW c \in Calls, Enqueue(c) PROVE Durable'
    <2>1. /\ pc # "down" /\ pc' # "down"
          /\ UNCHANGED <<active, manifest, snapshot, published>>
      BY <1>3 DEF Enqueue, Writing
    <2> QED
      BY <2>1 DEF Durable, Based
  <1>4. CASE Declined
    <2>1. /\ pc # "down" /\ pc' # "down"
          /\ UNCHANGED <<active, manifest, snapshot, published>>
      BY <1>4 DEF Declined, Return, Writing
    <2> QED
      BY <2>1 DEF Durable, Based
  <1>5. CASE Begun
    <2>1. /\ pc # "down" /\ pc' # "down"
          /\ UNCHANGED <<active, manifest, snapshot, published>>
      BY <1>5 DEF Begun, Persist, Writing
    <2> QED
      BY <2>1 DEF Durable, Based
  <1>6. CASE WriteSnapshot
    <2>1. /\ manifest \in ManifestType /\ snapshot \in SnapshotType
          /\ active \in Revisions \cup {0}
      BY DEF TypeOK, ManifestType, SnapshotType
    <2>2. /\ active + 1 \in Revisions /\ target = active + 1 /\ active \in Nat
          /\ pc # "down" /\ pc' # "down" /\ UNCHANGED <<active, published>>
      BY <1>6, TargetExists DEF WriteSnapshot, Queue, Writing
    <2>3. Near(active, manifest, snapshot) /\ Stored(active, manifest, snapshot, published)
      BY <2>2 DEF Durable, Based
    <2>4. Near(active, manifest', snapshot')
      BY <1>6, <2>1, <2>2, <2>3, NearWritesSnapshot DEF WriteSnapshot
    <2>5. Stored(active, manifest', snapshot', published)
      <3>1. /\ snapshot' = [snapshot EXCEPT ![active + 1] = draft]
            /\ manifest' = manifest
        BY <1>6, <2>2 DEF WriteSnapshot
      <3>2. \A r \in Revisions : r <= active => snapshot'[r] = snapshot[r]
        BY <2>1, <2>2, <3>1, RevisionsAreNumbers DEF SnapshotType
      <3>3. Stored(active, manifest, snapshot', published)
        BY <2>1, <2>3, <3>2, StoredUntouched
      <3> QED
        BY <3>1, <3>3
    <2> QED
      BY <2>2, <2>4, <2>5 DEF Durable, Based
  <1>7. CASE TruncateSnapshot
    <2>1. /\ manifest \in ManifestType /\ snapshot \in SnapshotType
          /\ active \in Revisions \cup {0}
      BY DEF TypeOK, ManifestType, SnapshotType
    <2>2. /\ active + 1 \in Revisions /\ target = active + 1 /\ active \in Nat
          /\ pc # "down" /\ pc' # "down" /\ UNCHANGED <<active, published>>
      BY <1>7, TargetExists DEF TruncateSnapshot, Queue, Writing
    <2>3. Near(active, manifest, snapshot) /\ Stored(active, manifest, snapshot, published)
      BY <2>2 DEF Durable, Based
    <2>4. Near(active, manifest', snapshot')
      BY <1>7, <2>1, <2>2, <2>3, NearWritesSnapshot DEF TruncateSnapshot
    <2>5. Stored(active, manifest', snapshot', published)
      <3>1. /\ snapshot' = [snapshot EXCEPT ![active + 1] = None]
            /\ manifest' = manifest
        BY <1>7, <2>2 DEF TruncateSnapshot
      <3>2. \A r \in Revisions : r <= active => snapshot'[r] = snapshot[r]
        BY <2>1, <2>2, <3>1, RevisionsAreNumbers DEF SnapshotType
      <3>3. Stored(active, manifest, snapshot', published)
        BY <2>1, <2>3, <3>2, StoredUntouched
      <3> QED
        BY <3>1, <3>3
    <2> QED
      BY <2>2, <2>4, <2>5 DEF Durable, Based
  <1>8. CASE WriteManifest
    <2>1. /\ manifest \in ManifestType /\ snapshot \in SnapshotType
          /\ active \in Revisions \cup {0}
      BY DEF TypeOK, ManifestType, SnapshotType
    <2>2. /\ active + 1 \in Revisions /\ target = active + 1 /\ active \in Nat
          /\ pc # "down" /\ pc' # "down" /\ UNCHANGED <<active, published>>
      BY <1>8, TargetExists DEF WriteManifest, Queue, Writing
    <2>3. Near(active, manifest, snapshot) /\ Stored(active, manifest, snapshot, published)
      BY <2>2 DEF Durable, Based
    <2>4. Near(active, manifest', snapshot')
      <3> DEFINE m == [activeRevision |-> target, checksum |-> draft]
      <3>1. m \in Manifests /\ m.activeRevision = active + 1
        BY <1>8, <2>2 DEF WriteManifest, Manifests, Draft, Writing
      <3>2. manifest' = [manifest EXCEPT ![Slot(active + 1)] = m] /\ snapshot' = snapshot
        BY <1>8, <2>2 DEF WriteManifest
      <3> HIDE DEF m
      <3> QED
        BY <2>1, <2>2, <2>3, <3>1, <3>2, NearWritesManifest
    <2>5. Stored(active, manifest', snapshot', published)
      <3>1. manifest'[Slot(active)] = manifest[Slot(active)] /\ snapshot' = snapshot
        BY <1>8, <2>1, <2>2, SlotsAlternate DEF WriteManifest, ManifestType
      <3> QED
        BY <2>1, <2>3, <3>1, StoredUntouched
    <2> QED
      BY <2>2, <2>4, <2>5 DEF Durable, Based
  <1>9. CASE TruncateManifest
    <2>1. /\ manifest \in ManifestType /\ snapshot \in SnapshotType
          /\ active \in Revisions \cup {0}
      BY DEF TypeOK, ManifestType, SnapshotType
    <2>2. /\ active + 1 \in Revisions /\ target = active + 1 /\ active \in Nat
          /\ pc # "down" /\ pc' # "down" /\ UNCHANGED <<active, published>>
      BY <1>9, TargetExists DEF TruncateManifest, Queue, Writing
    <2>3. Near(active, manifest, snapshot) /\ Stored(active, manifest, snapshot, published)
      BY <2>2 DEF Durable, Based
    <2>4. Near(active, manifest', snapshot')
      BY <1>9, <2>1, <2>2, <2>3, NearWritesManifest DEF TruncateManifest
    <2>5. Stored(active, manifest', snapshot', published)
      <3>1. manifest'[Slot(active)] = manifest[Slot(active)] /\ snapshot' = snapshot
        BY <1>9, <2>1, <2>2, SlotsAlternate DEF TruncateManifest, ManifestType
      <3> QED
        BY <2>1, <2>3, <3>1, StoredUntouched
    <2> QED
      BY <2>2, <2>4, <2>5 DEF Durable, Based
  <1>10. CASE Fail
    <2>1. /\ pc # "down" /\ pc' # "down"
          /\ UNCHANGED <<active, manifest, snapshot, published>>
      BY <1>10 DEF Fail, GiveUp, Writing
    <2> QED
      BY <2>1 DEF Durable, Based
  <1>11. CASE Finish
    <2>1. /\ manifest \in ManifestType /\ snapshot \in SnapshotType
          /\ active \in Revisions \cup {0}
      BY DEF TypeOK, ManifestType, SnapshotType
    <2>2. /\ pc = "confirm" /\ pc' = "idle" /\ manifest' = manifest
          /\ active + 1 \in Revisions /\ target = active + 1 /\ active \in Nat
          /\ active' = active + 1 /\ draft # None
          /\ published' = [published EXCEPT ![active + 1] = draft]
          /\ snapshot' \in SnapshotType
          /\ snapshot[active + 1] = draft /\ snapshot'[active + 1] = draft
          /\ \A r \in Revisions :
               /\ snapshot'[r] \in {snapshot[r], None}
               /\ r <= active + 1 /\ active + 1 < r + KEEP_REVISIONS =>
                    snapshot'[r] = snapshot[r]
      BY <1>11, FinishFacts, NoneIsNoContent
    <2>3. Near(active, manifest, snapshot) /\ Stored(active, manifest, snapshot, published)
      BY <2>2 DEF Durable, Based
    <2>4. manifest[Slot(active + 1)] = [activeRevision |-> active + 1, checksum |-> draft]
      BY <2>2 DEF Draft
    <2>5. Near(active + 1, manifest, snapshot)
      BY <2>1, <2>2, <2>3, <2>4, NearAdvances
    <2>6. Near(active + 1, manifest, snapshot')
      BY <2>1, <2>2, <2>5, NearFewerSnapshots
    <2>7. Stored(active + 1, manifest, snapshot', published')
      <3> SUFFICES ASSUME NEW r \in Revisions, published'[r] # None
                   PROVE  /\ r <= active + 1 /\ snapshot'[active + 1] # None
                          /\ manifest[Slot(active + 1)] =
                               [activeRevision |-> active + 1,
                                checksum |-> snapshot'[active + 1]]
                          /\ active + 1 < r + KEEP_REVISIONS =>
                               snapshot'[r] = published'[r]
        BY DEF Stored
      <3>1. CASE r = active + 1
        <4>1. published'[r] = draft
          BY <3>1, <2>2 DEF TypeOK
        <4> QED
          BY <3>1, <4>1, <2>2, <2>4
      <3>2. CASE r # active + 1
        <4>1. published'[r] = published[r] /\ published[r] # None
          BY <3>2, <2>2 DEF TypeOK
        <4>2. /\ r \in Nat /\ r <= active
              /\ active < r + KEEP_REVISIONS => snapshot[r] = published[r]
          BY <4>1, <2>3, RevisionsAreNumbers DEF Stored
        <4>3. active + 1 < r + KEEP_REVISIONS =>
                snapshot[r] = published[r] /\ snapshot'[r] = snapshot[r]
          BY <4>2, <2>2 DEF KEEP_REVISIONS
        <4> QED
          BY <4>1, <4>2, <4>3, <2>2, <2>4
      <3> QED
        BY <3>1, <3>2
    <2> QED
      BY <2>2, <2>6, <2>7 DEF Durable, Based
  <1>12. CASE UNCHANGED vars
    BY <1>12 DEF Durable, Based
  <1> QED
    BY <1>1, <1>2, <1>3, <1>4, <1>5, <1>6, <1>7, <1>8, <1>9,
       <1>10, <1>11, <1>12, QueueStepCases
    DEF Next, PersistStep

\* No step writes over a revision that was acknowledged.
LEMMA PublishedStep == Inv /\ TypeOK' /\ [Next]_vars => PublishedNeverRewritten'
  <1> SUFFICES ASSUME Inv, TypeOK', [Next]_vars PROVE PublishedNeverRewritten'
    OBVIOUS
  <1> USE StoreAssumption DEF Inv, vars, fileVars, activeVars, callVars, budgetVars, fillVars
  <1>1. CASE Start
    <2>1. published' = published
      BY <1>1 DEF Start, Adopt
    <2> QED
      BY <1>1, <2>1, StartFacts DEF PublishedNeverRewritten
  <1>2. CASE Crash
    BY <1>2 DEF Crash, PublishedNeverRewritten, TypeOK
  <1>3. ASSUME NEW c \in Calls, Enqueue(c) PROVE PublishedNeverRewritten'
    BY <1>3 DEF Enqueue, PublishedNeverRewritten, TypeOK
  <1>4. CASE Declined
    BY <1>4 DEF Declined, Return, PublishedNeverRewritten, TypeOK
  <1>5. CASE Begun
    BY <1>5 DEF Begun, Persist, PublishedNeverRewritten, TypeOK
  <1>6. CASE WriteSnapshot
    <2>1. /\ target \in Revisions /\ target = active + 1 /\ active \in Nat
      BY <1>6, TargetExists DEF WriteSnapshot, Queue, Writing
    <2>2. published[target] = None
      <3>1. Stored(active, manifest, snapshot, published)
        BY <1>6 DEF WriteSnapshot, Durable, Based
      <3>2. ~(target <= active)
        BY <2>1
      <3> QED
        BY <2>1, <3>1, <3>2 DEF Stored
    <2> QED
      BY <1>6, <2>2 DEF WriteSnapshot, PublishedNeverRewritten, TypeOK
  <1>7. CASE TruncateSnapshot
    BY <1>7 DEF TruncateSnapshot, PublishedNeverRewritten, TypeOK
  <1>8. CASE WriteManifest
    BY <1>8 DEF WriteManifest, PublishedNeverRewritten, TypeOK
  <1>9. CASE TruncateManifest
    BY <1>9 DEF TruncateManifest, PublishedNeverRewritten, TypeOK
  <1>10. CASE Fail
    BY <1>10 DEF Fail, GiveUp, PublishedNeverRewritten, TypeOK
  <1>11. CASE Finish
    BY <1>11, FinishFacts DEF PublishedNeverRewritten, TypeOK
  <1>12. CASE UNCHANGED vars
    BY <1>12 DEF TypeOK, PublishedNeverRewritten, TypeOK
  <1> QED
    BY <1>1, <1>2, <1>3, <1>4, <1>5, <1>6, <1>7, <1>8, <1>9,
       <1>10, <1>11, <1>12, QueueStepCases
    DEF Next, PersistStep

\* The invariant holds in every reachable state.
THEOREM InvHolds == Spec => []Inv
  <1>1. Init => Inv
    <2> SUFFICES ASSUME Init PROVE Inv
      OBVIOUS
    <2>1. TypeOK
      BY StoreAssumption DEF Init, TypeOK, SnapshotType
    <2>2. Queue /\ Numbered /\ PublishedNeverRewritten
      <3>1. 1..Len(writerQueue) = {}
        BY DEF Init
      <3> QED
        BY <3>1 DEF Init, Queue, Numbered, PublishedNeverRewritten, Writing
    <2>3. Draft
      BY DEF Init, Draft, Writing
    <2>4. Based(0)
      <3>1. Vouched(manifest, snapshot) = {}
        BY DEF Init, Vouched
      <3>2. \A s \in Slots : manifest[s] = NoManifest
        BY DEF Init
      <3>3. Near(0, manifest, snapshot)
        BY <3>1, <3>2, SlotsAlternate, NoneIsNoContent DEF Init, Near
      <3> QED
        BY <3>3 DEF Init, Based, Stored
    <2> QED
      BY <2>1, <2>2, <2>3, <2>4 DEF Inv, Durable, Init
  <1>2. Inv /\ [Next]_vars => Inv'
    BY TypeStep, QueueStepKeeps, NumberedStep, DraftStep, DurableStep, PublishedStep
    DEF Inv
  <1> QED
    BY <1>1, <1>2, PTL DEF Spec

(***************************************************************************)
(* The invariants.                                                         *)
(***************************************************************************)

\* Files, queue and memory stay in their types; there is always a revision
\* number for the next write.
THEOREM TypeCorrect == Spec => []TypeOK
  BY InvHolds, PTL DEF Inv

\* A revision that was acknowledged never names another content, whatever crashed
\* or failed since.
THEOREM NeverRewritten == Spec => []PublishedNeverRewritten
  BY InvHolds, PTL DEF Inv

\* While the process runs, the active revision and the two before it can be read.
THEOREM RollbackPoints == Spec => []RollbackPointsKept
  <1>1. Inv => RollbackPointsKept
    BY DEF Inv, Durable, Based, Stored, RollbackPointsKept
  <1> QED
    BY <1>1, InvHolds, PTL

(***************************************************************************)
(* ConfigStore implements StoreContract.  The value of the contract is the *)
(* content in memory, or what a restart would find when the process is     *)
(* down; each step of the store is a step of the contract, or none.        *)
(***************************************************************************)

\* "Nobody" of the contract is 0, which is no call.
LEMMA CallsAreNotZero == 0 \notin Calls
  BY StoreAssumption DEF Calls

\* Deleting what is newer than the revision a restart finds does not change what
\* the next restart finds.
LEMMA FoundAfterCleanup ==
    ASSUME NEW ms \in ManifestType, NEW ss \in SnapshotType, NEW fewer \in SnapshotType,
           NEW R \in Revisions \cup {0}, R = Recovered(ms, ss),
           \A r \in Revisions : /\ fewer[r] \in {ss[r], None}
                                /\ r <= R => fewer[r] = ss[r]
    PROVE  Recovered(ms, fewer) = R
  <1> DEFINE V == Vouched(ms, ss)
             V2 == Vouched(ms, fewer)
             S == Salvaged(ms, ss)
             S2 == Salvaged(ms, fewer)
  <1>1. /\ V2 \subseteq V /\ V \in SUBSET (Revisions \cup {0})
        /\ V2 \in SUBSET (Revisions \cup {0})
    BY DEF Vouched
  <1>2. /\ S2 \subseteq S /\ S \in SUBSET (Revisions \cup {0})
        /\ S2 \in SUBSET (Revisions \cup {0})
    BY DEF Salvaged
  <1>3. R \in Revisions => fewer[R] = ss[R]
    BY RevisionsAreNumbers
  <1>4. R \in V => R \in V2
    BY <1>3 DEF Vouched
  <1>5. R \in S => R \in S2
    BY <1>3 DEF Salvaged
  <1>6. CASE V # {}
    <2>1. R = Newest(V)
      BY <1>6 DEF Recovered
    <2>2. V2 # {} => Recovered(ms, fewer) = Newest(V2)
      BY DEF Recovered
    <2> HIDE DEF V, V2
    <2>3. R \in V /\ \A q \in V : q <= R
      BY <1>1, <1>6, <2>1, NewestIsGreatest
    <2>4. R \in V2 /\ \A q \in V2 : q <= R
      BY <1>1, <1>4, <2>3
    <2> QED
      BY <1>1, <2>2, <2>4, NewestIsGreatest
  <1>7. CASE V = {}
    <2>1. R = Newest(S)
      BY <1>7 DEF Recovered
    <2>2. Recovered(ms, fewer) = Newest(S2)
      BY <1>1, <1>7 DEF Recovered
    <2> HIDE DEF V, V2, S, S2
    <2>3. CASE S = {}
      BY <1>2, <2>1, <2>2, <2>3
    <2>4. CASE S # {}
      <3>1. R \in S /\ \A q \in S : q <= R
        BY <1>2, <2>1, <2>4, NewestIsGreatest
      <3>2. R \in S2 /\ \A q \in S2 : q <= R
        BY <1>2, <1>5, <3>1
      <3> QED
        BY <1>2, <2>2, <3>2, NewestIsGreatest
    <2> QED
      BY <2>3, <2>4
  <1> QED
    BY <1>6, <1>7

\* A start, whose clean-up is all the contract sees of it.
LEMMA StartForgets ==
    ASSUME Inv, Start
    PROVE  Abstract!Forget
  <1> DEFINE R == Recovered(manifest, snapshot)
  <1>1. manifest \in ManifestType /\ snapshot \in SnapshotType
    BY DEF Inv, TypeOK, ManifestType, SnapshotType
  <1>2. /\ R \in Revisions \cup {0} /\ snapshot' \in SnapshotType
        /\ content' = IF R = 0 THEN None ELSE snapshot[R]
        /\ \A r \in Revisions : /\ snapshot'[r] \in {snapshot[r], None}
                                /\ r <= R => snapshot'[r] = snapshot[r]
    BY StartFacts
  <1>3. /\ pc = "down" /\ pc' = "idle"
        /\ UNCHANGED <<manifest, draft, kind, reply>>
    BY DEF Start, Adopt, callVars
  <1> HIDE DEF R
  <1>4. Recovered(manifest, snapshot') = R
    BY <1>1, <1>2, FoundAfterCleanup DEF R
  <1>5. FoundContent = (IF R = 0 THEN None ELSE snapshot[R])
    BY DEF FoundContent, Found, R
  <1>6. FoundContent' = (IF R = 0 THEN None ELSE snapshot'[R])
    BY <1>3, <1>4 DEF FoundContent, Found
  <1>7. FoundContent' = FoundContent /\ content' = FoundContent
    BY <1>2, <1>5, <1>6, RevisionsAreNumbers
  <1>8. {snapshot'[r] : r \in Revisions} \ {None} \subseteq
          {snapshot[r] : r \in Revisions} \ {None}
    BY <1>2
  <1> QED
    BY <1>3, <1>7, <1>8 DEF Abstract!Forget

\* A crash, which leaves the files alone and loses the calls that wait.
LEMMA CrashRestarts ==
    ASSUME Inv, Crash
    PROVE  Abstract!Restart
  <1>1. /\ pc' = "down" /\ draft' = None
        /\ UNCHANGED <<manifest, snapshot, kind>>
        /\ reply' = [c \in Calls |-> IF kind[c] # "none" /\ reply[c] = "none"
                                     THEN "lost" ELSE reply[c]]
    BY DEF Crash, fileVars, callVars
  <1>2. FoundContent' = FoundContent
    BY <1>1 DEF FoundContent, Found
  <1>3. \A c \in Calls : c \in Abstract!Waiting <=> kind[c] # "none" /\ reply[c] = "none"
    BY DEF Abstract!Waiting
  <1> QED
    BY <1>1, <1>2, <1>3 DEF Abstract!Restart

\* A call that enters the queue.
LEMMA EnqueueAsks ==
    ASSUME Inv, NEW c \in Calls, Enqueue(c)
    PROVE  \E k \in {"commitInitial", "commit", "rollbackTo"} : Abstract!Ask(c, k)
  <1>1. PICK k \in {"commitInitial", "commit", "rollbackTo"} :
           kind' = [kind EXCEPT ![c] = k]
    BY DEF Enqueue
  <1>2. /\ kind[c] = "none" /\ pc = "idle"
        /\ UNCHANGED <<manifest, snapshot, content, pc, draft, reply>>
    BY DEF Enqueue, fileVars, activeVars
  <1>3. FoundContent' = FoundContent
    BY <1>2 DEF FoundContent, Found
  <1> QED
    BY <1>1, <1>2, <1>3 DEF Abstract!Ask

\* The turn of a call: it declines, or begins to write what the contract lets it
\* write.
LEMMA TurnBeginsOrDeclines ==
    ASSUME Inv, QueueStep
    PROVE  \E c \in Calls : Abstract!Begin(c) \/ Abstract!Decline(c)
  <1> DEFINE h == Head(writerQueue)
  <1>1. /\ pc = "idle" /\ writerQueue # <<>>
    BY DEF QueueStep, CommitInitial, Commit, RollbackTo, Turn
  <1>2. h \in Calls /\ kind[h] # "none" /\ reply[h] = "none"
    <2>1. writerQueue \in Seq(Calls)
      BY DEF Inv, TypeOK
    <2>2. h = writerQueue[1] /\ h \in Calls /\ 1 \in 1..Len(writerQueue)
      BY <1>1, <2>1, HeadAndTail
    <2> QED
      BY <2>2 DEF Inv, Queue
  <1>3. h \in Abstract!Waiting
    BY <1>2 DEF Abstract!Waiting
  <1>4. ASSUME NEW r \in {"ok", "failed"}, Return(r),
               r = "ok" => kind[h] # "commit" /\ active # 0
        PROVE  Abstract!Decline(h)
    <2>1. /\ reply' = [reply EXCEPT ![h] = r]
          /\ UNCHANGED <<manifest, snapshot, content, pc, draft, kind>>
      BY <1>4 DEF Return, fileVars, activeVars, callVars
    <2>2. FoundContent' = FoundContent
      BY <2>1 DEF FoundContent, Found
    <2>3. r = "ok" => content # None
      BY <1>4, NoneIsNoContent DEF Inv, Draft
    <2> HIDE DEF h
    <2> QED
      BY <1>1, <1>3, <1>4, <2>1, <2>2, <2>3 DEF Abstract!Decline
  <1>5. ASSUME NEW d \in Abstract!MayWrite(h), Persist(d)
        PROVE  Abstract!Begin(h)
    <2>1. /\ draft' = d /\ pc' = "snapshot"
          /\ UNCHANGED <<manifest, snapshot, content, writerQueue, kind, reply>>
      BY <1>5 DEF Persist, fileVars, activeVars, callVars
    <2>2. FoundContent' = FoundContent
      BY <2>1 DEF FoundContent, Found
    <2>3. Head(writerQueue') = h
      BY <2>1
    <2> HIDE DEF h
    <2>4. /\ (IF pc \in {"down", "idle"} THEN 0 ELSE Head(writerQueue)) = 0
          /\ (IF pc' \in {"down", "idle"} THEN 0 ELSE Head(writerQueue')) = h
      BY <1>1, <2>1, <2>3
    <2> QED
      BY <1>1, <1>3, <1>5, <2>1, <2>2, <2>4 DEF Abstract!Begin
  <1>6. CASE CommitInitial
    <2>1. kind[h] = "commitInitial"
      BY <1>6 DEF CommitInitial, Turn
    <2>2. CASE active # 0 /\ Return("ok")
      BY <1>2, <1>4, <2>1, <2>2
    <2>3. CASE active = 0 /\ Persist({h})
      <3>1. content = None
        BY <2>3 DEF Inv, Draft
      <3>2. {h} \in Abstract!MayWrite(h)
        BY <1>1, <2>1, <3>1 DEF Abstract!MayWrite
      <3> QED
        BY <1>2, <1>5, <2>3, <3>2
    <2> QED
      BY <1>6, <2>2, <2>3 DEF CommitInitial
  <1>7. CASE Commit
    <2>1. kind[h] = "commit"
      BY <1>7 DEF Commit, Turn
    <2>2. CASE Return("failed")
      BY <1>2, <1>4, <2>2
    <2>3. CASE active # 0 /\ Persist(content \cup {h})
      <3>1. content # None
        BY <2>3, NoneIsNoContent DEF Inv, Draft
      <3>2. content \cup {h} \in Abstract!MayWrite(h)
        BY <1>1, <2>1, <3>1 DEF Abstract!MayWrite
      <3> QED
        BY <1>2, <1>5, <2>3, <3>2
    <2> QED
      BY <1>7, <2>2, <2>3 DEF Commit
  <1>8. CASE RollbackTo
    <2>1. kind[h] = "rollbackTo"
      BY <1>8 DEF RollbackTo, Turn
    <2>2. goal[h] \in Revisions
      BY <1>2, <2>1 DEF Inv, Queue
    <2>3. CASE active # 0 /\ Return("ok")
      BY <1>2, <1>4, <2>1, <2>3
    <2>4. CASE Return("failed")
      BY <1>2, <1>4, <2>4
    <2>5. CASE snapshot[goal[h]] # None /\ Persist(snapshot[goal[h]])
      <3>1. snapshot[goal[h]] \in {snapshot[r] : r \in Revisions} \ {None}
        BY <2>2, <2>5
      <3>2. snapshot[goal[h]] \in Abstract!MayWrite(h)
        BY <2>1, <3>1 DEF Abstract!MayWrite
      <3> QED
        BY <1>2, <1>5, <2>5, <3>2
    <2> QED
      BY <1>8, <2>3, <2>4, <2>5 DEF RollbackTo
  <1> QED
    BY <1>6, <1>7, <1>8 DEF QueueStep

\* The file operations of a write: a restart would find the old or the new.
LEMMA FileStepsWrite ==
    ASSUME Inv, Inv', pc \in Writing, pc' \in Writing,
           UNCHANGED fillVars,
           \/ snapshot' = snapshot /\ (pc' = "confirm" \/ pc' = "fill manifest")
           \/ snapshot' = [snapshot EXCEPT ![target] = draft]
           \/ snapshot' = [snapshot EXCEPT ![target] = None]
    PROVE  Abstract!Write
  <1>1. /\ active' = active /\ content' = content /\ draft' = draft /\ kind' = kind
        /\ reply' = reply /\ writerQueue' = writerQueue
        /\ pc \notin {"down", "idle"} /\ pc' \notin {"down", "idle"}
    BY DEF fillVars, activeVars, callVars, Writing
  <1>2. /\ target \in Revisions /\ target = active + 1 /\ active # target
        /\ Head(writerQueue) # 0
    <2>1. writerQueue # <<>>
      BY DEF Inv, Queue
    <2> QED
      BY <2>1, TargetExists, CallsAreNotZero DEF Inv
  <1>3. /\ manifest' \in ManifestType /\ snapshot' \in SnapshotType
        /\ active \in Revisions \cup {0} /\ snapshot \in SnapshotType
    BY DEF Inv, TypeOK, ManifestType, SnapshotType
  <1>4. Near(active, manifest', snapshot')
    BY <1>1 DEF Inv, Durable, Based
  <1>5. /\ (IF active = 0 THEN None ELSE snapshot'[active]) = content
        /\ snapshot'[target] \in {None, draft}
    <2>1. active # 0 => snapshot'[active] = snapshot[active]
      BY <1>2, <1>3 DEF SnapshotType
    <2>2. snapshot'[target] \in {None, draft}
      <3>1. CASE snapshot' = snapshot /\ (pc' = "confirm" \/ pc' = "fill manifest")
        <4>1. snapshot'[target'] = draft'
          BY <3>1 DEF Inv, Draft
        <4> QED
          BY <4>1, <1>1 DEF target
      <3>2. CASE snapshot' # snapshot
        BY <3>2, <1>2, <1>3 DEF SnapshotType
      <3>3. CASE snapshot' = [snapshot EXCEPT ![target] = draft]
        BY <3>3, <1>2, <1>3 DEF SnapshotType
      <3>4. CASE snapshot' = [snapshot EXCEPT ![target] = None]
        BY <3>4, <1>2, <1>3 DEF SnapshotType
      <3> QED
        BY <3>1, <3>2, <3>3, <3>4
    <2> QED
      BY <2>1, <2>2 DEF Inv, Draft
  <1>6. FoundContent' \in {content, draft}
    <2> DEFINE R == Recovered(manifest', snapshot')
    <2>1. /\ FoundContent' = (IF R = 0 THEN None ELSE snapshot'[R])
          /\ R = Recovered(manifest', snapshot')
      BY DEF FoundContent, Found
    <2> HIDE DEF R
    <2>2. /\ R \in {active, active + 1} /\ R \in Revisions \cup {0}
          /\ Near(R, manifest', snapshot')
      BY <1>3, <1>4, <2>1, RecoveredNear
    <2>3. CASE R = active
      BY <2>1, <2>3, <1>5
    <2>4. CASE R = target
      <3>1. R # 0 /\ snapshot'[R] # None
        BY <1>2, <2>2, <2>4, RevisionsAreNumbers DEF Near
      <3> QED
        BY <2>1, <2>4, <3>1, <1>5
    <2> QED
      BY <1>2, <2>2, <2>3, <2>4
  <1>7. {snapshot'[r] : r \in Revisions} \ {None} \subseteq
          ({snapshot[r] : r \in Revisions} \ {None}) \cup {draft}
    BY <1>2, <1>3, <1>5 DEF SnapshotType
  <1> QED
    BY <1>1, <1>2, <1>6, <1>7 DEF Abstract!Write

\* A write that fails leaves the value, and the files, as they are.
LEMMA FailGivesUp ==
    ASSUME Inv, Fail
    PROVE  Abstract!GiveUp
  <1>1. /\ pc \notin {"down", "idle"} /\ pc' = "idle" /\ draft' = None
        /\ reply' = [reply EXCEPT ![Head(writerQueue)] = "failed"]
        /\ UNCHANGED <<manifest, snapshot, content, kind>>
    BY DEF Fail, GiveUp, fileVars, activeVars, callVars
  <1>2. Head(writerQueue) # 0
    <2>1. pc \in Writing
      BY <1>1 DEF Inv, TypeOK, Writing
    <2>2. writerQueue # <<>>
      BY <2>1 DEF Inv, Queue
    <2> QED
      BY <2>2, TargetExists, CallsAreNotZero DEF Inv
  <1>3. FoundContent' = FoundContent
    BY <1>1 DEF FoundContent, Found
  <1> QED
    BY <1>1, <1>2, <1>3 DEF Abstract!GiveUp

\* A write that ends makes what it wrote the value, in memory and on disk.
LEMMA FinishSucceeds ==
    ASSUME Inv, Finish
    PROVE  Abstract!Succeed
  <1>1. /\ pc = "confirm" /\ pc' = "idle" /\ draft' = None /\ draft \in Contents
        /\ target \in Revisions /\ target = active + 1 /\ active \in Nat
        /\ content' = draft
        /\ reply' = [reply EXCEPT ![Head(writerQueue)] = "ok"]
        /\ UNCHANGED <<manifest, kind>>
        /\ snapshot' \in SnapshotType /\ snapshot'[target] = draft
        /\ \A r \in Revisions : snapshot'[r] \in {snapshot[r], None}
    BY FinishFacts DEF callVars
  <1>2. Head(writerQueue) # 0
    BY FinishFacts, TargetExists, CallsAreNotZero DEF Inv, Writing
  <1>3. /\ manifest \in ManifestType /\ snapshot \in SnapshotType
        /\ manifest[Slot(target)] = [activeRevision |-> target, checksum |-> draft]
        /\ Near(active, manifest, snapshot)
    BY <1>1 DEF Inv, TypeOK, ManifestType, SnapshotType, Draft, Durable, Based
  <1>4. Recovered(manifest, snapshot') = target
    <2> DEFINE V == Vouched(manifest, snapshot')
    <2>1. target \in V
      BY <1>1, <1>3, NoneIsNoContent, SlotsAlternate, RevisionsAreNumbers DEF Vouched
    <2>2. \A q \in V : q <= target
      BY <1>1, <1>3 DEF Vouched, Near
    <2>3. V \in SUBSET (Revisions \cup {0})
      BY DEF Vouched
    <2>4. Recovered(manifest, snapshot') = Newest(V)
      BY <2>1 DEF Recovered
    <2> HIDE DEF V
    <2> QED
      BY <2>1, <2>2, <2>3, <2>4, NewestIsGreatest
  <1>5. FoundContent' = draft
    BY <1>1, <1>4, RevisionsAreNumbers DEF FoundContent, Found
  <1>6. {snapshot'[r] : r \in Revisions} \ {None} \subseteq
          ({snapshot[r] : r \in Revisions} \ {None}) \cup {draft}
    BY <1>1
  <1> QED
    BY <1>1, <1>2, <1>5, <1>6 DEF Abstract!Succeed

\* A step that changes nothing changes nothing that the contract sees.
LEMMA StutterStutters ==
    ASSUME UNCHANGED vars
    PROVE  UNCHANGED Abstract!storeVars
  <1>1. /\ manifest' = manifest /\ snapshot' = snapshot /\ content' = content
        /\ pc' = pc /\ writerQueue' = writerQueue /\ draft' = draft
        /\ kind' = kind /\ reply' = reply
    BY DEF vars, fileVars, activeVars, callVars
  <1>2. FoundContent' = FoundContent
    BY <1>1 DEF FoundContent, Found
  <1> QED
    BY <1>1, <1>2 DEF Abstract!storeVars

\* The store, with its files, crashes and failing operations, behaves like one
\* durable value: a call answered "ok" has made exactly its change, and a restart
\* finds the value or the one write that was cut short or failed since.
THEOREM StoreRefines == Spec => ImplementsStore
  <1>1. Init => Abstract!StoreInit
    <2> SUFFICES ASSUME Init PROVE Abstract!StoreInit
      OBVIOUS
    <2>1. \A r \in Revisions : snapshot[r] = None
      BY DEF Init
    <2>2. Vouched(manifest, snapshot) = {} /\ Salvaged(manifest, snapshot) = {}
      BY <2>1 DEF Vouched, Salvaged
    <2>3. Found = 0
      BY <2>2 DEF Found, Recovered, Newest
    <2>4. FoundContent = None /\ {snapshot[r] : r \in Revisions} \ {None} = {}
      BY <2>1, <2>3 DEF FoundContent
    <2> QED
      BY <2>4 DEF Init, Abstract!StoreInit
  <1>2. Inv /\ Inv' /\ [Next]_vars => [Abstract!StoreNext]_(Abstract!storeVars)
    <2> SUFFICES ASSUME Inv, Inv', [Next]_vars
                 PROVE  Abstract!StoreNext \/ UNCHANGED Abstract!storeVars
      OBVIOUS
    <2>1. CASE Start
      BY <2>1, StartForgets DEF Abstract!StoreNext
    <2>2. CASE Crash
      BY <2>2, CrashRestarts DEF Abstract!StoreNext
    <2>3. ASSUME NEW c \in Calls, Enqueue(c) PROVE Abstract!StoreNext
      BY <2>3, EnqueueAsks DEF Abstract!StoreNext
    <2>4. CASE QueueStep
      BY <2>4, TurnBeginsOrDeclines DEF Abstract!StoreNext
    <2>5. CASE WriteSnapshot \/ TruncateSnapshot \/ WriteManifest \/ TruncateManifest
      <3>1. Abstract!Write
        BY <2>5, FileStepsWrite
        DEF WriteSnapshot, TruncateSnapshot, WriteManifest, TruncateManifest, Writing
      <3> QED
        BY <3>1 DEF Abstract!StoreNext
    <2>6. CASE Fail
      BY <2>6, FailGivesUp DEF Abstract!StoreNext
    <2>7. CASE Finish
      BY <2>7, FinishSucceeds DEF Abstract!StoreNext
    <2>8. CASE UNCHANGED vars
      BY <2>8, StutterStutters
    <2> QED
      BY <2>1, <2>2, <2>3, <2>4, <2>5, <2>6, <2>7, <2>8 DEF Next, PersistStep
  <1> QED
    BY <1>1, <1>2, InvHolds, PTL DEF Spec, ImplementsStore, Abstract!Store

================================================================================
