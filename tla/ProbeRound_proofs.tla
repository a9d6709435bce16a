--------------------------- MODULE ProbeRound_proofs ---------------------------
(***************************************************************************)
(* Proofs about ProbeRound, for any number of nodes, any chains, any       *)
(* concurrency and any budgets.                                            *)
(***************************************************************************)
EXTENDS ProbeRound, FiniteSetTheorems, TLAPS

(***************************************************************************)
(* Sequences and queues of sequences.                                      *)
(***************************************************************************)

First(s, n) == {s[i] : i \in 1..n}
Members(s) == First(s, Len(s))
AllOf(q) == UNION {Members(q[i]) : i \in 1..Len(q)}

\* Any two elements of k come, in their order, from the first n of s.
InOrder(k, s, n) ==
    \A i, j \in 1..Len(k) : i < j =>
        \E a, b \in 1..n : a < b /\ k[i] = s[a] /\ k[j] = s[b]

Distinct(s) == \A i, j \in 1..Len(s) : s[i] = s[j] => i = j
Batch == {s \in Seq(Nodes) : s # <<>> /\ Distinct(s)}

\* The batches of a queue are apart from each other.
Apart(q) == \A i, j \in 1..Len(q) : i # j => Members(q[i]) \cap Members(q[j]) = {}

\* A set of naturals with an element has a smallest one.
LEMMA SmallestExists ==
    ASSUME NEW T \in SUBSET Nat, T # {}
    PROVE  \E m \in T : \A k \in T : m <= k
  <1>1. PICK m \in T : \A k \in T : ~ (<<k, m>> \in OpToRel(<, Nat))
    BY NatLessThanWellFounded, WFMin
  <1>2. \A k \in T : ~(k < m)
    BY <1>1 DEF OpToRel
  <1> QED
    BY <1>2

\* The prefixes that Kept builds exist: its recursion defines a function.
LEMMA KeptIsDefined ==
    ASSUME NEW T, NEW s \in Seq(T), NEW S
    PROVE  Kept(s, S) = [i \in 0..Len(s) |->
               IF i = 0 THEN <<>>
               ELSE IF s[i] \in S THEN Kept(s, S)[i - 1]
               ELSE Append(Kept(s, S)[i - 1], s[i])]
  <1> DEFINE Next1(g, i) == IF i = 0 THEN <<>>
                            ELSE IF s[i] \in S THEN g[i - 1]
                            ELSE Append(g[i - 1], s[i])
             P(n) == \E g : g = [i \in 0..n |-> Next1(g, i)]
             Bad == {n \in 0..Len(s) : ~P(n)}
  <1>1. Bad = {}
    <2> SUFFICES ASSUME Bad # {} PROVE FALSE
      OBVIOUS
    <2>1. Len(s) \in Nat /\ Bad \in SUBSET Nat
      OBVIOUS
    <2>2. PICK m \in Bad : \A k \in Bad : m <= k
      <3> HIDE DEF Bad
      <3> QED
        BY <2>1, SmallestExists
    <2>3. m \in 0..Len(s) /\ ~P(m)
      OBVIOUS
    <2>4. CASE m = 0
      <3> DEFINE g == [i \in 0..0 |-> <<>>]
      <3>1. g = [i \in 0..0 |-> Next1(g, i)]
        OBVIOUS
      <3> QED
        BY <2>3, <2>4, <3>1
    <2>5. CASE m # 0
      <3>1. m - 1 \in 0..Len(s) /\ ~(m <= m - 1)
        BY <2>1, <2>3, <2>5
      <3>2. P(m - 1)
        BY <2>2, <3>1
      <3>3. PICK g : g = [i \in 0..(m - 1) |-> Next1(g, i)]
        BY <3>2
      <3> DEFINE h == [i \in 0..m |-> Next1(g, i)]
      <3>4. \A i \in 0..(m - 1) : h[i] = g[i]
        <4>1. \A i \in 0..(m - 1) : i \in 0..m
          BY <2>1, <2>3
        <4>2. \A i \in 0..(m - 1) : h[i] = Next1(g, i)
          BY <4>1
        <4>3. \A i \in 0..(m - 1) : g[i] = Next1(g, i)
          BY <3>3
        <4> QED
          BY <4>2, <4>3
      <3>5. \A i \in 0..m : Next1(g, i) = Next1(h, i)
        <4> SUFFICES ASSUME NEW i \in 0..m, i # 0 PROVE g[i - 1] = h[i - 1]
          OBVIOUS
        <4>1. i - 1 \in 0..(m - 1)
          BY <2>1, <2>3
        <4> QED
          BY <3>4, <4>1
      <3> HIDE DEF Next1
      <3>6. h = [i \in 0..m |-> Next1(h, i)]
        BY <3>5
      <3> QED
        BY <2>3, <3>6
    <2> QED
      BY <2>4, <2>5
  <1>2. P(Len(s))
    <2>1. Len(s) \in 0..Len(s)
      OBVIOUS
    <2> HIDE DEF P
    <2> QED
      BY <1>1, <2>1
  <1> QED
    BY <1>2 DEF Kept

\* What Kept has kept of the first n elements: those outside S, in their order.
LEMMA KeptPrefixes ==
    ASSUME NEW T, NEW s \in Seq(T), NEW S, NEW e \in 0..Len(s), NEW k, k = Kept(s, S)[e]
    PROVE  /\ k \in Seq(T)
           /\ Members(k) = First(s, e) \ S
           /\ InOrder(k, s, e)
  <1> DEFINE K == Kept(s, S)
             P(n) == /\ K[n] \in Seq(T)
                     /\ Members(K[n]) = First(s, n) \ S
                     /\ InOrder(K[n], s, n)
             Bad == {n \in 0..Len(s) : ~P(n)}
  <1>1. SUFFICES Bad = {}
    <2>1. ASSUME Bad = {} PROVE P(e)
      BY <2>1
    <2> QED
      BY <2>1
  <1>2. SUFFICES ASSUME Bad # {} PROVE FALSE
    OBVIOUS
  <1>3. Len(s) \in Nat /\ Bad \in SUBSET Nat
    OBVIOUS
  <1>4. PICK m \in Bad : \A n \in Bad : m <= n
    <2> HIDE DEF Bad
    <2> QED
      BY <1>2, <1>3, SmallestExists
  <1>5. m \in 0..Len(s) /\ ~P(m)
    OBVIOUS
  <1>6. \A i \in 0..Len(s) : K[i] = IF i = 0 THEN <<>>
                                    ELSE IF s[i] \in S THEN K[i - 1]
                                    ELSE Append(K[i - 1], s[i])
    <2>1. K = [i \in 0..Len(s) |-> IF i = 0 THEN <<>>
                                   ELSE IF s[i] \in S THEN K[i - 1]
                                   ELSE Append(K[i - 1], s[i])]
      BY KeptIsDefined
    <2> HIDE DEF K
    <2> QED
      BY <2>1
  <1>7. CASE m = 0
    <2>1. K[m] = <<>>
      BY <1>5, <1>6, <1>7
    <2>2. P(m)
      BY <1>7, <2>1 DEF Members, First, InOrder
    <2> QED
      BY <1>5, <2>2
  <1>8. CASE m # 0
    <2>1. /\ m - 1 \in 0..Len(s) /\ ~(m <= m - 1) /\ m \in 1..Len(s) /\ s[m] \in T
          /\ K[m] = IF s[m] \in S THEN K[m - 1] ELSE Append(K[m - 1], s[m])
      BY <1>3, <1>5, <1>6, <1>8
    <2>2. P(m - 1)
      BY <1>4, <2>1
    <2>3. 1..m = 1..(m - 1) \cup {m} /\ First(s, m) = First(s, m - 1) \cup {s[m]}
      <3>1. 1..m = 1..(m - 1) \cup {m}
        BY <2>1
      <3> QED
        BY <3>1 DEF First
    <2> HIDE DEF K
    <2>4. CASE s[m] \in S
      <3>1. K[m] = K[m - 1]
        BY <2>1, <2>4
      <3>2. Members(K[m]) = First(s, m) \ S
        BY <2>2, <2>3, <2>4, <3>1
      <3>3. P(m)
        BY <2>2, <2>3, <3>1, <3>2 DEF InOrder
      <3> QED
        BY <1>5, <3>3
    <2>5. CASE s[m] \notin S
      <3> DEFINE p == K[m - 1]
      <3>1. /\ K[m] = Append(p, s[m]) /\ p \in Seq(T) /\ K[m] \in Seq(T)
            /\ Len(K[m]) = Len(p) + 1 /\ Len(p) \in Nat
            /\ K[m][Len(p) + 1] = s[m]
            /\ \A i \in 1..Len(p) : K[m][i] = p[i]
        BY <2>1, <2>2, <2>5
      <3>2. /\ Members(p) = First(s, m - 1) \ S
            /\ InOrder(p, s, m - 1)
        BY <2>2
      <3> HIDE DEF p, P
      <3>3. Members(K[m]) = Members(p) \cup {s[m]}
        BY <3>1 DEF Members, First
      <3>4. Members(K[m]) = First(s, m) \ S
        BY <2>3, <2>5, <3>2, <3>3
      <3>5. ASSUME NEW i \in 1..Len(K[m]), NEW j \in 1..Len(K[m]), i < j
            PROVE  \E a, b \in 1..m : a < b /\ K[m][i] = s[a] /\ K[m][j] = s[b]
        <4>1. i \in 1..Len(p) /\ K[m][i] = p[i]
          BY <3>1, <3>5
        <4>2. CASE j \in 1..Len(p)
          <5>1. PICK a \in 1..(m - 1), b \in 1..(m - 1) : a < b /\ p[i] = s[a] /\ p[j] = s[b]
            BY <3>2, <3>5, <4>1, <4>2 DEF InOrder
          <5> QED
            BY <2>3, <3>1, <4>1, <4>2, <5>1
        <4>3. CASE j = Len(p) + 1
          <5>1. p[i] \in Members(p)
            BY <4>1 DEF Members, First
          <5>2. PICK a \in 1..(m - 1) : p[i] = s[a]
            BY <3>2, <5>1 DEF First
          <5>3. a \in 1..m /\ m \in 1..m /\ a < m
            BY <2>1
          <5> QED
            BY <3>1, <4>1, <4>3, <5>2, <5>3
        <4>4. j \in 1..Len(p) \/ j = Len(p) + 1
          BY <3>1
        <4> QED
          BY <4>2, <4>3, <4>4
      <3>6. P(m)
        BY <3>1, <3>4, <3>5 DEF P, InOrder
      <3> QED
        BY <1>5, <3>6
    <2> QED
      BY <2>4, <2>5
  <1> QED
    BY <1>7, <1>8

\* Sift keeps the elements outside S, in their order.
LEMMA SiftKeeps ==
    ASSUME NEW T, NEW s \in Seq(T), NEW S
    PROVE  /\ Sift(s, S) \in Seq(T)
           /\ Members(Sift(s, S)) = Members(s) \ S
           /\ InOrder(Sift(s, S), s, Len(s))
  <1> DEFINE k == Kept(s, S)[Len(s)]
  <1>1. Len(s) \in 0..Len(s)
    OBVIOUS
  <1>2. /\ k \in Seq(T)
        /\ Members(k) = First(s, Len(s)) \ S
        /\ InOrder(k, s, Len(s))
    <2> HIDE DEF k
    <2> QED
      BY <1>1, KeptPrefixes DEF k
  <1>3. Sift(s, S) = k /\ Members(s) = First(s, Len(s))
    BY DEF Sift, Members
  <1> HIDE DEF k
  <1> QED
    BY <1>2, <1>3

\* A batch without the nodes of ids is a batch, or empty.
LEMMA SiftedBatch ==
    ASSUME NEW s \in Seq(Nodes), Distinct(s), NEW ids
    PROVE  /\ Sift(s, ids) \in Seq(Nodes) /\ Distinct(Sift(s, ids))
           /\ Members(Sift(s, ids)) = Members(s) \ ids
  <1> DEFINE k == Sift(s, ids)
  <1>1. /\ k \in Seq(Nodes) /\ Members(k) = Members(s) \ ids
        /\ InOrder(k, s, Len(s))
    BY SiftKeeps
  <1> HIDE DEF k
  <1>2. ASSUME NEW i \in 1..Len(k), NEW j \in 1..Len(k), i < j PROVE k[i] # k[j]
    <2>1. PICK a \in 1..Len(s), b \in 1..Len(s) : a < b /\ k[i] = s[a] /\ k[j] = s[b]
      BY <1>1, <1>2 DEF InOrder
    <2>2. a # b
      BY <1>2, <2>1
    <2> QED
      BY <2>1, <2>2 DEF Distinct
  <1>3. Distinct(k)
    <2> SUFFICES ASSUME NEW i \in 1..Len(k), NEW j \in 1..Len(k), k[i] = k[j], i # j
                 PROVE  FALSE
      BY DEF Distinct
    <2>1. i < j \/ j < i
      BY <1>1
    <2> QED
      BY <1>2, <2>1
  <1> QED
    BY <1>1, <1>3 DEF k

\* A sequence is empty if and only if it has no members.
LEMMA NoMembers ==
    ASSUME NEW T, NEW s \in Seq(T)
    PROVE  s = <<>> <=> Members(s) = {}
  <1>1. s # <<>> => 1 \in 1..Len(s)
    OBVIOUS
  <1> QED
    BY <1>1 DEF Members, First

\* removeFromQueue: the batches that are left are apart, and hold the nodes that
\* are left.
LEMMA WithoutKeeps ==
    ASSUME NEW q \in Seq(Batch), Apart(q), NEW ids
    PROVE  /\ Without(q, ids) \in Seq(Batch) /\ Apart(Without(q, ids))
           /\ AllOf(Without(q, ids)) = AllOf(q) \ ids
  <1> DEFINE r == [i \in 1..Len(q) |-> Sift(q[i], ids)]
             w == Sift(r, {<<>>})
             Any == {s \in Seq(Nodes) : Distinct(s)}
  <1>1. ASSUME NEW i \in 1..Len(q)
        PROVE  r[i] \in Any /\ Members(r[i]) = Members(q[i]) \ ids
    <2>1. q[i] \in Seq(Nodes) /\ Distinct(q[i])
      BY DEF Batch
    <2> QED
      BY <2>1, SiftedBatch
  <1>2. r \in Seq(Any) /\ Len(r) = Len(q)
    <2>1. \A i \in 1..Len(q) : r[i] \in Any
      BY <1>1
    <2> HIDE DEF Any
    <2>2. r \in [1..Len(q) -> Any]
      BY <2>1
    <2> QED
      BY <2>2
  <1> HIDE DEF r
  <1>3. /\ w \in Seq(Any) /\ Members(w) = Members(r) \ {<<>>}
        /\ InOrder(w, r, Len(r))
    <2> HIDE DEF Any
    <2> QED
      BY <1>2, SiftKeeps
  <1>4. Without(q, ids) = w
    BY DEF Without, r
  <1> HIDE DEF w
  <1>5. \A i \in 1..Len(w) : w[i] \in Batch
    <2> SUFFICES ASSUME NEW i \in 1..Len(w) PROVE w[i] \in Batch
      OBVIOUS
    <2>1. w[i] \in Members(w) /\ w[i] \in Any
      BY <1>3 DEF Members, First
    <2> QED
      BY <1>3, <2>1 DEF Batch
  <1>6. w \in Seq(Batch)
    <2> HIDE DEF Any
    <2> QED
      BY <1>3, <1>5
  <1>7. ASSUME NEW i \in 1..Len(w), NEW j \in 1..Len(w), i < j
        PROVE  Members(w[i]) \cap Members(w[j]) = {}
    <2>1. PICK a \in 1..Len(q), b \in 1..Len(q) : a < b /\ w[i] = r[a] /\ w[j] = r[b]
      BY <1>2, <1>3, <1>7 DEF InOrder
    <2>2. a # b
      BY <2>1
    <2>3. Members(q[a]) \cap Members(q[b]) = {}
      BY <2>2 DEF Apart
    <2> QED
      BY <1>1, <2>1, <2>3
  <1>8. Apart(w)
    <2> SUFFICES ASSUME NEW i \in 1..Len(w), NEW j \in 1..Len(w), i # j
                 PROVE  Members(w[i]) \cap Members(w[j]) = {}
      BY DEF Apart
    <2>1. i < j \/ j < i
      BY <1>6
    <2> QED
      BY <1>7, <2>1
  <1>9. AllOf(w) = AllOf(q) \ ids
    <2>1. ASSUME NEW n \in AllOf(w) PROVE n \in AllOf(q) \ ids
      <3>1. PICK i \in 1..Len(w) : n \in Members(w[i])
        BY DEF AllOf
      <3>2. w[i] \in Members(r)
        BY <1>3 DEF Members, First
      <3>3. PICK a \in 1..Len(q) : w[i] = r[a]
        BY <1>2, <3>2 DEF Members, First
      <3> QED
        BY <1>1, <3>1, <3>3 DEF AllOf
    <2>2. ASSUME NEW n \in AllOf(q), n \notin ids PROVE n \in AllOf(w)
      <3>1. PICK a \in 1..Len(q) : n \in Members(q[a])
        BY DEF AllOf
      <3>2. n \in Members(r[a])
        BY <1>1, <2>2, <3>1
      <3>3. r[a] \in Members(r) /\ r[a] # <<>>
        BY <1>2, <3>2 DEF Members, First
      <3>4. r[a] \in Members(w)
        BY <1>3, <3>3
      <3>5. PICK i \in 1..Len(w) : w[i] = r[a]
        BY <3>4 DEF Members, First
      <3> QED
        BY <3>2, <3>5 DEF AllOf
    <2> QED
      BY <2>1, <2>2
  <1> QED
    BY <1>4, <1>6, <1>8, <1>9

\* The nodes of a queue are finitely many.
LEMMA NodesFinite ==
    /\ IsFiniteSet(Nodes) /\ Cardinality(Nodes) = NodeCount
    /\ \A X \in SUBSET Nodes : IsFiniteSet(X) /\ Cardinality(X) \in 0..NodeCount
  <1>1. IsFiniteSet(Nodes) /\ Cardinality(Nodes) = NodeCount
    <2>1. 1 \in Int /\ NodeCount \in Int /\ 1 <= NodeCount
      BY ProbeAssumption
    <2> QED
      BY <2>1, FS_Interval DEF Nodes
  <1>2. ASSUME NEW X \in SUBSET Nodes
        PROVE  IsFiniteSet(X) /\ Cardinality(X) \in 0..NodeCount
    BY <1>1, FS_Subset, FS_CardinalityType, ProbeAssumption
  <1> QED
    BY <1>1, <1>2

LEMMA SizeGrows ==
    ASSUME NEW X \in SUBSET Nodes, NEW Y \in SUBSET X
    PROVE  /\ Cardinality(X) \in Nat /\ Cardinality(Y) \in Nat
           /\ Cardinality(Y) <= Cardinality(X)
           /\ X # Y => Cardinality(Y) + 1 <= Cardinality(X)
  <1>1. IsFiniteSet(X)
    BY NodesFinite
  <1>2. /\ Cardinality(X) \in Nat /\ Cardinality(Y) \in Nat
        /\ Cardinality(Y) <= Cardinality(X)
        /\ Cardinality(Y) = Cardinality(X) => Y = X
    BY <1>1, FS_Subset, FS_CardinalityType
  <1> QED
    BY <1>2

\* A batch leaves the queue only with a node of its own that is removed.
LEMMA WithoutIsLong ==
    ASSUME NEW q \in Seq(Batch), Apart(q), NEW ids
    PROVE  Len(q) <= Len(Without(q, ids)) + Cardinality(AllOf(q) \cap ids)
  <1> DEFINE r == [i \in 1..Len(q) |-> Sift(q[i], ids)]
             K == Kept(r, {<<>>})
             Gone(n) == ids \cap UNION {Members(q[j]) : j \in 1..n}
             P(n) == n <= Len(K[n]) + Cardinality(Gone(n))
             Bad == {n \in 0..Len(q) : ~P(n)}
  <1>1. \A i \in 1..Len(q) : /\ r[i] \in Seq(Nodes) /\ Members(r[i]) = Members(q[i]) \ ids
                             /\ q[i] \in Seq(Nodes) /\ q[i] # <<>>
                             /\ Members(q[i]) \subseteq Nodes
    <2> SUFFICES ASSUME NEW i \in 1..Len(q)
                 PROVE  /\ r[i] \in Seq(Nodes) /\ Members(r[i]) = Members(q[i]) \ ids
                        /\ q[i] \in Seq(Nodes) /\ q[i] # <<>>
                        /\ Members(q[i]) \subseteq Nodes
      OBVIOUS
    <2>1. q[i] \in Seq(Nodes) /\ Distinct(q[i]) /\ q[i] # <<>>
      BY DEF Batch
    <2>2. Members(q[i]) \subseteq Nodes
      BY <2>1 DEF Members, First
    <2> QED
      BY <2>1, <2>2, SiftedBatch
  <1>2. r \in Seq(Seq(Nodes)) /\ Len(r) = Len(q) /\ Len(q) \in Nat
    <2>1. r \in [1..Len(q) -> Seq(Nodes)]
      BY <1>1
    <2> QED
      BY <2>1
  <1>3. Without(q, ids) = K[Len(q)]
    BY <1>2 DEF Without, Sift
  <1> HIDE DEF r
  <1>4. K = [i \in 0..Len(q) |->
               IF i = 0 THEN <<>>
               ELSE IF r[i] \in {<<>>} THEN K[i - 1] ELSE Append(K[i - 1], r[i])]
    <2>1. Kept(r, {<<>>}) = [i \in 0..Len(r) |->
               IF i = 0 THEN <<>>
               ELSE IF r[i] \in {<<>>} THEN Kept(r, {<<>>})[i - 1]
               ELSE Append(Kept(r, {<<>>})[i - 1], r[i])]
      BY <1>2, KeptIsDefined
    <2> QED
      BY <1>2, <2>1
  <1>5. \A n \in 0..Len(q) : K[n] \in Seq(Seq(Nodes))
    <2> SUFFICES ASSUME NEW n \in 0..Len(q) PROVE K[n] \in Seq(Seq(Nodes))
      OBVIOUS
    <2> HIDE DEF K
    <2> QED
      BY <1>2, KeptPrefixes DEF K
  <1> HIDE DEF K
  <1>6. \A n \in 0..Len(q) : Gone(n) \in SUBSET Nodes
    BY <1>1
  <1>7. Gone(Len(q)) = AllOf(q) \cap ids
    BY DEF AllOf
  <1>8. Bad = {}
    <2> SUFFICES ASSUME Bad # {} PROVE FALSE
      OBVIOUS
    <2>1. Bad \in SUBSET Nat
      BY <1>2
    <2>2. PICK m \in Bad : \A n \in Bad : m <= n
      <3> HIDE DEF Bad
      <3> QED
        BY <2>1, SmallestExists
    <2>3. m \in 0..Len(q) /\ ~P(m)
      OBVIOUS
    <2>4. CASE m = 0
      <3>1. Cardinality(Gone(m)) \in Nat /\ Len(K[m]) \in Nat
        <4>1. Gone(m) \in SUBSET Nodes
          BY <1>6, <2>3
        <4> HIDE DEF Gone
        <4> QED
          BY <1>5, <2>3, <4>1, SizeGrows
      <3> QED
        BY <2>3, <2>4, <3>1
    <2>5. CASE m # 0
      <3>1. m - 1 \in 0..Len(q) /\ ~(m <= m - 1) /\ m \in 1..Len(q) /\ m \in Nat
        BY <1>2, <2>3, <2>5
      <3>2. P(m - 1)
        BY <2>2, <3>1
      <3>3. 1..m = 1..(m - 1) \cup {m}
        BY <3>1
      <3>4. Gone(m - 1) \subseteq Gone(m) /\ Gone(m) \in SUBSET Nodes
        BY <1>6, <2>3, <3>3
      <3>5. /\ K[m] = IF r[m] = <<>> THEN K[m - 1] ELSE Append(K[m - 1], r[m])
            /\ K[m - 1] \in Seq(Seq(Nodes)) /\ r[m] \in Seq(Nodes)
        BY <1>1, <1>4, <1>5, <2>3, <2>5, <3>1
      <3>6. CASE r[m] = <<>>
        <4>1. q[m][1] \in Members(q[m])
          <5>1. 1 \in 1..Len(q[m])
            BY <1>1, <3>1
          <5> QED
            BY <5>1 DEF Members, First
        <4>2. Members(q[m]) \subseteq ids
          <5>1. Members(r[m]) = {}
            BY <3>5, <3>6, NoMembers
          <5> QED
            BY <1>1, <3>1, <5>1
        <4>3. q[m][1] \in Gone(m)
          BY <4>1, <4>2, <3>1
        <4>4. q[m][1] \notin Gone(m - 1)
          <5>1. \A j \in 1..(m - 1) : j \in 1..Len(q) /\ j # m
            BY <1>2, <3>1
          <5>2. \A j \in 1..(m - 1) : Members(q[j]) \cap Members(q[m]) = {}
            BY <3>1, <5>1 DEF Apart
          <5> QED
            BY <4>1, <5>2
        <4>5. Gone(m) # Gone(m - 1)
          BY <4>3, <4>4
        <4> HIDE DEF Gone
        <4>6. /\ Cardinality(Gone(m - 1)) + 1 <= Cardinality(Gone(m))
              /\ Cardinality(Gone(m)) \in Nat /\ Cardinality(Gone(m - 1)) \in Nat
          BY <3>4, <4>5, SizeGrows
        <4> QED
          BY <2>3, <3>1, <3>2, <3>5, <3>6, <4>6
      <3>7. CASE r[m] # <<>>
        <4> HIDE DEF Gone
        <4>1. /\ Cardinality(Gone(m - 1)) <= Cardinality(Gone(m))
              /\ Cardinality(Gone(m)) \in Nat /\ Cardinality(Gone(m - 1)) \in Nat
          BY <3>4, SizeGrows
        <4>2. Len(K[m]) = Len(K[m - 1]) + 1 /\ Len(K[m - 1]) \in Nat
          BY <3>5, <3>7
        <4> QED
          BY <2>3, <3>1, <3>2, <4>1, <4>2
      <3> QED
        BY <3>6, <3>7
    <2> QED
      BY <2>4, <2>5
  <1>9. P(Len(q))
    <2>1. Len(q) \in 0..Len(q)
      BY <1>2
    <2> HIDE DEF P
    <2> QED
      BY <1>8, <2>1
  <1> QED
    BY <1>3, <1>7, <1>9

\* There are no more batches than nodes in them.
LEMMA NoMoreBatches ==
    ASSUME NEW q \in Seq(Batch), Apart(q)
    PROVE  Len(q) <= Cardinality(AllOf(q))
  <1> DEFINE w == Without(q, AllOf(q))
  <1>1. w \in Seq(Batch) /\ AllOf(w) = {}
    BY WithoutKeeps
  <1>2. Len(q) <= Len(w) + Cardinality(AllOf(q) \cap AllOf(q))
    BY WithoutIsLong
  <1> HIDE DEF w
  <1>3. Len(w) = 0
    <2> SUFFICES ASSUME Len(w) # 0 PROVE FALSE
      OBVIOUS
    <2>1. 1 \in 1..Len(w) /\ w[1] \in Batch
      BY <1>1
    <2>2. Members(w[1]) # {}
      BY <2>1, NoMembers DEF Batch
    <2> QED
      BY <1>1, <2>1, <2>2 DEF AllOf
  <1>4. Cardinality(AllOf(q) \cap AllOf(q)) = Cardinality(AllOf(q))
    <2>1. AllOf(q) \cap AllOf(q) = AllOf(q)
      OBVIOUS
    <2> QED
      BY <2>1
  <1>5. AllOf(q) \in SUBSET Nodes
    BY DEF AllOf, Batch, Members, First
  <1>6. Cardinality(AllOf(q)) \in Nat
    BY <1>5, NodesFinite
  <1> QED
    BY <1>2, <1>3, <1>4, <1>6

\* The head of a queue, and what follows it.
LEMMA HeadAndTail ==
    ASSUME NEW q \in Seq(Batch), Apart(q), q # <<>>
    PROVE  /\ Head(q) \in Batch /\ Tail(q) \in Seq(Batch) /\ Apart(Tail(q))
           /\ Len(q) = Len(Tail(q)) + 1 /\ Len(Tail(q)) \in Nat
           /\ AllOf(q) = AllOf(Tail(q)) \cup Members(Head(q))
           /\ Members(Head(q)) \cap AllOf(Tail(q)) = {}
  <1> DEFINE t == Tail(q)
  <1>1. /\ Head(q) = q[1] /\ t \in Seq(Batch) /\ Len(q) = Len(t) + 1 /\ Len(t) \in Nat
        /\ \A i \in 1..Len(t) : t[i] = q[i + 1] /\ i + 1 \in 1..Len(q)
        /\ 1 \in 1..Len(q) /\ q[1] \in Batch
    OBVIOUS
  <1>2. \A i \in 1..Len(q) : i = 1 \/ (i - 1 \in 1..Len(t) /\ q[i] = t[i - 1])
    BY <1>1
  <1> HIDE DEF t
  <1>3. Apart(t)
    <2> SUFFICES ASSUME NEW i \in 1..Len(t), NEW j \in 1..Len(t), i # j
                 PROVE  Members(t[i]) \cap Members(t[j]) = {}
      BY DEF Apart
    <2>1. i + 1 # j + 1
      BY <1>1
    <2> QED
      BY <1>1, <2>1 DEF Apart
  <1>4. AllOf(q) = AllOf(t) \cup Members(q[1])
    <2>1. ASSUME NEW n \in AllOf(q) PROVE n \in AllOf(t) \cup Members(q[1])
      <3>1. PICK i \in 1..Len(q) : n \in Members(q[i])
        BY DEF AllOf
      <3> QED
        BY <1>2, <3>1 DEF AllOf
    <2>2. AllOf(t) \subseteq AllOf(q)
      BY <1>1 DEF AllOf
    <2>3. Members(q[1]) \subseteq AllOf(q)
      BY <1>1 DEF AllOf
    <2> QED
      BY <2>1, <2>2, <2>3
  <1>5. Members(q[1]) \cap AllOf(t) = {}
    <2> SUFFICES ASSUME NEW i \in 1..Len(t) PROVE Members(q[1]) \cap Members(t[i]) = {}
      BY DEF AllOf
    <2>1. i + 1 # 1
      BY <1>1
    <2> QED
      BY <1>1, <2>1 DEF Apart
  <1> QED
    BY <1>1, <1>3, <1>4, <1>5 DEF t

\* A batch that is split goes back to the queue whole, as two batches.
LEMMA SplitKeeps ==
    ASSUME NEW b \in Batch, Len(b) > 1
    PROVE  \E x, y \in Batch : /\ Split(b) = <<x, y>>
                               /\ Members(b) = Members(x) \cup Members(y)
                               /\ Members(x) \cap Members(y) = {}
  <1> DEFINE h == Half(b)
             x == SubSeq(b, 1, h)
             y == SubSeq(b, h + 1, Len(b))
  <1>1. b \in Seq(Nodes) /\ Distinct(b) /\ Len(b) \in Nat
    BY DEF Batch
  <1>2. h \in 1..Len(b) /\ Len(b) - h \in Nat \ {0} /\ h \in Nat
    BY <1>1 DEF Half
  <1> HIDE DEF h
  <1>3. /\ x \in Seq(Nodes) /\ Len(x) = h
        /\ \A i \in 1..h : x[i] = b[i] /\ i \in 1..Len(b)
    BY <1>1, <1>2
  <1>4. /\ y \in Seq(Nodes) /\ Len(y) = Len(b) - h
        /\ \A i \in 1..(Len(b) - h) : y[i] = b[i + h] /\ i + h \in 1..Len(b)
    BY <1>1, <1>2
  <1>5. Split(b) = <<x, y>>
    BY DEF Split, h
  <1> HIDE DEF x, y
  <1>6. x \in Batch
    BY <1>1, <1>2, <1>3 DEF Batch, Distinct
  <1>7. y \in Batch
    <2> SUFFICES ASSUME NEW i \in 1..Len(y), NEW j \in 1..Len(y), y[i] = y[j]
                 PROVE  i = j
      BY <1>2, <1>4 DEF Batch, Distinct
    <2>1. i + h = j + h
      BY <1>1, <1>4 DEF Distinct
    <2> QED
      BY <1>2, <1>4, <2>1
  <1>8. Members(b) = Members(x) \cup Members(y)
    <2>1. ASSUME NEW i \in 1..Len(b) PROVE b[i] \in Members(x) \cup Members(y)
      <3>1. CASE i <= h
        <4>1. i \in 1..h
          BY <1>1, <3>1
        <4> QED
          BY <1>3, <4>1 DEF Members, First
      <3>2. CASE i > h
        <4>1. i - h \in 1..Len(y) /\ (i - h) + h = i
          BY <1>1, <1>2, <1>4, <3>2
        <4> QED
          BY <1>4, <4>1 DEF Members, First
      <3> QED
        BY <1>2, <3>1, <3>2
    <2>2. Members(x) \subseteq Members(b)
      BY <1>3 DEF Members, First
    <2>3. ASSUME NEW i \in 1..Len(y) PROVE y[i] \in Members(b)
      <3>1. y[i] = b[i + h] /\ i + h \in 1..Len(b)
        BY <1>4
      <3> QED
        BY <3>1 DEF Members, First
    <2> QED
      BY <2>1, <2>2, <2>3 DEF Members, First
  <1>9. Members(x) \cap Members(y) = {}
    <2> SUFFICES ASSUME NEW i \in 1..Len(x), NEW j \in 1..Len(y), x[i] = y[j]
                 PROVE  FALSE
      BY DEF Members, First
    <2>1. i = j + h
      BY <1>1, <1>3, <1>4 DEF Distinct
    <2> QED
      BY <1>2, <1>3, <1>4, <2>1
  <1> QED
    BY <1>5, <1>6, <1>7, <1>8, <1>9

LEMMA SplitQueue ==
    ASSUME NEW b \in Batch, Len(b) > 1, NEW q \in Seq(Batch), Apart(q),
           Members(b) \cap AllOf(q) = {}
    PROVE  /\ Split(b) \o q \in Seq(Batch) /\ Apart(Split(b) \o q)
           /\ AllOf(Split(b) \o q) = AllOf(q) \cup Members(b)
           /\ Len(Split(b) \o q) = Len(q) + 2
  <1>1. PICK x \in Batch, y \in Batch : /\ Split(b) = <<x, y>>
                                        /\ Members(b) = Members(x) \cup Members(y)
                                        /\ Members(x) \cap Members(y) = {}
    BY SplitKeeps
  <1> DEFINE r == <<x, y>> \o q
  <1>2. /\ r \in Seq(Batch) /\ Len(r) = Len(q) + 2 /\ Len(q) \in Nat
        /\ r[1] = x /\ r[2] = y
        /\ \A i \in 1..Len(q) : r[i + 2] = q[i] /\ i + 2 \in 1..Len(r)
    OBVIOUS
  <1>3. \A i \in 1..Len(r) : i = 1 \/ i = 2 \/ (i - 2 \in 1..Len(q) /\ r[i] = q[i - 2])
    BY <1>2
  <1> HIDE DEF r
  <1>4. \A i \in 1..Len(q) : Members(q[i]) \cap Members(x) = {}
                             /\ Members(q[i]) \cap Members(y) = {}
    BY <1>1 DEF AllOf
  <1>5. ASSUME NEW i \in 1..Len(r), NEW j \in 1..Len(r), i < j
        PROVE  Members(r[i]) \cap Members(r[j]) = {}
    <2>1. CASE i = 1 /\ j = 2
      BY <1>1, <1>2, <2>1
    <2>2. CASE i \in {1, 2} /\ j > 2
      <3>1. j - 2 \in 1..Len(q) /\ r[j] = q[j - 2]
        BY <1>2, <1>3, <2>2
      <3> QED
        BY <1>2, <1>4, <2>2, <3>1
    <2>3. CASE i > 2 /\ j > 2
      <3>1. /\ i - 2 \in 1..Len(q) /\ j - 2 \in 1..Len(q) /\ i - 2 # j - 2
            /\ r[i] = q[i - 2] /\ r[j] = q[j - 2]
        BY <1>2, <1>3, <1>5, <2>3
      <3> QED
        BY <3>1 DEF Apart
    <2> QED
      BY <1>2, <1>5, <2>1, <2>2, <2>3
  <1>6. Apart(r)
    <2> SUFFICES ASSUME NEW i \in 1..Len(r), NEW j \in 1..Len(r), i # j
                 PROVE  Members(r[i]) \cap Members(r[j]) = {}
      BY DEF Apart
    <2>1. i < j \/ j < i
      BY <1>2
    <2> QED
      BY <1>5, <2>1
  <1>7. AllOf(r) = AllOf(q) \cup Members(b)
    <2>1. ASSUME NEW n \in AllOf(r) PROVE n \in AllOf(q) \cup Members(b)
      <3>1. PICK i \in 1..Len(r) : n \in Members(r[i])
        BY DEF AllOf
      <3> QED
        BY <1>1, <1>2, <1>3, <3>1 DEF AllOf
    <2>2. AllOf(q) \subseteq AllOf(r)
      BY <1>2 DEF AllOf
    <2>3. 1 \in 1..Len(r) /\ 2 \in 1..Len(r)
      BY <1>2
    <2>4. Members(b) \subseteq AllOf(r)
      BY <1>1, <1>2, <2>3 DEF AllOf
    <2> QED
      BY <2>1, <2>2, <2>4
  <1> QED
    BY <1>1, <1>2, <1>6, <1>7 DEF r

\* A batch of one is its node.
LEMMA BatchOfOne ==
    ASSUME NEW b \in Batch
    PROVE  /\ Len(b) \in Nat \ {0} /\ Members(b) \in SUBSET Nodes /\ Members(b) # {}
           /\ Len(b) = 1 => Members(b) = {b[1]} /\ b[1] \in Nodes
           /\ Len(b) <= NodeCount
  <1>1. b \in Seq(Nodes) /\ b # <<>> /\ Len(b) \in Nat \ {0} /\ Distinct(b)
    BY DEF Batch
  <1>2. Members(b) \in SUBSET Nodes /\ Members(b) # {}
    BY <1>1, NoMembers DEF Members, First
  <1>3. Len(b) = 1 => Members(b) = {b[1]} /\ b[1] \in Nodes
    BY <1>1 DEF Members, First
  <1>4. Len(b) <= NodeCount
    <2> SUFFICES ASSUME NodeCount < Len(b) PROVE FALSE
      BY <1>1, ProbeAssumption
    <2>1. b \in [1..Len(b) -> Nodes]
      BY <1>1
    <2>2. IsFiniteSet(1..Len(b)) /\ Cardinality(1..Len(b)) = Len(b)
      BY <1>1, FS_Interval
    <2>3. \E i, j \in 1..Len(b) : i # j /\ b[i] = b[j]
      <3>1. Cardinality(Nodes) < Cardinality(1..Len(b))
        BY <2>2, NodesFinite
      <3> QED
        BY <2>1, <2>2, <3>1, NodesFinite, FS_PigeonHole
    <2> QED
      BY <1>1, <2>3 DEF Distinct
  <1> QED
    BY <1>1, <1>2, <1>3, <1>4

(***************************************************************************)
(* The invariant, in layers:                                               *)
(*   Shape     the batches of a round are apart from each other            *)
(*   Session   where the session of the batch at work may be live          *)
(*   Blame     why a start was refused                                     *)
(*   Starts    what the batches of the queue may cost                      *)
(*   Cursor    where the workers of a batch begin                          *)
(*   Coverage  who still owes each node its result                         *)
(***************************************************************************)

BatchPlaces == {"starting", "probing", "stop", "stopping", "info"}
RoundPlaces == {"prepare", "clean", "stale", "head"}
Over == {"save", "idle"}

\* The batches hold each node once, and so does the batch at work.
Shape ==
    /\ queue \in Seq(Batch) /\ Apart(queue)
    /\ pc \in BatchPlaces => batch \in Batch /\ Members(batch) \cap AllOf(queue) = {}

\* The batches that are left cost at most the starts that are left: one each, and
\* two for every node but the last of its batch.
Starts ==
    /\ pc \in RoundPlaces =>
          startsUsed + 2 * Cardinality(AllOf(queue)) <= Budget + Len(queue)
    /\ pc \in BatchPlaces =>
          startsUsed + 2 * Cardinality(AllOf(queue) \cup Members(batch))
              <= Budget + Len(queue) + 2
    /\ pc \in RoundPlaces \cup BatchPlaces => reason = "none"
    /\ reason = "budget" => limit < Budget

\* While its own session may be live the runner is at its batch, or the round has
\* said that it does not know.  A stop that answered "ok" found nothing to stop.
Session ==
    /\ phase = "done" => pc \in Over
    /\ pc \in RoundPlaces => ~LiveOwn
    /\ pc = "stopping" /\ stopReply = "ok" => ~LiveOwn
    /\ pc \in Over /\ reason # "unconfirmed" => ~LiveOwn

\* A session that is live while another is asked for was there before the first
\* batch, and the cleanup did not list it.
Blame ==
    /\ pc \in BatchPlaces \cup {"head"} /\ live # "none" /\ ~own => leftover
    /\ pc = "starting" /\ startReply = "refused" => leftover
    /\ pc \in BatchPlaces \ {"starting"} /\ outcome = "refused" => leftover

\* The batch at work has to bring a result for the node.
AtWork(n) ==
    \/ pc = "starting" /\ n \in Members(batch)
    \/ pc = "probing" /\ (n \in inflight \/ \E k \in next..Len(batch) : n = batch[k])
    \/ pc \in {"stop", "stopping", "info"} /\ outcome # "ok" /\ n \in Members(batch)

\* A node has its result, or somebody still works for it.
Owed(n) ==
    \/ result[n] \in {"success", "failed", "isolated"}
    \/ result[n] \in {"queued", "running"} /\ (n \in AllOf(queue) \/ AtWork(n))

\* The cursor of the workers starts at the head of the batch.
Cursor ==
    /\ pc = "starting" => next = 1
    /\ pc = "probing" => outcome = "ok"

\* A round that nobody cancels has a result for each node, or somebody still
\* works for it; so one that ends without a reason has a result for each.
Coverage ==
    /\ pc \in Over => phase \in {"idle", "done"}
    /\ ~cancelled /\ pc \notin Over => \A n \in Nodes : Owed(n)
    /\ phase = "done" /\ reason = "none" /\ ~cancelled => \A n \in Nodes :
          result[n] \in {"success", "failed", "isolated", "unsaved"}

Inv == TypeOK /\ Shape /\ Session /\ Blame /\ Starts /\ Cursor /\ Coverage

(***************************************************************************)
(* What the steps do to the queue.                                         *)
(***************************************************************************)

\* The first batch holds every node.
LEMMA BeginSays ==
    ASSUME Begin
    PROVE  /\ queue' \in Seq(Batch) /\ Apart(queue') /\ AllOf(queue') = Nodes
           /\ Len(queue') = 1 /\ pc = "idle" /\ pc' = "prepare" /\ startsUsed' = 0
           /\ reason' = "none" /\ batch' = <<>>
           /\ \E m \in StartLimits : limit' = IF m > 0 THEN m ELSE Budget
  <1> DEFINE b == [n \in Nodes |-> n]
  <1>1. /\ queue' = <<b>> /\ pc = "idle" /\ pc' = "prepare" /\ startsUsed' = 0
        /\ reason' = "none" /\ batch' = <<>>
        /\ \E m \in StartLimits : limit' = IF m > 0 THEN m ELSE Budget
    BY DEF Begin
  <1>2. b \in Seq(Nodes) /\ Len(b) = NodeCount /\ \A n \in Nodes : b[n] = n
    BY ProbeAssumption DEF Nodes
  <1>3. b # <<>> /\ Distinct(b) /\ Members(b) = Nodes
    BY <1>2, ProbeAssumption DEF Distinct, Members, First, Nodes
  <1> HIDE DEF b
  <1>4. b \in Batch
    BY <1>2, <1>3 DEF Batch
  <1>5. /\ <<b>> \in Seq(Batch) /\ Len(<<b>>) = 1 /\ \A i \in 1..1 : <<b>>[i] = b
    BY <1>4
  <1>6. Apart(<<b>>) /\ AllOf(<<b>>) = Nodes
    BY <1>3, <1>5 DEF Apart, AllOf
  <1> QED
    BY <1>1, <1>5, <1>6

\* The batch that is started is the head of the queue.
LEMMA StartBatchSays ==
    ASSUME Shape, StartBatch
    PROVE  /\ pc = "head" /\ pc' = "starting" /\ batch' \in Batch
           /\ queue' \in Seq(Batch) /\ Apart(queue')
           /\ Len(queue) = Len(queue') + 1 /\ Len(queue') \in Nat
           /\ AllOf(queue) = AllOf(queue') \cup Members(batch')
           /\ Members(batch') \cap AllOf(queue') = {}
           /\ startsUsed' = startsUsed + 1 /\ startsUsed < limit
           /\ UNCHANGED <<limit, reason, result, cancelled, phase>>
  <1>1. queue # <<>> /\ queue \in Seq(Batch) /\ Apart(queue)
        /\ batch' = Head(queue) /\ queue' = Tail(queue)
    BY DEF Shape, StartBatch, MayGoOn
  <1>2. /\ pc = "head" /\ pc' = "starting"
        /\ startsUsed' = startsUsed + 1 /\ startsUsed < limit
        /\ UNCHANGED <<limit, reason, result, cancelled, phase>>
    BY DEF StartBatch, MayGoOn, coordVars
  <1> QED
    BY <1>1, <1>2, HeadAndTail

LEMMA OneOrMore ==
    ASSUME NEW n \in Nat \ {0}
    PROVE  (n = 1 /\ ~(n > 1)) \/ (n > 1 /\ ~(n = 1))
  OBVIOUS

\* What is decided on a batch whose session is gone.
LEMMA ConfirmedSays ==
    ASSUME Shape, Confirmed
    PROVE  /\ pc \in {"stopping", "info"} /\ pc' = "head"
           /\ ~(pc = "stopping" /\ stopReply # "ok") /\ (pc = "info" => ~LiveOwn)
           /\ queue' \in Seq(Batch) /\ Apart(queue')
           /\ \/ /\ outcome = "ok"
                 /\ queue' = queue /\ result' = result
              \/ /\ outcome # "ok"
                 /\ AllOf(queue') = AllOf(queue) \cup Members(batch)
                 /\ Len(queue') = Len(queue) + 2
                 /\ result' = result
              \/ /\ outcome # "ok"
                 /\ batch[1] \in Nodes /\ Members(batch) = {batch[1]}
                 /\ AllOf(queue') = AllOf(queue) \ Affected(batch[1])
                 /\ Len(queue) <= Len(queue')
                                  + Cardinality(AllOf(queue) \cap Affected(batch[1]))
                 /\ result' = [m \in Nodes |->
                        IF m \in Affected(batch[1]) /\ Accepted(result[m])
                        THEN "isolated" ELSE result[m]]
  <1>1. /\ pc \in {"stopping", "info"} /\ pc' = "head"
        /\ ~(pc = "stopping" /\ stopReply # "ok") /\ (pc = "info" => ~LiveOwn)
    BY DEF Confirmed, Await
  <1>2. /\ batch \in Batch /\ Members(batch) \cap AllOf(queue) = {}
        /\ queue \in Seq(Batch) /\ Apart(queue)
    BY <1>1 DEF Shape, BatchPlaces
  <1>3. Len(batch) \in Nat \ {0}
    BY <1>2, BatchOfOne
  <1>4. CASE outcome = "ok"
    <2>1. queue' = queue /\ result' = result
      BY <1>4 DEF Confirmed, Decide
    <2> QED
      BY <1>1, <1>2, <1>4, <2>1
  <1>5. CASE outcome # "ok" /\ Len(batch) > 1
    <2>1. Len(batch) # 1
      BY <1>3, <1>5, OneOrMore, Zenon
    <2>2. Decide
      BY DEF Confirmed
    <2>3. queue' = Split(batch) \o queue /\ result' = result
      BY <1>5, <2>1, <2>2, Zenon DEF Decide
    <2> QED
      BY <1>1, <1>2, <1>5, <2>3, SplitQueue
  <1>6. CASE outcome # "ok" /\ Len(batch) = 1
    <2>1. Isolate(batch[1])
      BY <1>6 DEF Confirmed, Decide
    <2>2. queue' = Without(queue, Affected(batch[1]))
      BY <2>1 DEF Isolate
    <2>3. result' = [m \in Nodes |->
                        IF m \in Affected(batch[1]) /\ Accepted(result[m])
                        THEN "isolated" ELSE result[m]]
      BY <2>1 DEF Isolate
    <2>4. batch[1] \in Nodes /\ Members(batch) = {batch[1]}
      BY <1>2, <1>6, BatchOfOne
    <2> QED
      BY <1>1, <1>2, <1>6, <2>2, <2>3, <2>4, WithoutKeeps, WithoutIsLong
  <1> QED
    BY <1>3, <1>4, <1>5, <1>6, OneOrMore, Zenon

\* The steps that end a round.
Ends == pc' = "save" /\ queue' = <<>> /\ phase' = "done" /\ pc \notin Over

\* Every other step leaves the queue and the batch, and the starts, as they are.
LEMMA QueueCases ==
    ASSUME Inv, [Next]_vars
    PROVE  \/ Begin \/ StartBatch \/ Confirmed
           \/ /\ Ends
              /\ UNCHANGED <<startsUsed, limit, batch>>
              /\ reason' = "budget" => BudgetUsed
           \/ /\ UNCHANGED <<queue, batch, startsUsed, limit, reason>>
              /\ pc \in BatchPlaces <=> pc' \in BatchPlaces
              /\ pc \in RoundPlaces <=> pc' \in RoundPlaces
  <1> USE DEF BatchPlaces, RoundPlaces, Over, Await, coordVars, batchVars, kernelVars,
        AttemptFrame, ConfirmedFrame, Ends
  <1>1. CASE Begin \/ Ask \/ Cancel
    BY <1>1 DEF Ask, Cancel
  <1>2. CASE \/ PrepareCancelled \/ HeadCancelled \/ NoEnvironment \/ NoConfig
             \/ StaleUnconfirmed \/ Unconfirmed \/ AllProbed \/ BudgetUsed
    BY <1>2 DEF PrepareCancelled, HeadCancelled, NoEnvironment, NoConfig, StaleUnconfirmed,
       Unconfirmed, AllProbed, BudgetUsed, FinishCancelled, MayGoOn, Finish
  <1>3. CASE Prepare \/ StopStale \/ NoneStale \/ StaleStopped
    BY <1>3 DEF Prepare, StopStale, NoneStale, StaleStopped
  <1>4. CASE Started \/ NotStarted \/ Take \/ BatchProbed \/ StopBatch \/ StopUnsure
    BY <1>4 DEF Started, NotStarted, Take, BatchProbed, StopBatch, StopUnsure
  <1>5. ASSUME NEW n \in Nodes, EndProbe(n) PROVE UNCHANGED <<queue, batch, startsUsed, limit, reason, pc>>
    BY <1>5 DEF EndProbe
  <1>6. CASE Save \/ Created \/ Closed \/ UNCHANGED vars
    BY <1>6 DEF Save, Created, Closed, vars
  <1> QED
    BY <1>1, <1>2, <1>3, <1>4, <1>5, <1>6 DEF Next, RunnerStep

(***************************************************************************)
(* Shape and types.                                                        *)
(***************************************************************************)

LEMMA ShapeStep ==
    ASSUME Inv, [Next]_vars
    PROVE  Shape'
  <1> USE DEF BatchPlaces, RoundPlaces, Over
  <1>1. Shape
    BY DEF Inv
  <1>2. CASE Begin
    BY <1>2, BeginSays DEF Shape
  <1>3. CASE StartBatch
    BY <1>1, <1>3, StartBatchSays DEF Shape
  <1>4. CASE Confirmed
    BY <1>1, <1>4, ConfirmedSays DEF Shape
  <1>5. CASE Ends
    BY <1>5 DEF Ends, Shape, Apart
  <1>6. CASE UNCHANGED <<queue, batch>> /\ (pc \in BatchPlaces <=> pc' \in BatchPlaces)
    BY <1>1, <1>6 DEF Shape, Apart, AllOf
  <1> QED
    BY <1>2, <1>3, <1>4, <1>5, <1>6, QueueCases

LEMMA BudgetIsEnough == Budget \in Nat /\ Budget = 2 * NodeCount - 1 /\ NodeCount \in Nat
  BY ProbeAssumption DEF Budget

\* The starts of a round stay within its limit.
LEMMA LimitStep ==
    ASSUME Inv, [Next]_vars
    PROVE  limit' \in Nat /\ startsUsed' \in 0..limit'
  <1>1. limit \in Nat /\ startsUsed \in 0..limit /\ Shape
    BY DEF Inv, TypeOK
  <1>2. CASE Begin
    <2>1. PICK m \in StartLimits : limit' = IF m > 0 THEN m ELSE Budget
      BY <1>2, BeginSays
    <2>2. m \in Nat
      BY ProbeAssumption
    <2>3. startsUsed' = 0
      BY <1>2, BeginSays
    <2> QED
      BY <2>1, <2>2, <2>3, BudgetIsEnough
  <1>3. CASE StartBatch
    BY <1>1, <1>3, StartBatchSays
  <1>4. CASE Confirmed
    BY <1>1, <1>4 DEF Confirmed, ConfirmedFrame
  <1>5. CASE UNCHANGED <<startsUsed, limit>>
    BY <1>1, <1>5
  <1> QED
    BY <1>2, <1>3, <1>4, <1>5, QueueCases

\* The cursor of the workers stays within the batch.
LEMMA TakeSays ==
    ASSUME Inv, Take
    PROVE  /\ next \in 1..Len(batch) /\ Len(batch) \in 1..NodeCount /\ batch[next] \in Nodes
           /\ next' = next + 1 /\ inflight' = inflight \cup {batch[next]}
           /\ result' = [result EXCEPT ![batch[next]] = IF @ = "queued" THEN "running" ELSE @]
  <1>1. batch \in Batch /\ next \in 1..(NodeCount + 1)
    BY DEF Inv, TypeOK, Shape, Take, BatchPlaces
  <1>2. Len(batch) \in Nat \ {0} /\ Len(batch) <= NodeCount /\ batch \in Seq(Nodes)
    BY <1>1, BatchOfOne DEF Batch
  <1>3. next <= Len(batch)
    BY DEF Take
  <1>4. next \in 1..Len(batch) /\ Len(batch) \in 1..NodeCount
    BY <1>1, <1>2, <1>3, BudgetIsEnough
  <1> QED
    BY <1>2, <1>4 DEF Take

LEMMA ResultStep ==
    ASSUME Inv, [Next]_vars
    PROVE  result' \in [Nodes -> Ended \cup {"none", "queued", "running", "unsaved"}]
  <1> USE DEF Ended, coordVars, batchVars, kernelVars, AttemptFrame
  <1>1. result \in [Nodes -> Ended \cup {"none", "queued", "running", "unsaved"}] /\ Shape
    BY DEF Inv, TypeOK
  <1>2. CASE Begin
    BY <1>2 DEF Begin
  <1>3. CASE \/ PrepareCancelled \/ HeadCancelled \/ NoEnvironment \/ NoConfig
             \/ StaleUnconfirmed \/ Unconfirmed \/ AllProbed \/ BudgetUsed
    BY <1>1, <1>3 DEF PrepareCancelled, HeadCancelled, NoEnvironment, NoConfig,
       StaleUnconfirmed, Unconfirmed, AllProbed, BudgetUsed, FinishCancelled, Finish,
       NotApplicable
  <1>4. CASE Take
    BY <1>1, <1>4, TakeSays
  <1>5. ASSUME NEW n \in Nodes, EndProbe(n)
        PROVE  result' \in [Nodes -> Ended \cup {"none", "queued", "running", "unsaved"}]
    BY <1>1, <1>5 DEF EndProbe
  <1>6. CASE BatchProbed \/ Cancel
    BY <1>1, <1>6 DEF BatchProbed, Cancel, CancelQueued
  <1>7. CASE Confirmed
    BY <1>1, <1>7, ConfirmedSays
  <1>8. CASE Save
    BY <1>1, <1>8 DEF Save
  <1>9. CASE \/ Ask \/ Prepare \/ StopStale \/ NoneStale \/ StaleStopped \/ StartBatch
             \/ Started \/ NotStarted \/ StopBatch \/ StopUnsure \/ Created \/ Closed
             \/ UNCHANGED vars
    BY <1>1, <1>9 DEF Ask, Prepare, StopStale, NoneStale, StaleStopped, StartBatch, Started,
       NotStarted, StopBatch, StopUnsure, Created, Closed, vars
  <1> QED
    BY <1>2, <1>3, <1>4, <1>5, <1>6, <1>7, <1>8, <1>9 DEF Next, RunnerStep

LEMMA NextStep ==
    ASSUME Inv, [Next]_vars
    PROVE  next' \in 1..(NodeCount + 1) /\ inflight' \subseteq Nodes
  <1> USE DEF coordVars, batchVars, kernelVars, AttemptFrame
  <1>1. next \in 1..(NodeCount + 1) /\ inflight \subseteq Nodes
    BY DEF Inv, TypeOK
  <1>2. CASE Begin \/ StartBatch
    BY <1>2, BudgetIsEnough DEF Begin, StartBatch
  <1>3. CASE Take
    <2>1. next \in 1..Len(batch) /\ Len(batch) \in 1..NodeCount /\ next' = next + 1
      BY <1>3, TakeSays
    <2>2. next' \in 1..(NodeCount + 1)
      BY <2>1, <1>1, BudgetIsEnough
    <2> QED
      BY <1>1, <1>3, <2>2, TakeSays
  <1>4. ASSUME NEW n \in Nodes, EndProbe(n)
        PROVE  next' \in 1..(NodeCount + 1) /\ inflight' \subseteq Nodes
    BY <1>1, <1>4 DEF EndProbe
  <1>5. CASE \/ PrepareCancelled \/ HeadCancelled \/ NoEnvironment \/ NoConfig
             \/ StaleUnconfirmed \/ Unconfirmed \/ AllProbed \/ BudgetUsed
    BY <1>1, <1>5 DEF PrepareCancelled, HeadCancelled, NoEnvironment, NoConfig,
       StaleUnconfirmed, Unconfirmed, AllProbed, BudgetUsed, FinishCancelled, Finish
  <1>6. CASE \/ Ask \/ Cancel \/ Prepare \/ StopStale \/ NoneStale \/ StaleStopped
             \/ Started \/ NotStarted \/ BatchProbed \/ StopBatch \/ StopUnsure \/ Confirmed
             \/ Save \/ Created \/ Closed \/ UNCHANGED vars
    BY <1>1, <1>6 DEF Ask, Cancel, Prepare, StopStale, NoneStale, StaleStopped, Started,
       NotStarted, BatchProbed, StopBatch, StopUnsure, Confirmed, ConfirmedFrame, Save,
       Created, Closed, vars
  <1> QED
    BY <1>2, <1>3, <1>4, <1>5, <1>6 DEF Next, RunnerStep

\* The control state.
ControlType ==
    /\ rounds \in 0..MaxRounds
    /\ phase \in {"idle", "running", "cancelling", "done"}
    /\ asked \in BOOLEAN /\ cancelled \in BOOLEAN
    /\ pc \in {"idle", "prepare", "clean", "stale", "head", "starting", "probing",
               "stop", "stopping", "info", "save"}
    /\ outcome \in {"ok", "refused", "failed", "timeout"}
    /\ reason \in {"none", "cancelled", "environment", "unconfirmed", "budget"}
    /\ live \in {"none", "starting", "active", "stopping"}
    /\ own \in BOOLEAN /\ leftover \in BOOLEAN
    /\ startReply \in {"none", "ok", "refused", "failed"}
    /\ stopReply \in {"none", "ok", "failed"}

LEMMA ControlStep ==
    ASSUME Inv, [Next]_vars
    PROVE  ControlType'
  <1> USE DEF Await, coordVars, batchVars, kernelVars, AttemptFrame, ControlType
  <1>1. ControlType
    BY DEF Inv, TypeOK
  <1>2. CASE Begin
    <2>1. /\ rounds < MaxRounds /\ rounds' = rounds + 1
          /\ phase' = "running" /\ asked' = FALSE /\ cancelled' = FALSE
          /\ pc' = "prepare" /\ outcome' = "ok" /\ reason' = "none"
          /\ own' = FALSE /\ leftover' = FALSE
          /\ UNCHANGED <<live, startReply, stopReply>>
      BY <1>2 DEF Begin
    <2>2. rounds' \in 0..MaxRounds
      BY <1>1, <2>1, ProbeAssumption
    <2> QED
      BY <1>1, <2>1, <2>2
  <1>3. CASE \/ PrepareCancelled \/ HeadCancelled \/ NoEnvironment \/ NoConfig
             \/ StaleUnconfirmed \/ Unconfirmed \/ AllProbed \/ BudgetUsed
    BY <1>1, <1>3 DEF PrepareCancelled, HeadCancelled, NoEnvironment, NoConfig,
       StaleUnconfirmed, Unconfirmed, AllProbed, BudgetUsed, FinishCancelled, Finish
  <1>4. CASE Ask \/ Cancel
    BY <1>1, <1>4 DEF Ask, Cancel, CancelQueued
  <1>5. CASE NoneStale
    <2>1. leftover' = TRUE \/ leftover' = FALSE
      BY <1>5, Zenon DEF NoneStale
    <2> QED
      BY <1>1, <1>5, <2>1 DEF NoneStale
  <1>6. CASE Prepare \/ StopStale \/ StaleStopped \/ StartBatch
    BY <1>1, <1>6 DEF Prepare, StopStale, StaleStopped, StartBatch
  <1>7. CASE Started \/ NotStarted \/ Take \/ BatchProbed
    BY <1>1, <1>7 DEF Started, NotStarted, Take, BatchProbed, CancelQueued
  <1>8. ASSUME NEW n \in Nodes, EndProbe(n) PROVE ControlType'
    BY <1>1, <1>8 DEF EndProbe
  <1>9. CASE StopBatch \/ StopUnsure
    BY <1>1, <1>9 DEF StopBatch, StopUnsure
  <1>10. CASE Confirmed
    BY <1>1, <1>10 DEF Confirmed, ConfirmedFrame
  <1>11. CASE Save \/ Created \/ Closed
    BY <1>1, <1>11 DEF Save, Created, Closed
  <1>12. CASE UNCHANGED vars
    BY <1>1, <1>12 DEF vars
  <1> QED
    BY <1>2, <1>3, <1>4, <1>5, <1>6, <1>7, <1>8, <1>9, <1>10, <1>11, <1>12
    DEF Next, RunnerStep

LEMMA TypeStep ==
    ASSUME Inv, [Next]_vars
    PROVE  TypeOK'
  <1>1. queue' \in Seq(Seq(Nodes))
    <2>1. queue' \in Seq(Batch)
      BY ShapeStep DEF Shape
    <2> QED
      BY <2>1 DEF Batch
  <1>2. batch' \in Seq(Nodes)
    <2>1. batch \in Seq(Nodes) /\ Shape
      BY DEF Inv, TypeOK
    <2>2. CASE Begin
      BY <2>2, BeginSays
    <2>3. CASE StartBatch
      BY <2>1, <2>3, StartBatchSays DEF Batch
    <2>4. CASE UNCHANGED batch
      BY <2>1, <2>4
    <2>5. Confirmed => UNCHANGED batch
      BY DEF Confirmed, ConfirmedFrame
    <2> QED
      BY <2>2, <2>3, <2>4, <2>5, QueueCases
  <1>3. ControlType'
    BY ControlStep
  <1> QED
    BY <1>1, <1>2, <1>3, NextStep, LimitStep, ResultStep DEF TypeOK, ControlType

(***************************************************************************)
(* The sessions of the kernel.                                             *)
(***************************************************************************)

LEMMA SessionStep ==
    ASSUME Inv, [Next]_vars
    PROVE  Session'
  <1> USE DEF Session, LiveOwn, BatchPlaces, RoundPlaces, Over, Await, coordVars, batchVars,
        kernelVars, AttemptFrame
  <1>1. Session /\ ControlType
    BY DEF Inv, TypeOK, ControlType
  <1>2. CASE Begin
    BY <1>1, <1>2 DEF Begin
  <1>3. CASE \/ PrepareCancelled \/ HeadCancelled \/ NoEnvironment \/ NoConfig
             \/ StaleUnconfirmed \/ Unconfirmed \/ AllProbed \/ BudgetUsed
    BY <1>1, <1>3 DEF PrepareCancelled, HeadCancelled, NoEnvironment, NoConfig,
       StaleUnconfirmed, Unconfirmed, AllProbed, BudgetUsed, FinishCancelled, Finish, MayGoOn
  <1>4. CASE Ask
    BY <1>1, <1>4 DEF Ask
  <1>5. CASE Cancel
    BY <1>1, <1>5 DEF Cancel, CancelQueued
  <1>6. CASE Prepare \/ StopStale \/ NoneStale \/ StaleStopped
    BY <1>1, <1>6 DEF Prepare, StopStale, NoneStale, StaleStopped
  <1>7. CASE StartBatch
    BY <1>1, <1>7 DEF StartBatch, MayGoOn
  <1>8. CASE Started \/ NotStarted \/ Take
    BY <1>1, <1>8 DEF Started, NotStarted, Take
  <1>9. CASE BatchProbed
    BY <1>1, <1>9 DEF BatchProbed, CancelQueued
  <1>10. ASSUME NEW n \in Nodes, EndProbe(n) PROVE Session'
    BY <1>1, <1>10 DEF EndProbe
  <1>11. CASE StopBatch \/ StopUnsure
    BY <1>1, <1>11 DEF StopBatch, StopUnsure
  <1>12. CASE Confirmed
    BY <1>1, <1>12 DEF Confirmed, ConfirmedFrame
  <1>13. CASE Save \/ UNCHANGED vars
    BY <1>1, <1>13 DEF Save, vars
  <1>14. CASE Created \/ Closed
    BY <1>1, <1>14 DEF Created, Closed
  <1> QED
    BY <1>2, <1>3, <1>4, <1>5, <1>6, <1>7, <1>8, <1>9, <1>10, <1>11, <1>12, <1>13, <1>14
    DEF Next, RunnerStep

LEMMA BlameStep ==
    ASSUME Inv, [Next]_vars
    PROVE  Blame'
  <1> USE DEF Session, Blame, LiveOwn, BatchPlaces, RoundPlaces, Over, Await, coordVars,
        batchVars, kernelVars, AttemptFrame
  <1>1. Session /\ Blame /\ ControlType
    BY DEF Inv, TypeOK, ControlType
  <1>2. CASE Begin
    BY <1>1, <1>2 DEF Begin
  <1>3. CASE \/ PrepareCancelled \/ HeadCancelled \/ NoEnvironment \/ NoConfig
             \/ StaleUnconfirmed \/ Unconfirmed \/ AllProbed \/ BudgetUsed
    BY <1>1, <1>3 DEF PrepareCancelled, HeadCancelled, NoEnvironment, NoConfig,
       StaleUnconfirmed, Unconfirmed, AllProbed, BudgetUsed, FinishCancelled, Finish, MayGoOn
  <1>4. CASE Ask
    BY <1>1, <1>4 DEF Ask
  <1>5. CASE Cancel
    BY <1>1, <1>5 DEF Cancel, CancelQueued
  <1>6. CASE NoneStale
    <2>1. live # "none" => leftover'
      BY <1>6, Zenon DEF NoneStale
    <2>2. pc' = "head" /\ UNCHANGED <<live, own>>
      BY <1>6 DEF NoneStale
    <2> QED
      BY <2>1, <2>2
  <1>7. CASE Prepare \/ StopStale \/ StaleStopped
    BY <1>1, <1>7 DEF Prepare, StopStale, StaleStopped
  <1>8. CASE StartBatch
    BY <1>1, <1>8 DEF StartBatch, MayGoOn
  <1>9. CASE Started \/ NotStarted \/ Take
    BY <1>1, <1>9 DEF Started, NotStarted, Take
  <1>10. CASE BatchProbed
    BY <1>1, <1>10 DEF BatchProbed, CancelQueued
  <1>11. ASSUME NEW n \in Nodes, EndProbe(n) PROVE Blame'
    BY <1>1, <1>11 DEF EndProbe
  <1>12. CASE StopBatch \/ StopUnsure
    BY <1>1, <1>12 DEF StopBatch, StopUnsure
  <1>13. CASE Confirmed
    BY <1>1, <1>13 DEF Confirmed, ConfirmedFrame
  <1>14. CASE Save \/ UNCHANGED vars
    BY <1>1, <1>14 DEF Save, vars
  <1>15. CASE Created \/ Closed
    BY <1>1, <1>15 DEF Created, Closed
  <1> QED
    BY <1>2, <1>3, <1>4, <1>5, <1>6, <1>7, <1>8, <1>9, <1>10, <1>11, <1>12, <1>13, <1>14,
       <1>15 DEF Next, RunnerStep

(***************************************************************************)
(* The starts a round is left with.                                        *)
(***************************************************************************)

\* Sizes of sets of nodes.
LEMMA SizesAdd ==
    ASSUME NEW X \in SUBSET Nodes, NEW Y
    PROVE  /\ Cardinality(X) \in Nat /\ Cardinality(X \ Y) \in Nat
           /\ Cardinality(X \cap Y) \in Nat
           /\ Cardinality(X) = Cardinality(X \ Y) + Cardinality(X \cap Y)
  <1> DEFINE D == X \ Y
             I == X \cap Y
  <1>1. /\ IsFiniteSet(D) /\ IsFiniteSet(I)
        /\ Cardinality(X) \in Nat /\ Cardinality(D) \in Nat /\ Cardinality(I) \in Nat
    BY NodesFinite
  <1>2. D \cup I = X /\ D \cap I = {}
    OBVIOUS
  <1> HIDE DEF D, I
  <1>3. /\ Cardinality(D \cup I) = Cardinality(D) + Cardinality(I) - Cardinality(D \cap I)
        /\ Cardinality({}) = 0
    BY <1>1, FS_Union, FS_EmptySet
  <1>4. Cardinality(X) = Cardinality(D) + Cardinality(I)
    <2>1. Cardinality(X) = Cardinality(D) + Cardinality(I) - 0
      BY <1>2, <1>3
    <2> QED
      BY <1>1, <2>1
  <1> QED
    BY <1>1, <1>4 DEF D, I

\* A queue of the round.
LEMMA QueueSizes ==
    ASSUME NEW q \in Seq(Batch), Apart(q)
    PROVE  /\ AllOf(q) \in SUBSET Nodes /\ Cardinality(AllOf(q)) \in Nat
           /\ Len(q) \in Nat /\ Len(q) <= Cardinality(AllOf(q))
  <1>1. AllOf(q) \in SUBSET Nodes
    <2>1. \A i \in 1..Len(q) : q[i] \in Batch
      OBVIOUS
    <2>2. \A i \in 1..Len(q) : Members(q[i]) \in SUBSET Nodes
      BY <2>1, BatchOfOne
    <2> QED
      BY <2>2 DEF AllOf
  <1> QED
    BY <1>1, NodesFinite, NoMoreBatches

LEMMA CostOfConfirmed ==
    ASSUME Inv, Confirmed
    PROVE  startsUsed + 2 * Cardinality(AllOf(queue')) <= Budget + Len(queue')
  <1> DEFINE A == AllOf(queue)
             U == AllOf(queue) \cup Members(batch)
             A2 == AllOf(queue')
             s == startsUsed  L == Len(queue)  L2 == Len(queue')
  <1>1. Shape /\ pc \in BatchPlaces
    BY ConfirmedSays DEF Inv, BatchPlaces
  <1>2. /\ queue \in Seq(Batch) /\ Apart(queue) /\ batch \in Batch
        /\ Members(batch) \cap A = {}
        /\ queue' \in Seq(Batch) /\ Apart(queue')
    BY <1>1, ConfirmedSays DEF Shape
  <1>3. /\ A \in SUBSET Nodes /\ A2 \in SUBSET Nodes
        /\ L \in Nat /\ L2 \in Nat
    BY <1>2, QueueSizes
  <1>4. Members(batch) \in SUBSET Nodes /\ Members(batch) # {}
    BY <1>2, BatchOfOne
  <1>5. U \in SUBSET Nodes /\ A \in SUBSET U /\ A # U
    BY <1>2, <1>3, <1>4
  <1>6. /\ Cardinality(A) \in Nat /\ Cardinality(U) \in Nat /\ Cardinality(A2) \in Nat
        /\ Cardinality(A) + 1 <= Cardinality(U)
    <2> HIDE DEF A, U, A2
    <2> QED
      BY <1>3, <1>5, SizeGrows, NodesFinite
  <1>7. s \in Nat /\ s + 2 * Cardinality(U) <= Budget + L + 2
    BY <1>1 DEF Inv, TypeOK, Starts
  <1>8. CASE queue' = queue
    <2>1. A2 = A /\ L2 = L
      BY <1>8
    <2> HIDE DEF A, U, A2, s, L, L2
    <2>2. s + 2 * Cardinality(A2) <= Budget + L2
      BY <2>1, <1>3, <1>6, <1>7, BudgetIsEnough
    <2> QED
      BY <2>2 DEF A2, s, L2
  <1>9. CASE A2 = U /\ L2 = L + 2
    <2> HIDE DEF A, U, A2, s, L, L2
    <2>1. s + 2 * Cardinality(A2) <= Budget + L2
      BY <1>9, <1>3, <1>6, <1>7, BudgetIsEnough
    <2> QED
      BY <2>1 DEF A2, s, L2
  <1>10. ASSUME NEW Y, A2 = A \ Y, L <= L2 + Cardinality(A \cap Y)
         PROVE  s + 2 * Cardinality(A2) <= Budget + L2
    <2> HIDE DEF A, U, A2, s, L, L2
    <2>1. /\ Cardinality(A \cap Y) \in Nat
          /\ Cardinality(A) = Cardinality(A2) + Cardinality(A \cap Y)
      BY <1>3, <1>10, SizesAdd
    <2> QED
      BY <2>1, <1>3, <1>6, <1>7, <1>10, BudgetIsEnough
  <1>11. \/ queue' = queue
         \/ A2 = U /\ L2 = L + 2
         \/ A2 = A \ Affected(batch[1]) /\ L <= L2 + Cardinality(A \cap Affected(batch[1]))
    BY <1>1, ConfirmedSays
  <1> HIDE DEF A, U, A2, s, L, L2
  <1>12. s + 2 * Cardinality(A2) <= Budget + L2
    <2>1. CASE A2 = A \ Affected(batch[1]) /\ L <= L2 + Cardinality(A \cap Affected(batch[1]))
      BY <1>10, <2>1
    <2> QED
      BY <1>8, <1>9, <1>11, <2>1 DEF A2, s, L2
  <1> QED
    BY <1>12 DEF A2, s, L2

\* A round whose starts are used up was given fewer than the default.
LEMMA CostOfBudgetUsed ==
    ASSUME Inv, BudgetUsed
    PROVE  limit < Budget
  <1> DEFINE c == Cardinality(AllOf(queue))
             L == Len(queue)
  <1>1. /\ pc = "head" /\ queue # <<>> /\ startsUsed >= limit
    BY DEF BudgetUsed, MayGoOn
  <1>2. queue \in Seq(Batch) /\ Apart(queue) /\ limit \in Nat /\ startsUsed \in Nat
    BY DEF Inv, TypeOK, Shape
  <1>3. c \in Nat /\ L \in Nat /\ L <= c /\ L # 0
    BY <1>1, <1>2, QueueSizes
  <1>4. startsUsed + 2 * c <= Budget + L
    BY <1>1 DEF Inv, Starts, RoundPlaces
  <1> HIDE DEF c, L
  <1> QED
    BY <1>1, <1>2, <1>3, <1>4, BudgetIsEnough

LEMMA StartsStep ==
    ASSUME Inv, [Next]_vars
    PROVE  Starts'
  <1> USE DEF BatchPlaces, RoundPlaces, Over
  <1>1. Starts /\ Shape
    BY DEF Inv
  <1>2. CASE Begin
    <2>1. /\ startsUsed' = 0 /\ AllOf(queue') = Nodes /\ Len(queue') = 1
          /\ pc' = "prepare" /\ reason' = "none"
      BY <1>2, BeginSays
    <2>2. 0 + 2 * NodeCount <= Budget + 1
      BY BudgetIsEnough
    <2>3. startsUsed' + 2 * Cardinality(AllOf(queue')) <= Budget + Len(queue')
      BY <2>1, <2>2, NodesFinite
    <2> QED
      BY <2>1, <2>3 DEF Starts, Budget
  <1>3. CASE StartBatch
    <2>1. /\ pc = "head" /\ pc' = "starting" /\ reason' = reason /\ limit' = limit
          /\ AllOf(queue) = AllOf(queue') \cup Members(batch')
          /\ Len(queue) = Len(queue') + 1 /\ Len(queue') \in Nat
          /\ startsUsed' = startsUsed + 1
      BY <1>1, <1>3, StartBatchSays
    <2>2. startsUsed + 2 * Cardinality(AllOf(queue)) <= Budget + Len(queue)
      BY <1>1, <2>1 DEF Starts
    <2>3. startsUsed \in Nat /\ Cardinality(AllOf(queue)) \in Nat
      BY QueueSizes DEF Inv, TypeOK, Shape
    <2> DEFINE c == Cardinality(AllOf(queue))
               L2 == Len(queue')
    <2>4. (startsUsed + 1) + 2 * c <= Budget + L2 + 2
      <3>1. c \in Nat /\ L2 \in Nat /\ startsUsed + 2 * c <= Budget + (L2 + 1)
        BY <2>1, <2>2, <2>3
      <3> HIDE DEF c, L2
      <3> QED
        BY <3>1, <2>3, BudgetIsEnough
    <2>5. startsUsed' + 2 * Cardinality(AllOf(queue') \cup Members(batch'))
             <= Budget + Len(queue') + 2
      BY <2>1, <2>4
    <2> QED
      BY <1>1, <2>1, <2>5 DEF Starts, Budget
  <1>4. CASE Confirmed
    <2>1. /\ pc \in BatchPlaces /\ pc' = "head"
          /\ UNCHANGED <<startsUsed, reason, limit>>
      BY <1>4 DEF Confirmed, ConfirmedFrame, Await
    <2>2. startsUsed' + 2 * Cardinality(AllOf(queue')) <= Budget + Len(queue')
      BY <1>4, <2>1, CostOfConfirmed
    <2> QED
      BY <1>1, <2>1, <2>2 DEF Starts, Budget
  <1>5. CASE Ends /\ UNCHANGED limit /\ (reason' = "budget" => BudgetUsed)
    <2>1. reason' = "budget" => limit' < Budget
      BY <1>5, CostOfBudgetUsed
    <2> QED
      BY <1>5, <2>1 DEF Starts, Ends, Budget
  <1>6. CASE /\ UNCHANGED <<queue, batch, startsUsed, limit, reason>>
             /\ pc \in BatchPlaces <=> pc' \in BatchPlaces
             /\ pc \in RoundPlaces <=> pc' \in RoundPlaces
    BY <1>1, <1>6 DEF Starts, Budget
  <1> QED
    BY <1>2, <1>3, <1>4, <1>5, <1>6, QueueCases

(***************************************************************************)
(* Who still works for a node.                                             *)
(***************************************************************************)

LEMMA CursorStep ==
    ASSUME Inv, [Next]_vars
    PROVE  Cursor'
  <1> USE DEF Cursor, Await, coordVars, batchVars, kernelVars, AttemptFrame
  <1>1. Cursor
    BY DEF Inv
  <1>2. CASE Begin
    BY <1>2 DEF Begin
  <1>3. CASE \/ PrepareCancelled \/ HeadCancelled \/ NoEnvironment \/ NoConfig
             \/ StaleUnconfirmed \/ Unconfirmed \/ AllProbed \/ BudgetUsed
    BY <1>3 DEF PrepareCancelled, HeadCancelled, NoEnvironment, NoConfig,
       StaleUnconfirmed, Unconfirmed, AllProbed, BudgetUsed, FinishCancelled, Finish
  <1>4. CASE Ask \/ Cancel
    BY <1>1, <1>4 DEF Ask, Cancel
  <1>5. CASE Prepare \/ StopStale \/ NoneStale \/ StaleStopped \/ StartBatch
    BY <1>5 DEF Prepare, StopStale, NoneStale, StaleStopped, StartBatch
  <1>6. CASE Started \/ NotStarted \/ Take \/ BatchProbed \/ StopBatch \/ StopUnsure
    BY <1>1, <1>6 DEF Started, NotStarted, Take, BatchProbed, StopBatch, StopUnsure
  <1>7. ASSUME NEW n \in Nodes, EndProbe(n) PROVE Cursor'
    BY <1>1, <1>7 DEF EndProbe
  <1>8. CASE Confirmed
    BY <1>8 DEF Confirmed
  <1>9. CASE Save \/ Created \/ Closed \/ UNCHANGED vars
    BY <1>1, <1>9 DEF Save, Created, Closed, vars
  <1> QED
    BY <1>2, <1>3, <1>4, <1>5, <1>6, <1>7, <1>8, <1>9 DEF Next, RunnerStep

LEMMA OwedWhileProbing ==
    ASSUME Inv, Take \/ (\E n \in Nodes : EndProbe(n)), NEW m \in Nodes, Owed(m)
    PROVE  Owed(m)'
  <1> USE DEF AttemptFrame
  <1>1. CASE Take
    <2>1. /\ next \in 1..Len(batch) /\ next' = next + 1 /\ Len(batch) \in 1..NodeCount
          /\ batch[next] \in Nodes /\ inflight' = inflight \cup {batch[next]}
          /\ result' = [result EXCEPT ![batch[next]] =
                            IF @ = "queued" THEN "running" ELSE @]
      BY <1>1, TakeSays
    <2>2. pc = "probing" /\ pc' = "probing" /\ UNCHANGED <<queue, batch>>
      BY <1>1 DEF Take
    <2>3. m \in DOMAIN result
      BY DEF Inv, TypeOK
    <2>4. result[m] \in {"success", "failed", "isolated"} => result'[m] = result[m]
      BY <2>1, <2>3
    <2>5. result[m] \in {"queued", "running"} => result'[m] \in {"queued", "running"}
      BY <2>1, <2>3
    <2>6. AtWork(m) => AtWork(m)'
      <3>1. ASSUME NEW k \in next..Len(batch), m = batch[k] PROVE AtWork(m)'
        <4>1. k = next \/ k \in next'..Len(batch)
          BY <2>1
        <4> QED
          BY <2>1, <2>2, <3>1, <4>1 DEF AtWork
      <3>2. m \in inflight => AtWork(m)'
        BY <2>1, <2>2 DEF AtWork
      <3> QED
        BY <2>2, <3>1, <3>2 DEF AtWork
    <2>7. AllOf(queue') = AllOf(queue)
      BY <2>2
    <2> QED
      BY <2>4, <2>5, <2>6, <2>7 DEF Owed
  <1>2. ASSUME NEW n \in Nodes, EndProbe(n)
        PROVE  Owed(m)'
    <2>1. /\ pc = "probing" /\ pc' = "probing" /\ UNCHANGED <<queue, batch, next>>
          /\ inflight' = inflight \ {n}
      BY <1>2 DEF EndProbe
    <2>2. PICK r \in {"success", "failed"} :
              result' = [result EXCEPT ![n] = IF Accepted(@) THEN r ELSE @]
      BY <1>2 DEF EndProbe
    <2>3. m \in DOMAIN result /\ n \in DOMAIN result
      BY DEF Inv, TypeOK
    <2>4. CASE m = n
      <3>1. result'[m] \in {"success", "failed", "isolated"}
        BY <2>2, <2>3, <2>4 DEF Owed, Accepted, Unfinished
      <3> QED
        BY <3>1 DEF Owed
    <2>5. CASE m # n
      <3>1. result'[m] = result[m]
        BY <2>2, <2>3, <2>5
      <3>2. AtWork(m) => AtWork(m)'
        BY <2>1, <2>5 DEF AtWork
      <3>3. AllOf(queue') = AllOf(queue)
        BY <2>1
      <3> QED
        BY <3>1, <3>2, <3>3 DEF Owed
    <2> QED
      BY <2>4, <2>5
  <1> QED
    BY <1>1, <1>2

LEMMA OwedWhenConfirmed ==
    ASSUME Inv, Confirmed, NEW m \in Nodes, Owed(m)
    PROVE  Owed(m)'
  <1>1. Shape
    BY DEF Inv
  <1>2. AtWork(m) => outcome # "ok" /\ m \in Members(batch)
    BY <1>1, ConfirmedSays DEF AtWork
  <1>3. CASE /\ outcome = "ok"
             /\ queue' = queue /\ result' = result
    BY <1>2, <1>3 DEF Owed
  <1>4. CASE /\ AllOf(queue') = AllOf(queue) \cup Members(batch)
             /\ result' = result
    BY <1>2, <1>4 DEF Owed
  <1>5. CASE /\ Members(batch) = {batch[1]}
             /\ AllOf(queue') = AllOf(queue) \ Affected(batch[1])
             /\ result' = [n \in Nodes |->
                               IF n \in Affected(batch[1]) /\ Accepted(result[n])
                               THEN "isolated" ELSE result[n]]
    <2>1. CASE m \in Affected(batch[1])
      <3>1. result'[m] \in {"success", "failed", "isolated"}
        BY <1>5, <2>1 DEF Owed, Accepted, Unfinished
      <3> QED
        BY <3>1 DEF Owed
    <2>2. CASE m \notin Affected(batch[1])
      <3>1. result'[m] = result[m]
        BY <1>5, <2>2
      <3>2. ~AtWork(m)
        BY <1>2, <1>5, <2>2 DEF Affected
      <3> QED
        BY <1>5, <2>2, <3>1, <3>2 DEF Owed
    <2> QED
      BY <2>1, <2>2
  <1> QED
    BY <1>1, <1>3, <1>4, <1>5, ConfirmedSays

\* The steps that leave a node to whoever works for it.
LEMMA OwedElsewhere ==
    ASSUME Inv,
           \/ Ask \/ Prepare \/ StopStale \/ NoneStale \/ StaleStopped \/ StartBatch
           \/ Started \/ NotStarted \/ StopBatch \/ StopUnsure \/ Created \/ Closed
           \/ (BatchProbed /\ ~cancelled') \/ UNCHANGED vars,
           NEW m \in Nodes, Owed(m)
    PROVE  Owed(m)'
  <1> USE DEF Await, coordVars, batchVars, kernelVars, AttemptFrame
  <1>1. Shape /\ Cursor /\ result' = result
    BY DEF Inv, Ask, Prepare, StopStale, NoneStale, StaleStopped, StartBatch, Started,
       NotStarted, StopBatch, StopUnsure, Created, Closed, BatchProbed, CancelQueued, vars
  <1>2. CASE StartBatch
    <2>1. /\ AllOf(queue) = AllOf(queue') \cup Members(batch')
          /\ pc = "head" /\ pc' = "starting"
      BY <1>1, <1>2, StartBatchSays
    <2> QED
      BY <1>1, <2>1 DEF Owed, AtWork
  <1>3. CASE Started
    <2>1. /\ pc = "starting" /\ pc' = "probing" /\ next' = 1
          /\ UNCHANGED <<queue, batch>>
      BY <1>1, <1>3 DEF Started, Cursor
    <2>2. m \in Members(batch) => AtWork(m)'
      BY <2>1 DEF AtWork, Members, First
    <2>3. AllOf(queue') = AllOf(queue)
      BY <2>1
    <2> QED
      BY <1>1, <2>1, <2>2, <2>3 DEF Owed, AtWork
  <1>4. CASE NotStarted
    <2>1. /\ pc = "starting" /\ pc' = "stop" /\ outcome' # "ok"
          /\ UNCHANGED <<queue, batch>>
      BY <1>4 DEF NotStarted
    <2>2. m \in Members(batch) => AtWork(m)'
      BY <2>1 DEF AtWork
    <2>3. AllOf(queue') = AllOf(queue)
      BY <2>1
    <2> QED
      BY <1>1, <2>1, <2>2, <2>3 DEF Owed, AtWork
  <1>5. CASE BatchProbed /\ ~cancelled'
    <2>1. /\ pc = "probing" /\ inflight = {} /\ next > Len(batch)
          /\ UNCHANGED <<queue, batch>>
      BY <1>5 DEF BatchProbed, CancelQueued
    <2>2. next \in Nat /\ Len(batch) \in Nat
      BY <1>1, <2>1, BatchOfOne DEF Inv, TypeOK, Shape, BatchPlaces
    <2>3. next..Len(batch) = {}
      BY <2>1, <2>2
    <2>4. ~AtWork(m)
      BY <2>1, <2>3 DEF AtWork
    <2>5. AllOf(queue') = AllOf(queue)
      BY <2>1
    <2> QED
      BY <1>1, <2>4, <2>5 DEF Owed
  <1>6. CASE \/ Ask \/ Prepare \/ StopStale \/ NoneStale \/ StaleStopped
             \/ StopBatch \/ StopUnsure \/ Created \/ Closed \/ UNCHANGED vars
    <2>1. /\ UNCHANGED <<queue, batch, next, inflight, outcome>>
          /\ pc \notin {"starting", "probing"} => pc' \notin {"starting", "probing"}
          /\ pc \in {"starting", "probing"} => pc' = pc
          /\ pc \in {"stop", "stopping"} => pc' \in {"stop", "stopping", "info"}
          /\ pc = "info" => pc' = "info"
      BY <1>6 DEF Ask, Prepare, StopStale, NoneStale, StaleStopped, StopBatch, StopUnsure,
         Created, Closed, vars
    <2>2. Members(batch') = Members(batch) /\ AllOf(queue') = AllOf(queue)
          /\ Len(batch') = Len(batch) /\ next'..Len(batch') = next..Len(batch)
      BY <2>1
    <2>3. AtWork(m) => AtWork(m)'
      BY <2>1, <2>2 DEF AtWork
    <2> QED
      BY <1>1, <2>2, <2>3 DEF Owed
  <1> QED
    BY <1>2, <1>3, <1>4, <1>5, <1>6

LEMMA CoverageStep ==
    ASSUME Inv, [Next]_vars
    PROVE  Coverage'
  <1> USE DEF Over, Await, coordVars, batchVars, kernelVars, AttemptFrame
  <1>1. Coverage /\ Session /\ Shape /\ ControlType
    BY DEF Inv, TypeOK, ControlType
  <1>2. DOMAIN result = Nodes
    BY DEF Inv, TypeOK
  <1>3. CASE Begin
    <2>1. /\ phase' = "running" /\ pc' = "prepare" /\ result' = [n \in Nodes |-> "queued"]
          /\ AllOf(queue') = Nodes
      BY <1>3, BeginSays DEF Begin
    <2> QED
      BY <2>1 DEF Coverage, Owed
  <1>4. CASE AllProbed
    <2>1. /\ pc = "head" /\ queue = <<>> /\ pc' = "save" /\ phase' = "done"
          /\ cancelled' = cancelled
          /\ result' = [n \in Nodes |->
                            IF Unfinished(result[n]) THEN "cancelled" ELSE result[n]]
      BY <1>4 DEF AllProbed, Finish
    <2>2. AllOf(queue) = {} /\ \A n \in Nodes : ~AtWork(n)
      BY <2>1 DEF AllOf, AtWork
    <2>3. ~cancelled => \A n \in Nodes : result[n] \in {"success", "failed", "isolated"}
      BY <1>1, <2>1, <2>2 DEF Coverage, Owed
    <2>4. ~cancelled => \A n \in Nodes : result'[n] \in {"success", "failed", "isolated"}
      BY <2>1, <2>3 DEF Unfinished
    <2> QED
      BY <2>1, <2>4 DEF Coverage
  <1>5. CASE \/ PrepareCancelled \/ HeadCancelled \/ NoEnvironment \/ NoConfig
             \/ StaleUnconfirmed \/ Unconfirmed \/ BudgetUsed
    <2>1. pc' = "save" /\ phase' = "done" /\ reason' # "none"
      BY <1>5 DEF PrepareCancelled, HeadCancelled, NoEnvironment, NoConfig,
         StaleUnconfirmed, Unconfirmed, BudgetUsed, FinishCancelled, Finish
    <2> QED
      BY <2>1 DEF Coverage
  <1>6. CASE Cancel \/ (BatchProbed /\ cancelled')
    <2>1. /\ cancelled'
          /\ phase' # "done" /\ (pc' \in Over => phase' \in {"idle", "done"})
      BY <1>1, <1>6 DEF Cancel, BatchProbed, CancelQueued, Coverage, Session, ControlType
    <2> QED
      BY <2>1 DEF Coverage
  <1>7. CASE Save
    <2>1. /\ pc = "save" /\ pc' = "idle" /\ UNCHANGED <<phase, reason, cancelled>>
          /\ result' = result \/ result' = [n \in Nodes |-> "unsaved"]
      BY <1>7 DEF Save
    <2> QED
      BY <1>1, <2>1 DEF Coverage
  <1>8. CASE Take \/ (\E n \in Nodes : EndProbe(n))
    <2>1. pc = "probing" /\ UNCHANGED <<phase, cancelled, pc>>
      BY <1>8 DEF Take, EndProbe
    <2>2. phase # "done"
      BY <1>1, <2>1 DEF Session
    <2> QED
      BY <1>1, <1>8, <2>1, <2>2, OwedWhileProbing DEF Coverage
  <1>9. CASE Confirmed
    <2>1. /\ pc \in {"stopping", "info"} /\ pc' = "head" /\ UNCHANGED <<phase, cancelled>>
      BY <1>9 DEF Confirmed, ConfirmedFrame
    <2>2. phase # "done"
      BY <1>1, <2>1 DEF Session
    <2> QED
      BY <1>1, <1>9, <2>1, <2>2, OwedWhenConfirmed DEF Coverage
  <1>10. CASE \/ Ask \/ Prepare \/ StopStale \/ NoneStale \/ StaleStopped \/ StartBatch
              \/ Started \/ NotStarted \/ StopBatch \/ StopUnsure \/ Created \/ Closed
              \/ (BatchProbed /\ ~cancelled') \/ UNCHANGED vars
    <2>1. /\ UNCHANGED <<phase, cancelled, reason, result>>
          /\ pc' \in Over <=> pc \in Over
      BY <1>10 DEF Ask, Prepare, StopStale, NoneStale, StaleStopped, StartBatch, Started,
         NotStarted, StopBatch, StopUnsure, Created, Closed, BatchProbed, CancelQueued,
         MayGoOn, vars
    <2> QED
      BY <1>1, <1>10, <2>1, OwedElsewhere DEF Coverage
  <1>11. CASE BatchProbed
    BY <1>6, <1>10, <1>11, Zenon
  <1>12. CASE RunnerStep
    BY <1>4, <1>5, <1>7, <1>8, <1>9, <1>10, <1>11, <1>12 DEF RunnerStep
  <1> QED
    BY <1>3, <1>6, <1>10, <1>12 DEF Next

(***************************************************************************)
(* The theorems.                                                           *)
(***************************************************************************)

LEMMA InvInit == Init => Inv
  <1> SUFFICES ASSUME Init PROVE Inv
    OBVIOUS
  <1>1. TypeOK
    <2>1. next \in 1..(NodeCount + 1) /\ rounds \in 0..MaxRounds /\ startsUsed \in 0..limit
      BY ProbeAssumption DEF Init
    <2>2. queue \in Seq(Seq(Nodes)) /\ batch \in Seq(Nodes)
      BY DEF Init
    <2> QED
      BY <2>1, <2>2 DEF Init, TypeOK
  <1>2. Shape /\ Starts /\ Session /\ Blame /\ Cursor /\ Coverage
    BY DEF Init, Shape, Apart, Starts, Session, LiveOwn, Blame, Cursor, Coverage, Over,
       BatchPlaces, RoundPlaces
  <1> QED
    BY <1>1, <1>2 DEF Inv

LEMMA InvStep == Inv /\ [Next]_vars => Inv'
  BY TypeStep, ShapeStep, SessionStep, BlameStep, StartsStep, CursorStep, CoverageStep
  DEF Inv

\* The batches of a round stay apart, its starts within their cost, its session
\* where it belongs and each node with somebody who works for it.
THEOREM InvHolds == Spec => []Inv
  BY InvInit, InvStep, PTL DEF Spec

\* Every variable of the probe rounds stays in its type.
THEOREM TypeCorrect == Spec => []TypeOK
  <1>1. Inv => TypeOK
    BY DEF Inv
  <1> QED
    BY <1>1, InvHolds, PTL

\* runIsolationLoop loses no node, whatever it splits and isolates, and the
\* default budget is enough for it, for any number of nodes.
THEOREM NoneIsSkipped == Spec => []NobodySkipped
  <1>1. Inv => NobodySkipped
    BY DEF Inv, Starts, Coverage, NobodySkipped
  <1> QED
    BY <1>1, InvHolds, PTL

\* A round that ends without saying so leaves none of its sessions in the kernel.
THEOREM NothingLeft == Spec => []NoSessionLeft
  <1>1. Inv => NoSessionLeft
    BY DEF Inv, Session, NoSessionLeft
  <1> QED
    BY <1>1, InvHolds, PTL

\* A final result changes only when its round could not be saved, or in a new round.
THEOREM FinalResults == Spec => ResultsFinal
  <1> DEFINE Act == \A n \in Nodes : result[n] \in Ended /\ rounds' = rounds =>
                        result'[n] \in {result[n], "unsaved"}
  <1>1. ASSUME Inv, [Next]_vars PROVE [Act]_vars
    <2> USE DEF Ended, coordVars, batchVars, kernelVars, AttemptFrame
    <2>1. /\ result \in [Nodes -> Ended \cup {"none", "queued", "running", "unsaved"}]
          /\ rounds \in Nat /\ Shape
      BY <1>1, ProbeAssumption DEF Inv, TypeOK
    <2>2. CASE Begin
      BY <2>1, <2>2 DEF Begin
    <2>3. CASE \/ PrepareCancelled \/ HeadCancelled \/ NoEnvironment \/ NoConfig
               \/ StaleUnconfirmed \/ Unconfirmed \/ AllProbed \/ BudgetUsed
      BY <2>1, <2>3 DEF PrepareCancelled, HeadCancelled, NoEnvironment, NoConfig,
         StaleUnconfirmed, Unconfirmed, AllProbed, BudgetUsed, FinishCancelled, Finish,
         NotApplicable, Unfinished
    <2>4. CASE Take
      <3>1. /\ batch[next] \in Nodes
            /\ result' = [result EXCEPT ![batch[next]] =
                              IF @ = "queued" THEN "running" ELSE @]
        BY <1>1, <2>4, TakeSays
      <3> QED
        BY <2>1, <3>1
    <2>5. ASSUME NEW n \in Nodes, EndProbe(n) PROVE Act
      BY <2>1, <2>5 DEF EndProbe, Accepted, Unfinished
    <2>6. CASE BatchProbed \/ Cancel
      BY <2>1, <2>6 DEF BatchProbed, Cancel, CancelQueued
    <2>7. CASE Confirmed
      <3>1. \/ result' = result
            \/ result' = [m \in Nodes |-> IF m \in Affected(batch[1]) /\ Accepted(result[m])
                                         THEN "isolated" ELSE result[m]]
        BY <2>1, <2>7, ConfirmedSays
      <3> QED
        BY <2>1, <3>1 DEF Accepted, Unfinished
    <2>8. CASE Save
      BY <2>1, <2>8 DEF Save
    <2>9. CASE \/ Ask \/ Prepare \/ StopStale \/ NoneStale \/ StaleStopped \/ StartBatch
               \/ Started \/ NotStarted \/ StopBatch \/ StopUnsure \/ Created \/ Closed
               \/ UNCHANGED vars
      BY <2>9 DEF Ask, Prepare, StopStale, NoneStale, StaleStopped, StartBatch, Started,
         NotStarted, StopBatch, StopUnsure, Created, Closed, vars
    <2> QED
      BY <1>1, <2>2, <2>3, <2>4, <2>5, <2>6, <2>7, <2>8, <2>9 DEF Next, RunnerStep
  <1> QED
    BY <1>1, InvHolds, PTL DEF Spec, ResultsFinal

\* markIsolationFailure never blames a node for a session that was there before it.
THEOREM BlamedForItsOwn == Spec => BlameJustified
  <1> DEFINE Act == \A n \in Nodes : result[n] # "isolated" /\ result'[n] = "isolated" =>
                        outcome \in {"failed", "timeout"} \/ leftover
  <1>1. ASSUME Inv, [Next]_vars PROVE [Act]_vars
    <2> USE DEF Ended, coordVars, batchVars, kernelVars, AttemptFrame
    <2>1. /\ result \in [Nodes -> Ended \cup {"none", "queued", "running", "unsaved"}]
          /\ Shape /\ Blame /\ ControlType
      BY <1>1 DEF Inv, TypeOK, ControlType
    <2>2. CASE Begin
      BY <2>1, <2>2 DEF Begin
    <2>3. CASE \/ PrepareCancelled \/ HeadCancelled \/ NoEnvironment \/ NoConfig
               \/ StaleUnconfirmed \/ Unconfirmed \/ AllProbed \/ BudgetUsed
      BY <2>1, <2>3 DEF PrepareCancelled, HeadCancelled, NoEnvironment, NoConfig,
         StaleUnconfirmed, Unconfirmed, AllProbed, BudgetUsed, FinishCancelled, Finish,
         NotApplicable
    <2>4. CASE Take
      <3>1. /\ batch[next] \in Nodes
            /\ result' = [result EXCEPT ![batch[next]] =
                              IF @ = "queued" THEN "running" ELSE @]
        BY <1>1, <2>4, TakeSays
      <3> QED
        BY <2>1, <3>1
    <2>5. ASSUME NEW n \in Nodes, EndProbe(n) PROVE Act
      BY <2>1, <2>5 DEF EndProbe
    <2>6. CASE BatchProbed \/ Cancel
      BY <2>1, <2>6 DEF BatchProbed, Cancel, CancelQueued
    <2>7. CASE Confirmed
      <3>1. /\ pc \in {"stopping", "info"}
            /\ outcome # "ok" \/ result' = result
        BY <2>1, <2>7, ConfirmedSays
      <3> QED
        BY <2>1, <3>1 DEF Blame, BatchPlaces, ControlType
    <2>8. CASE Save
      BY <2>1, <2>8 DEF Save
    <2>9. CASE \/ Ask \/ Prepare \/ StopStale \/ NoneStale \/ StaleStopped \/ StartBatch
               \/ Started \/ NotStarted \/ StopBatch \/ StopUnsure \/ Created \/ Closed
               \/ UNCHANGED vars
      BY <2>9 DEF Ask, Prepare, StopStale, NoneStale, StaleStopped, StartBatch, Started,
         NotStarted, StopBatch, StopUnsure, Created, Closed, vars
    <2> QED
      BY <1>1, <2>2, <2>3, <2>4, <2>5, <2>6, <2>7, <2>8, <2>9 DEF Next, RunnerStep
  <1> QED
    BY <1>1, InvHolds, PTL DEF Spec, BlameJustified
===============================================================================
