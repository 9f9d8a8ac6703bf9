---------------------------- MODULE DbCacheProofs ----------------------------
(***************************************************************************)
(* Facts about the table of the metadata cache that the proofs about the   *)
(* Drive thread and about the prepared statements rest on.                 *)
(***************************************************************************)
EXTENDS DbCache, WellFoundedInduction, SequenceTheorems, TLAPS

\* A nonempty set of ids has a least one: the CHOOSE of First has a witness.
LEMMA FirstIsMember ==
    ASSUME NEW ids \in SUBSET Nat, ids # {}
    PROVE  First(ids) \in ids /\ \A j \in ids : First(ids) <= j
<1> DEFINE R == {p \in Nat \X Nat : p[1] < p[2]}
<1>1. IsWellFoundedOn(R, Nat)
    BY NatLessThanWellFounded DEF OpToRel
<1>2. \E i \in ids : \A j \in ids : ~(<<j, i>> \in R)
    <2> HIDE DEF R
    <2> QED BY <1>1, WFMin
<1>3. PICK i \in ids : \A j \in ids : <<j, i>> \notin R
    BY <1>2
<1>4. ASSUME NEW j \in ids PROVE i <= j
    <2>1. i \in Nat /\ j \in Nat
        OBVIOUS
    <2>2. ~(j < i)
        <3>1. <<j, i>> \in Nat \X Nat
            BY <2>1
        <3>2. <<j, i>>[1] = j /\ <<j, i>>[2] = i
            OBVIOUS
        <3> QED BY <1>3, <3>1, <3>2
    <2> QED BY <2>1, <2>2
<1> QED
    BY <1>4 DEF First

\* What the table looks like as a function.
LEMMA TableShape ==
    ASSUME TableTypeOK
    PROVE  /\ Len(entries) \in Nat
           /\ DOMAIN entries = 1..Len(entries)
           /\ \A i \in 1..Len(entries) : entries[i] \in Row
BY LenProperties, ElementOfSeq DEF TableTypeOK

\* UPDATE ... WHERE id = ? changes one row.
LEMMA ReplaceRow ==
    ASSUME TableTypeOK, NEW i \in 1..Len(entries), NEW r \in Row,
           entries' = [entries EXCEPT ![i] = r]
    PROVE  /\ entries' \in Seq(Row)
           /\ Len(entries') = Len(entries)
           /\ \A j \in 1..Len(entries) : entries'[j] = IF j = i THEN r ELSE entries[j]
BY ExceptSeq DEF TableTypeOK

\* INSERT adds a row with the next id.
LEMMA AddRow ==
    ASSUME TableTypeOK, NEW r \in Row, entries' = Append(entries, r)
    PROVE  /\ entries' \in Seq(Row)
           /\ Len(entries') = Len(entries) + 1
           /\ entries'[Len(entries) + 1] = r
           /\ \A j \in 1..Len(entries) : entries'[j] = entries[j]
BY TableShape DEF TableTypeOK

-----------------------------------------------------------------------------
(* Paths.  FindByPath is a fold; what is known of a fold is its last step.  *)

\* Induction up to n, over the set of the numbers of which something holds.
LEMMA UpTo ==
    ASSUME NEW n \in Nat, NEW S, 0 \in S, \A k \in 1..n : k - 1 \in S => k \in S
    PROVE  \A k \in 0..n : k \in S
<1> DEFINE missing == (0..n) \ S
<1>1. SUFFICES ASSUME missing # {} PROVE FALSE
    OBVIOUS
<1>2. missing \in SUBSET Nat
    OBVIOUS
<1>3. PICK k \in missing : \A j \in missing : k <= j
    BY <1>1, <1>2, FirstIsMember
<1>4. k \in 1..n /\ k - 1 \in 0..n /\ ~(k <= k - 1)
    BY <1>3
<1> QED BY <1>3, <1>4

\* The greatest element of a set whose greatest element is known.
LEMMA MaxIs ==
    ASSUME NEW s \in SUBSET Nat, NEW m \in s, \A y \in s : y <= m
    PROVE  Max(s) = m
<1>1. \A x \in s : (\A y \in s : x >= y) => x = m
    OBVIOUS
<1>2. \A y \in s : m >= y
    OBVIOUS
<1> QED BY <1>1, <1>2 DEF Max

\* A finite set of numbers has a greatest element: n less it is the least of the others.
LEMMA MaxMember == ASSUME NEW n \in Nat, NEW s \in SUBSET (1..n), s # {} PROVE Max(s) \in s
<1> DEFINE below == {d \in 0..n : n - d \in s}
<1>1. PICK x \in s : TRUE
    OBVIOUS
<1>2. n - x \in below /\ below \in SUBSET Nat
    OBVIOUS
<1>3. PICK d \in below : \A j \in below : d <= j
    BY <1>2, FirstIsMember
<1>4. n - d \in s /\ \A y \in s : y \in Nat /\ n - y \in below /\ n - d >= y
    <2>1. ASSUME NEW y \in s PROVE n - y \in below
        OBVIOUS
    <2> QED BY <1>3, <2>1
<1> QED BY <1>4, MaxIs

LEMMA Prefix ==
    ASSUME NEW n \in Nat, NEW k \in 1..n
    PROVE  /\ 1..k \in SUBSET (1..n) /\ 1..k # {}
           /\ (1..k) \ {k} = 1..(k - 1)
           /\ Max(1..k) = k
BY MaxIs

\* The recursion of a fold over 1..n, and that it has a solution.
Solves(h, n, X, b, G) ==
    /\ h \in [SUBSET (1..n) -> X]
    /\ \A s \in SUBSET (1..n) : h[s] = IF s = {} THEN b ELSE G[h[s \ {Max(s)}], Max(s)]

LEMMA FoldExists ==
    ASSUME NEW n \in Nat, NEW X, NEW b \in X, NEW G \in [X \X (1..n) -> X]
    PROVE  \E h : Solves(h, n, X, b, G)
<1> DEFINE S == {m \in 0..n : \E h : Solves(h, m, X, b, G)}
<1>1. 0 \in S
    <2>1. SUBSET (1..0) = {{}}
        OBVIOUS
    <2>2. Solves([s \in SUBSET (1..0) |-> b], 0, X, b, G)
        BY <2>1 DEF Solves
    <2> QED BY <2>2
<1>2. ASSUME NEW m \in 1..n, m - 1 \in S PROVE m \in S
    <2>1. PICK g : Solves(g, m - 1, X, b, G)
        BY <1>2
    <2> DEFINE h == [s \in SUBSET (1..m) |-> IF m \in s THEN G[g[s \ {m}], m] ELSE g[s]]
    <2>2. \A s \in SUBSET (1..m) : s \ {m} \in SUBSET (1..(m - 1))
        OBVIOUS
    <2>3. \A s \in SUBSET (1..m) : m \notin s => s \in SUBSET (1..(m - 1)) /\ h[s] = g[s]
        OBVIOUS
    <2>4. h \in [SUBSET (1..m) -> X]
        <3>1. ASSUME NEW s \in SUBSET (1..m)
              PROVE  (IF m \in s THEN G[g[s \ {m}], m] ELSE g[s]) \in X
            <4>1. CASE m \in s
                <5>1. g[s \ {m}] \in X
                    BY <2>1, <2>2 DEF Solves
                <5>2. <<g[s \ {m}], m>> \in X \X (1..n)
                    BY <5>1
                <5> QED BY <4>1, <5>2
            <4>2. CASE m \notin s
                BY <2>1, <2>3, <4>2 DEF Solves
            <4> QED BY <4>1, <4>2
        <3> QED BY <3>1
    <2>5. ASSUME NEW s \in SUBSET (1..m)
          PROVE  h[s] = IF s = {} THEN b ELSE G[h[s \ {Max(s)}], Max(s)]
        <3>1. CASE m \in s
            <4>1. Max(s) = m
                BY <3>1, MaxIs
            <4>2. h[s \ {m}] = g[s \ {m}]
                BY <2>3
            <4> QED BY <3>1, <4>1, <4>2
        <3>2. CASE m \notin s
            <4>1. s \ {Max(s)} \in SUBSET (1..m) /\ m \notin s \ {Max(s)}
                BY <3>2
            <4>2. h[s \ {Max(s)}] = g[s \ {Max(s)}] /\ h[s] = g[s] /\ s \in SUBSET (1..(m - 1))
                BY <2>3, <3>2, <4>1
            <4> QED BY <2>1, <4>2 DEF Solves
        <3> QED BY <3>1, <3>2
    <2> HIDE DEF h
    <2>6. Solves(h, m, X, b, G)
        BY <2>4, <2>5 DEF Solves
    <2> QED BY <2>6
<1>3. n \in S
    <2> HIDE DEF S
    <2> QED BY <1>1, <1>2, UpTo
<1> QED BY <1>3

\* The id a name leads to from a directory, 0 if there is none, or none of the directory.
NameIn(id, n) == IF id = 0 \/ ByNamePar(n, id) = {} THEN 0 ELSE First(ByNamePar(n, id))

LEMMA NameInType == ASSUME TableTypeOK, NEW id, NEW n PROVE NameIn(id, n) \in {0} \cup DOMAIN entries
<1>1. ByNamePar(n, id) \in SUBSET Nat /\ ByNamePar(n, id) \subseteq DOMAIN entries
    BY TableShape DEF ByNamePar
<1> QED BY <1>1, FirstIsMember DEF NameIn

\* FindByPath goes from id to id, one name at a time.
LEMMA FindByPathWalks ==
    ASSUME TableTypeOK, NEW path, Len(path) \in Nat, DOMAIN path = 1..Len(path)
    PROVE  \E w \in [0..Len(path) -> Nat] :
              /\ w[0] = 1
              /\ \A k \in 1..Len(path) : w[k] = NameIn(w[k - 1], path[k])
              /\ FindByPath(path) = w[Len(path)]
<1> DEFINE n == Len(path)
           G == [x \in Nat \X (1..n) |-> NameIn(x[1], path[x[2]])]
           Fold(h) == h = [s \in SUBSET DOMAIN path |->
                              IF s = {} THEN 1 ELSE NameIn(h[s \ {Max(s)}], path[Max(s)])]
           iter == CHOOSE h : Fold(h)
           w == [k \in 0..n |-> iter[1..k]]
<1>1. FindByPath(path) = iter[1..n]
    BY DEF FindByPath, FoldLeft, MapThenFoldSet, NameIn
<1>2. \A id : \A name : NameIn(id, name) \in Nat
    BY NameInType, TableShape
<1>3. \E h : Fold(h)
    <2>1. G \in [Nat \X (1..n) -> Nat] /\ n \in Nat /\ 1 \in Nat
        BY <1>2
    <2> HIDE DEF n, G
    <2>2. PICK h : Solves(h, n, Nat, 1, G)
        BY <2>1, FoldExists
    <2> USE DEF n, Solves
    <2>3. ASSUME NEW s \in SUBSET (1..n), s # {}
          PROVE  G[h[s \ {Max(s)}], Max(s)] = NameIn(h[s \ {Max(s)}], path[Max(s)])
        <3>1. Max(s) \in 1..n
            BY <2>3, MaxMember
        <3>2. <<h[s \ {Max(s)}], Max(s)>> \in Nat \X (1..n)
            BY <2>2, <3>1
        <3> QED BY <3>2 DEF G
    <2>4. h = [s \in SUBSET DOMAIN path |->
                  IF s = {} THEN 1 ELSE NameIn(h[s \ {Max(s)}], path[Max(s)])]
        BY <2>2, <2>3
    <2> QED BY <2>4
<1>4. Fold(iter)
    BY <1>3
<1> HIDE DEF iter
<1>5. iter[{}] = 1
    BY <1>4
<1>6. ASSUME NEW k \in 1..n PROVE iter[1..k] = NameIn(iter[1..(k - 1)], path[k])
    <2>1. /\ 1..k \in SUBSET (1..n) /\ 1..k # {}
          /\ (1..k) \ {k} = 1..(k - 1) /\ Max(1..k) = k
        BY Prefix
    <2> QED BY <1>4, <2>1
<1>7. w[0] = 1 /\ \A k \in 1..n : w[k] = NameIn(w[k - 1], path[k])
    <2>1. 1..0 = {}
        OBVIOUS
    <2> QED BY <1>5, <1>6, <2>1
<1>8. w \in [0..n -> Nat]
    <2>1. ASSUME NEW k \in 0..n PROVE iter[1..k] \in Nat
        <3>1. CASE k = 0
            BY <1>5, <3>1
        <3>2. CASE k # 0
            BY <1>2, <1>6, <3>2
        <3> QED BY <3>1, <3>2
    <2> QED BY <2>1
<1>9. FindByPath(path) = w[n]
    BY <1>1
<1> HIDE DEF w
<1> QED BY <1>7, <1>8, <1>9

=============================================================================
