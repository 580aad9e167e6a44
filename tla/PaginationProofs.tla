--------------------------- MODULE PaginationProofs ---------------------------
(***************************************************************************)
(* Lemmas about pages by position: the arithmetic of Pagination, and what  *)
(* the positions of the rows of a result say of how many there are.        *)
(***************************************************************************)
EXTENDS Pagination, Integers, FiniteSetTheorems, TLAPS

LEMMA FirstOffset == ASSUME NEW size \in Nat  PROVE Offset(1, size) = 0
BY DEF Offset

LEMMA NextOffset ==
    ASSUME NEW page \in Nat \ {0}, NEW size \in Nat
    PROVE  /\ Offset(page, size) \in Nat
           /\ Offset(page + 1, size) = Offset(page, size) + size
<1>1. (page - 1) * size \in Nat
  OBVIOUS
<1>2. (page + 1 - 1) * size = (page - 1) * size + size
  OBVIOUS
<1>. QED  BY <1>1, <1>2 DEF Offset

\* A page has a next one exactly when its rows do not reach the total.
LEMMA HasNextOffset ==
    ASSUME NEW page \in Nat \ {0}, NEW size \in Nat \ {0}, NEW total \in Nat
    PROVE  HasNext(page, total, size) <=> Offset(page, size) + size < total
<1>. DEFINE pages == (total + size - 1) \div size
<1>1. pages \in Nat /\ pages * size <= total + size - 1 /\ total + size - 1 < pages * size + size
  <2>1. ASSUME NEW n \in Nat  PROVE n \div size \in Nat /\ (n \div size) * size <= n
    OBVIOUS
  <2>2. ASSUME NEW n \in Nat  PROVE n < (n \div size) * size + size
    OBVIOUS
  <2>. QED  BY <2>1, <2>2
<1>. HIDE DEF pages
<1>2. ASSUME NEW a \in Nat, NEW b \in Nat, a <= b  PROVE a * size <= b * size
  BY <1>2
<1>3. page * size = (page - 1) * size + size /\ (page + 1) * size = page * size + size
  OBVIOUS
<1>4. page * size \in Nat /\ pages * size \in Nat
  BY <1>1
<1>5. ASSUME page < pages  PROVE page * size < total
  BY <1>1, <1>2, <1>3, <1>4, <1>5
<1>6. ASSUME pages <= page  PROVE total <= page * size
  BY <1>1, <1>2, <1>4, <1>6
<1>7. HasNext(page, total, size) <=> page < pages
  BY DEF HasNext, TotalPages, pages
<1>. QED  BY <1>1, <1>3, <1>4, <1>5, <1>6, <1>7 DEF Offset

(***************************************************************************)
(* Positions.  before[a] is the set of the rows of M that come before a;   *)
(* the order is total.                                                     *)
(***************************************************************************)
Ordered(M, before) ==
    /\ IsFiniteSet(M)
    /\ before \in [M -> SUBSET M]
    /\ \A a \in M : a \notin before[a]
    /\ \A a, b \in M : a # b => a \in before[b] \/ b \in before[a]
    /\ \A a, b, c \in M : a \in before[b] /\ b \in before[c] => a \in before[c]

Rank(before, a) == 1 + Cardinality(before[a])

LEMMA RankType ==
    ASSUME NEW M, NEW before, Ordered(M, before), NEW a \in M
    PROVE  Rank(before, a) \in 1 .. Cardinality(M)
<1>1. /\ IsFiniteSet(before[a]) /\ before[a] \in SUBSET M
      /\ Cardinality(before[a]) <= Cardinality(M)
      /\ Cardinality(before[a]) # Cardinality(M)
  BY FS_Subset DEF Ordered
<1>2. Cardinality(before[a]) \in Nat /\ Cardinality(M) \in Nat
  BY <1>1, FS_CardinalityType DEF Ordered
<1>. QED  BY <1>1, <1>2 DEF Rank

LEMMA RankOrder ==
    ASSUME NEW M, NEW before, Ordered(M, before), NEW a \in M, NEW b \in M, a \in before[b]
    PROVE  Rank(before, a) < Rank(before, b)
<1>1. /\ IsFiniteSet(before[b]) /\ before[a] \in SUBSET before[b]
      /\ before[a] # before[b]
  BY FS_Subset DEF Ordered
<1>2. Cardinality(before[a]) <= Cardinality(before[b])
      /\ Cardinality(before[a]) # Cardinality(before[b])
  BY <1>1, FS_Subset
<1>3. Cardinality(before[a]) \in Nat /\ Cardinality(before[b]) \in Nat
  BY <1>1, FS_Subset, FS_CardinalityType
<1>. QED  BY <1>2, <1>3 DEF Rank

LEMMA RankInjective ==
    ASSUME NEW M, NEW before, Ordered(M, before), NEW a \in M, NEW b \in M,
           Rank(before, a) = Rank(before, b)
    PROVE  a = b
<1>1. Rank(before, a) \in Int /\ Rank(before, b) \in Int
  BY RankType, FS_CardinalityType DEF Ordered
<1>2. ~(a \in before[b]) /\ ~(b \in before[a])
  BY <1>1, RankOrder
<1>. QED  BY <1>2 DEF Ordered

\* Rows that come after n others are n fewer than all.
LEMMA RowsAfter ==
    ASSUME NEW M, NEW before, Ordered(M, before), NEW n \in Nat, n <= Cardinality(M),
           NEW S \in SUBSET {a \in M : Rank(before, a) > n}
    PROVE  IsFiniteSet(S) /\ Cardinality(S) \in Nat /\ n + Cardinality(S) <= Cardinality(M)
<1>. DEFINE last == Cardinality(M)
            rank == [a \in S |-> Rank(before, a)]
<1>1. last \in Nat /\ IsFiniteSet(S) /\ Cardinality(S) \in Nat
  BY FS_Subset, FS_CardinalityType DEF Ordered
<1>2. \A a \in S : a \in M /\ Rank(before, a) \in 1 .. last /\ Rank(before, a) > n
  BY RankType
<1>3. rank \in [S -> n + 1 .. last]
  BY <1>1, <1>2
<1>4. \A a, b \in S : rank[a] = rank[b] => a = b
  BY <1>2, RankInjective
<1>. HIDE DEF rank
<1>5. rank \in Injection(S, n + 1 .. last)
  BY <1>3, <1>4 DEF Injection, IsInjective
<1>6. IsFiniteSet(n + 1 .. last) /\ Cardinality(n + 1 .. last) = last - n
  BY <1>1, FS_Interval
<1>7. Cardinality(S) <= Cardinality(n + 1 .. last)
  BY <1>5, <1>6, FS_Injection
<1>. QED  BY <1>1, <1>6, <1>7
=============================================================================
