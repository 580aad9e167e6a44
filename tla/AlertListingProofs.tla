-------------------------- MODULE AlertListingProofs --------------------------
(***************************************************************************)
(* Theorems about AlertListing, for every number of alerts, pages and      *)
(* renames and every filter.  All of them rest on one invariant, WalkInv   *)
(* below: what the positions of the alerts say, at every point of the      *)
(* walk, about how often each has been handed out and which are missed.    *)
(***************************************************************************)
EXTENDS AlertListing, PaginationProofs

ListingTypeOK ==
    /\ TypeOK
    /\ walk.page # 0 /\ walk.size # 0
    /\ IsFiniteSet(alerts) /\ walk.rows \subseteq alerts
    /\ \A a, b \in alerts : a.id = b.id => a = b

\* The position the walk has come to.
Came ==
    Offset(walk.page, walk.size) + (IF walk.pc \in {"count", "done"} THEN walk.size ELSE 0)

\* The first n rows of S, and the alerts of M that a walk that has come to
\* position n of S does not find any more: they are not in S, or before n.
Top(S, n) == {a \in S : Position(a, S) <= n}
Late(M, S, n) == {a \in M : a \notin S \/ Position(a, S) <= n}

StartInv ==
    walk.pc = "start" =>
        walk.page = 1 /\ owed = {} /\ gone = 0 /\ come = 0 /\ \A n \in AlertIds : seen[n] = 0

SeenInv == \A n \in AlertIds : seen[n] > 0 => \E a \in alerts : a.id = n

LateInv ==
    /\ walk.pc \in {"list", "count"} => Cardinality(Late(Missed, Result, Came)) <= gone
    /\ MissesHaveLeft

\* An alert that has left the result keeps the position it would come back to.
RepeatInv ==
    \A a \in alerts : seen[a.id] <= come + (IF Position(a, Result) <= Came THEN 1 ELSE 0)

TotalInv ==
    /\ walk.pc \in {"list", "count"} =>
           Offset(walk.page, walk.size) <= Cardinality(Result) + gone
    /\ walk.pc = "count" =>
           Offset(walk.page, walk.size) + Cardinality(walk.rows) <= Cardinality(Result) + gone
    /\ TotalCoversPage

PlainInv == walk.filter.search = None => gone = 0

WalkInv ==
    ListingTypeOK /\ StartInv /\ SeenInv /\ LateInv /\ RepeatInv /\ TotalInv /\ PlainInv

(***************************************************************************)
(* The order.                                                              *)
(***************************************************************************)
Preceding(S) == [a \in S |-> {b \in S : Before(b, a)}]

LEMMA AlertFields ==
    ASSUME NEW a \in Alert
    PROVE  a.at \in Nat /\ a.id \in Nat /\ a.id \in AlertIds /\ a.device \in Devices
BY NumberAssumption DEF Alert

LEMMA AlertsOrdered ==
    ASSUME NEW S \in SUBSET Alert, IsFiniteSet(S), \A a, b \in S : a.id = b.id => a = b
    PROVE  /\ Ordered(S, Preceding(S))
           /\ \A a \in S : Position(a, S) = Rank(Preceding(S), a)
<1>1. \A a \in S : a.at \in Nat /\ a.id \in Nat
  BY AlertFields
<1>2. \A a \in S : ~Before(a, a)
  BY <1>1 DEF Before
<1>3. \A a, b \in S : a # b => Before(a, b) \/ Before(b, a)
  BY <1>1 DEF Before
<1>4. \A a, b, c \in S : Before(a, b) /\ Before(b, c) => Before(a, c)
  BY <1>1 DEF Before
<1>. QED  BY <1>2, <1>3, <1>4 DEF Ordered, Preceding, Position, Rank

LEMMA PositionType ==
    ASSUME NEW S, IsFiniteSet(S), NEW a
    PROVE  /\ IsFiniteSet({b \in S : Before(b, a)})
           /\ Cardinality({b \in S : Before(b, a)}) \in Nat
           /\ Position(a, S) \in Nat \ {0}
<1>1. IsFiniteSet({b \in S : Before(b, a)})
  BY FS_Subset
<1>2. Cardinality({b \in S : Before(b, a)}) \in Nat
  BY <1>1, FS_CardinalityType
<1>. QED  BY <1>1, <1>2 DEF Position

LEMMA DisjointUnion ==
    ASSUME NEW A, IsFiniteSet(A), NEW B, IsFiniteSet(B), A \cap B = {}
    PROVE  /\ IsFiniteSet(A \cup B) /\ Cardinality(A) \in Nat /\ Cardinality(B) \in Nat
           /\ Cardinality(A \cup B) = Cardinality(A) + Cardinality(B)
<1>1. /\ IsFiniteSet(A \cup B)
      /\ Cardinality(A \cup B) = Cardinality(A) + Cardinality(B) - Cardinality({})
  BY FS_Union
<1>2. Cardinality({}) = 0
  BY FS_EmptySet
<1>3. Cardinality(A) \in Nat /\ Cardinality(B) \in Nat
  BY FS_CardinalityType
<1>. QED  BY <1>1, <1>2, <1>3

\* The first n rows are n, unless there are fewer, and they come before the others.
LEMMA TopType ==
    ASSUME NEW S \in SUBSET Alert, IsFiniteSet(S), \A a, b \in S : a.id = b.id => a = b,
           NEW n \in Nat
    PROVE  /\ IsFiniteSet(Top(S, n)) /\ Cardinality(Top(S, n)) \in Nat
           /\ Cardinality(Top(S, n)) <= n
           /\ S # Top(S, n) => Cardinality(Top(S, n)) = n
           /\ \A a \in Top(S, n), b \in S \ Top(S, n) : Before(a, b)
           /\ \A a \in S, b \in Top(S, n) : Before(a, b) => a \in Top(S, n)
<1>. DEFINE top == Top(S, n)
            rest == S \ top
            rank == [a \in top |-> Position(a, S)]
<1>1. /\ Ordered(S, Preceding(S))
      /\ \A a \in S : Position(a, S) = Rank(Preceding(S), a)
  BY AlertsOrdered
<1>2. \A a \in S : Position(a, S) \in 1 .. Cardinality(S)
  BY <1>1, RankType
<1>3. \A a, b \in S : Position(a, S) = Position(b, S) => a = b
  BY <1>1, RankInjective
<1>4. \A a, b \in S : Before(a, b) => Position(a, S) < Position(b, S)
  <2>. SUFFICES ASSUME NEW a \in S, NEW b \in S, Before(a, b)
                PROVE  Position(a, S) < Position(b, S)
    OBVIOUS
  <2>1. a \in Preceding(S)[b]
    BY DEF Preceding
  <2>. QED  BY <1>1, <2>1, RankOrder
<1>5. Cardinality(S) \in Nat
  BY FS_CardinalityType
<1>6. top \in SUBSET S /\ IsFiniteSet(top) /\ Cardinality(top) \in Nat
  <2>1. top \in SUBSET S
    BY DEF Top
  <2>. QED  BY <2>1, FS_Subset, FS_CardinalityType
<1>7. Cardinality(top) <= n
  <2>1. rank \in Injection(top, 1 .. n)
    BY <1>2, <1>3, <1>5 DEF Injection, IsInjective, Top
  <2>2. IsFiniteSet(1 .. n) /\ Cardinality(1 .. n) = n
    BY FS_Interval
  <2>3. Cardinality(top) <= Cardinality(1 .. n)
    BY <2>1, <2>2, FS_Injection
  <2>. QED  BY <2>2, <2>3
<1>8. ASSUME S # top  PROVE Cardinality(top) = n
  <2>1. PICK b \in S : ~(Position(b, S) <= n)
    BY <1>8 DEF Top
  <2>2. n <= Cardinality(S)
    BY <1>2, <1>5, <2>1
  <2>3. rest \in SUBSET {a \in S : Rank(Preceding(S), a) > n}
    BY <1>1, <1>2, <1>5 DEF Top
  <2>4. IsFiniteSet(rest) /\ Cardinality(rest) \in Nat /\ n + Cardinality(rest) <= Cardinality(S)
    BY <1>1, <2>2, <2>3, RowsAfter
  <2>5. Cardinality(S) = Cardinality(top) + Cardinality(rest)
    <3>1. S = top \cup rest /\ top \cap rest = {}
      BY <1>6
    <3>. HIDE DEF rest, top
    <3>. QED  BY <1>6, <2>4, <3>1, DisjointUnion
  <2>. QED  BY <1>6, <1>7, <2>4, <2>5
<1>9. ASSUME NEW a \in top, NEW b \in rest  PROVE Before(a, b)
  <2>1. a \in S /\ b \in S /\ Position(a, S) <= n /\ ~(Position(b, S) <= n)
    BY <1>6 DEF Top
  <2>2. a # b /\ ~Before(b, a)
    BY <1>2, <1>4, <1>5, <2>1
  <2>. QED  BY <2>1, <2>2, AlertFields DEF Before
<1>10. ASSUME NEW a \in S, NEW b \in top, Before(a, b)  PROVE a \in top
  BY <1>2, <1>4, <1>5, <1>6, <1>10 DEF Top
<1>. QED  BY <1>6, <1>7, <1>8, <1>9, <1>10

\* A position is no later for alerts that leave, and no earlier for those that come.
LEMMA PositionMonotone ==
    ASSUME NEW S, NEW T, IsFiniteSet(T), S \subseteq T, NEW a
    PROVE  Position(a, S) <= Position(a, T)
<1>1. {b \in S : Before(b, a)} \in SUBSET {b \in T : Before(b, a)}
  OBVIOUS
<1>2. IsFiniteSet(S)
  BY FS_Subset
<1>3. /\ IsFiniteSet({b \in T : Before(b, a)})
      /\ Cardinality({b \in T : Before(b, a)}) \in Nat /\ Cardinality({b \in S : Before(b, a)}) \in Nat
  BY <1>2, PositionType
<1>4. Cardinality({b \in S : Before(b, a)}) <= Cardinality({b \in T : Before(b, a)})
  BY <1>1, <1>3, FS_Subset
<1>. QED  BY <1>3, <1>4 DEF Position

(***************************************************************************)
(* Results that change, from S to T.                                       *)
(***************************************************************************)
LEMMA DifferenceType ==
    ASSUME NEW S, IsFiniteSet(S), NEW T, IsFiniteSet(T)
    PROVE  /\ IsFiniteSet(S \ T) /\ Cardinality(S \ T) \in Nat
           /\ Cardinality(S) \in Nat /\ Cardinality(T) \in Nat
           /\ Cardinality(S) <= Cardinality(T) + Cardinality(S \ T)
<1>. DEFINE A == S \cap T
            B == S \ T
<1>1. A \in SUBSET T /\ B \in SUBSET S /\ S = A \cup B /\ A \cap B = {}
  OBVIOUS
<1>2. IsFiniteSet(A) /\ Cardinality(A) <= Cardinality(T)
  BY <1>1, FS_Subset
<1>3. IsFiniteSet(B)
  BY <1>1, FS_Subset
<1>. HIDE DEF A, B
<1>4. /\ Cardinality(A) \in Nat /\ Cardinality(B) \in Nat
      /\ Cardinality(S) \in Nat /\ Cardinality(T) \in Nat
  BY <1>2, <1>3, FS_CardinalityType
<1>5. Cardinality(S) = Cardinality(A) + Cardinality(B)
  BY <1>1, <1>2, <1>3, DisjointUnion
<1>. QED  BY <1>2, <1>3, <1>4, <1>5 DEF B

LEMMA LateType ==
    ASSUME NEW M, IsFiniteSet(M), NEW S, NEW n
    PROVE  /\ Late(M, S, n) \in SUBSET M /\ IsFiniteSet(Late(M, S, n))
           /\ Cardinality(Late(M, S, n)) \in Nat /\ Cardinality(M) \in Nat
           /\ Cardinality(Late(M, S, n)) <= Cardinality(M)
<1>1. Late(M, S, n) \in SUBSET M
  BY DEF Late
<1>. QED  BY <1>1, FS_Subset, FS_CardinalityType

\* No more become late than leave.  One that is moved up past n makes way for
\* none that stays: all that stand before it in the first n rows of S stay there.
LEMMA LeaversMakeLate ==
    ASSUME NEW S \in SUBSET Alert, IsFiniteSet(S), NEW T \in SUBSET Alert, IsFiniteSet(T),
           \A a, b \in S : a.id = b.id => a = b, \A a, b \in T : a.id = b.id => a = b,
           NEW M, IsFiniteSet(M), NEW n \in Nat
    PROVE  Cardinality(Late(M, T, n)) <= Cardinality(Late(M, S, n)) + Cardinality(S \ T)
<1>. DEFINE old == Top(S, n)
            new == Top(T, n)
            up == (S \ old) \cap new
            stay == old \cap T
            left == old \ T
<1>1. /\ IsFiniteSet(old) /\ Cardinality(old) \in Nat
      /\ S # old => Cardinality(old) = n
      /\ \A a \in old, b \in S \ old : Before(a, b)
  BY TopType
<1>2. /\ IsFiniteSet(new) /\ Cardinality(new) \in Nat /\ Cardinality(new) <= n
      /\ \A a \in T, b \in new : Before(a, b) => a \in new
  BY TopType
<1>3. old \in SUBSET S /\ new \in SUBSET T
  BY DEF Top
<1>4. Late(M, S, n) = M \ (S \ old) /\ Late(M, T, n) = M \ (T \ new)
  BY DEF Late, Top
<1>. HIDE DEF old, new
<1>5. /\ IsFiniteSet(up) /\ IsFiniteSet(stay) /\ IsFiniteSet(left) /\ IsFiniteSet(S \ T)
      /\ IsFiniteSet((S \ old) \ T)
  <2>1. up \in SUBSET S /\ stay \in SUBSET S /\ left \in SUBSET S /\ S \ T \in SUBSET S
        /\ (S \ old) \ T \in SUBSET S
    BY <1>3
  <2>. HIDE DEF up, stay, left
  <2>. QED  BY <2>1, FS_Subset
<1>6. /\ Cardinality(up) \in Nat /\ Cardinality(stay) \in Nat /\ Cardinality(left) \in Nat
      /\ Cardinality(S \ T) \in Nat /\ Cardinality((S \ old) \ T) \in Nat
  <2>. HIDE DEF up, stay, left
  <2>. QED  BY <1>5, FS_CardinalityType
<1>7. Cardinality(old) = Cardinality(stay) + Cardinality(left)
  <2>1. old = stay \cup left /\ stay \cap left = {}
    OBVIOUS
  <2>. HIDE DEF stay, left
  <2>. QED  BY <1>5, <2>1, DisjointUnion
<1>8. Cardinality(up) <= Cardinality(left)
  <2>1. CASE up = {}
    BY <1>6, <2>1, FS_EmptySet
  <2>2. CASE up # {}
    <3>1. PICK y \in S \ old : y \in new
      BY <2>2
    <3>2. \A a \in stay : a \in new
      BY <1>1, <1>2, <3>1
    <3>3. up \cup stay \in SUBSET new /\ up \cap stay = {}
      BY <3>2
    <3>4. Cardinality(old) = n
      BY <1>1, <3>1
    <3>. HIDE DEF up, stay, left
    <3>5. Cardinality(up \cup stay) = Cardinality(up) + Cardinality(stay)
      BY <1>5, <3>3, DisjointUnion
    <3>6. Cardinality(up \cup stay) <= Cardinality(new)
      BY <1>2, <3>3, FS_Subset
    <3>7. Cardinality(up) + Cardinality(stay) <= n
      BY <1>2, <1>6, <3>5, <3>6
    <3>. QED  BY <1>6, <1>7, <3>4, <3>7
  <2>. QED  BY <2>1, <2>2
<1>9. Cardinality(S \ T) = Cardinality(left) + Cardinality((S \ old) \ T)
  <2>. DEFINE far == (S \ old) \ T
  <2>1. S \ T = left \cup far /\ left \cap far = {}
    BY <1>3
  <2>2. IsFiniteSet(far) /\ Cardinality(far) \in Nat
    BY <1>5, <1>6
  <2>. HIDE DEF left, far
  <2>3. Cardinality(S \ T) = Cardinality(left) + Cardinality(far)
    BY <1>5, <2>1, <2>2, DisjointUnion
  <2>. QED  BY <2>3 DEF far
<1>10. Cardinality(up \cup ((S \ old) \ T)) <= Cardinality(S \ T)
  <2>. DEFINE far == (S \ old) \ T
  <2>1. up \cap far = {}
    BY <1>3
  <2>2. IsFiniteSet(far) /\ Cardinality(far) \in Nat /\ Cardinality(S \ T) = Cardinality(left) + Cardinality(far)
    BY <1>5, <1>6, <1>9
  <2>. HIDE DEF up, left, far
  <2>3. Cardinality(up \cup far) = Cardinality(up) + Cardinality(far)
    BY <1>5, <2>1, <2>2, DisjointUnion
  <2>4. Cardinality(up \cup far) <= Cardinality(S \ T)
    BY <1>6, <1>8, <2>2, <2>3
  <2>. QED  BY <2>4 DEF far
<1>11. /\ Late(M, T, n) \ Late(M, S, n) \in SUBSET (up \cup ((S \ old) \ T))
       /\ IsFiniteSet(up \cup ((S \ old) \ T))
  <2>1. Late(M, T, n) \ Late(M, S, n) \in SUBSET (up \cup ((S \ old) \ T))
    BY <1>4
  <2>. HIDE DEF up
  <2>. QED  BY <1>5, <2>1, FS_Union
<1>12. Cardinality(Late(M, T, n) \ Late(M, S, n)) <= Cardinality(S \ T)
  <2>. DEFINE moved == up \cup ((S \ old) \ T)
              more == Late(M, T, n) \ Late(M, S, n)
  <2>1. more \in SUBSET moved /\ IsFiniteSet(moved) /\ Cardinality(moved) <= Cardinality(S \ T)
    BY <1>10, <1>11
  <2>. HIDE DEF moved, more
  <2>2. /\ Cardinality(more) <= Cardinality(moved) /\ IsFiniteSet(more)
        /\ Cardinality(more) \in Nat /\ Cardinality(moved) \in Nat
    BY <2>1, FS_Subset, FS_CardinalityType
  <2>3. Cardinality(more) <= Cardinality(S \ T)
    BY <1>6, <2>1, <2>2
  <2>. QED  BY <2>3 DEF more
<1>13. /\ IsFiniteSet(Late(M, T, n)) /\ IsFiniteSet(Late(M, S, n))
       /\ Cardinality(Late(M, T, n)) \in Nat /\ Cardinality(Late(M, S, n)) \in Nat
  BY LateType
<1>14. /\ Cardinality(Late(M, T, n)) <= Cardinality(Late(M, S, n)) + Cardinality(Late(M, T, n) \ Late(M, S, n))
       /\ Cardinality(Late(M, T, n) \ Late(M, S, n)) \in Nat
  BY <1>13, DifferenceType
<1>. QED  BY <1>6, <1>12, <1>13, <1>14

(***************************************************************************)
(* Types.                                                                  *)
(***************************************************************************)
LEMMA WalkType ==
    ASSUME ListingTypeOK
    PROVE  /\ walk.page \in Nat \ {0} /\ walk.size \in Nat \ {0} /\ walk.total \in Nat
           /\ walk.pc \in {"start", "list", "count", "done"}
           /\ walk.rows \in SUBSET Alert /\ Cardinality(walk.rows) \in Nat
           /\ Offset(walk.page, walk.size) \in Nat /\ Came \in Nat
           /\ gone \in Nat /\ come \in Nat
<1>1. /\ walk.page \in Nat \ {0} /\ walk.size \in Nat \ {0} /\ walk.total \in Nat
      /\ walk.pc \in {"start", "list", "count", "done"}
      /\ walk.rows \in SUBSET Alert
      /\ gone \in Nat /\ come \in Nat
  BY DEF ListingTypeOK, TypeOK, Walk
<1>2. Offset(walk.page, walk.size) \in Nat
  BY <1>1, NextOffset
<1>3. walk.rows \in SUBSET alerts /\ IsFiniteSet(alerts)
  BY DEF ListingTypeOK
<1>4. Cardinality(walk.rows) \in Nat
  BY <1>3, FS_Subset, FS_CardinalityType
<1>. QED  BY <1>1, <1>2, <1>4 DEF Came

LEMMA AlertsType ==
    ASSUME ListingTypeOK, NEW a \in alerts
    PROVE  a.id \in AlertIds /\ seen[a.id] \in Nat
<1>1. a.id \in AlertIds
  BY AlertFields DEF ListingTypeOK, TypeOK
<1>. QED  BY <1>1 DEF ListingTypeOK, TypeOK

LEMMA ResultType ==
    ASSUME ListingTypeOK
    PROVE  /\ Result \in SUBSET alerts /\ Result \in SUBSET Alert
           /\ IsFiniteSet(Result) /\ Cardinality(Result) \in Nat
           /\ \A a, b \in Result : a.id = b.id => a = b
           /\ IsFiniteSet(Missed) /\ Missed \in SUBSET owed
<1>1. Result \in SUBSET alerts /\ Missed \in SUBSET owed /\ Missed \in SUBSET alerts
  BY DEF Result, Matching, Missed, ListingTypeOK, TypeOK
<1>2. IsFiniteSet(Result) /\ Cardinality(Result) \in Nat /\ IsFiniteSet(Missed)
  BY <1>1, FS_Subset, FS_CardinalityType DEF ListingTypeOK
<1>3. Result \in SUBSET Alert
  BY <1>1 DEF ListingTypeOK, TypeOK
<1>. QED  BY <1>1, <1>2, <1>3 DEF ListingTypeOK

(***************************************************************************)
(* Steps.  A change of the tables first, whatever changes.                 *)
(***************************************************************************)
LEMMA ChangeStep ==
    ASSUME WalkInv, Follow, ListingTypeOK', alerts \subseteq alerts',
           \A x \in alerts' \ alerts : \A b \in alerts : b.id # x.id,
           walk.filter.search = None => Result \subseteq Result'
    PROVE  WalkInv'
<1>0. ListingTypeOK
  BY DEF WalkInv
<1>1. /\ walk.pc # "done" /\ walk' = walk /\ seen' = seen /\ owed' = owed
      /\ gone' = IF walk.pc = "start" THEN 0 ELSE gone + Cardinality(Result \ Result')
      /\ come' = IF walk.pc = "start" THEN 0 ELSE come + Cardinality(Result' \ Result)
  BY DEF Follow
<1>2. /\ Came' = Came /\ Came \in Nat /\ gone \in Nat /\ come \in Nat
      /\ walk.pc \in {"start", "list", "count"}
      /\ Offset(walk.page, walk.size) \in Nat /\ Cardinality(walk.rows) \in Nat
  BY <1>0, <1>1, WalkType DEF Came
<1>3. /\ Result \in SUBSET Alert /\ IsFiniteSet(Result)
      /\ \A a, b \in Result : a.id = b.id => a = b
      /\ Result' \in SUBSET Alert /\ IsFiniteSet(Result')
      /\ \A a, b \in Result' : a.id = b.id => a = b
      /\ IsFiniteSet(Missed) /\ Missed' = Missed
  <2>1. /\ Result \in SUBSET Alert /\ IsFiniteSet(Result)
        /\ \A a, b \in Result : a.id = b.id => a = b
        /\ IsFiniteSet(Missed) /\ Missed' = Missed
    BY <1>0, <1>1, ResultType DEF Missed
  <2>2. /\ Result' \in SUBSET alerts' /\ alerts' \in SUBSET Alert /\ IsFiniteSet(alerts')
        /\ \A a, b \in alerts' : a.id = b.id => a = b
    BY DEF Result, Matching, ListingTypeOK, TypeOK
  <2>3. IsFiniteSet(Result')
    BY <2>2, FS_Subset
  <2>. QED  BY <2>1, <2>2, <2>3
<1>4. /\ Cardinality(Result \ Result') \in Nat /\ Cardinality(Result' \ Result) \in Nat
      /\ IsFiniteSet(Result' \ Result)
      /\ Cardinality(Result) \in Nat /\ Cardinality(Result') \in Nat
      /\ Cardinality(Result) <= Cardinality(Result') + Cardinality(Result \ Result')
  BY <1>3, DifferenceType
<1>5. StartInv'
  BY <1>1 DEF WalkInv, StartInv
<1>6. SeenInv'
  BY <1>1 DEF WalkInv, SeenInv
<1>7. LateInv'
  <2>. SUFFICES ASSUME walk.pc \in {"list", "count"}
                PROVE  Cardinality(Late(Missed, Result', Came)) <= gone'
    BY <1>1, <1>2, <1>3 DEF LateInv, MissesHaveLeft, Late
  <2>1. Cardinality(Late(Missed, Result, Came)) <= gone
    BY DEF WalkInv, LateInv
  <2>2. /\ Cardinality(Late(Missed, Result, Came)) \in Nat
        /\ Cardinality(Late(Missed, Result', Came)) \in Nat
    BY <1>3, LateType
  <2>3. Cardinality(Late(Missed, Result', Came))
        <= Cardinality(Late(Missed, Result, Came)) + Cardinality(Result \ Result')
    BY <1>2, <1>3, LeaversMakeLate
  <2>. QED  BY <1>1, <1>2, <1>4, <2>1, <2>2, <2>3
<1>8. RepeatInv'
  <2>. SUFFICES ASSUME NEW a \in alerts'
                PROVE  seen[a.id] <= come' + (IF Position(a, Result') <= Came THEN 1 ELSE 0)
    BY <1>1, <1>2 DEF RepeatInv, Position
  <2>1. a.id \in AlertIds /\ seen[a.id] \in Nat /\ come' \in Nat
    <3>1. a \in Alert /\ seen \in [AlertIds -> Nat]
      BY <1>0 DEF ListingTypeOK, TypeOK
    <3>2. a.id \in AlertIds
      BY <3>1, AlertFields
    <3>. QED  BY <1>1, <1>2, <1>4, <3>1, <3>2
  <2>2. CASE seen[a.id] = 0
    <3>. DEFINE at == IF Position(a, Result') <= Came THEN 1 ELSE 0
    <3>1. at \in Nat
      OBVIOUS
    <3>. HIDE DEF at
    <3>2. \A m, n \in Nat : 0 <= m + n
      OBVIOUS
    <3>3. 0 <= come' + at
      BY <2>1, <3>1, <3>2, Zenon
    <3>. QED  BY <2>2, <3>3, Zenon DEF at
  <2>3. CASE seen[a.id] # 0
    <3>1. PICK b \in alerts : b.id = a.id
      BY <2>1, <2>3 DEF WalkInv, SeenInv
    <3>2. a \in alerts
      BY <3>1
    <3>3. walk.pc # "start"
      BY <2>1, <2>3 DEF WalkInv, StartInv
    <3>4. seen[a.id] <= come + (IF Position(a, Result) <= Came THEN 1 ELSE 0)
      BY <3>2 DEF WalkInv, RepeatInv
    <3>5. come' = come + Cardinality(Result' \ Result)
      BY <1>1, <3>3
    <3>6. CASE Result' \ Result = {}
      <4>1. Position(a, Result') <= Position(a, Result)
        BY <1>3, <3>6, PositionMonotone
      <4>2. Position(a, Result') \in Nat /\ Position(a, Result) \in Nat
        BY <1>3, PositionType
      <4>. QED  BY <1>2, <1>4, <2>1, <3>4, <3>5, <4>1, <4>2
    <3>7. CASE Result' \ Result # {}
      <4>1. Cardinality(Result' \ Result) # 0
        BY <1>4, <3>7, FS_EmptySet
      <4>. QED  BY <1>2, <1>4, <2>1, <3>4, <3>5, <4>1
    <3>. QED  BY <3>6, <3>7
  <2>. QED  BY <2>2, <2>3
<1>9. TotalInv'
  <2>. SUFFICES ASSUME walk.pc \in {"list", "count"}
                PROVE  /\ Offset(walk.page, walk.size) <= Cardinality(Result') + gone'
                       /\ walk.pc = "count" =>
                              Offset(walk.page, walk.size) + Cardinality(walk.rows)
                              <= Cardinality(Result') + gone'
    BY <1>1 DEF TotalInv, TotalCoversPage
  <2>1. /\ Offset(walk.page, walk.size) <= Cardinality(Result) + gone
        /\ walk.pc = "count" =>
               Offset(walk.page, walk.size) + Cardinality(walk.rows) <= Cardinality(Result) + gone
    BY DEF WalkInv, TotalInv
  <2>2. gone' = gone + Cardinality(Result \ Result')
    BY <1>1
  <2>3. Cardinality(Result) + gone <= Cardinality(Result') + gone'
    BY <1>2, <1>4, <2>2
  <2>4. gone' \in Nat
    BY <1>2, <1>4, <2>2
  <2>. QED  BY <1>2, <1>4, <2>1, <2>3, <2>4
<1>10. PlainInv'
  <2>. SUFFICES ASSUME walk.filter.search = None  PROVE gone' = 0
    BY <1>1 DEF PlainInv
  <2>1. gone = 0 /\ Result \ Result' = {}
    BY DEF WalkInv, PlainInv
  <2>2. Cardinality({}) = 0
    BY FS_EmptySet
  <2>. QED  BY <1>1, <2>1, <2>2
<1>. QED  BY <1>5, <1>6, <1>7, <1>8, <1>9, <1>10 DEF WalkInv

LEMMA InsertStep == ASSUME WalkInv, NEW x \in Alert, Insert(x)  PROVE WalkInv'
<1>0. ListingTypeOK
  BY DEF WalkInv
<1>1. /\ \A b \in alerts : b.id # x.id
      /\ alerts' = alerts \cup {x} /\ names' = names /\ renames' = renames /\ Follow
      /\ walk' = walk /\ seen' = seen /\ owed' = owed
  BY DEF Insert, Follow
<1>2. Result \subseteq Result'
  BY <1>1 DEF Result, Matching, Found
<1>3. IsFiniteSet(alerts')
  BY <1>0, <1>1, FS_AddElement DEF ListingTypeOK
<1>4. gone' \in Nat /\ come' \in Nat
  <2>1. Result' \in SUBSET alerts' /\ IsFiniteSet(Result) /\ IsFiniteSet(alerts')
    BY <1>0, <1>3, ResultType DEF Result, Matching
  <2>2. IsFiniteSet(Result')
    BY <2>1, FS_Subset
  <2>3. Cardinality(Result \ Result') \in Nat /\ Cardinality(Result' \ Result) \in Nat
    BY <2>1, <2>2, DifferenceType
  <2>. QED  BY <1>0, <1>1, <2>3, WalkType DEF Follow
<1>5. TypeOK'
  BY <1>0, <1>1, <1>4 DEF ListingTypeOK, TypeOK
<1>6. ListingTypeOK'
  BY <1>0, <1>1, <1>3, <1>5 DEF ListingTypeOK
<1>. QED  BY <1>1, <1>2, <1>6, ChangeStep

LEMMA RenameStep ==
    ASSUME WalkInv, NEW d \in Devices, NEW text \in Texts, Rename(d, text)
    PROVE  WalkInv'
<1>0. ListingTypeOK
  BY DEF WalkInv
<1>1. /\ alerts' = alerts /\ names' = [names EXCEPT ![d] = text] /\ Follow
      /\ renames < MaxRenames /\ renames' = renames + 1
      /\ walk' = walk /\ seen' = seen /\ owed' = owed
  BY DEF Rename, Follow
<1>2. walk.filter.search = None => Result' = Result
  BY <1>1 DEF Result, Matching
<1>3. gone' \in Nat /\ come' \in Nat
  <2>1. Result' \in SUBSET alerts /\ IsFiniteSet(Result) /\ IsFiniteSet(alerts)
    BY <1>0, <1>1, ResultType DEF Result, Matching, ListingTypeOK
  <2>2. IsFiniteSet(Result')
    BY <2>1, FS_Subset
  <2>3. Cardinality(Result \ Result') \in Nat /\ Cardinality(Result' \ Result) \in Nat
    BY <2>1, <2>2, DifferenceType
  <2>. QED  BY <1>0, <1>1, <2>3, WalkType DEF Follow
<1>4. names' \in [Devices -> Texts] /\ renames' \in 0 .. MaxRenames
  BY <1>0, <1>1, RenameAssumption DEF ListingTypeOK, TypeOK
<1>5. TypeOK'
  BY <1>0, <1>1, <1>3, <1>4 DEF ListingTypeOK, TypeOK
<1>6. ListingTypeOK'
  BY <1>0, <1>1, <1>5 DEF ListingTypeOK
<1>. QED  BY <1>1, <1>2, <1>6, ChangeStep

LEMMA BeginStep == ASSUME WalkInv, Begin  PROVE WalkInv'
<1>0. ListingTypeOK /\ StartInv
  BY DEF WalkInv
<1>1. /\ walk.pc = "start" /\ walk' = [walk EXCEPT !.pc = "list"] /\ owed' = Result
      /\ alerts' = alerts /\ names' = names /\ renames' = renames /\ seen' = seen
      /\ gone' = gone /\ come' = come /\ gone = 0 /\ come = 0
  BY <1>0 DEF Begin, tables, StartInv
<1>2. /\ walk' \in Walk /\ walk'.pc = "list" /\ walk'.page = 1 /\ walk'.size = walk.size
      /\ walk'.client = walk.client /\ walk'.filter = walk.filter /\ walk'.rows = walk.rows
  BY <1>0, <1>1 DEF StartInv, ListingTypeOK, TypeOK, Walk
<1>3. Result' = Result
  BY <1>1, <1>2 DEF Result, Matching, Found
<1>4. ListingTypeOK'
  BY <1>0, <1>1, <1>2, ResultType DEF ListingTypeOK, TypeOK
<1>5. /\ IsFiniteSet(Result) /\ Cardinality(Result) \in Nat /\ Result \in SUBSET alerts
      /\ \A a \in alerts : seen[a.id] = 0
  BY <1>0, <1>1, ResultType, AlertsType DEF StartInv
<1>6. Came' = 0 /\ Offset(walk'.page, walk'.size) = 0
  <2>1. Offset(1, walk.size) = 0
    BY <1>0, WalkType, FirstOffset
  <2>. QED  BY <1>2, <2>1 DEF Came
<1>7. \A a : Position(a, Result) \in Nat /\ ~(Position(a, Result) <= 0)
  <2>1. \A a : Position(a, Result) \in Nat \ {0}
    BY <1>5, PositionType
  <2>. QED  BY <2>1
<1>8. LateInv'
  <2>1. Late(Missed', Result, 0) = {}
    BY <1>1, <1>7 DEF Late, Missed
  <2>2. Late(Missed, Result, Came)' = {}
    BY <1>3, <1>6, <2>1 DEF Late, Position
  <2>. QED  BY <1>1, <1>2, <2>2, FS_EmptySet DEF LateInv, MissesHaveLeft
<1>9. RepeatInv'
  BY <1>1, <1>3, <1>5, <1>6, <1>7 DEF RepeatInv, Position
<1>10. TotalInv'
  BY <1>1, <1>2, <1>3, <1>5, <1>6 DEF TotalInv, TotalCoversPage
<1>11. StartInv' /\ SeenInv' /\ PlainInv'
  BY <1>1, <1>2 DEF WalkInv, StartInv, SeenInv, PlainInv
<1>. QED  BY <1>4, <1>8, <1>9, <1>10, <1>11 DEF WalkInv

LEMMA ListStep == ASSUME WalkInv, ListPage  PROVE WalkInv'
<1>. DEFINE offset == Offset(walk.page, walk.size)
            end == offset + walk.size
            rows == Slice(Result, walk.page, walk.size)
<1>0. ListingTypeOK
  BY DEF WalkInv
<1>1. /\ walk.pc = "list" /\ walk' = [walk EXCEPT !.pc = "count", !.rows = rows]
      /\ seen' = [n \in AlertIds |-> IF \E a \in rows : a.id = n THEN seen[n] + 1 ELSE seen[n]]
      /\ alerts' = alerts /\ names' = names /\ renames' = renames
      /\ owed' = owed /\ gone' = gone /\ come' = come
  BY DEF ListPage, tables, history
<1>2. /\ walk.page \in Nat \ {0} /\ walk.size \in Nat \ {0} /\ gone \in Nat /\ come \in Nat
      /\ offset \in Nat /\ end \in Nat /\ Came = offset
  BY <1>0, <1>1, WalkType DEF Came
<1>3. /\ IsFiniteSet(Result) /\ Cardinality(Result) \in Nat /\ Result \in SUBSET Alert
      /\ Result \in SUBSET alerts /\ \A a, b \in Result : a.id = b.id => a = b
      /\ \A a \in alerts : a.id \in AlertIds /\ seen[a.id] \in Nat
      /\ IsFiniteSet(Missed) /\ Missed \in SUBSET owed /\ owed \in SUBSET alerts
  BY <1>0, ResultType, AlertsType DEF ListingTypeOK, TypeOK
<1>4. \A a : Position(a, Result) \in Nat \ {0}
  BY <1>3, PositionType
<1>5. /\ rows \in SUBSET Result
      /\ \A a \in Result : a \in rows <=> Position(a, Result) > offset /\ Position(a, Result) <= end
  BY <1>2, <1>4 DEF Slice, OnPage
<1>. HIDE DEF offset, rows
<1>6. /\ walk' \in Walk /\ walk'.pc = "count" /\ walk'.page = walk.page /\ walk'.size = walk.size
      /\ walk'.client = walk.client /\ walk'.filter = walk.filter /\ walk'.rows = rows
  <2>1. rows \in SUBSET Alert /\ walk \in Walk
    BY <1>0, <1>3, <1>5 DEF ListingTypeOK, TypeOK
  <2>. QED  BY <1>1, <2>1 DEF Walk
<1>7. Result' = Result /\ Came' = end
  BY <1>1, <1>6 DEF Result, Matching, Found, Came, offset
<1>8. \A n \in AlertIds : seen'[n] \in Nat /\ seen'[n] >= seen[n] /\ seen[n] \in Nat
  BY <1>0, <1>1 DEF ListingTypeOK, TypeOK
<1>9. \A a \in alerts : seen'[a.id] = IF a \in rows THEN seen[a.id] + 1 ELSE seen[a.id]
  <2>1. \A a, b \in alerts : a.id = b.id => a = b
    BY <1>0 DEF ListingTypeOK
  <2>. QED  BY <1>1, <1>3, <1>5, <2>1
<1>10. ListingTypeOK'
  <2>1. seen' \in [AlertIds -> Nat]
    BY <1>1, <1>8
  <2>2. rows \in SUBSET alerts
    BY <1>3, <1>5
  <2>. QED  BY <1>0, <1>1, <1>6, <2>1, <2>2 DEF ListingTypeOK, TypeOK
<1>11. StartInv' /\ SeenInv' /\ PlainInv'
  <2>1. ASSUME NEW n \in AlertIds, seen'[n] > 0  PROVE \E a \in alerts : a.id = n
    <3>1. CASE seen[n] > 0
      BY <3>1 DEF WalkInv, SeenInv
    <3>2. CASE ~(seen[n] > 0)
      BY <1>1, <1>3, <1>5, <1>8, <2>1, <3>2
    <3>. QED  BY <3>1, <3>2
  <2>. QED  BY <1>1, <1>6, <2>1 DEF WalkInv, StartInv, SeenInv, PlainInv
<1>12. LateInv'
  <2>1. Missed' \in SUBSET Missed /\ \A a \in Missed' : a \notin rows
    BY <1>1, <1>3, <1>9 DEF Missed
  <2>2. Late(Missed', Result, end) \in SUBSET Late(Missed, Result, offset)
    BY <1>2, <1>4, <1>5, <2>1 DEF Late
  <2>3. Cardinality(Late(Missed, Result, offset)) <= gone
    BY <1>1, <1>2 DEF WalkInv, LateInv
  <2>4. /\ IsFiniteSet(Late(Missed, Result, offset))
        /\ Cardinality(Late(Missed, Result, offset)) \in Nat
    BY <1>3, LateType
  <2>5. /\ Cardinality(Late(Missed', Result, end)) <= Cardinality(Late(Missed, Result, offset))
        /\ Cardinality(Late(Missed', Result, end)) \in Nat
    BY <2>2, <2>4, FS_Subset, FS_CardinalityType
  <2>6. Cardinality(Late(Missed', Result, end)) <= gone
    BY <1>2, <2>3, <2>4, <2>5
  <2>. QED  BY <1>1, <1>6, <1>7, <2>6 DEF LateInv, MissesHaveLeft, Late, Position
<1>13. RepeatInv'
  <2>. SUFFICES ASSUME NEW a \in alerts
                PROVE  seen'[a.id] <= come + (IF Position(a, Result) <= end THEN 1 ELSE 0)
    BY <1>1, <1>7 DEF RepeatInv, Position
  <2>1. seen[a.id] <= come + (IF Position(a, Result) <= offset THEN 1 ELSE 0)
    BY <1>2 DEF WalkInv, RepeatInv
  <2>2. seen[a.id] \in Nat /\ Position(a, Result) \in Nat
    BY <1>3, <1>4
  <2>3. CASE a \in rows
    BY <1>2, <1>5, <1>9, <2>1, <2>2, <2>3
  <2>4. CASE a \notin rows
    BY <1>2, <1>5, <1>9, <2>1, <2>2, <2>4
  <2>. QED  BY <2>3, <2>4
<1>14. TotalInv'
  <2>1. offset <= Cardinality(Result) + gone
    BY <1>1 DEF WalkInv, TotalInv, offset
  <2>2. offset + Cardinality(rows) <= Cardinality(Result) + gone
    <3>1. /\ Ordered(Result, Preceding(Result))
          /\ \A a \in Result : Position(a, Result) = Rank(Preceding(Result), a)
      BY <1>3, AlertsOrdered
    <3>2. CASE offset <= Cardinality(Result)
      <4>1. rows \in SUBSET {a \in Result : Rank(Preceding(Result), a) > offset}
        BY <1>5, <3>1
      <4>2. Cardinality(rows) \in Nat /\ offset + Cardinality(rows) <= Cardinality(Result)
        BY <1>2, <3>1, <3>2, <4>1, RowsAfter
      <4>. QED  BY <1>2, <1>3, <4>2
    <3>3. CASE ~(offset <= Cardinality(Result))
      <4>1. \A a \in Result : Position(a, Result) \in 1 .. Cardinality(Result)
        BY <3>1, RankType
      <4>2. rows = {}
        BY <1>2, <1>3, <1>5, <3>3, <4>1
      <4>. QED  BY <1>2, <2>1, <4>2, FS_EmptySet
    <3>. QED  BY <3>2, <3>3
  <2>. QED  BY <1>1, <1>6, <1>7, <2>1, <2>2 DEF TotalInv, TotalCoversPage, offset
<1>. QED  BY <1>10, <1>11, <1>12, <1>13, <1>14 DEF WalkInv

LEMMA CountStep == ASSUME WalkInv, CountPage  PROVE WalkInv'
<1>. DEFINE offset == Offset(walk.page, walk.size)
            end == offset + walk.size
            total == Cardinality(Result)
            next == HasNext(walk.page, total, walk.size)
<1>0. ListingTypeOK
  BY DEF WalkInv
<1>1. /\ walk.pc = "count" /\ alerts' = alerts /\ names' = names /\ renames' = renames
      /\ seen' = seen /\ owed' = owed /\ gone' = gone /\ come' = come
      /\ walk' = [walk EXCEPT !.total = total,
                             !.pc = IF next THEN "list" ELSE "done",
                             !.page = IF next THEN @ + 1 ELSE @]
  BY DEF CountPage, tables, history
<1>2. /\ walk.page \in Nat \ {0} /\ walk.size \in Nat \ {0}
      /\ offset \in Nat /\ end \in Nat /\ Came = end /\ total \in Nat
      /\ gone \in Nat /\ come \in Nat
  BY <1>0, <1>1, WalkType, ResultType DEF Came
<1>3. next <=> end < total
  BY <1>2, HasNextOffset
<1>. HIDE DEF total, next
<1>4. /\ walk' \in Walk /\ walk'.size = walk.size /\ walk'.total = total
      /\ walk'.client = walk.client /\ walk'.filter = walk.filter /\ walk'.rows = walk.rows
      /\ walk'.pc = IF next THEN "list" ELSE "done"
      /\ walk'.page = IF next THEN walk.page + 1 ELSE walk.page
  <2>0. walk \in Walk
    BY <1>0 DEF ListingTypeOK, TypeOK
  <2>1. CASE next
    <3>1. walk' = [walk EXCEPT !.total = total, !.pc = "list", !.page = @ + 1]
      BY <1>1, <2>1
    <3>2. walk' = [pc |-> "list", client |-> walk.client, filter |-> walk.filter,
                   page |-> walk.page + 1, size |-> walk.size, rows |-> walk.rows,
                   total |-> total]
      BY <2>0, <3>1 DEF Walk
    <3>3. /\ walk.client \in Clients /\ walk.filter \in Filter /\ walk.rows \in SUBSET Alert
          /\ walk.page + 1 \in Nat /\ walk.size \in Nat
      BY <1>2, <2>0 DEF Walk
    <3>4. walk' \in Walk
      BY <1>2, <3>2, <3>3 DEF Walk
    <3>. QED  BY <2>1, <3>2, <3>4
  <2>2. CASE ~next
    <3>1. walk' = [walk EXCEPT !.total = total, !.pc = "done"]
      BY <1>1, <2>0, <2>2 DEF Walk
    <3>. QED  BY <1>2, <2>0, <2>2, <3>1 DEF Walk
  <2>. QED  BY <2>1, <2>2
<1>5. Result' = Result /\ Missed' = Missed
  BY <1>1, <1>4 DEF Result, Matching, Found, Missed
<1>6. Came' = end /\ (next => Offset(walk'.page, walk'.size) = end)
  <2>1. Offset(walk.page + 1, walk.size) = end
    BY <1>2, NextOffset
  <2>. QED  BY <1>2, <1>4, <2>1 DEF Came
<1>7. ListingTypeOK'
  BY <1>0, <1>1, <1>2, <1>4 DEF ListingTypeOK, TypeOK
<1>8. StartInv' /\ SeenInv' /\ PlainInv'
  BY <1>1, <1>4 DEF WalkInv, StartInv, SeenInv, PlainInv
<1>9. LateInv'
  <2>1. Cardinality(Late(Missed, Result, end)) <= gone
    BY <1>1, <1>2 DEF WalkInv, LateInv
  <2>2. ASSUME ~next  PROVE Late(Missed, Result, end) = Missed
    <3>1. \A a \in Result : Position(a, Result) \in 1 .. total
      BY <1>0, ResultType, AlertsOrdered, RankType DEF total
    <3>2. total <= end
      BY <1>2, <1>3, <2>2
    <3>. QED  BY <1>2, <3>1, <3>2 DEF Late
  <2>3. ~next => Cardinality(Missed) <= gone
    BY <2>1, <2>2
  <2>. QED  BY <1>1, <1>4, <1>5, <1>6, <2>1, <2>3 DEF LateInv, MissesHaveLeft, Late, Position
<1>10. RepeatInv'
  BY <1>1, <1>2, <1>5, <1>6 DEF WalkInv, RepeatInv, Position
<1>11. TotalInv'
  <2>1. offset + Cardinality(walk.rows) <= total + gone
    BY <1>1 DEF WalkInv, TotalInv, total
  <2>2. next => end <= total + gone
    BY <1>2, <1>3
  <2>. QED  BY <1>1, <1>4, <1>5, <1>6, <2>1, <2>2 DEF TotalInv, TotalCoversPage, total
<1>. QED  BY <1>7, <1>8, <1>9, <1>10, <1>11 DEF WalkInv

LEMMA WalkInit == Init => WalkInv
<1>. SUFFICES ASSUME Init  PROVE WalkInv
  OBVIOUS
<1>1. /\ alerts = {} /\ owed = {} /\ seen = [n \in AlertIds |-> 0] /\ gone = 0 /\ come = 0
      /\ names \in [Devices -> Texts] /\ renames = 0
      /\ walk \in [pc : {"start"}, client : Clients, filter : {f \in Filter : ValidRange(f)},
                   page : {1}, size : {n \in 1 .. MaxPageSize : ValidPage(1, n)},
                   rows : {{}}, total : {0}]
  BY DEF Init
<1>2. /\ walk \in Walk /\ walk.pc = "start" /\ walk.page = 1 /\ walk.size # 0 /\ walk.rows = {}
  <2>1. walk.size \in 1 .. MaxPageSize
    BY <1>1
  <2>2. {n \in 1 .. MaxPageSize : ValidPage(1, n)} \subseteq Nat
    BY PageAssumption
  <2>3. walk \in Walk
    BY <1>1, <2>2 DEF Walk
  <2>. QED  BY <1>1, <2>1, <2>3, PageAssumption
<1>3. ListingTypeOK
  BY <1>1, <1>2, RenameAssumption, FS_EmptySet DEF ListingTypeOK, TypeOK
<1>. QED
  BY <1>1, <1>2, <1>3
  DEF WalkInv, StartInv, SeenInv, LateInv, MissesHaveLeft, RepeatInv, TotalInv,
      TotalCoversPage, PlainInv

LEMMA WalkStep == WalkInv /\ [Next]_vars => WalkInv'
<1>1. ASSUME WalkInv, UNCHANGED vars  PROVE WalkInv'
  <2>1. /\ alerts' = alerts /\ names' = names /\ renames' = renames /\ walk' = walk
        /\ seen' = seen /\ owed' = owed /\ gone' = gone /\ come' = come
    BY <1>1 DEF vars, tables, history
  <2>2. Result' = Result /\ Missed' = Missed /\ Came' = Came
    BY <2>1 DEF Result, Matching, Found, Missed, Came
  <2>3. ListingTypeOK' /\ StartInv' /\ SeenInv' /\ PlainInv'
    BY <1>1, <2>1 DEF WalkInv, ListingTypeOK, TypeOK, StartInv, SeenInv, PlainInv
  <2>4. LateInv' /\ RepeatInv' /\ TotalInv'
    BY <1>1, <2>1, <2>2
    DEF WalkInv, LateInv, MissesHaveLeft, RepeatInv, TotalInv, TotalCoversPage, Late, Position
  <2>. QED  BY <2>3, <2>4 DEF WalkInv
<1>. QED  BY <1>1, InsertStep, RenameStep, BeginStep, ListStep, CountStep DEF Next

\* The type invariant of GET /alerts.
THEOREM TypeCorrect == Spec => []TypeOK
<1>1. WalkInv => TypeOK
  BY DEF WalkInv, ListingTypeOK
<1>. QED  BY <1>1, WalkInit, WalkStep, PTL DEF Spec

\* Whatever devices store meanwhile, wherever it lands in the order, and whatever
\* they are renamed to: a walk over any number of pages misses, of the alerts that
\* matched when it began, no more than have left the result.
THEOREM WalkMissesHaveLeft == Spec => []MissesHaveLeft
<1>1. WalkInv => MissesHaveLeft
  BY DEF WalkInv, LateInv
<1>. QED  BY <1>1, WalkInit, WalkStep, PTL DEF Spec

\* Without a search nothing leaves the result: the walk misses none of them, and
\* its total covers all rows that it was handed by position.
THEOREM PlainWalksMissNothing == Spec => []PlainWalkMissesNothing
<1>1. WalkInv => PlainWalkMissesNothing
  <2>. SUFFICES ASSUME WalkInv, walk.pc = "done", walk.filter.search = None
                PROVE  /\ Missed = {}
                       /\ Offset(walk.page, walk.size) + Cardinality(walk.rows) <= walk.total
    BY DEF PlainWalkMissesNothing
  <2>1. gone = 0 /\ Cardinality(Missed) <= gone
    BY DEF WalkInv, PlainInv, LateInv, MissesHaveLeft
  <2>2. IsFiniteSet(Missed) /\ walk.total \in Nat
    BY ResultType, WalkType DEF WalkInv
  <2>3. Cardinality(Missed) \in Nat /\ (Cardinality(Missed) = 0 => Missed = {})
    BY <2>2, FS_CardinalityType, FS_EmptySet
  <2>4. Offset(walk.page, walk.size) + Cardinality(walk.rows) <= walk.total + gone
    BY DEF WalkInv, TotalInv, TotalCoversPage
  <2>. QED  BY <2>1, <2>2, <2>3, <2>4
<1>. QED  BY <1>1, WalkInit, WalkStep, PTL DEF Spec

\* An alert comes again at most once for each that was stored, or found anew, during the walk.
THEOREM RepeatsArePushed == Spec => []RepeatsWerePushed
<1>1. WalkInv => RepeatsWerePushed
  <2>. SUFFICES ASSUME WalkInv, NEW n \in AlertIds  PROVE seen[n] <= 1 + come
    BY DEF RepeatsWerePushed
  <2>1. seen[n] \in Nat /\ come \in Nat
    BY DEF WalkInv, ListingTypeOK, TypeOK
  <2>2. CASE seen[n] = 0
    BY <2>1, <2>2
  <2>3. CASE seen[n] # 0
    <3>1. PICK a \in alerts : a.id = n
      BY <2>1, <2>3 DEF WalkInv, SeenInv
    <3>2. seen[n] <= come + (IF Position(a, Result) <= Came THEN 1 ELSE 0)
      BY <3>1 DEF WalkInv, RepeatInv
    <3>. QED  BY <2>1, <3>2
  <2>. QED  BY <2>2, <2>3
<1>. QED  BY <1>1, WalkInit, WalkStep, PTL DEF Spec

\* But for alerts that have left the result, the total covers the rows it is sent
\* with and those of the pages before.
THEOREM TotalsCoverPages == Spec => []TotalCoversPage
<1>1. WalkInv => TotalCoversPage
  BY DEF WalkInv, TotalInv
<1>. QED  BY <1>1, WalkInit, WalkStep, PTL DEF Spec
=============================================================================
