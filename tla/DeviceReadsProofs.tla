--------------------------- MODULE DeviceReadsProofs ---------------------------
(***************************************************************************)
(* Theorems about the readers of the devices table, for every number of    *)
(* devices, names and keys.  By DevicesImplementRegistry they hold of the  *)
(* readers of Devices too, whatever its requests interleave.               *)
(***************************************************************************)
EXTENDS DeviceReads, PaginationProofs

\* The registry, and with it the keys that no device that may live again has.
RegistryTypeOK == devices \in Seq(Device) /\ final \subseteq Ids

KeysInv ==
    /\ \A n \in Ids : devices[n].key \notin retired
    /\ \A m, n \in Ids : m # n => devices[m].key # devices[n].key

FinalInv == \A n \in final : devices[n].deleted

RegInv == RegistryTypeOK /\ KeysInv /\ FinalInv

(***************************************************************************)
(* The effects of a step on the devices.                                   *)
(***************************************************************************)
LEMMA DeviceType ==
    ASSUME RegistryTypeOK, NEW n \in Ids
    PROVE  /\ devices[n] \in Device /\ devices[n].client \in Clients
           /\ devices[n].name \in Names /\ devices[n].status \in Statuses
           /\ devices[n].deleted \in BOOLEAN /\ devices[n].key \in Keys
<1>1. devices[n] \in Device
  BY DEF RegistryTypeOK, Ids
<1>. QED  BY <1>1 DEF Device

LEMMA NewDeviceType ==
    ASSUME NEW c \in Clients, NEW name \in Names, NEW status \in Statuses,
           NEW deleted \in BOOLEAN, NEW k \in Keys
    PROVE  [client |-> c, name |-> name, status |-> status,
            deleted |-> deleted, key |-> k] \in Device
BY DEF Device

\* Device n becomes d, or device d is appended.
Replaces(n, d) == n \in Ids /\ d \in Device /\ devices' = [devices EXCEPT ![n] = d]
Appends(d) == d \in Device /\ devices' = Append(devices, d)

LEMMA ReplaceEffect ==
    ASSUME RegistryTypeOK, NEW n, NEW d, Replaces(n, d)
    PROVE  /\ devices' \in Seq(Device) /\ Ids' = Ids /\ devices'[n] = d
           /\ \A m \in Ids \ {n} : devices'[m] = devices[m]
BY DEF Replaces, RegistryTypeOK, Ids

LEMMA AppendEffect ==
    ASSUME RegistryTypeOK, NEW d, Appends(d)
    PROVE  LET new == Len(devices) + 1 IN
           /\ devices' \in Seq(Device) /\ Ids' = Ids \cup {new} /\ new \notin Ids
           /\ devices'[new] = d
           /\ \A m \in Ids : devices'[m] = devices[m]
BY DEF Appends, RegistryTypeOK, Ids

LEMMA SameKey ==
    ASSUME RegInv, NEW n, NEW d, Replaces(n, d), d.key = devices[n].key,
           n \notin final \/ d.deleted, UNCHANGED <<retired, final>>
    PROVE  RegInv'
<1>1. /\ devices' \in Seq(Device) /\ Ids' = Ids /\ devices'[n] = d
      /\ \A m \in Ids \ {n} : devices'[m] = devices[m]
  BY ReplaceEffect DEF RegInv
<1>2. \A m \in Ids : devices'[m].key = devices[m].key
  BY <1>1
<1>3. KeysInv'
  BY <1>1, <1>2 DEF RegInv, KeysInv
<1>4. FinalInv'
  BY <1>1 DEF RegInv, FinalInv, RegistryTypeOK
<1>. QED  BY <1>1, <1>3, <1>4 DEF RegInv, RegistryTypeOK

LEMMA AddStep ==
    ASSUME RegInv, NEW c \in Clients, NEW name \in Names, NEW status \in Statuses,
           NEW k \in Keys, Add(c, name, status, k)
    PROVE  RegInv'
<1>. DEFINE new == Len(devices) + 1
            d == [client |-> c, name |-> name, status |-> status, deleted |-> FALSE, key |-> k]
<1>1. d \in Device /\ d.key = k
  BY NewDeviceType
<1>2. Appends(d) /\ Unused(k) /\ retired' = retired /\ final' = final
  BY <1>1 DEF Appends, Add
<1>. HIDE DEF d
<1>3. /\ devices' \in Seq(Device) /\ Ids' = Ids \cup {new} /\ new \notin Ids
      /\ devices'[new] = d
      /\ \A m \in Ids : devices'[m] = devices[m]
  BY <1>2, AppendEffect DEF RegInv
<1>. HIDE DEF new
<1>4. KeysInv'
  BY <1>1, <1>2, <1>3 DEF RegInv, KeysInv, Unused
<1>5. FinalInv'
  BY <1>2, <1>3 DEF RegInv, FinalInv, RegistryTypeOK
<1>. QED  BY <1>2, <1>3, <1>4, <1>5 DEF RegInv, RegistryTypeOK

LEMMA RotateStep ==
    ASSUME RegInv, NEW n \in Ids, NEW k \in Keys, Rotate(n, k)
    PROVE  RegInv'
<1>. DEFINE d == [client |-> devices[n].client, name |-> devices[n].name,
                  status |-> devices[n].status, deleted |-> FALSE, key |-> k]
<1>1. d \in Device /\ d.key = k
  BY NewDeviceType, DeviceType DEF RegInv
<1>2. /\ Replaces(n, d) /\ Unused(k) /\ ~devices[n].deleted
      /\ retired' = retired \cup {devices[n].key} /\ final' = final
  BY <1>1 DEF Replaces, Rotate
<1>. HIDE DEF d
<1>3. /\ devices' \in Seq(Device) /\ Ids' = Ids /\ devices'[n] = d
      /\ \A m \in Ids \ {n} : devices'[m] = devices[m]
  BY <1>2, ReplaceEffect DEF RegInv
<1>4. \A m \in Ids : devices'[m].key \notin retired'
  BY <1>1, <1>2, <1>3 DEF RegInv, KeysInv, Unused
<1>5. \A l, m \in Ids : l # m => devices'[l].key # devices'[m].key
  BY <1>1, <1>2, <1>3 DEF RegInv, KeysInv, Unused
<1>6. n \notin final
  BY <1>2 DEF RegInv, FinalInv
<1>7. FinalInv'
  BY <1>2, <1>3, <1>6 DEF RegInv, FinalInv, RegistryTypeOK
<1>. QED  BY <1>2, <1>3, <1>4, <1>5, <1>7 DEF RegInv, RegistryTypeOK, KeysInv

LEMMA RegistryStep == RegInv /\ [RegistryNext]_registryVars => RegInv'
<1>. SUFFICES ASSUME RegInv, [RegistryNext]_registryVars  PROVE RegInv'
  OBVIOUS
<1>1. ASSUME NEW n \in Ids, NEW name \in Names, NEW status \in Statuses, Patch(n, name, status)
      PROVE  RegInv'
  <2>. DEFINE d == [client |-> devices[n].client, name |-> name, status |-> status,
                    deleted |-> devices[n].deleted, key |-> devices[n].key]
  <2>1. d \in Device /\ d.key = devices[n].key /\ d.deleted = devices[n].deleted
    BY NewDeviceType, DeviceType DEF RegInv
  <2>2. Replaces(n, d) /\ UNCHANGED <<retired, final>>
    BY <1>1, <2>1 DEF Replaces, Patch
  <2>. HIDE DEF d
  <2>3. n \notin final \/ d.deleted
    BY <2>1 DEF RegInv, FinalInv
  <2>. QED  BY <2>1, <2>2, <2>3, SameKey
<1>2. ASSUME NEW n \in Ids, Delete(n)
      PROVE  RegInv'
  <2>. DEFINE d == [client |-> devices[n].client, name |-> devices[n].name,
                    status |-> devices[n].status, deleted |-> TRUE, key |-> devices[n].key]
  <2>1. d \in Device /\ d.key = devices[n].key /\ d.deleted
    BY NewDeviceType, DeviceType DEF RegInv
  <2>2. Replaces(n, d) /\ UNCHANGED <<retired, final>>
    BY <1>2, <2>1 DEF Replaces, Delete
  <2>. HIDE DEF d
  <2>. QED  BY <2>1, <2>2, SameKey
<1>3. ASSUME NEW n \in Ids, Restore(n)
      PROVE  RegInv'
  <2>. DEFINE d == [client |-> devices[n].client, name |-> devices[n].name,
                    status |-> "inactive", deleted |-> FALSE, key |-> devices[n].key]
  <2>1. d \in Device /\ d.key = devices[n].key
    BY NewDeviceType, DeviceType, RegistryAssumption DEF RegInv
  <2>2. Replaces(n, d) /\ n \notin final /\ UNCHANGED <<retired, final>>
    BY <1>3, <2>1 DEF Replaces, Restore
  <2>. HIDE DEF d
  <2>. QED  BY <2>1, <2>2, SameKey
<1>4. CASE Finalize
  <2>1. devices' = devices /\ retired' = retired /\ Ids' = Ids
    BY <1>4 DEF Finalize, Ids
  <2>2. PICK S \in SUBSET {n \in Ids : devices[n].deleted} : final' = final \cup S
    BY <1>4 DEF Finalize
  <2>. QED  BY <2>1, <2>2 DEF RegInv, RegistryTypeOK, KeysInv, FinalInv
<1>5. CASE UNCHANGED registryVars
  BY <1>5 DEF registryVars, RegInv, RegistryTypeOK, KeysInv, FinalInv, Ids
<1>. QED  BY <1>1, <1>2, <1>3, <1>4, <1>5, AddStep, RotateStep DEF RegistryNext

LEMMA ReadsStepRegistry == [ReadsNext]_vars => [RegistryNext]_registryVars
BY DEF ReadsNext, vars, Begin, CountDevices, ListDevices, Change, registryVars

LEMMA RegInit == RegistryInit => RegInv
BY DEF RegistryInit, RegInv, RegistryTypeOK, KeysInv, FinalInv, Ids

\* No key that was rotated away, or whose device is deleted for good, lets an
\* event request pass: keys are never shared and never come back.
THEOREM MuteKeysStayRefused == ReadsSpec => []MuteKeysRefused
<1>1. ReadsInit => RegInv
  BY RegInit DEF ReadsInit
<1>2. RegInv /\ [ReadsNext]_vars => RegInv'
  BY ReadsStepRegistry, RegistryStep
<1>3. RegInv => MuteKeysRefused
  <2>. SUFFICES ASSUME RegInv, NEW k \in Keys,
                       k \in retired \/ (\E n \in final : devices[n].key = k),
                       NEW m \in Ids, devices[m].key = k, ~devices[m].deleted
                PROVE  FALSE
    BY Zenon DEF MuteKeysRefused, Admits, FindByAPIKeyHash
  <2>1. k \notin retired
    BY DEF RegInv, KeysInv
  <2>2. PICK n \in final : devices[n].key = k
    BY <2>1
  <2>3. n = m
    BY <2>2 DEF RegInv, KeysInv, RegistryTypeOK
  <2>. QED  BY <2>2, <2>3 DEF RegInv, FinalInv
<1>. QED  BY <1>1, <1>2, <1>3, PTL DEF ReadsSpec

-----------------------------------------------------------------------------
(***************************************************************************)
(* Walks.  What counts against the devices that left the result is Late:   *)
(* the devices of S, still owed to the walk, that are not in the result M, *)
(* or that stand before the offset the walk has come to.                   *)
(***************************************************************************)
PositionIn(M, n) == 1 + Cardinality({m \in M : m > n})

Late(M, S, offset) == {n \in S : n \notin M \/ PositionIn(M, n) <= offset}

NewestFirst(M) == [n \in M |-> {m \in M : m > n}]

LEMMA NewestFirstOrdered ==
    ASSUME NEW M \in SUBSET Nat, IsFiniteSet(M)
    PROVE  /\ Ordered(M, NewestFirst(M))
           /\ \A n \in M : PositionIn(M, n) = Rank(NewestFirst(M), n)
BY DEF Ordered, NewestFirst, Rank, PositionIn

LEMMA PositionInType ==
    ASSUME NEW M \in SUBSET Nat, IsFiniteSet(M), NEW n
    PROVE  PositionIn(M, n) \in Nat \ {0}
<1>1. IsFiniteSet({m \in M : m > n})
  BY FS_Subset
<1>. QED  BY <1>1, FS_CardinalityType DEF PositionIn

LEMMA LateType ==
    ASSUME NEW M, NEW S, IsFiniteSet(S), NEW offset
    PROVE  /\ Late(M, S, offset) \in SUBSET S
           /\ IsFiniteSet(Late(M, S, offset))
           /\ Cardinality(Late(M, S, offset)) \in Nat /\ Cardinality(S) \in Nat
           /\ Cardinality(Late(M, S, offset)) <= Cardinality(S)
<1>1. Late(M, S, offset) \in SUBSET S
  BY DEF Late
<1>. QED  BY <1>1, FS_Subset, FS_CardinalityType

\* Devices that come into the result push others on and make none late.
LEMMA EnterNotLate ==
    ASSUME NEW M, NEW N \in SUBSET Nat, IsFiniteSet(N), M \subseteq N,
           NEW S, NEW offset \in Nat
    PROVE  Late(N, S, offset) \subseteq Late(M, S, offset)
<1>. SUFFICES ASSUME NEW n \in S, n \in M, PositionIn(N, n) <= offset
              PROVE  PositionIn(M, n) <= offset
  BY DEF Late
<1>1. {m \in M : m > n} \in SUBSET {m \in N : m > n} /\ IsFiniteSet({m \in N : m > n})
  BY FS_Subset
<1>2. Cardinality({m \in M : m > n}) <= Cardinality({m \in N : m > n})
  BY <1>1, FS_Subset
<1>3. Cardinality({m \in M : m > n}) \in Nat /\ Cardinality({m \in N : m > n}) \in Nat
  BY <1>1, FS_Subset, FS_CardinalityType
<1>. QED  BY <1>2, <1>3 DEF PositionIn

\* One that leaves makes one late at most: itself, or the first after the offset.
LEMMA LeaveOneLate ==
    ASSUME NEW M \in SUBSET Nat, IsFiniteSet(M), NEW x \in M,
           NEW S, IsFiniteSet(S), NEW offset \in Nat
    PROVE  Cardinality(Late(M \ {x}, S, offset)) <= Cardinality(Late(M, S, offset)) + 1
<1>. DEFINE new == Late(M \ {x}, S, offset)
            old == Late(M, S, offset)
<1>1. ASSUME NEW n \in M, n # x
      PROVE  PositionIn(M, n) = IF x > n THEN PositionIn(M \ {x}, n) + 1 ELSE PositionIn(M \ {x}, n)
  <2>. DEFINE A == {m \in M : m > n}
  <2>1. IsFiniteSet(A)
    BY FS_Subset
  <2>2. {m \in M \ {x} : m > n} = A \ {x} /\ (x \in A <=> x > n)
    OBVIOUS
  <2>3. Cardinality(A) \in Nat
    BY <2>1, FS_CardinalityType
  <2>. HIDE DEF A
  <2>4. Cardinality(A \ {x}) = IF x \in A THEN Cardinality(A) - 1 ELSE Cardinality(A)
    BY <2>1, FS_RemoveElement
  <2>5. PositionIn(M, n) = 1 + Cardinality(A)
    BY DEF PositionIn, A
  <2>6. PositionIn(M \ {x}, n) = 1 + Cardinality(A \ {x})
    BY <2>2, Zenon DEF PositionIn
  <2>7. CASE x > n
    BY <2>2, <2>3, <2>4, <2>5, <2>6, <2>7
  <2>8. CASE ~(x > n)
    BY <2>2, <2>3, <2>4, <2>5, <2>6, <2>8
  <2>. QED  BY <2>7, <2>8
<1>2. \A n : PositionIn(M, n) \in Nat /\ PositionIn(M \ {x}, n) \in Nat
  BY PositionInType, FS_RemoveElement
<1>3. \A n \in new \ old : n \in M /\ (n = x \/ (x > n /\ PositionIn(M, n) = offset + 1))
  <2>. SUFFICES ASSUME NEW n \in new \ old, n # x
                PROVE  n \in M /\ x > n /\ PositionIn(M, n) = offset + 1
    BY DEF Late
  <2>1. n \in M /\ ~(PositionIn(M, n) <= offset) /\ PositionIn(M \ {x}, n) <= offset
    BY DEF Late
  <2>2. x > n
    BY <1>1, <2>1
  <2>3. PositionIn(M, n) = PositionIn(M \ {x}, n) + 1
    BY <1>1, <2>1, <2>2
  <2>. QED  BY <1>2, <2>1, <2>2, <2>3
<1>4. \A a, b \in M : a > b => PositionIn(M, a) < PositionIn(M, b)
  <2>1. \A a, b \in M : a > b => a \in NewestFirst(M)[b]
    BY DEF NewestFirst
  <2>. QED  BY <2>1, NewestFirstOrdered, RankOrder
<1>5. \A a, b \in new \ old : a = b
  <2>. SUFFICES ASSUME NEW a \in new \ old, NEW b \in new \ old, a # b
                PROVE  FALSE
    OBVIOUS
  <2>0. a \in Nat /\ b \in Nat /\ a \in S /\ b \in S
    BY <1>3 DEF Late
  <2>1. a \in M /\ b \in M /\ PositionIn(M, a) > offset /\ PositionIn(M, b) > offset
    BY <1>2, <1>3, <2>0 DEF Late
  <2>2. CASE a # x /\ b # x
    BY <1>2, <1>3, <1>4, <2>0, <2>1, <2>2
  <2>3. CASE a = x
    BY <1>2, <1>3, <1>4, <2>0, <2>1, <2>3
  <2>4. CASE b = x
    BY <1>2, <1>3, <1>4, <2>0, <2>1, <2>4
  <2>. QED  BY <2>2, <2>3, <2>4
<1>6. /\ IsFiniteSet(new) /\ Cardinality(new) \in Nat
      /\ IsFiniteSet(old) /\ Cardinality(old) \in Nat
  BY LateType
<1>. HIDE DEF new, old
<1>7. ASSUME new \subseteq old  PROVE Cardinality(new) <= Cardinality(old) + 1
  <2>1. Cardinality(new) <= Cardinality(old)
    BY <1>6, <1>7, FS_Subset
  <2>. QED  BY <1>6, <2>1
<1>8. ASSUME NEW y \in new \ old  PROVE Cardinality(new) <= Cardinality(old) + 1
  <2>1. new \in SUBSET (old \cup {y})
    BY <1>5
  <2>2. IsFiniteSet(old \cup {y}) /\ Cardinality(old \cup {y}) = Cardinality(old) + 1
    BY <1>6, <1>8, FS_AddElement
  <2>3. Cardinality(old \cup {y}) \in Nat /\ Cardinality(new) <= Cardinality(old \cup {y})
    BY <2>1, <2>2, FS_Subset, FS_CardinalityType
  <2>. QED  BY <1>6, <2>2, <2>3
<1>. QED  BY <1>7, <1>8 DEF new, old

\* The change of one device, whatever it does to the result.
LEMMA OneChangeLate ==
    ASSUME NEW M \in SUBSET Nat, IsFiniteSet(M), NEW N \in SUBSET Nat, IsFiniteSet(N),
           NEW x, M \ N \subseteq {x}, N \ M \subseteq {x},
           NEW S, IsFiniteSet(S), NEW offset \in Nat
    PROVE  /\ Cardinality(M \ N) \in Nat
           /\ Cardinality(Late(N, S, offset))
              <= Cardinality(Late(M, S, offset)) + Cardinality(M \ N)
<1>1. IsFiniteSet(M \ N) /\ Cardinality(M \ N) \in Nat
  <2>1. M \ N \in SUBSET M
    OBVIOUS
  <2>. QED  BY <2>1, FS_Subset, FS_CardinalityType
<1>2. /\ Cardinality(Late(N, S, offset)) \in Nat /\ Cardinality(Late(M, S, offset)) \in Nat
      /\ IsFiniteSet(Late(M, S, offset))
  BY LateType
<1>3. ASSUME M \subseteq N
      PROVE  Cardinality(Late(N, S, offset)) <= Cardinality(Late(M, S, offset))
  <2>1. Late(N, S, offset) \in SUBSET Late(M, S, offset)
    BY <1>3, EnterNotLate
  <2>. QED  BY <1>2, <2>1, FS_Subset
<1>4. ASSUME ~(M \subseteq N)
      PROVE  /\ Cardinality(M \ N) = 1
             /\ Cardinality(Late(N, S, offset)) <= Cardinality(Late(M, S, offset)) + 1
  <2>1. x \in M /\ M \ N = {x} /\ N = M \ {x}
    BY <1>4
  <2>2. Cardinality({x}) = 1
    BY FS_Singleton
  <2>. QED  BY <2>1, <2>2, LeaveOneLate
<1>. QED  BY <1>1, <1>2, <1>3, <1>4

LEMMA OneChangeSize ==
    ASSUME NEW M, IsFiniteSet(M), NEW N, IsFiniteSet(N)
    PROVE  /\ Cardinality(N \ M) \in Nat /\ Cardinality(M) \in Nat /\ Cardinality(N) \in Nat
           /\ Cardinality(N) <= Cardinality(M) + Cardinality(N \ M)
<1>. DEFINE A == N \cap M
            B == N \ M
<1>1. B \in SUBSET N /\ A \in SUBSET M /\ N = A \cup B /\ A \cap B = {}
  OBVIOUS
<1>. HIDE DEF A, B
<1>2. IsFiniteSet(B) /\ IsFiniteSet(A) /\ Cardinality(A) <= Cardinality(M)
  <2>1. IsFiniteSet(A) /\ Cardinality(A) <= Cardinality(M)
    BY <1>1, FS_Subset
  <2>2. IsFiniteSet(B)
    BY <1>1, FS_Subset
  <2>. QED  BY <2>1, <2>2
<1>3. /\ Cardinality(B) \in Nat /\ Cardinality(A) \in Nat
      /\ Cardinality(M) \in Nat /\ Cardinality(N) \in Nat
  BY <1>2, FS_CardinalityType
<1>4. Cardinality(A \cup B) = Cardinality(A) + Cardinality(B) - Cardinality(A \cap B)
  BY <1>2, FS_Union
<1>5. Cardinality(A \cap B) = 0
  BY <1>1, FS_EmptySet
<1>6. Cardinality(N) = Cardinality(A) + Cardinality(B)
  BY <1>1, <1>3, <1>4, <1>5
<1>. QED  BY <1>2, <1>3, <1>6 DEF B

LEMMA CappedIsMin ==
    ASSUME NEW n \in Nat, NEW S, IsFiniteSet(S)
    PROVE  /\ Cardinality(S) \in Nat /\ Capped(n, S) \in Nat
           /\ Capped(n, S) <= Cardinality(S)
           /\ Capped(n, S) = n \/ (Capped(n, S) = Cardinality(S) /\ Cardinality(S) <= n)
<1>1. Cardinality(S) \in Nat /\ (S = {} => Cardinality(S) = 0)
  BY FS_CardinalityType, FS_EmptySet
<1>. QED  BY <1>1 DEF Capped

(***************************************************************************)
(* The walk while devices change.                                          *)
(***************************************************************************)
WalkInv ==
    /\ walk \in Walk /\ walk.page # 0
    /\ missing \subseteq Ids /\ gone \in Nat /\ slipped \in Nat
    /\ walk.pc = "start" => missing = {} /\ walk.page = 1

\* Where the walk is, and what it owes at worst.
LateNow == Late(Matching, missing, Offset(walk.page, walk.size))

LateInv ==
    walk.pc \in {"count", "list"} => Cardinality(LateNow) <= gone

SlippedInv ==
    walk.pc = "list" => \/ Cardinality(missing) <= slipped
                        \/ Cardinality(Matching) <= walk.total + slipped

ReadsInv == RegInv /\ WalkInv /\ LateInv /\ SlippedInv /\ MissesAreExplained

LEMMA FiniteIds ==
    ASSUME RegistryTypeOK
    PROVE  /\ Ids \in SUBSET Nat /\ IsFiniteSet(Ids)
           /\ Matching \in SUBSET Nat /\ IsFiniteSet(Matching) /\ Matching \subseteq Ids
           /\ Cardinality(Matching) \in Nat
           /\ \A n \in Matching : Position(n) = PositionIn(Matching, n)
<1>1. Len(devices) \in Nat
  BY DEF RegistryTypeOK
<1>2. Ids \in SUBSET Nat /\ IsFiniteSet(Ids)
  BY <1>1, FS_Interval DEF Ids
<1>3. Matching \in SUBSET Ids
  BY DEF Matching
<1>4. IsFiniteSet(Matching) /\ Cardinality(Matching) \in Nat
  BY <1>2, <1>3, FS_Subset, FS_CardinalityType
<1>. QED  BY <1>2, <1>3, <1>4 DEF Position, PositionIn

LEMMA WalkType ==
    ASSUME WalkInv
    PROVE  /\ walk.page \in Nat \ {0} /\ walk.size \in Nat \ {0} /\ walk.total \in Nat
           /\ walk.pc \in {"start", "count", "list", "done"}
           /\ Offset(walk.page, walk.size) \in Nat
<1>1. /\ walk.page \in Nat \ {0} /\ walk.size \in Nat \ {0} /\ walk.total \in Nat
      /\ walk.pc \in {"start", "count", "list", "done"}
  BY PageAssumption DEF WalkInv, Walk
<1>. QED  BY <1>1, NextOffset

LEMMA MissingFinite ==
    ASSUME RegistryTypeOK, WalkInv
    PROVE  IsFiniteSet(missing) /\ Cardinality(missing) \in Nat
<1>1. missing \in SUBSET Ids
  BY DEF WalkInv
<1>. QED  BY <1>1, FiniteIds, FS_Subset, FS_CardinalityType

\* A step of the registry changes one device, or none.
LEMMA OneDevice ==
    ASSUME RegInv, RegistryNext, walk' = walk
    PROVE  /\ Ids \subseteq Ids'
           /\ \E x : Matching \ Matching' \subseteq {x} /\ Matching' \ Matching \subseteq {x}
<1>1. ASSUME NEW x, Ids \subseteq Ids', Ids' \ Ids \subseteq {x},
             \A n \in Ids \ {x} : devices'[n] = devices[n]
      PROVE  /\ Ids \subseteq Ids'
             /\ Matching \ Matching' \subseteq {x} /\ Matching' \ Matching \subseteq {x}
  BY <1>1 DEF Matching
<1>2. ASSUME NEW n \in Ids, NEW d \in Device, devices' = [devices EXCEPT ![n] = d]
      PROVE  /\ Ids \subseteq Ids' /\ Ids' \ Ids \subseteq {n}
             /\ \A m \in Ids \ {n} : devices'[m] = devices[m]
  BY <1>2, ReplaceEffect DEF Replaces, RegInv
<1>3. ASSUME NEW n \in Ids, NEW name \in Names, NEW status \in Statuses, Patch(n, name, status)
      PROVE  \E d \in Device : devices' = [devices EXCEPT ![n] = d]
  BY <1>3, DeviceType, NewDeviceType DEF Patch, RegInv
<1>4. ASSUME NEW n \in Ids, NEW k \in Keys, Rotate(n, k)
      PROVE  \E d \in Device : devices' = [devices EXCEPT ![n] = d]
  BY <1>4, DeviceType, NewDeviceType DEF Rotate, RegInv
<1>5. ASSUME NEW n \in Ids, Delete(n) \/ Restore(n)
      PROVE  \E d \in Device : devices' = [devices EXCEPT ![n] = d]
  BY <1>5, DeviceType, NewDeviceType, RegistryAssumption DEF Delete, Restore, RegInv
<1>6. ASSUME NEW c \in Clients, NEW name \in Names, NEW status \in Statuses, NEW k \in Keys,
             Add(c, name, status, k)
      PROVE  \E x : /\ Ids \subseteq Ids' /\ Ids' \ Ids \subseteq {x}
                    /\ \A m \in Ids \ {x} : devices'[m] = devices[m]
  <2>1. PICK d \in Device : devices' = Append(devices, d)
    BY <1>6, NewDeviceType DEF Add
  <2>. DEFINE new == Len(devices) + 1
  <2>2. Ids' = Ids \cup {new} /\ \A m \in Ids : devices'[m] = devices[m]
    BY <2>1, AppendEffect DEF Appends, RegInv
  <2>. HIDE DEF new
  <2>. QED  BY <2>2
<1>7. CASE Finalize
  <2>1. devices' = devices /\ Ids' = Ids
    BY <1>7 DEF Finalize, Ids
  <2>. QED  BY <1>1, <2>1
<1>. QED  BY <1>1, <1>2, <1>3, <1>4, <1>5, <1>6, <1>7 DEF RegistryNext

LEMMA ChangeStep == ReadsInv /\ Change => ReadsInv'
<1>. SUFFICES ASSUME ReadsInv, Change  PROVE ReadsInv'
  OBVIOUS
<1>0. RegInv /\ RegistryTypeOK /\ WalkInv /\ RegInv' /\ RegistryTypeOK'
  BY RegistryStep DEF ReadsInv, Change, RegInv
<1>1. walk' = walk /\ missing' = missing /\ walk.pc # "done" /\ RegistryNext
  BY DEF Change
<1>2. PICK x : /\ Matching \ Matching' \subseteq {x} /\ Matching' \ Matching \subseteq {x}
               /\ Ids \subseteq Ids'
  BY <1>0, <1>1, OneDevice
<1>3. PICK M, N : M = Matching /\ N = Matching'
  OBVIOUS
<1>4. /\ M \in SUBSET Nat /\ IsFiniteSet(M) /\ N \in SUBSET Nat /\ IsFiniteSet(N)
      /\ IsFiniteSet(missing) /\ Cardinality(missing) \in Nat
  <2>1. N \in SUBSET Nat /\ IsFiniteSet(N)
    <3>1. Len(devices') \in Nat /\ Ids' = 1 .. Len(devices')
      BY <1>0 DEF RegistryTypeOK, Ids
    <3>2. Ids' \in SUBSET Nat /\ IsFiniteSet(Ids')
      BY <3>1, FS_Interval
    <3>3. N \in SUBSET Ids'
      BY <1>3 DEF Matching
    <3>. QED  BY <3>2, <3>3, FS_Subset
  <2>. QED  BY <1>0, <1>3, <2>1, FiniteIds, MissingFinite
<1>5. /\ gone' = Capped(gone + Cardinality(M \ N), missing)
      /\ slipped' = IF walk.pc = "list" THEN Capped(slipped + Cardinality(N \ M), missing)
                                        ELSE slipped
  BY <1>3 DEF Change
<1>6. Cardinality(M \ N) \in Nat /\ Cardinality(N \ M) \in Nat /\ gone \in Nat /\ slipped \in Nat
  BY <1>0, <1>4, OneChangeSize DEF WalkInv
<1>7. WalkInv'
  <2>1. gone' \in Nat /\ slipped' \in Nat
    BY <1>4, <1>5, <1>6, CappedIsMin
  <2>. QED  BY <1>0, <1>1, <1>2, <2>1 DEF WalkInv
<1>8. LateInv'
  <2>. SUFFICES ASSUME walk.pc \in {"count", "list"}
                PROVE  Cardinality(Late(N, missing, Offset(walk.page, walk.size))) <= gone'
    BY <1>1, <1>3 DEF LateInv, LateNow
  <2>. DEFINE offset == Offset(walk.page, walk.size)
  <2>1. offset \in Nat
    BY <1>0, WalkType
  <2>2. Cardinality(Late(M, missing, offset)) <= gone
    BY <1>3 DEF ReadsInv, LateInv, LateNow
  <2>. HIDE DEF offset
  <2>3. /\ Cardinality(Late(N, missing, offset))
           <= Cardinality(Late(M, missing, offset)) + Cardinality(M \ N)
    BY <1>2, <1>3, <1>4, <2>1, OneChangeLate
  <2>4. /\ Cardinality(Late(N, missing, offset)) \in Nat
        /\ Cardinality(Late(N, missing, offset)) <= Cardinality(missing)
        /\ Cardinality(Late(M, missing, offset)) \in Nat
    BY <1>4, LateType
  <2>5. gone' = gone + Cardinality(M \ N) \/ gone' = Cardinality(missing)
    BY <1>4, <1>5, <1>6, CappedIsMin
  <2>6. Cardinality(Late(N, missing, offset)) <= gone'
    BY <1>4, <1>6, <2>2, <2>3, <2>4, <2>5
  <2>. QED  BY <2>6 DEF offset
<1>9. SlippedInv'
  <2>. SUFFICES ASSUME walk.pc = "list"
                PROVE  \/ Cardinality(missing) <= slipped'
                       \/ Cardinality(N) <= walk.total + slipped'
    BY <1>1, <1>3 DEF SlippedInv
  <2>1. Cardinality(missing) <= slipped \/ Cardinality(M) <= walk.total + slipped
    BY <1>3 DEF ReadsInv, SlippedInv
  <2>2. /\ Cardinality(M) \in Nat /\ Cardinality(N) \in Nat
        /\ Cardinality(N) <= Cardinality(M) + Cardinality(N \ M)
    BY <1>4, OneChangeSize
  <2>3. \/ slipped' = slipped + Cardinality(N \ M)
        \/ slipped' = Cardinality(missing)
    BY <1>4, <1>5, <1>6, CappedIsMin
  <2>4. walk.total \in Nat
    BY <1>0, WalkType
  <2>. QED  BY <1>4, <1>6, <2>1, <2>2, <2>3, <2>4
<1>10. MissesAreExplained'
  BY <1>1 DEF MissesAreExplained
<1>. QED  BY <1>0, <1>7, <1>8, <1>9, <1>10 DEF ReadsInv

\* A step of the walk leaves the devices as they are.
LEMMA WalkStepQuiet ==
    ASSUME RegInv, UNCHANGED registryVars,
           walk'.client = walk.client, walk'.deleted = walk.deleted, walk'.status = walk.status
    PROVE  RegInv' /\ Ids' = Ids /\ Matching' = Matching
<1>1. RegInv'
  BY RegistryStep
<1>. QED  BY <1>1 DEF registryVars, Ids, Matching

LEMMA BeginStep == ReadsInv /\ Begin => ReadsInv'
<1>. SUFFICES ASSUME ReadsInv, Begin  PROVE ReadsInv'
  OBVIOUS
<1>0. RegInv /\ RegistryTypeOK /\ WalkInv
  BY DEF ReadsInv, RegInv
<1>1. /\ walk.pc = "start" /\ walk' = [walk EXCEPT !.pc = "count"] /\ missing' = Matching
      /\ gone' = gone /\ slipped' = slipped /\ UNCHANGED registryVars
  BY DEF Begin
<1>2. /\ walk' \in Walk /\ walk'.pc = "count" /\ walk'.page = 1 /\ walk'.size = walk.size
      /\ walk'.client = walk.client /\ walk'.deleted = walk.deleted /\ walk'.status = walk.status
  BY <1>0, <1>1 DEF WalkInv, Walk
<1>3. RegInv' /\ Ids' = Ids /\ Matching' = Matching
  BY <1>0, <1>1, <1>2, WalkStepQuiet
<1>4. WalkInv'
  BY <1>0, <1>1, <1>2, <1>3, FiniteIds DEF WalkInv
<1>5. LateInv'
  <2>1. Late(Matching, Matching, 0) = {}
    <3>. SUFFICES ASSUME NEW n \in Matching, PositionIn(Matching, n) <= 0
                  PROVE  FALSE
      BY DEF Late
    <3>1. PositionIn(Matching, n) \in Nat \ {0}
      BY <1>0, FiniteIds, PositionInType
    <3>. QED  BY <3>1
  <2>2. Offset(1, walk.size) = 0
    BY <1>0, WalkType, FirstOffset
  <2>3. LateNow' = {}
    BY <1>1, <1>2, <1>3, <2>1, <2>2 DEF LateNow
  <2>. QED  BY <1>0, <1>1, <2>3, FS_EmptySet DEF LateInv, WalkInv
<1>. QED  BY <1>2, <1>3, <1>4, <1>5 DEF ReadsInv, SlippedInv, MissesAreExplained

LEMMA CountStep == ReadsInv /\ CountDevices => ReadsInv'
<1>. SUFFICES ASSUME ReadsInv, CountDevices  PROVE ReadsInv'
  OBVIOUS
<1>0. RegInv /\ RegistryTypeOK /\ WalkInv
  BY DEF ReadsInv, RegInv
<1>1. /\ walk.pc = "count"
      /\ walk' = [walk EXCEPT !.pc = "list", !.total = Cardinality(Matching)]
      /\ missing' = missing /\ gone' = gone /\ slipped' = 0 /\ UNCHANGED registryVars
  BY DEF CountDevices
<1>2. Cardinality(Matching) \in Nat
  BY <1>0, FiniteIds
<1>3. /\ walk' \in Walk /\ walk'.pc = "list" /\ walk'.page = walk.page /\ walk'.size = walk.size
      /\ walk'.total = Cardinality(Matching)
      /\ walk'.client = walk.client /\ walk'.deleted = walk.deleted /\ walk'.status = walk.status
  BY <1>0, <1>1, <1>2 DEF WalkInv, Walk
<1>4. RegInv' /\ Ids' = Ids /\ Matching' = Matching
  BY <1>0, <1>1, <1>3, WalkStepQuiet
<1>5. WalkInv'
  BY <1>0, <1>1, <1>3, <1>4 DEF WalkInv
<1>6. LateInv'
  <2>1. LateNow' = LateNow
    BY <1>1, <1>3, <1>4 DEF LateNow
  <2>. QED  BY <1>1, <2>1 DEF ReadsInv, LateInv
<1>7. SlippedInv'
  BY <1>1, <1>2, <1>3, <1>4 DEF SlippedInv
<1>. QED  BY <1>3, <1>4, <1>5, <1>6, <1>7 DEF ReadsInv, MissesAreExplained

LEMMA ListStep == ReadsInv /\ ListDevices => ReadsInv'
<1>. SUFFICES ASSUME ReadsInv, ListDevices  PROVE ReadsInv'
  OBVIOUS
<1>. DEFINE offset == Offset(walk.page, walk.size)
            end == offset + walk.size
            next == HasNext(walk.page, walk.total, walk.size)
            listed == {n \in Matching : OnPage(Position(n), walk.page, walk.size)}
            old == Late(Matching, missing, offset)
            new == Late(Matching, missing \ listed, end)
<1>0. RegInv /\ RegistryTypeOK /\ WalkInv
  BY DEF ReadsInv, RegInv
<1>1. /\ walk.pc = "list" /\ missing' = missing \ listed /\ UNCHANGED registryVars
      /\ walk' = IF next THEN [walk EXCEPT !.pc = "count", !.page = @ + 1, !.total = 0]
                         ELSE [walk EXCEPT !.pc = "done"]
      /\ gone' = Capped(gone, missing')
      /\ slipped' = IF next THEN 0 ELSE Capped(slipped, missing')
  BY DEF ListDevices
<1>2. /\ walk.page \in Nat \ {0} /\ walk.size \in Nat \ {0} /\ walk.total \in Nat
      /\ offset \in Nat /\ end \in Nat
      /\ gone \in Nat /\ slipped \in Nat
  BY <1>0, WalkType DEF WalkInv
<1>3. /\ IsFiniteSet(missing) /\ Cardinality(missing) \in Nat
      /\ IsFiniteSet(missing') /\ Cardinality(missing') \in Nat
      /\ Cardinality(missing') <= Cardinality(missing)
  <2>1. missing' \in SUBSET missing
    BY <1>1
  <2>. QED  BY <1>0, <2>1, MissingFinite, FS_Subset, FS_CardinalityType
<1>4. \A n \in Matching : /\ PositionIn(Matching, n) \in Nat \ {0}
                          /\ n \in listed <=> /\ PositionIn(Matching, n) > offset
                                            /\ PositionIn(Matching, n) <= end
  <2>1. \A n \in Matching : /\ PositionIn(Matching, n) \in Nat \ {0}
                            /\ Position(n) = PositionIn(Matching, n)
    BY <1>0, FiniteIds, PositionInType
  <2>. QED  BY <1>2, <2>1 DEF OnPage
<1>. HIDE DEF offset
<1>5. new = old
  BY <1>2, <1>4 DEF Late
<1>6. Cardinality(old) <= gone
  BY <1>1 DEF ReadsInv, LateInv, LateNow, offset
<1>7. /\ gone' \in Nat /\ slipped' \in Nat
      /\ gone' = gone \/ gone' = Cardinality(missing')
      /\ ~next => \/ slipped' = slipped
                 \/ slipped' = Cardinality(missing')
  BY <1>1, <1>2, <1>3, CappedIsMin
<1>8. /\ walk' \in Walk /\ walk'.page # 0 /\ walk'.size = walk.size
      /\ walk'.client = walk.client /\ walk'.deleted = walk.deleted /\ walk'.status = walk.status
      /\ walk'.pc = IF next THEN "count" ELSE "done"
      /\ next => walk'.page = walk.page + 1
  <2>0. walk \in Walk
    BY <1>0 DEF WalkInv
  <2>1. CASE next
    <3>1. walk' = [walk EXCEPT !.pc = "count", !.page = @ + 1, !.total = 0]
      BY <1>1, <2>1
    <3>2. walk' = [pc |-> "count", client |-> walk.client, status |-> walk.status,
                   deleted |-> walk.deleted, page |-> walk.page + 1, size |-> walk.size,
                   total |-> 0]
      BY <2>0, <3>1 DEF Walk
    <3>3. /\ walk'.pc = "count" /\ walk'.page = walk.page + 1 /\ walk'.size = walk.size
          /\ walk'.client = walk.client /\ walk'.deleted = walk.deleted
          /\ walk'.status = walk.status
      BY <3>2
    <3>4. /\ walk.client \in Clients /\ walk.status \in Statuses \cup {AnyStatus}
          /\ walk.deleted \in BOOLEAN /\ walk.size \in 1 .. MaxPageSize
          /\ walk.page + 1 \in Nat /\ 0 \in Nat
          /\ "count" \in {"start", "count", "list", "done"}
      BY <1>2, <2>0 DEF Walk
    <3>5. walk' \in Walk
      BY <3>2, <3>4, Zenon DEF Walk
    <3>. HIDE DEF next
    <3>. QED  BY <1>2, <2>1, <3>3, <3>5
  <2>2. CASE ~next
    BY <1>0, <1>1, <1>2, <2>2 DEF WalkInv, Walk
  <2>. QED  BY <2>1, <2>2
<1>9. RegInv' /\ Ids' = Ids /\ Matching' = Matching
  BY <1>0, <1>1, <1>8, WalkStepQuiet
<1>. HIDE DEF listed, next
<1>10. WalkInv'
  BY <1>0, <1>1, <1>7, <1>8, <1>9 DEF WalkInv
<1>11. /\ Cardinality(old) \in Nat /\ IsFiniteSet(old)
       /\ Cardinality(new) <= Cardinality(missing')
  BY <1>1, <1>3, LateType
<1>12. LateInv'
  <2>. SUFFICES ASSUME next  PROVE Cardinality(LateNow') <= gone'
    BY <1>8 DEF LateInv
  <2>1. Offset(walk.page + 1, walk.size) = end
    BY <1>2, NextOffset DEF offset
  <2>2. LateNow' = new
    BY <1>1, <1>8, <1>9, <2>1 DEF LateNow
  <2>. QED  BY <1>5, <1>6, <1>7, <1>11, <2>2
<1>13. MissesAreExplained'
  <2>. SUFFICES ASSUME ~next  PROVE Cardinality(missing') <= gone' + slipped'
    BY <1>8 DEF MissesAreExplained
  <2>. DEFINE after == {n \in missing' : n \in Matching /\ PositionIn(Matching, n) > end}
              M == Cardinality(Matching)
  <2>1. walk.total <= end
    BY <1>2, HasNextOffset DEF next, offset
  <2>2. /\ missing' = old \cup after
        /\ \A n \in after : n \in Matching
        /\ after \in SUBSET missing'
    <3>1. \A n \in missing' : n \in new \/ n \in after
      BY <1>1, <1>2, <1>4 DEF Late
    <3>2. new \in SUBSET missing'
      BY <1>1 DEF Late
    <3>. QED  BY <1>5, <3>1, <3>2
  <2>3. IsFiniteSet(after) /\ Cardinality(after) \in Nat /\ M \in Nat
    BY <1>0, <1>3, <2>2, FiniteIds, FS_Subset, FS_CardinalityType
  <2>4. Cardinality(missing') <= Cardinality(old) + Cardinality(after)
    <3>1. Cardinality(old \cup after)
          = Cardinality(old) + Cardinality(after) - Cardinality(old \cap after)
      BY <1>11, <2>3, FS_Union
    <3>2. Cardinality(old \cap after) \in Nat
      <4>1. old \cap after \in SUBSET old
        OBVIOUS
      <4>. QED  BY <1>11, <4>1, FS_Subset, FS_CardinalityType
    <3>3. Cardinality(missing') = Cardinality(old \cup after)
      BY <2>2
    <3>. HIDE DEF old, after
    <3>. QED  BY <1>3, <1>11, <2>3, <3>1, <3>2, <3>3
  <2>5. Cardinality(after) = 0 \/ end + Cardinality(after) <= M
    <3>1. /\ Ordered(Matching, NewestFirst(Matching))
          /\ \A n \in Matching : PositionIn(Matching, n) = Rank(NewestFirst(Matching), n)
      BY <1>0, FiniteIds, NewestFirstOrdered
    <3>2. after \in SUBSET {n \in Matching : Rank(NewestFirst(Matching), n) > end}
      BY <3>1
    <3>3. CASE end <= M
      BY <1>2, <3>1, <3>2, <3>3, RowsAfter
    <3>4. CASE ~(end <= M)
      <4>1. \A n \in Matching : Rank(NewestFirst(Matching), n) \in 1 .. M
        BY <3>1, RankType
      <4>2. after = {}
        BY <1>2, <2>3, <3>2, <3>4, <4>1
      <4>. QED  BY <4>2, FS_EmptySet
    <3>. QED  BY <3>3, <3>4
  <2>6. Cardinality(missing) <= slipped \/ M <= walk.total + slipped
    BY <1>1 DEF ReadsInv, SlippedInv
  <2>. HIDE DEF after, M, end, old
  <2>7. Cardinality(missing') <= slipped \/ Cardinality(after) <= slipped
    BY <1>2, <1>3, <2>1, <2>3, <2>5, <2>6
  <2>. QED  BY <1>2, <1>3, <1>6, <1>7, <1>11, <2>3, <2>4, <2>7
<1>. QED  BY <1>8, <1>9, <1>10, <1>12, <1>13 DEF ReadsInv, SlippedInv

LEMMA ReadsInit0 == ReadsInit => ReadsInv
<1>. SUFFICES ASSUME ReadsInit  PROVE ReadsInv
  OBVIOUS
<1>1. /\ walk.pc = "start" /\ walk.page = 1 /\ missing = {} /\ gone = 0 /\ slipped = 0
      /\ walk \in Walk
  <2>1. /\ missing = {} /\ gone = 0 /\ slipped = 0
        /\ walk \in [pc : {"start"}, client : Clients, status : Statuses \cup {AnyStatus},
                     deleted : BOOLEAN, page : {1},
                     size : {n \in PageSizes : ValidPage(1, n)}, total : {0}]
    BY DEF ReadsInit
  <2>2. {n \in PageSizes : ValidPage(1, n)} \subseteq 1 .. MaxPageSize
    BY DEF ValidPage
  <2>. QED  BY <2>1, <2>2 DEF Walk
<1>2. RegInv
  BY RegInit DEF ReadsInit
<1>. QED  BY <1>1, <1>2 DEF ReadsInv, WalkInv, LateInv, SlippedInv, MissesAreExplained

LEMMA ReadsStep == ReadsInv /\ [ReadsNext]_vars => ReadsInv'
<1>1. ASSUME ReadsInv, UNCHANGED vars  PROVE ReadsInv'
  BY <1>1 DEF vars, registryVars, readVars, ReadsInv, RegInv, RegistryTypeOK, KeysInv, FinalInv,
              WalkInv, LateInv, LateNow, SlippedInv, MissesAreExplained, Matching, Ids
<1>. QED  BY <1>1, BeginStep, CountStep, ListStep, ChangeStep DEF ReadsNext

\* However many pages there are and whatever happens to the devices meanwhile, a
\* walk misses no more devices than left the result during it, plus those that
\* came in behind the back of its last COUNT.
THEOREM WalkMissesAreExplained == ReadsSpec => []MissesAreExplained
<1>1. ReadsInv => MissesAreExplained
  BY DEF ReadsInv
<1>. QED  BY <1>1, ReadsInit0, ReadsStep, PTL DEF ReadsSpec

\* What bounds the histories.
BoundInv ==
    /\ Len(devices) <= MaxDevices
    /\ gone <= Cardinality(missing) /\ slipped <= Cardinality(missing)

LEMMA LengthStep ==
    ASSUME RegInv, Len(devices) <= MaxDevices, [RegistryNext]_registryVars
    PROVE  Len(devices') <= MaxDevices
<1>1. Len(devices) \in Nat /\ MaxDevices \in Nat
  BY RegistryAssumption DEF RegInv, RegistryTypeOK
<1>2. ASSUME NEW n \in Ids, NEW d, devices' = [devices EXCEPT ![n] = d]
      PROVE  Len(devices') = Len(devices)
  BY <1>2 DEF RegInv, RegistryTypeOK, Ids
<1>3. ASSUME NEW n \in Ids, NEW name \in Names, NEW status \in Statuses, Patch(n, name, status)
      PROVE  Len(devices') = Len(devices)
  BY <1>2, <1>3 DEF Patch
<1>4. ASSUME NEW n \in Ids, NEW k \in Keys, Rotate(n, k)
      PROVE  Len(devices') = Len(devices)
  BY <1>2, <1>4 DEF Rotate
<1>5. ASSUME NEW n \in Ids, Delete(n) \/ Restore(n)
      PROVE  Len(devices') = Len(devices)
  BY <1>2, <1>5 DEF Delete, Restore
<1>6. ASSUME NEW c \in Clients, NEW name \in Names, NEW status \in Statuses, NEW k \in Keys,
             Add(c, name, status, k)
      PROVE  Len(devices') <= MaxDevices
  <2>1. PICK d \in Device : devices' = Append(devices, d) /\ Len(devices) < MaxDevices
    BY <1>6, NewDeviceType DEF Add
  <2>2. Len(devices') = Len(devices) + 1
    BY <2>1 DEF RegInv, RegistryTypeOK
  <2>. QED  BY <1>1, <2>1, <2>2
<1>7. CASE Finalize \/ UNCHANGED registryVars
  BY <1>7 DEF Finalize, registryVars
<1>. QED  BY <1>1, <1>3, <1>4, <1>5, <1>6, <1>7 DEF RegistryNext

LEMMA BoundStep == ReadsInv /\ BoundInv /\ [ReadsNext]_vars => BoundInv'
<1>. SUFFICES ASSUME ReadsInv, BoundInv, [ReadsNext]_vars  PROVE BoundInv'
  OBVIOUS
<1>0. RegInv /\ RegistryTypeOK /\ WalkInv /\ gone \in Nat /\ slipped \in Nat
  BY DEF ReadsInv, RegInv, WalkInv
<1>1. Len(devices') <= MaxDevices
  BY <1>0, LengthStep, ReadsStepRegistry DEF BoundInv
<1>2. IsFiniteSet(missing) /\ Cardinality(missing) \in Nat
  BY <1>0, MissingFinite
<1>3. CASE UNCHANGED vars \/ CountDevices
  BY <1>1, <1>2, <1>3 DEF vars, readVars, CountDevices, BoundInv
<1>4. CASE Begin
  <2>1. gone = 0 /\ slipped = 0
    BY <1>0, <1>2, <1>4, FS_EmptySet DEF Begin, WalkInv, BoundInv
  <2>2. missing' = Matching /\ gone' = gone /\ slipped' = slipped
    BY <1>4 DEF Begin
  <2>. QED  BY <1>0, <1>1, <2>1, <2>2, FiniteIds DEF BoundInv
<1>5. CASE ListDevices
  <2>1. /\ missing' \in SUBSET missing /\ gone' = Capped(gone, missing')
        /\ slipped' = 0 \/ slipped' = Capped(slipped, missing')
    BY <1>5 DEF ListDevices
  <2>2. IsFiniteSet(missing')
    BY <1>2, <2>1, FS_Subset
  <2>. QED  BY <1>0, <1>1, <2>1, <2>2, CappedIsMin DEF BoundInv
<1>6. CASE Change
  <2>1. PICK M, N : M = Matching /\ N = Matching'
    OBVIOUS
  <2>2. /\ missing' = missing
        /\ gone' = Capped(gone + Cardinality(M \ N), missing)
        /\ slipped' = slipped \/ slipped' = Capped(slipped + Cardinality(N \ M), missing)
    BY <1>6, <2>1 DEF Change
  <2>3. Cardinality(M \ N) \in Nat /\ Cardinality(N \ M) \in Nat
    <3>1. RegistryTypeOK'
      BY <1>0, RegistryStep, ReadsStepRegistry DEF RegInv
    <3>2. Len(devices') \in Nat /\ Ids' = 1 .. Len(devices')
      BY <3>1 DEF RegistryTypeOK, Ids
    <3>3. IsFiniteSet(Ids')
      BY <3>2, FS_Interval
    <3>4. N \in SUBSET Ids'
      BY <2>1 DEF Matching
    <3>5. IsFiniteSet(M) /\ IsFiniteSet(N)
      BY <1>0, <2>1, <3>3, <3>4, FiniteIds, FS_Subset
    <3>. QED  BY <3>5, OneChangeSize
  <2>4. gone + Cardinality(M \ N) \in Nat /\ slipped + Cardinality(N \ M) \in Nat
    BY <1>0, <2>3
  <2>5. gone' <= Cardinality(missing)
    BY <1>2, <2>2, <2>4, CappedIsMin
  <2>6. slipped' <= Cardinality(missing)
    BY <1>2, <2>2, <2>4, CappedIsMin DEF BoundInv
  <2>. QED  BY <1>1, <2>2, <2>5, <2>6 DEF BoundInv
<1>. QED  BY <1>3, <1>4, <1>5, <1>6 DEF ReadsNext

\* The readers keep their types, and their histories their bounds.
THEOREM ReadsTypeCorrect == ReadsSpec => []ReadsTypeOK
<1>1. ReadsInit => ReadsInv /\ BoundInv
  <2>. SUFFICES ASSUME ReadsInit  PROVE BoundInv
    BY ReadsInit0
  <2>1. devices = << >> /\ missing = {} /\ gone = 0 /\ slipped = 0
    BY DEF ReadsInit, RegistryInit
  <2>2. Len(devices) = 0 /\ Cardinality(missing) = 0
    BY <2>1, FS_EmptySet
  <2>. QED  BY <2>1, <2>2, RegistryAssumption DEF BoundInv
<1>2. ReadsInv /\ BoundInv /\ [ReadsNext]_vars => ReadsInv' /\ BoundInv'
  BY ReadsStep, BoundStep
<1>3. ReadsInv /\ BoundInv => ReadsTypeOK
  <2>. SUFFICES ASSUME ReadsInv, BoundInv  PROVE {gone, slipped} \subseteq 0 .. MaxDevices
    BY DEF ReadsTypeOK, ReadsInv, WalkInv
  <2>1. RegistryTypeOK /\ WalkInv /\ gone \in Nat /\ slipped \in Nat /\ MaxDevices \in Nat
    BY RegistryAssumption DEF ReadsInv, RegInv, WalkInv
  <2>2. Len(devices) \in Nat /\ Cardinality(Ids) = Len(devices)
    <3>1. Len(devices) \in Nat
      BY <2>1 DEF RegistryTypeOK
    <3>. QED  BY <3>1, FS_Interval DEF Ids
  <2>3. Cardinality(missing) <= Cardinality(Ids) /\ Cardinality(missing) \in Nat
    <3>1. missing \in SUBSET Ids /\ IsFiniteSet(Ids)
      BY <2>1, FiniteIds DEF WalkInv
    <3>. QED  BY <2>1, <3>1, MissingFinite, FS_Subset
  <2>. QED  BY <2>1, <2>2, <2>3 DEF BoundInv
<1>. QED  BY <1>1, <1>2, <1>3, PTL DEF ReadsSpec
=============================================================================
