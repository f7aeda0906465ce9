----------------------------- MODULE InboundProofs -----------------------------
(***************************************************************************)
(* The safety of the receive side: the limits on relays, notices and       *)
(* tasks, and the menus, for any number of nodes, packets, lifecycles and  *)
(* menus and any limits.                                                   *)
(***************************************************************************)
EXTENDS Inbound, FiniteSetTheorems, WellFoundedInduction, TLAPS

-----------------------------------------------------------------------------
(* Sequences.                                                              *)

LEMMA AppendAt ==
  ASSUME NEW S, NEW q \in Seq(S), NEW x \in S
  PROVE  /\ Append(q, x) \in Seq(S) /\ Len(q) \in Nat /\ Len(Append(q, x)) = Len(q) + 1
         /\ Append(q, x)[Len(q) + 1] = x
         /\ \A i \in 1..Len(q) : Append(q, x)[i] = q[i]
  OBVIOUS

LEMMA TailAt ==
  ASSUME NEW S, NEW q \in Seq(S), q # << >>
  PROVE  /\ Tail(q) \in Seq(S) /\ Len(q) \in Nat /\ Len(q) >= 1 /\ Len(Tail(q)) = Len(q) - 1
         /\ Head(q) = q[1] /\ q[1] \in S
         /\ \A i \in 1..Len(q) - 1 : Tail(q)[i] = q[i + 1]
  OBVIOUS

LEMMA RestAt ==
  ASSUME NEW S, NEW q \in Seq(S), NEW n \in 0..Len(q)
  PROVE  /\ SubSeq(q, n + 1, Len(q)) \in Seq(S)
         /\ Len(SubSeq(q, n + 1, Len(q))) = Len(q) - n
         /\ \A i \in 1..Len(q) - n : SubSeq(q, n + 1, Len(q))[i] = q[n + i]
  OBVIOUS

LEMMA RemoveAtFacts ==
  ASSUME NEW S, NEW q \in Seq(S), NEW n \in 1..Len(q)
  PROVE  /\ RemoveAt(q, n) \in Seq(S) /\ Len(RemoveAt(q, n)) = Len(q) - 1
         /\ \A i \in 1..Len(q) - 1 : RemoveAt(q, n)[i] = IF i < n THEN q[i] ELSE q[i + 1]
<1>. DEFINE a == SubSeq(q, 1, n - 1)
            b == SubSeq(q, n + 1, Len(q))
<1>1. Len(q) \in Nat /\ n \in 0..Len(q) /\ n - 1 \in Nat
  OBVIOUS
<1>2. a \in Seq(S) /\ Len(a) = n - 1 /\ \A i \in 1..(n - 1) : a[i] = q[i]
  OBVIOUS
<1>3. b \in Seq(S) /\ Len(b) = Len(q) - n /\ \A i \in 1..Len(q) - n : b[i] = q[n + i]
  BY <1>1, RestAt
<1>4. RemoveAt(q, n) = a \o b
  BY DEF RemoveAt
<1>. HIDE DEF a, b
<1>5. /\ a \o b \in Seq(S) /\ Len(a \o b) = Len(q) - 1
      /\ \A i \in 1..Len(q) - 1 : (a \o b)[i] = IF i < n THEN a[i] ELSE b[i - (n - 1)]
  <2>1. a \in Seq(S) /\ b \in Seq(S)
    BY <1>2, <1>3
  <2>2. Len(a) = n - 1 /\ Len(b) = Len(q) - n
    BY <1>2, <1>3
  <2>3. Len(a \o b) = Len(a) + Len(b) /\ a \o b \in Seq(S)
    BY <2>1
  <2>4. \A i \in 1..Len(a) + Len(b) : (a \o b)[i] = IF i <= Len(a) THEN a[i] ELSE b[i - Len(a)]
    BY <2>1
  <2>5. Len(a) + Len(b) = Len(q) - 1 /\ \A i \in Int : i <= Len(a) <=> i < n
    BY <1>1, <2>2
  <2>. QED
    BY <1>1, <2>2, <2>3, <2>4, <2>5
<1>6. \A i \in 1..Len(q) - 1 : (a \o b)[i] = IF i < n THEN q[i] ELSE q[i + 1]
  <2>. TAKE i \in 1..Len(q) - 1
  <2>1. CASE i < n
    BY <1>1, <1>2, <1>5, <2>1
  <2>2. CASE ~(i < n)
    <3>1. i - (n - 1) \in 1..Len(q) - n /\ n + (i - (n - 1)) = i + 1
      BY <1>1, <2>2
    <3>. QED
      BY <1>3, <1>5, <2>2, <3>1
  <2>. QED
    BY <2>1, <2>2
<1>. QED
  BY <1>4, <1>5, <1>6

LEMMA FrontAt ==
  ASSUME NEW S, NEW q \in Seq(S), q # << >>
  PROVE  /\ Front(q) \in Seq(S) /\ Len(Front(q)) = Len(q) - 1
         /\ \A i \in 1..Len(q) - 1 : Front(q)[i] = q[i]
  BY DEF Front

LEMMA SameSeq ==
  ASSUME NEW S, NEW p \in Seq(S), NEW q \in Seq(S), Len(p) = Len(q),
         \A i \in 1..Len(p) : p[i] = q[i]
  PROVE  p = q
  OBVIOUS

\* A non-empty set of numbers has a least one.
LEMMA Least ==
  ASSUME NEW T, T \subseteq Nat, T # {}
  PROVE  \E n \in T : \A m \in T : n <= m
<1>1. PICK b \in T : TRUE
  OBVIOUS
<1>. DEFINE S == 0..b
            U == {0..n : n \in {m \in T : m <= b}}
            R == StrictSubsetOrdering(S)
<1>2. IsFiniteSet(S) /\ b \in Nat
  BY <1>1, FS_Interval
<1>3. IsWellFoundedOn(R, SUBSET S)
  BY <1>2, FS_StrictSubsetOrderingWellFounded, FS_FiniteSubsetsOfFinite
<1>4. U \subseteq SUBSET S /\ 0..b \in U
  <2>1. \A n \in T : n <= b => 0..n \subseteq S
    BY <1>2
  <2>. QED
    BY <1>1, <1>2, <2>1
<1>5. \E x \in U : \A y \in U : ~(<<y, x>> \in R)
  <2>. HIDE DEF U, R, S
  <2>1. U # {}
    BY <1>4
  <2>. QED
    BY <1>3, <1>4, <2>1, WFMin
<1>6. PICK n \in T : n <= b /\ \A y \in U : ~(<<y, 0..n>> \in R)
  BY <1>5
<1>7. ASSUME NEW m \in T, m < n
      PROVE  FALSE
  <2>1. m \in Nat /\ n \in Nat /\ m <= b
    BY <1>2, <1>6, <1>7
  <2>2. 0..m \in U /\ 0..m \subseteq 0..n /\ 0..m \subseteq S /\ 0..n \subseteq S
    BY <1>2, <1>6, <1>7, <2>1
  <2>3. n \in 0..n /\ n \notin 0..m
    BY <1>7, <2>1
  <2>4. <<0..m, 0..n>> \in R
    BY <2>2, <2>3 DEF StrictSubsetOrdering
  <2>. QED
    BY <1>6, <2>2, <2>4
<1>. QED
  BY <1>6, <1>7

-----------------------------------------------------------------------------
(* The gate's tables.                                                      *)

LEMMA DictType ==
  ASSUME NEW V, NEW d, IsDict(d, V)
  PROVE  /\ Len(d) \in Nat /\ DOMAIN d = 1..Len(d) /\ d \in Seq([key : Strangers, value : V])
         /\ \A i \in 1..Len(d) : d[i].key \in Strangers /\ d[i].value \in V
<1>. DEFINE E == [key : Strangers, value : V]
<1>1. d \in Seq(E)
  BY DEF IsDict
<1>2. Len(d) \in Nat /\ DOMAIN d = 1..Len(d) /\ \A i \in 1..Len(d) : d[i] \in E
  <2>. HIDE DEF E
  <2>. QED
    BY <1>1
<1>. QED
  BY <1>1, <1>2

LEMMA KeysAt ==
  ASSUME NEW V, NEW d, IsDict(d, V), NEW k
  PROVE  k \in Keys(d) <=> \E i \in 1..Len(d) : d[i].key = k
  BY DictType DEF Keys

LEMMA PositionAt ==
  ASSUME NEW V, NEW d, IsDict(d, V), NEW i \in 1..Len(d)
  PROVE  Position(d, d[i].key) = i
  BY DictType DEF IsDict, Position

LEMMA GetAt ==
  ASSUME NEW V, NEW d, IsDict(d, V), NEW i \in 1..Len(d), NEW x
  PROVE  d[i].key \in Keys(d) /\ Get(d, d[i].key, x) = d[i].value
  BY PositionAt, KeysAt DEF Get

LEMMA GetFacts ==
  ASSUME NEW V, NEW d, IsDict(d, V), NEW k, NEW x
  PROVE  /\ k \in Keys(d) => k \in Strangers /\ Get(d, k, x) \in V
         /\ k \notin Keys(d) => Get(d, k, x) = x
<1>1. CASE k \in Keys(d)
  <2>1. PICK i \in 1..Len(d) : d[i].key = k
    BY <1>1, KeysAt
  <2>2. d[i].key \in Strangers /\ d[i].value \in V
    BY DictType
  <2>3. Get(d, d[i].key, x) = d[i].value
    BY GetAt
  <2>. QED
    BY <1>1, <2>1, <2>2, <2>3
<1>2. CASE k \notin Keys(d)
  BY <1>2 DEF Get
<1>. QED
  BY <1>1, <1>2

\* What table p has is as it is in d.
Kept(p, d) == \A k \in Keys(p) : k \in Keys(d) /\ \A x : Get(p, k, x) = Get(d, k, x)

LEMMA NewestFacts ==
  ASSUME NEW V, NEW d, IsDict(d, V)
  PROVE  IsDict(Newest(d), V) /\ Kept(Newest(d), d) /\ Len(Newest(d)) <= SenderLimit
<1>. DEFINE E == [key : Strangers, value : V]
<1>0. d \in Seq(E) /\ Len(d) \in Nat /\ SenderLimit \in Nat
  BY GateAssumption, DictType
<1>1. CASE Len(d) <= SenderLimit
  BY <1>0, <1>1 DEF Newest, Kept
<1>2. CASE Len(d) > SenderLimit
  <2>. DEFINE n == Len(d) - SenderLimit
              e == SubSeq(d, n + 1, Len(d))
  <2>1. n \in 0..Len(d) /\ n \in Nat
    BY <1>0, <1>2
  <2>2. Newest(d) = e
    BY <1>2 DEF Newest
  <2>3. /\ e \in Seq(E) /\ Len(e) = Len(d) - n
        /\ \A i \in 1..Len(d) - n : e[i] = d[n + i]
    <3>. HIDE DEF n, E
    <3>. QED
      BY <1>0, <2>1, RestAt
  <2>4. Len(e) = SenderLimit
    BY <1>0, <2>3
  <2>5. \A i \in 1..Len(e) : n + i \in 1..Len(d) /\ e[i] = d[n + i]
    <3>. TAKE i \in 1..Len(e)
    <3>1. i \in 1..Len(d) - n
      BY <2>3
    <3>2. n + i \in 1..Len(d)
      BY <1>0, <2>1, <3>1
    <3>. QED
      BY <2>3, <3>1, <3>2
  <2>. HIDE DEF e, n
  <2>6. IsDict(e, V)
    <3>1. SUFFICES ASSUME NEW i \in 1..Len(e), NEW j \in 1..Len(e), e[i].key = e[j].key
                   PROVE  i = j
      BY <2>3 DEF IsDict
    <3>2. n + i = n + j
      BY <2>5, <3>1, PositionAt
    <3>. QED
      BY <2>1, <3>2
  <2>7. \A k \in Keys(e) : k \in Keys(d) /\ \A x : Get(e, k, x) = Get(d, k, x)
    <3>1. SUFFICES ASSUME NEW k \in Keys(e), NEW x
                   PROVE  k \in Keys(d) /\ Get(e, k, x) = Get(d, k, x)
      BY <2>6, KeysAt
    <3>2. PICK i \in 1..Len(e) : e[i].key = k
      BY <2>6, KeysAt
    <3>3. Get(e, e[i].key, x) = e[i].value
      BY <2>6, GetAt
    <3>4. d[n + i].key \in Keys(d) /\ Get(d, d[n + i].key, x) = d[n + i].value
      BY <2>5, GetAt
    <3>. QED
      BY <2>5, <3>2, <3>3, <3>4
  <2>. QED
    BY <1>0, <2>2, <2>4, <2>6, <2>7 DEF Kept
<1>. QED
  BY <1>0, <1>1, <1>2

\* What is left of a table when the entry of a key is taken out.
LEMMA RestOfDict ==
  ASSUME NEW V, NEW d, IsDict(d, V), NEW n \in 1..Len(d), NEW e, e = RemoveAt(d, n)
  PROVE  /\ IsDict(e, V) /\ Len(e) = Len(d) - 1
         /\ Keys(e) = Keys(d) \ {d[n].key}
         /\ \A k \in Keys(e) : \A x : Get(e, k, x) = Get(d, k, x)
<1>. DEFINE E == [key : Strangers, value : V]
            at(i) == IF i < n THEN i ELSE i + 1
<1>0. d \in Seq(E) /\ Len(d) \in Nat
  BY DictType
<1>1. /\ e \in Seq(E) /\ Len(e) = Len(d) - 1
      /\ \A i \in 1..Len(d) - 1 : e[i] = IF i < n THEN d[i] ELSE d[i + 1]
  <2>. HIDE DEF E
  <2>. QED
    BY <1>0, RemoveAtFacts
<1>2. \A i \in 1..Len(e) : at(i) \in 1..Len(d) /\ at(i) # n /\ e[i] = d[at(i)]
  BY <1>0, <1>1
<1>3. \A i, j \in 1..Len(e) : at(i) = at(j) => i = j
  BY <1>0, <1>1
<1>4. \A j \in 1..Len(d) : j # n => \E i \in 1..Len(e) : j = at(i)
  <2>1. SUFFICES ASSUME NEW j \in 1..Len(d), j # n
                 PROVE  \E i \in 1..Len(e) : j = at(i)
    OBVIOUS
  <2>2. CASE j < n
    <3>1. j \in 1..Len(e) /\ at(j) = j
      BY <1>0, <1>1, <2>2
    <3>. QED
      BY <3>1
  <2>3. CASE j > n
    <3>1. j - 1 \in 1..Len(e) /\ at(j - 1) = j
      BY <1>0, <1>1, <2>3
    <3>. QED
      BY <3>1
  <2>. QED
    BY <1>0, <2>1, <2>2, <2>3
<1>. HIDE DEF at
<1>5. IsDict(e, V)
  <2>1. SUFFICES ASSUME NEW i \in 1..Len(e), NEW j \in 1..Len(e), e[i].key = e[j].key
                 PROVE  i = j
    BY <1>1 DEF IsDict
  <2>2. at(i) = at(j)
    BY <1>2, <2>1, PositionAt
  <2>. QED
    BY <1>3, <2>2
<1>6. \A i \in 1..Len(e) : \A x :
        /\ e[i].key \in Keys(d) /\ e[i].key # d[n].key
        /\ Get(e, e[i].key, x) = Get(d, e[i].key, x)
  <2>. TAKE i \in 1..Len(e)
  <2>. TAKE x
  <2>1. at(i) \in 1..Len(d) /\ at(i) # n /\ e[i] = d[at(i)]
    BY <1>2
  <2>2. d[at(i)].key \in Keys(d) /\ Get(d, d[at(i)].key, x) = d[at(i)].value
    BY <2>1, GetAt
  <2>3. Get(e, e[i].key, x) = e[i].value
    BY <1>5, GetAt
  <2>4. d[at(i)].key # d[n].key
    BY <2>1, PositionAt
  <2>. QED
    BY <2>1, <2>2, <2>3, <2>4
<1>7. \A k \in Keys(e) : k \in Keys(d) \ {d[n].key} /\ \A x : Get(e, k, x) = Get(d, k, x)
  BY <1>5, <1>6, KeysAt
<1>8. \A k \in Keys(d) \ {d[n].key} : k \in Keys(e)
  <2>. TAKE k \in Keys(d) \ {d[n].key}
  <2>1. PICK j \in 1..Len(d) : d[j].key = k
    BY KeysAt
  <2>2. PICK i \in 1..Len(e) : j = at(i)
    BY <1>4, <2>1
  <2>3. e[i].key = k
    BY <1>2, <2>1, <2>2
  <2>. QED
    BY <1>5, <2>3, KeysAt
<1>. QED
  BY <1>1, <1>5, <1>7, <1>8

\* Table p is d with a value stored for a key.
Stored(p, d, key, value) ==
  /\ Keys(p) = Keys(d) \cup {key}
  /\ \A x : Get(p, key, x) = value
  /\ \A k \in Keys(d) \ {key} : \A x : Get(p, k, x) = Get(d, k, x)

LEMMA AddToDict ==
  ASSUME NEW V, NEW d, IsDict(d, V), NEW key \in Strangers, key \notin Keys(d), NEW value \in V,
         NEW new, new = [key |-> key, value |-> value], NEW p, p = Append(d, new)
  PROVE  IsDict(p, V) /\ Len(p) = Len(d) + 1 /\ Stored(p, d, key, value)
<1>. DEFINE E == [key : Strangers, value : V]
<1>0. d \in Seq(E) /\ Len(d) \in Nat /\ new \in E /\ new.key = key /\ new.value = value
  BY DictType
<1>1. /\ p \in Seq(E) /\ Len(p) = Len(d) + 1 /\ p[Len(d) + 1] = new
      /\ \A i \in 1..Len(d) : p[i] = d[i]
  <2>. HIDE DEF E
  <2>. QED
    BY <1>0, AppendAt
<1>2. \A i \in 1..Len(p) : i = Len(d) + 1 \/ i \in 1..Len(d)
  BY <1>0, <1>1
<1>3. \A i \in 1..Len(d) : i \in 1..Len(p) /\ d[i].key # key
  <2>. TAKE i \in 1..Len(d)
  <2>1. d[i].key \in Keys(d)
    BY KeysAt
  <2>. QED
    BY <1>0, <1>1, <2>1
<1>4. IsDict(p, V)
  <2>1. SUFFICES ASSUME NEW i \in 1..Len(p), NEW j \in 1..Len(p), p[i].key = p[j].key
                 PROVE  i = j
    BY <1>1 DEF IsDict
  <2>2. CASE i \in 1..Len(d) /\ j \in 1..Len(d)
    BY <1>1, <2>1, <2>2, PositionAt
  <2>3. CASE i = Len(d) + 1 /\ j = Len(d) + 1
    BY <2>3
  <2>4. CASE i = Len(d) + 1 /\ j \in 1..Len(d)
    BY <1>0, <1>1, <1>3, <2>1, <2>4
  <2>5. CASE i \in 1..Len(d) /\ j = Len(d) + 1
    BY <1>0, <1>1, <1>3, <2>1, <2>5
  <2>. QED
    BY <1>2, <2>2, <2>3, <2>4, <2>5
<1>5. key \in Keys(p) /\ \A x : Get(p, key, x) = value
  <2>1. Len(d) + 1 \in 1..Len(p)
    BY <1>0, <1>1
  <2>2. \A x : p[Len(d) + 1].key \in Keys(p) /\ Get(p, p[Len(d) + 1].key, x) = p[Len(d) + 1].value
    BY <1>4, <2>1, GetAt
  <2>. QED
    BY <1>0, <1>1, <2>2
<1>6. \A k \in Keys(d) : \A x : k \in Keys(p) /\ Get(p, k, x) = Get(d, k, x)
  <2>. TAKE k \in Keys(d)
  <2>. TAKE x
  <2>1. PICK i \in 1..Len(d) : d[i].key = k
    BY KeysAt
  <2>2. p[i].key \in Keys(p) /\ Get(p, p[i].key, x) = p[i].value
    BY <1>3, <1>4, GetAt
  <2>3. Get(d, d[i].key, x) = d[i].value
    BY GetAt
  <2>. QED
    BY <1>1, <2>1, <2>2, <2>3
<1>7. \A k \in Keys(p) : k \in Keys(d) \cup {key}
  <2>1. \A i \in 1..Len(p) : p[i].key \in Keys(d) \cup {key}
    BY <1>0, <1>1, <1>2, KeysAt
  <2>2. \A k \in Keys(p) : \E i \in 1..Len(p) : p[i].key = k
    <3>1. DOMAIN p = 1..Len(p)
      BY <1>1
    <3>. QED
      BY <3>1 DEF Keys
  <2>. QED
    BY <2>1, <2>2
<1>. QED
  BY <1>1, <1>4, <1>5, <1>6, <1>7 DEF Stored

LEMMA PutFacts ==
  ASSUME NEW V, NEW d, IsDict(d, V), NEW key \in Strangers, NEW value \in V
  PROVE  /\ IsDict(Put(d, key, value), V)
         /\ Stored(Put(d, key, value), d, key, value)
         /\ Len(Put(d, key, value)) = IF key \in Keys(d) THEN Len(d) ELSE Len(d) + 1
<1>. DEFINE rest == IF key \in Keys(d) THEN RemoveAt(d, Position(d, key)) ELSE d
<1>1. /\ IsDict(rest, V)
      /\ Keys(rest) = Keys(d) \ {key}
      /\ \A k \in Keys(rest) : \A x : Get(rest, k, x) = Get(d, k, x)
      /\ Len(rest) = IF key \in Keys(d) THEN Len(d) - 1 ELSE Len(d)
  <2>1. CASE key \in Keys(d)
    <3>1. PICK n \in 1..Len(d) : d[n].key = key
      BY <2>1, KeysAt
    <3>2. Position(d, key) = n
      BY <3>1, PositionAt
    <3>3. rest = RemoveAt(d, n)
      BY <2>1, <3>2
    <3>. HIDE DEF rest
    <3>. QED
      BY <2>1, <3>1, <3>3, RestOfDict
  <2>2. CASE key \notin Keys(d)
    BY <2>2
  <2>. QED
    BY <2>1, <2>2
<1>2. Put(d, key, value) = Append(rest, [key |-> key, value |-> value])
  BY DEF Put
<1>. HIDE DEF rest
<1>3. PICK p, new : p = Put(d, key, value) /\ new = [key |-> key, value |-> value]
  OBVIOUS
<1>4. p = Append(rest, new)
  BY <1>2, <1>3
<1>5. IsDict(p, V) /\ Len(p) = Len(rest) + 1 /\ Stored(p, rest, key, value)
  BY <1>1, <1>3, <1>4, AddToDict
<1>6. Stored(p, d, key, value)
  BY <1>1, <1>5 DEF Stored
<1>7. Len(p) = IF key \in Keys(d) THEN Len(d) ELSE Len(d) + 1
  BY <1>1, <1>5, DictType
<1>. QED
  BY <1>3, <1>5, <1>6, <1>7

-----------------------------------------------------------------------------
(* The operations of the gate.                                             *)

Times == 0..MaxTime

LEMMA Limits ==
  /\ PerHour \in Nat /\ Hour \in Nat /\ Cooldown \in Nat /\ SenderLimit \in Nat
  /\ MaxPackets \in Nat /\ MaxMenus \in Nat /\ MaxLifecycle \in Nat /\ MaxTime \in Nat
  /\ QueueMax \in Nat /\ TaskLimit \in Nat /\ TTL \in Nat /\ PickerLimit \in Nat
  /\ Times \subseteq Nat
  BY GateAssumption, PickerAssumption, InboundAssumption DEF Times

LEMMA TimesAt ==
  ASSUME NEW times \in Seq(Times)
  PROVE  /\ Len(times) \in Nat /\ DOMAIN times = 1..Len(times)
         /\ \A i \in 1..Len(times) : times[i] \in Nat /\ times[i] \in Times
<1>1. Len(times) \in Nat /\ DOMAIN times = 1..Len(times)
      /\ \A i \in 1..Len(times) : times[i] \in Times
  OBVIOUS
<1>2. Times \subseteq Nat
  BY Limits
<1>. QED
  BY <1>1, <1>2

LEMMA InWindowFacts ==
  ASSUME NEW times \in Seq(Times), NEW t \in Nat
  PROVE  \E n \in 0..Len(times) :
           /\ InWindow(times, t) = SubSeq(times, n + 1, Len(times))
           /\ \A i \in 1..n : t - times[i] >= Hour
<1>. DEFINE L == Len(times)
            old(k) == \A i \in 1..k : t - times[i] >= Hour
            T == {k \in 0..L : k < L => ~(t - times[k + 1] >= Hour)}
            Cut(k) == old(k) /\ (k < L => ~old(k + 1))
<1>1. L \in Nat /\ L \in T /\ T \subseteq Nat
  OBVIOUS
<1>2. PICK n \in T : \A m \in T : n <= m
  <2>. HIDE DEF T
  <2>. QED
    BY <1>1, Least
<1>3. old(n)
  <2>1. SUFFICES ASSUME NEW i \in 1..n
                 PROVE  t - times[i] >= Hour
    OBVIOUS
  <2>2. i - 1 \in 0..L /\ i - 1 < L /\ i - 1 < n
    BY <1>1, <1>2
  <2>3. i - 1 \notin T
    BY <1>1, <1>2, <2>2
  <2>. QED
    BY <2>2, <2>3
<1>4. n < L => ~old(n + 1)
  BY <1>1, <1>2
<1>5. \E k \in 0..L : Cut(k)
  BY <1>2, <1>3, <1>4
<1>6. (CHOOSE k \in 0..L : Cut(k)) \in 0..L /\ Cut(CHOOSE k \in 0..L : Cut(k))
  <2>. HIDE DEF Cut, L
  <2>. QED
    BY <1>5
<1>7. InWindow(times, t) = SubSeq(times, (CHOOSE k \in 0..L : Cut(k)) + 1, L)
  BY DEF InWindow
<1>8. PICK k : k = CHOOSE c \in 0..L : Cut(c)
  OBVIOUS
<1>. QED
  BY <1>6, <1>7, <1>8

LEMMA LatestEmpty ==
  ASSUME NEW t
  PROVE  Latest(<< >>, << >>, t)
  BY DEF Latest

LEMMA LatestLater ==
  ASSUME NEW times \in Seq(Times), NEW relays \in Seq(Times), NEW t \in Nat, NEW u \in Nat, t <= u,
         Latest(times, relays, t)
  PROVE  Latest(times, relays, u)
<1>. DEFINE dropped == Len(relays) - Len(times)
<1>1. SUFFICES ASSUME NEW i \in 1..dropped
               PROVE  u - relays[i] >= Hour
  BY DEF Latest
<1>2. t - relays[i] >= Hour
  BY DEF Latest
<1>3. relays[i] \in Nat /\ Hour \in Nat
  <2>1. i \in 1..Len(relays)
    BY TimesAt
  <2>. QED
    BY <2>1, TimesAt, Limits
<1>. QED
  BY <1>2, <1>3

\* What InWindow drops is older than an hour.
LEMMA LatestWindow ==
  ASSUME NEW times \in Seq(Times), NEW relays \in Seq(Times), NEW t \in Nat,
         Latest(times, relays, t)
  PROVE  /\ InWindow(times, t) \in Seq(Times) /\ Len(InWindow(times, t)) <= Len(times)
         /\ Latest(InWindow(times, t), relays, t)
<1>1. PICK n \in 0..Len(times) : /\ InWindow(times, t) = SubSeq(times, n + 1, Len(times))
                                 /\ \A i \in 1..n : t - times[i] >= Hour
  BY InWindowFacts
<1>. DEFINE w == InWindow(times, t)
            dropped == Len(relays) - Len(times)
<1>2. /\ w \in Seq(Times) /\ Len(w) = Len(times) - n
      /\ \A i \in 1..Len(times) - n : w[i] = times[n + i]
  BY <1>1, RestAt
<1>3. Len(times) \in Nat /\ Len(relays) \in Nat /\ n \in Nat /\ n <= Len(times)
  OBVIOUS
<1>4. /\ dropped >= 0
      /\ \A i \in 1..Len(times) : times[i] = relays[dropped + i]
      /\ \A i \in 1..dropped : t - relays[i] >= Hour
  BY DEF Latest
<1>. HIDE DEF w
<1>5. \A i \in 1..Len(w) : w[i] = relays[Len(relays) - Len(w) + i]
  <2>. TAKE i \in 1..Len(w)
  <2>1. n + i \in 1..Len(times) /\ w[i] = times[n + i]
    BY <1>2, <1>3
  <2>2. times[n + i] = relays[dropped + (n + i)]
    BY <1>4, <2>1
  <2>3. dropped + (n + i) = Len(relays) - Len(w) + i
    BY <1>2, <1>3
  <2>. QED
    BY <2>1, <2>2, <2>3
<1>6. \A i \in 1..Len(relays) - Len(w) : t - relays[i] >= Hour
  <2>. TAKE i \in 1..Len(relays) - Len(w)
  <2>1. CASE i <= dropped
    BY <1>2, <1>3, <1>4, <2>1
  <2>2. CASE i > dropped
    <3>1. i - dropped \in 1..n /\ i - dropped \in 1..Len(times) /\ dropped + (i - dropped) = i
      BY <1>2, <1>3, <2>2
    <3>2. times[i - dropped] = relays[i]
      BY <1>4, <3>1
    <3>. QED
      BY <1>1, <3>1, <3>2
  <2>. QED
    BY <1>2, <1>3, <2>1, <2>2
<1>7. Latest(w, relays, t)
  BY <1>2, <1>3, <1>4, <1>5, <1>6 DEF Latest
<1>. QED
  BY <1>2, <1>3, <1>7 DEF w

LEMMA LatestAppend ==
  ASSUME NEW times \in Seq(Times), NEW relays \in Seq(Times), NEW t \in Nat, NEW x \in Times,
         Latest(times, relays, t)
  PROVE  Latest(Append(times, x), Append(relays, x), t)
<1>. DEFINE p == Append(times, x)
            q == Append(relays, x)
            dropped == Len(relays) - Len(times)
<1>1. /\ Len(p) = Len(times) + 1 /\ p[Len(times) + 1] = x /\ \A i \in 1..Len(times) : p[i] = times[i]
      /\ Len(q) = Len(relays) + 1 /\ q[Len(relays) + 1] = x /\ \A i \in 1..Len(relays) : q[i] = relays[i]
      /\ Len(times) \in Nat /\ Len(relays) \in Nat
  BY AppendAt
<1>2. /\ dropped >= 0
      /\ \A i \in 1..Len(times) : times[i] = relays[dropped + i]
      /\ \A i \in 1..dropped : t - relays[i] >= Hour
  BY DEF Latest
<1>. HIDE DEF p, q
<1>3. Len(q) - Len(p) = dropped
  BY <1>1
<1>4. \A i \in 1..Len(p) : p[i] = q[dropped + i]
  <2>. TAKE i \in 1..Len(p)
  <2>1. CASE i = Len(times) + 1
    <3>1. dropped + i = Len(relays) + 1
      BY <1>1, <2>1
    <3>. QED
      BY <1>1, <2>1, <3>1
  <2>2. CASE i \in 1..Len(times)
    <3>1. dropped + i \in 1..Len(relays)
      BY <1>1, <1>2, <2>2
    <3>. QED
      BY <1>1, <1>2, <2>2, <3>1
  <2>. QED
    BY <1>1, <2>1, <2>2
<1>5. \A i \in 1..dropped : t - q[i] >= Hour
  <2>. TAKE i \in 1..dropped
  <2>1. i \in 1..Len(relays)
    BY <1>1, <1>2
  <2>. QED
    BY <1>1, <1>2, <2>1
<1>6. Latest(p, q, t)
  BY <1>2, <1>3, <1>4, <1>5 DEF Latest
<1>. QED
  BY <1>6 DEF p, q

\* The relays of the last hour are among the latest.
LEMMA LatestCount ==
  ASSUME NEW times \in Seq(Times), NEW relays \in Seq(Times), NEW t \in Nat,
         Latest(times, relays, t)
  PROVE  Cardinality({i \in DOMAIN relays : t - relays[i] < Hour}) <= Len(times)
<1>. DEFINE young == {i \in DOMAIN relays : t - relays[i] < Hour}
            low == Len(relays) - Len(times) + 1
<1>1. Len(times) \in Nat /\ Len(relays) \in Nat /\ DOMAIN relays = 1..Len(relays) /\ low >= 1
      /\ low \in Nat /\ Hour \in Nat /\ \A i \in 1..Len(relays) : relays[i] \in Nat
  BY Limits, TimesAt DEF Latest
<1>2. young \subseteq low..Len(relays)
  <2>1. SUFFICES ASSUME NEW i \in 1..Len(relays), t - relays[i] < Hour
                 PROVE  i >= low
    BY <1>1
  <2>2. ~(i \in 1..Len(relays) - Len(times))
    BY <1>1, <2>1 DEF Latest
  <2>. QED
    BY <1>1, <2>2
<1>3. IsFiniteSet(low..Len(relays)) /\ Cardinality(low..Len(relays)) = Len(times)
  <2>1. low \in Int /\ Len(relays) \in Int
    BY <1>1
  <2>2. /\ IsFiniteSet(low..Len(relays))
        /\ Cardinality(low..Len(relays)) = IF low > Len(relays) THEN 0 ELSE Len(relays) - low + 1
    BY <2>1, FS_Interval
  <2>3. low > Len(relays) => Len(times) = 0
    BY <1>1
  <2>. QED
    BY <1>1, <2>2, <2>3
<1>4. Cardinality(young) <= Cardinality(low..Len(relays))
  BY <1>2, <1>3, FS_Subset
<1>. QED
  BY <1>3, <1>4

TimesOf(g, s) == Get(g.forwards, s, << >>)

LEMMA GateType ==
  ASSUME NEW g, IsGate(g)
  PROVE  /\ IsDict(g.forwards, Seq(Times)) /\ IsDict(g.lastReply, Times)
         /\ g.inflight \subseteq Strangers
         /\ g = [forwards |-> g.forwards, lastReply |-> g.lastReply, inflight |-> g.inflight]
  BY DEF IsGate, Times

LEMMA GateMade ==
  ASSUME NEW f, NEW l, NEW i, IsDict(f, Seq(Times)), IsDict(l, Times), i \subseteq Strangers
  PROVE  IsGate([forwards |-> f, lastReply |-> l, inflight |-> i])
  BY DEF IsGate, IsDict, Times

LEMMA TimesOfType ==
  ASSUME NEW g, IsGate(g), NEW s
  PROVE  /\ TimesOf(g, s) \in Seq(Times)
         /\ s \notin Keys(g.forwards) => TimesOf(g, s) = << >>
<1>1. IsDict(g.forwards, Seq(Times))
  BY GateType
<1>2. CASE s \in Keys(g.forwards)
  BY <1>1, <1>2, GetFacts DEF TimesOf
<1>3. CASE s \notin Keys(g.forwards)
  <2>1. TimesOf(g, s) = << >>
    BY <1>1, <1>3, GetFacts DEF TimesOf
  <2>. QED
    BY <2>1
<1>. QED
  BY <1>2, <1>3

\* What decide makes of a gate: w are the forwards of the sender that count.
Decided(d, g, s, t, w) ==
  /\ IsGate(d.gate) /\ d.forward \in BOOLEAN /\ d.notice \in BOOLEAN
  /\ d.forward <=> Len(w) < PerHour
  /\ d.notice => d.forward /\ NoticeDue(g, s, t)
  /\ d.gate.inflight = IF d.notice THEN g.inflight \cup {s} ELSE g.inflight
  /\ Kept(d.gate.lastReply, g.lastReply)
  /\ \A k \in Keys(d.gate.forwards) \ {s} :
       k \in Keys(g.forwards) /\ TimesOf(d.gate, k) = TimesOf(g, k)
  /\ s \in Keys(d.gate.forwards) => TimesOf(d.gate, s) = IF d.forward THEN Append(w, t) ELSE w
  /\ Len(g.lastReply) <= SenderLimit => Len(d.gate.lastReply) <= SenderLimit
  /\ PerHour > 0 /\ Len(g.forwards) <= SenderLimit => Len(d.gate.forwards) <= SenderLimit

LEMMA DecideFacts ==
  ASSUME NEW g, IsGate(g), NEW s \in Strangers, NEW t \in Times,
         NEW w, w = InWindow(TimesOf(g, s), t)
  PROVE  Decided(Decide(g, s, t), g, s, t, w)
<1>. DEFINE d == Decide(g, s, t)
            notice == NoticeDue(g, s, t)
            p == Put(g.forwards, s, Append(w, t))
            q == Put(g.forwards, s, w)
            i == g.inflight \cup (IF notice THEN {s} ELSE {})
<1>1. IsDict(g.forwards, Seq(Times)) /\ IsDict(g.lastReply, Times) /\ g.inflight \subseteq Strangers
  BY GateType
<1>2. w \in Seq(Times) /\ Append(w, t) \in Seq(Times) /\ Len(w) \in Nat /\ PerHour \in Nat
      /\ SenderLimit \in Nat
  <2>1. PICK n \in 0..Len(TimesOf(g, s)) : w = SubSeq(TimesOf(g, s), n + 1, Len(TimesOf(g, s)))
    BY InWindowFacts, TimesOfType, Limits
  <2>2. w \in Seq(Times)
    BY <2>1, TimesOfType, RestAt
  <2>. QED
    BY <2>2, Limits
<1>3. notice \in BOOLEAN
  BY DEF NoticeDue
<1>4. CASE Len(w) < PerHour
  <2>. DEFINE f == Newest(p)
              l == Newest(g.lastReply)
  <2>1. /\ d.forward = TRUE /\ d.notice = notice
        /\ d.gate = [forwards |-> f, lastReply |-> l, inflight |-> i]
    BY <1>4 DEF Decide, Allowed, TimesOf
  <2>2. IsDict(p, Seq(Times)) /\ Stored(p, g.forwards, s, Append(w, t))
    BY <1>1, <1>2, PutFacts
  <2>3. IsDict(f, Seq(Times)) /\ Kept(f, p) /\ Len(f) <= SenderLimit
    BY <2>2, NewestFacts
  <2>4. IsDict(l, Times) /\ Kept(l, g.lastReply) /\ Len(l) <= SenderLimit
    BY <1>1, NewestFacts
  <2>5. i \subseteq Strangers
    BY <1>1
  <2>. HIDE DEF f, l, p, notice, d, i
  <2>6. IsGate(d.gate) /\ d.gate.forwards = f /\ d.gate.lastReply = l /\ d.gate.inflight = i
    BY <2>1, <2>3, <2>4, <2>5, GateMade
  <2>7. \A k \in Keys(f) \ {s} : k \in Keys(g.forwards) /\ TimesOf(d.gate, k) = TimesOf(g, k)
    BY <2>2, <2>3, <2>6 DEF Kept, Stored, TimesOf
  <2>8. s \in Keys(f) => TimesOf(d.gate, s) = Append(w, t)
    BY <2>2, <2>3, <2>6 DEF Kept, Stored, TimesOf
  <2>9. i = IF d.notice THEN g.inflight \cup {s} ELSE g.inflight
    BY <1>3, <2>1 DEF i
  <2>10. d.notice => d.forward /\ NoticeDue(g, s, t)
    BY <2>1 DEF notice
  <2>11. /\ Kept(d.gate.lastReply, g.lastReply)
         /\ Len(d.gate.lastReply) <= SenderLimit /\ Len(d.gate.forwards) <= SenderLimit
    BY <2>3, <2>4, <2>6
  <2>12. d.forward \in BOOLEAN /\ d.notice \in BOOLEAN /\ (d.forward <=> Len(w) < PerHour)
    BY <1>3, <1>4, <2>1
  <2>13. Decided(d, g, s, t, w)
    BY <2>1, <2>6, <2>7, <2>8, <2>9, <2>10, <2>11, <2>12 DEF Decided
  <2>. QED
    BY <2>13 DEF d
<1>5. CASE ~(Len(w) < PerHour)
  <2>1. /\ d.forward = FALSE /\ d.notice = FALSE
        /\ d.gate = [g EXCEPT !.forwards = q]
    BY <1>5 DEF Decide, Allowed, TimesOf
  <2>2. /\ IsDict(q, Seq(Times)) /\ Stored(q, g.forwards, s, w)
        /\ Len(q) = IF s \in Keys(g.forwards) THEN Len(g.forwards) ELSE Len(g.forwards) + 1
    BY <1>1, <1>2, PutFacts
  <2>. HIDE DEF q, d
  <2>3. /\ d.gate = [forwards |-> q, lastReply |-> g.lastReply, inflight |-> g.inflight]
    BY <2>1, GateType
  <2>4. /\ IsGate(d.gate) /\ d.gate.forwards = q /\ d.gate.lastReply = g.lastReply
        /\ d.gate.inflight = g.inflight
    BY <1>1, <2>2, <2>3, GateMade
  <2>5. \A k \in Keys(q) \ {s} : k \in Keys(g.forwards) /\ TimesOf(d.gate, k) = TimesOf(g, k)
    BY <2>2, <2>4 DEF Stored, TimesOf
  <2>6. TimesOf(d.gate, s) = w
    BY <2>2, <2>4 DEF Stored, TimesOf
  <2>7. PerHour > 0 => s \in Keys(g.forwards)
    <3>1. SUFFICES ASSUME PerHour > 0, s \notin Keys(g.forwards)
                   PROVE  FALSE
      OBVIOUS
    <3>2. TimesOf(g, s) = << >>
      BY <3>1, TimesOfType
    <3>3. PICK n \in 0..Len(<< >>) : w = SubSeq(<< >>, n + 1, Len(<< >>))
      BY <3>2, InWindowFacts, TimesOfType, Limits
    <3>4. Len(w) = 0
      BY <3>3
    <3>. QED
      BY <1>2, <1>5, <3>1, <3>4
  <2>8. Kept(g.lastReply, g.lastReply)
    BY DEF Kept
  <2>9. PerHour > 0 => Len(q) = Len(g.forwards)
    BY <2>2, <2>7
  <2>10. d.forward \in BOOLEAN /\ d.notice \in BOOLEAN /\ (d.forward <=> Len(w) < PerHour)
    BY <1>5, <2>1
  <2>11. d.gate.inflight = IF d.notice THEN g.inflight \cup {s} ELSE g.inflight
    BY <2>1, <2>4
  <2>12. Decided(d, g, s, t, w)
    BY <2>1, <2>4, <2>5, <2>6, <2>8, <2>9, <2>10, <2>11 DEF Decided
  <2>. QED
    BY <2>12 DEF d
<1>. QED
  BY <1>4, <1>5

\* What reply_done makes of a gate.
Closed(h, g, s) ==
  /\ IsGate(h) /\ h.forwards = g.forwards /\ h.inflight = g.inflight \ {s}
  /\ \A k \in Keys(h.lastReply) \ {s} :
       k \in Keys(g.lastReply) /\ \A x : Get(h.lastReply, k, x) = Get(g.lastReply, k, x)
  /\ Len(g.lastReply) <= SenderLimit => Len(h.lastReply) <= SenderLimit

LEMMA ReplyDoneFacts ==
  ASSUME NEW g, IsGate(g), NEW s \in Strangers, NEW t \in Times, NEW delivered \in BOOLEAN
  PROVE  /\ Closed(ReplyDone(g, s, delivered, t), g, s)
         /\ ~delivered => ReplyDone(g, s, delivered, t).lastReply = g.lastReply
<1>. DEFINE h == ReplyDone(g, s, delivered, t)
            p == Put(g.lastReply, s, t)
            l == IF delivered THEN Newest(p) ELSE g.lastReply
<1>1. /\ IsDict(g.forwards, Seq(Times)) /\ IsDict(g.lastReply, Times) /\ g.inflight \subseteq Strangers
      /\ g = [forwards |-> g.forwards, lastReply |-> g.lastReply, inflight |-> g.inflight]
  BY GateType
<1>2. h = [forwards |-> g.forwards, lastReply |-> l, inflight |-> g.inflight \ {s}]
  <2>1. h = [g EXCEPT !.inflight = g.inflight \ {s}, !.lastReply = l]
    BY DEF ReplyDone
  <2>2. PICK f, r, i : g = [forwards |-> f, lastReply |-> r, inflight |-> i]
    BY <1>1
  <2>. HIDE DEF h, l
  <2>. QED
    BY <2>1, <2>2
<1>3. IsDict(p, Times) /\ Stored(p, g.lastReply, s, t)
  BY <1>1, PutFacts
<1>. HIDE DEF p
<1>4. IsDict(Newest(p), Times) /\ Kept(Newest(p), p) /\ Len(Newest(p)) <= SenderLimit
  BY <1>3, NewestFacts
<1>5. /\ IsDict(l, Times) /\ (Len(g.lastReply) <= SenderLimit => Len(l) <= SenderLimit)
      /\ \A k \in Keys(l) \ {s} :
           k \in Keys(g.lastReply) /\ \A x : Get(l, k, x) = Get(g.lastReply, k, x)
  <2>1. CASE delivered
    <3>1. l = Newest(p)
      BY <2>1
    <3>. HIDE DEF l
    <3>2. \A k \in Keys(l) \ {s} : \A x :
            k \in Keys(g.lastReply) /\ Get(l, k, x) = Get(g.lastReply, k, x)
      BY <1>3, <1>4, <3>1 DEF Kept, Stored
    <3>. QED
      BY <1>4, <3>1, <3>2
  <2>2. CASE ~delivered
    BY <1>1, <2>2
  <2>. QED
    BY <2>1, <2>2
<1>6. g.inflight \ {s} \subseteq Strangers /\ (~delivered => l = g.lastReply)
  BY <1>1
<1>. HIDE DEF h, l
<1>7. IsGate(h) /\ h.forwards = g.forwards /\ h.lastReply = l /\ h.inflight = g.inflight \ {s}
  BY <1>1, <1>2, <1>5, <1>6, GateMade
<1>8. Closed(h, g, s)
  BY <1>5, <1>7 DEF Closed
<1>. QED
  BY <1>6, <1>7, <1>8 DEF h

\* What forward_cancelled makes of a gate.
GivenBack(h, g, s) ==
  /\ IsGate(h) /\ h.lastReply = g.lastReply /\ h.inflight = g.inflight
  /\ Keys(h.forwards) = Keys(g.forwards) /\ Len(h.forwards) = Len(g.forwards)
  /\ \A k \in Keys(g.forwards) \ {s} : TimesOf(h, k) = TimesOf(g, k)
  /\ TimesOf(h, s) = IF TimesOf(g, s) = << >> THEN << >> ELSE Front(TimesOf(g, s))

LEMMA CancelledFacts ==
  ASSUME NEW g, IsGate(g), NEW s \in Strangers
  PROVE  GivenBack(ForwardCancelled(g, s), g, s)
<1>. DEFINE times == TimesOf(g, s)
            d == g.forwards
            E == [key : Strangers, value : Seq(Times)]
            entry(i) == IF d[i].key = s THEN [d[i] EXCEPT !.value = Front(times)] ELSE d[i]
            f == [i \in DOMAIN d |-> entry(i)]
            h == ForwardCancelled(g, s)
<1>1. IsDict(d, Seq(Times)) /\ times \in Seq(Times)
  BY GateType, TimesOfType
<1>2. CASE times = << >>
  <2>1. h = g
    BY <1>2 DEF ForwardCancelled, TimesOf
  <2>. QED
    BY <1>2, <2>1 DEF GivenBack
<1>3. CASE times # << >>
  <2>1. h = [g EXCEPT !.forwards = f]
    BY <1>3 DEF ForwardCancelled, TimesOf
  <2>2. DOMAIN d = 1..Len(d) /\ Len(d) \in Nat /\ d \in Seq(E)
    BY <1>1, DictType
  <2>3. \A i \in 1..Len(d) : d[i] \in E
    <3>. HIDE DEF E
    <3>. QED
      BY <2>2
  <2>4. Front(times) \in Seq(Times)
    BY <1>1, <1>3, FrontAt
  <2>5. \A i \in 1..Len(d) :
          /\ entry(i) \in E /\ entry(i).key = d[i].key
          /\ entry(i).value = IF d[i].key = s THEN Front(times) ELSE d[i].value
    BY <2>3, <2>4
  <2>. HIDE DEF entry, E
  <2>6. /\ f \in Seq(E) /\ Len(f) = Len(d)
        /\ \A i \in 1..Len(d) : f[i] = entry(i)
    BY <2>2, <2>5
  <2>. HIDE DEF f
  <2>7. IsDict(f, Seq(Times))
    <3>1. f \in Seq([key : Strangers, value : Seq(Times)]) /\ DOMAIN f = 1..Len(f)
      BY <2>6 DEF E
    <3>2. SUFFICES ASSUME NEW i \in 1..Len(d), NEW j \in 1..Len(d), f[i].key = f[j].key
                   PROVE  i = j
      BY <2>6, <3>1 DEF IsDict
    <3>. QED
      BY <1>1, <2>5, <2>6, <3>2, PositionAt
  <2>8. h = [forwards |-> f, lastReply |-> g.lastReply, inflight |-> g.inflight]
    BY <2>1, GateType
  <2>9. IsDict(g.lastReply, Times) /\ g.inflight \subseteq Strangers
    BY GateType
  <2>. HIDE DEF h
  <2>10. /\ IsGate(h) /\ h.forwards = f /\ h.lastReply = g.lastReply /\ h.inflight = g.inflight
    BY <2>7, <2>8, <2>9, GateMade
  <2>11. \A k : k \in Keys(f) <=> k \in Keys(d)
    <3>. TAKE k
    <3>1. k \in Keys(f) <=> \E i \in 1..Len(d) : f[i].key = k
      BY <2>6, <2>7, KeysAt
    <3>2. k \in Keys(d) <=> \E i \in 1..Len(d) : d[i].key = k
      BY <1>1, KeysAt
    <3>. QED
      BY <2>5, <2>6, <3>1, <3>2
  <2>12. \A i \in 1..Len(d) :
           TimesOf(h, d[i].key) = IF d[i].key = s THEN Front(times) ELSE TimesOf(g, d[i].key)
    <3>. TAKE i \in 1..Len(d)
    <3>1. Get(f, f[i].key, << >>) = f[i].value
      BY <2>6, <2>7, GetAt
    <3>2. Get(d, d[i].key, << >>) = d[i].value
      BY <1>1, GetAt
    <3>. QED
      BY <2>5, <2>6, <2>10, <3>1, <3>2 DEF TimesOf
  <2>13. s \in Keys(d)
    BY <1>3, TimesOfType
  <2>14. \A k \in Keys(d) : TimesOf(h, k) = IF k = s THEN Front(times) ELSE TimesOf(g, k)
    BY <1>1, <2>12, KeysAt
  <2>15. GivenBack(h, g, s)
    BY <1>3, <2>6, <2>10, <2>11, <2>13, <2>14 DEF GivenBack
  <2>. QED
    BY <2>15 DEF h
<1>. QED
  BY <1>2, <1>3

-----------------------------------------------------------------------------
(* The menus.                                                              *)

OnePerChat(p) == \A i, j \in DOMAIN p : p[i].chat = p[j].chat => i = j

\* Each menu of q is one of p.
From(q, p) ==
  /\ q \in Seq(Menus) /\ OnePerChat(q)
  /\ \A i \in 1..Len(q) : \E j \in 1..Len(p) : q[i] = p[j]

\* Each menu of p is what its chat was given, and stands since then.
Agrees(m, given) ==
  m.request = given[m.chat].menu /\ m.expires = given[m.chat].since + TTL

Agree(p, given) == \A i \in 1..Len(p) : Agrees(p[i], given)

LEMMA MenusAt ==
  ASSUME NEW p \in Seq(Menus)
  PROVE  /\ Len(p) \in Nat /\ DOMAIN p = 1..Len(p)
         /\ \A i \in 1..Len(p) : p[i] \in Menus
         /\ \A c : Pending(p, c) = {p[i] : i \in {j \in 1..Len(p) : p[j].chat = c}}
  BY DEF Pending, ToSet

LEMMA ChatsAt ==
  ASSUME NEW p \in Seq(Menus), NEW i \in 1..Len(p)
  PROVE  p[i] \in Menus /\ p[i].chat \in Friends
<1>1. p[i] \in Menus
  OBVIOUS
<1>. QED
  BY <1>1 DEF Menus

LEMMA PendingAt ==
  ASSUME NEW p \in Seq(Menus), NEW c
  PROVE  /\ \A i \in 1..Len(p) : p[i].chat = c => p[i] \in Pending(p, c)
         /\ \A m \in Pending(p, c) : \E i \in 1..Len(p) : m = p[i] /\ p[i].chat = c
  BY DEF Pending, ToSet

LEMMA RemoveMenu ==
  ASSUME NEW p \in Seq(Menus), OnePerChat(p), NEW n \in 1..Len(p), NEW q, q = RemoveAt(p, n)
  PROVE  From(q, p) /\ \A i \in 1..Len(q) : q[i].chat # p[n].chat
<1>. DEFINE at(i) == IF i < n THEN i ELSE i + 1
<1>1. Len(p) \in Nat /\ DOMAIN p = 1..Len(p)
  OBVIOUS
<1>2. /\ q \in Seq(Menus) /\ Len(q) = Len(p) - 1
      /\ \A i \in 1..Len(p) - 1 : q[i] = IF i < n THEN p[i] ELSE p[i + 1]
  BY RemoveAtFacts
<1>3. \A i \in 1..Len(q) : at(i) \in 1..Len(p) /\ at(i) # n /\ q[i] = p[at(i)]
  BY <1>1, <1>2
<1>4. \A i, j \in 1..Len(q) : at(i) = at(j) => i = j
  BY <1>1, <1>2
<1>5. DOMAIN q = 1..Len(q)
  BY <1>2
<1>. HIDE DEF at
<1>6. OnePerChat(q)
  BY <1>1, <1>3, <1>4, <1>5 DEF OnePerChat
<1>7. \A i \in 1..Len(q) : q[i].chat # p[n].chat
  BY <1>1, <1>3 DEF OnePerChat
<1>. QED
  BY <1>2, <1>3, <1>6, <1>7 DEF From

LEMMA WithoutFacts ==
  ASSUME NEW p \in Seq(Menus), OnePerChat(p), NEW c
  PROVE  From(Without(p, c), p) /\ \A i \in 1..Len(Without(p, c)) : Without(p, c)[i].chat # c
<1>1. CASE \E n \in 1..Len(p) : p[n].chat = c
  <2>1. PICK n : n = CHOOSE i \in DOMAIN p : p[i].chat = c
    OBVIOUS
  <2>2. n \in 1..Len(p) /\ p[n].chat = c
    BY <1>1, <2>1
  <2>3. Without(p, c) = RemoveAt(p, n)
    <3>1. Pending(p, c) # {}
      BY <2>2, PendingAt
    <3>. QED
      BY <2>1, <3>1 DEF Without
  <2>. QED
    BY <2>2, <2>3, RemoveMenu
<1>2. CASE ~\E n \in 1..Len(p) : p[n].chat = c
  <2>1. Pending(p, c) = {}
    BY <1>2, PendingAt
  <2>2. Without(p, c) = p
    BY <2>1 DEF Without
  <2>. QED
    BY <1>2, <2>2 DEF From
<1>. QED
  BY <1>1, <1>2

\* What the menus of other chats rest on stays when one chat is given another.
LEMMA AgreeElsewhere ==
  ASSUME NEW p \in Seq(Menus), NEW given \in [Friends -> [menu : Nat, since : Nat]],
         Agree(p, given), NEW q, From(q, p), NEW c, \A i \in 1..Len(q) : q[i].chat # c, NEW g
  PROVE  Agree(q, [given EXCEPT ![c] = g])
<1>1. SUFFICES ASSUME NEW i \in 1..Len(q)
               PROVE  Agrees(q[i], [given EXCEPT ![c] = g])
  BY DEF Agree
<1>2. PICK j \in 1..Len(p) : q[i] = p[j]
  BY DEF From
<1>3. q[i].chat \in Friends /\ q[i].chat # c /\ Agrees(q[i], given)
  BY <1>2, ChatsAt DEF Agree
<1>4. [given EXCEPT ![c] = g][q[i].chat] = given[q[i].chat]
  BY <1>3
<1>. QED
  BY <1>3, <1>4 DEF Agrees

LEMMA OpenFacts ==
  ASSUME NEW p \in Seq(Menus), OnePerChat(p), NEW c \in Friends, NEW r \in 1..MaxMenus,
         NEW single \in BOOLEAN, NEW t \in Nat,
         NEW given \in [Friends -> [menu : Nat, since : Nat]], Agree(p, given),
         NEW z, z = Open(p, c, r, single, t)
  PROVE  /\ z \in Seq(Menus) /\ OnePerChat(z)
         /\ Agree(z, [given EXCEPT ![c] = [menu |-> r, since |-> t]])
<1>. DEFINE rest == Without(p, c)
            new == [chat |-> c, request |-> r,
                    step |-> IF single THEN "model" ELSE "provider", expires |-> t + TTL]
            q == Append(rest, new)
            now_given == [given EXCEPT ![c] = [menu |-> r, since |-> t]]
<1>1. From(rest, p) /\ \A i \in 1..Len(rest) : rest[i].chat # c
  BY WithoutFacts
<1>2. new \in Menus /\ new.chat = c /\ new.request = r /\ new.expires = t + TTL
  BY Limits DEF Menus
<1>3. z = IF Len(q) > PickerLimit THEN Tail(q) ELSE q
  BY DEF Open
<1>4. now_given[c].menu = r /\ now_given[c].since = t
  OBVIOUS
<1>. HIDE DEF rest, new, q
<1>5. Agree(rest, now_given)
  BY <1>1, AgreeElsewhere
<1>. HIDE DEF now_given
<1>6. Agrees(new, now_given)
  BY <1>2, <1>4 DEF Agrees
<1>7. rest \in Seq(Menus) /\ OnePerChat(rest)
  BY <1>1 DEF From
<1>8. /\ q \in Seq(Menus) /\ Len(q) = Len(rest) + 1 /\ Len(rest) \in Nat /\ q[Len(rest) + 1] = new
      /\ \A i \in 1..Len(rest) : q[i] = rest[i]
  BY <1>2, <1>7, AppendAt DEF q
<1>9. \A i \in 1..Len(q) : i = Len(rest) + 1 \/ i \in 1..Len(rest)
  BY <1>8
<1>10. \A i, j \in 1..Len(q) : q[i].chat = q[j].chat => i = j
  <2>1. \A i, j \in 1..Len(rest) : rest[i].chat = rest[j].chat => i = j
    BY <1>7, <1>8 DEF OnePerChat
  <2>. QED
    BY <1>1, <1>2, <1>8, <1>9, <2>1
<1>11. \A i \in 1..Len(q) : Agrees(q[i], now_given)
  BY <1>5, <1>6, <1>8, <1>9 DEF Agree
<1>12. CASE Len(q) > PickerLimit
  <2>1. /\ Tail(q) \in Seq(Menus) /\ Len(Tail(q)) = Len(q) - 1 /\ Len(q) \in Nat
        /\ \A i \in 1..Len(q) - 1 : Tail(q)[i] = q[i + 1]
    <3>1. q # << >>
      BY <1>8
    <3>. QED
      BY <1>8, <3>1, TailAt
  <2>2. \A i \in 1..Len(Tail(q)) : i + 1 \in 1..Len(q) /\ Tail(q)[i] = q[i + 1]
    BY <2>1
  <2>3. OnePerChat(Tail(q))
    <3>0. DOMAIN Tail(q) = 1..Len(Tail(q))
      BY <2>1
    <3>1. SUFFICES ASSUME NEW i \in 1..Len(Tail(q)), NEW j \in 1..Len(Tail(q)),
                          Tail(q)[i].chat = Tail(q)[j].chat
                   PROVE  i = j
      BY <3>0 DEF OnePerChat
    <3>2. q[i + 1].chat = q[j + 1].chat /\ i + 1 \in 1..Len(q) /\ j + 1 \in 1..Len(q)
      BY <2>2, <3>1
    <3>3. i + 1 = j + 1
      BY <1>10, <3>2
    <3>. QED
      BY <2>1, <3>3
  <2>4. Agree(Tail(q), now_given)
    BY <1>11, <2>2 DEF Agree
  <2>. QED
    BY <1>3, <1>12, <2>1, <2>3, <2>4 DEF now_given
<1>13. CASE ~(Len(q) > PickerLimit)
  <2>1. OnePerChat(q)
    BY <1>8, <1>10 DEF OnePerChat
  <2>2. Agree(q, now_given)
    BY <1>11 DEF Agree
  <2>. QED
    BY <1>3, <1>8, <1>13, <2>1, <2>2 DEF now_given
<1>. QED
  BY <1>12, <1>13

\* An answer leaves the menus and what their chats were given in step; and what it
\* answers is a menu of its chat that has not expired.
LEMMA AnswerFacts ==
  ASSUME NEW p \in Seq(Menus), OnePerChat(p), NEW c \in Friends, NEW text \in Texts, now \in Nat,
         NEW given \in [Friends -> [menu : Nat, since : Nat]], Agree(p, given),
         NEW a, a = Answer(p, c, text, now)
  PROVE  /\ a.pickers \in Seq(Menus) /\ OnePerChat(a.pickers)
         /\ Agree(a.pickers, [given EXCEPT ![c] = Standing(given[c], text, a.reply)])
         /\ a.reply # "no" /\ a.reply # "raises" =>
              \E m \in Pending(p, c) : ~Expired(m, now)
<1>. DEFINE picker == CHOOSE m \in Pending(p, c) : TRUE
            provided == [picker EXCEPT !.step = "model", !.expires = now + TTL]
            q == [i \in DOMAIN p |-> IF p[i] = picker THEN provided ELSE p[i]]
            after == Standing(given[c], text, a.reply)
<1>1. From(p, p)
  BY DEF From
<1>2. From(Without(p, c), p) /\ \A i \in 1..Len(Without(p, c)) : Without(p, c)[i].chat # c
  BY WithoutFacts
<1>3. [given EXCEPT ![c] = given[c]] = given
  OBVIOUS
<1>4. ASSUME a.pickers = Without(p, c)
      PROVE  /\ a.pickers \in Seq(Menus) /\ OnePerChat(a.pickers)
             /\ Agree(a.pickers, [given EXCEPT ![c] = after])
  <2>1. Agree(Without(p, c), [given EXCEPT ![c] = after])
    <3>1. PICK g : g = after
      OBVIOUS
    <3>2. Agree(Without(p, c), [given EXCEPT ![c] = g])
      BY <1>2, AgreeElsewhere
    <3>. QED
      BY <3>1, <3>2
  <2>. QED
    BY <1>2, <1>4, <2>1 DEF From
<1>5. CASE Pending(p, c) = {}
  <2>1. \A i \in 1..Len(p) : p[i].chat # c
    BY <1>5, PendingAt
  <2>2. a.pickers = p /\ a.reply = "no"
    BY <1>5 DEF Answer
  <2>3. Agree(p, [given EXCEPT ![c] = after])
    <3>1. PICK g : g = after
      OBVIOUS
    <3>2. Agree(p, [given EXCEPT ![c] = g])
      BY <1>1, <2>1, AgreeElsewhere
    <3>. QED
      BY <3>1, <3>2
  <2>. QED
    BY <2>2, <2>3
<1>6. CASE Pending(p, c) # {} /\ Expired(picker, now)
  <2>1. a.pickers = Without(p, c) /\ a.reply = "no"
    BY <1>6 DEF Answer
  <2>. QED
    BY <1>4, <2>1
<1>7. CASE Pending(p, c) # {} /\ ~Expired(picker, now)
  <2>1. PICK n \in 1..Len(p) : picker = p[n] /\ p[n].chat = c
    BY <1>7, PendingAt
  <2>2. Len(p) \in Nat /\ DOMAIN p = 1..Len(p) /\ \A i \in 1..Len(p) : p[i] \in Menus
    BY MenusAt
  <2>3. picker \in Pending(p, c) /\ picker \in Menus /\ picker.step \in {"provider", "model"}
    BY <1>7, <2>1, <2>2 DEF Menus
  <2>4. text \in {"words", "choice", "tooLarge", "cancel", "superscript"}
    BY DEF Texts
  <2>5. \E m \in Pending(p, c) : ~Expired(m, now)
    BY <1>7, <2>3
  <2>. HIDE DEF picker
  <2>6. CASE text = "superscript" \/ text = "tooLarge"
    <3>1. a.pickers = p /\ a.reply \in {"raises", "retry"}
      BY <1>7, <2>6 DEF Answer, picker
    <3>2. after = given[c]
      BY <2>6, <3>1 DEF Standing
    <3>. QED
      BY <1>3, <2>5, <3>1, <3>2
  <2>7. CASE text = "words" \/ text = "cancel" \/ (text = "choice" /\ picker.step = "model")
    <3>1. a.pickers = Without(p, c)
      BY <1>7, <2>7 DEF Answer, picker
    <3>. QED
      BY <1>4, <2>5, <3>1
  <2>8. CASE text = "choice" /\ picker.step = "provider"
    <3>1. a.pickers = q /\ a.reply = "menu"
      BY <1>7, <2>8 DEF Answer, picker
    <3>2. provided \in Menus /\ provided.chat = c /\ provided.request = picker.request
          /\ provided.expires = now + TTL
      <4>1. picker \in Menus /\ now + TTL \in Nat /\ picker.chat = c
        BY <2>1, <2>3, Limits
      <4>. QED
        BY <4>1 DEF Menus
    <3>3. after = [given[c] EXCEPT !.since = now]
      BY <2>8, <3>1 DEF Standing
    <3>4. after.menu = given[c].menu /\ after.since = now
      <4>1. given[c] \in [menu : Nat, since : Nat]
        OBVIOUS
      <4>. QED
        BY <3>3, <4>1
    <3>. HIDE DEF provided, after
    <3>5. /\ q \in Seq(Menus) /\ Len(q) = Len(p) /\ DOMAIN q = 1..Len(q)
          /\ \A i \in 1..Len(p) : q[i].chat = p[i].chat /\ q[i].request = p[i].request
          /\ \A i \in 1..Len(p) : q[i] = IF p[i] = picker THEN provided ELSE p[i]
      BY <2>1, <2>2, <3>2
    <3>. HIDE DEF q
    <3>6. OnePerChat(q)
      BY <2>2, <3>5 DEF OnePerChat
    <3>7. ASSUME NEW i \in 1..Len(q)
          PROVE  Agrees(q[i], [given EXCEPT ![c] = after])
      <4>1. i \in 1..Len(p) /\ p[i] \in Menus /\ p[i].chat \in Friends /\ Agrees(p[i], given)
        BY <3>5, <3>7, ChatsAt DEF Agree
      <4>2. CASE p[i] = picker
        <5>1. q[i] = provided /\ picker.request = given[c].menu
          BY <2>1, <3>5, <4>1, <4>2 DEF Agrees
        <5>2. [given EXCEPT ![c] = after][c] = after
          OBVIOUS
        <5>. QED
          BY <3>2, <3>4, <5>1, <5>2 DEF Agrees
      <4>3. CASE p[i] # picker
        <5>1. i # n
          BY <2>1, <4>3
        <5>2. p[i].chat # c
          BY <2>1, <2>2, <4>1, <5>1 DEF OnePerChat
        <5>3. q[i] = p[i] /\ [given EXCEPT ![c] = after][p[i].chat] = given[p[i].chat]
          BY <3>5, <4>1, <4>3, <5>2
        <5>. QED
          BY <4>1, <5>3 DEF Agrees
      <4>. QED
        BY <4>2, <4>3
    <3>8. Agree(q, [given EXCEPT ![c] = after])
      BY <3>7 DEF Agree
    <3>. QED
      BY <2>5, <3>1, <3>5, <3>6, <3>8 DEF after
  <2>. QED
    BY <2>3, <2>4, <2>6, <2>7, <2>8
<1>. QED
  BY <1>5, <1>6, <1>7

-----------------------------------------------------------------------------
(* The tasks.                                                              *)

LEMMA LiveFinite ==
  /\ IsFiniteSet(Slots) /\ Cardinality(Slots) = MaxPackets
  /\ IsFiniteSet(Live) /\ Cardinality(Live) \in Nat /\ Live \subseteq Slots
<1>1. IsFiniteSet(Slots) /\ Cardinality(Slots) = MaxPackets
  <2>1. 1 \in Int /\ MaxPackets \in Int /\ MaxPackets \in Nat
    BY Limits
  <2>2. IsFiniteSet(1..MaxPackets)
        /\ Cardinality(1..MaxPackets) = IF 1 > MaxPackets THEN 0 ELSE MaxPackets - 1 + 1
    BY <2>1, FS_Interval
  <2>. QED
    BY <2>1, <2>2 DEF Slots
<1>2. Live \subseteq Slots
  BY DEF Live
<1>3. IsFiniteSet(Live)
  BY <1>1, <1>2, FS_Subset
<1>. QED
  BY <1>1, <1>2, <1>3, FS_CardinalityType

\* No step but a dispatch begins a task, and none changes whose a task is.
Calmer ==
  \A t \in Slots : task'[t] # None =>
    /\ task[t] # None
    /\ task'[t].kind = task[t].kind /\ task'[t].sender = task[t].sender
    /\ task'[t].notice = task[t].notice

\* A dispatch begins at most one task, in a free slot.
Begun(r) ==
  \E f \in Slots : task[f] = None /\ task' = [task EXCEPT ![f] = r]

LEMMA SameTasksCalm ==
  ASSUME task' = task
  PROVE  Calmer
  BY DEF Calmer

LEMMA GoesCalm ==
  ASSUME TypeOK, NEW t \in Live, NEW at \in {"new", "sending", "notifying"}, Goes(t, at),
         at = "notifying" => task[t].notice
  PROVE  Calmer /\ task' \in [Slots -> MessageTasks \cup {None}] /\ \A u \in Slots \ {t} : task'[u] = task[u]
<1>1. t \in Slots /\ task[t] # None /\ task[t] \in MessageTasks
  BY DEF TypeOK, Live
<1>2. task' = [task EXCEPT ![t] = [task[t] EXCEPT !.at = at]]
  BY DEF Goes
<1>3. /\ [task[t] EXCEPT !.at = at] \in MessageTasks
      /\ [task[t] EXCEPT !.at = at].kind = task[t].kind
      /\ [task[t] EXCEPT !.at = at].sender = task[t].sender
      /\ [task[t] EXCEPT !.at = at].notice = task[t].notice
  BY <1>1 DEF MessageTasks
<1>4. task \in [Slots -> MessageTasks \cup {None}]
  BY DEF TypeOK
<1>. QED
  BY <1>1, <1>2, <1>3, <1>4 DEF Calmer

LEMMA EndsCalm ==
  ASSUME TypeOK, NEW t \in Slots, Ends(t)
  PROVE  /\ Calmer /\ task' \in [Slots -> MessageTasks \cup {None}]
         /\ task'[t] = None /\ \A u \in Slots \ {t} : task'[u] = task[u]
  BY DEF Ends, TypeOK, Calmer

LEMMA CalmCounts ==
  ASSUME Calmer
  PROVE  Live' \subseteq Live /\ Cardinality(Live') <= Cardinality(Live)
         /\ Cardinality(Live') \in Nat
<1>1. Live' \subseteq Live
  BY DEF Calmer, Live
<1>2. IsFiniteSet(Live) /\ Cardinality(Live) \in Nat
  BY LiveFinite
<1>. QED
  BY <1>1, <1>2, FS_Subset, FS_CardinalityType

LEMMA BegunCounts ==
  ASSUME TypeOK, NEW r \in MessageTasks, Begun(r)
  PROVE  /\ task' \in [Slots -> MessageTasks \cup {None}]
         /\ Cardinality(Live') <= Cardinality(Live) + 1 /\ Cardinality(Live') \in Nat
         /\ Live \subseteq Live'
<1>1. PICK f \in Slots : task[f] = None /\ task' = [task EXCEPT ![f] = r]
  BY DEF Begun
<1>2. task \in [Slots -> MessageTasks \cup {None}]
  BY DEF TypeOK
<1>3. Live' \subseteq Live \cup {f} /\ Live \subseteq Live' /\ f \notin Live
  BY <1>1, <1>2 DEF Live
<1>4. IsFiniteSet(Live) /\ Cardinality(Live) \in Nat
  BY LiveFinite
<1>5. IsFiniteSet(Live \cup {f}) /\ Cardinality(Live \cup {f}) = Cardinality(Live) + 1
  BY <1>3, <1>4, FS_AddElement
<1>6. Cardinality(Live') <= Cardinality(Live \cup {f}) /\ IsFiniteSet(Live')
  BY <1>3, <1>5, FS_Subset
<1>. QED
  BY <1>1, <1>2, <1>3, <1>4, <1>5, <1>6, FS_CardinalityType

\* A dispatch finds a free slot.
LEMMA SpawnBegins ==
  ASSUME TypeOK, Counted, busy # None, NEW s, NEW kind, NEW notice, Spawn(s, kind, notice)
  PROVE  Begun([sender |-> s, kind |-> kind, at |-> "new", notice |-> notice])
<1>. DEFINE F == Slots \ Live
            free == CHOOSE t \in F : \A u \in F : t <= u
<1>1. F # {}
  <2>1. SUFFICES ASSUME F = {}
                 PROVE  FALSE
    OBVIOUS
  <2>2. Live = Slots
    BY <2>1, LiveFinite
  <2>3. Cardinality(Live) = MaxPackets
    BY <2>2, LiveFinite
  <2>4. Len(calls) \in Nat /\ Len(queue) \in Nat /\ heard <= MaxPackets /\ heard \in Nat
    BY Limits DEF TypeOK
  <2>. QED
    BY <2>3, <2>4, Limits DEF Counted
<1>2. F \subseteq Nat
  BY Limits DEF Slots
<1>3. \E t \in F : \A u \in F : t <= u
  BY <1>1, <1>2, Least
<1>4. free \in F
  <2>. HIDE DEF F
  <2>. QED
    BY <1>3
<1>5. free \in Slots /\ task[free] = None
  BY <1>4 DEF Live
<1>6. task' = [task EXCEPT ![free] = [sender |-> s, kind |-> kind, at |-> "new", notice |-> notice]]
  BY DEF Spawn
<1>. QED
  BY <1>5, <1>6 DEF Begun

-----------------------------------------------------------------------------
(* The dispatch of a stranger's text.                                      *)

\* What becomes of the gate and of the tasks: w are the sender's forwards that count.
Relayed(s, w, taken) ==
  /\ IsGate(gate') /\ Kept(gate'.lastReply, gate.lastReply) /\ gate.inflight \subseteq gate'.inflight
  /\ \A k \in Keys(gate'.forwards) \ {s} :
       k \in Keys(gate.forwards) /\ TimesOf(gate', k) = TimesOf(gate, k)
  /\ s \in Keys(gate'.forwards) => TimesOf(gate', s) = IF taken THEN Append(w, now) ELSE w
  /\ Len(gate.lastReply) <= SenderLimit => Len(gate'.lastReply) <= SenderLimit
  /\ PerHour > 0 /\ Len(gate.forwards) <= SenderLimit => Len(gate'.forwards) <= SenderLimit
  /\ relayed' = [q \in Strangers |->
                   IF q \notin Keys(gate'.forwards) THEN << >>
                   ELSE IF q = s /\ taken THEN Append(relayed[q], now) ELSE relayed[q]]
  /\ ~taken => task' = task /\ gate'.inflight = gate.inflight
  /\ taken => /\ Len(w) < PerHour /\ RelayRoom
              /\ \E notice \in BOOLEAN :
                   /\ Begun([sender |-> s, kind |-> "relay", at |-> "new", notice |-> notice])
                   /\ notice => NoticeDue(gate, s, now)
                   /\ gate'.inflight = gate.inflight \cup (IF notice THEN {s} ELSE {})

\* A relay that finds no room leaves the gate as if it had not been asked for.
Unasked(h, d, g, s, w) ==
  /\ IsGate(h) /\ h.lastReply = d.gate.lastReply /\ h.inflight = g.inflight
  /\ Keys(h.forwards) = Keys(d.gate.forwards) /\ Len(h.forwards) = Len(d.gate.forwards)
  /\ \A k \in Keys(h.forwards) \ {s} : TimesOf(h, k) = TimesOf(d.gate, k)
  /\ s \in Keys(h.forwards) => TimesOf(h, s) = w

LEMMA RefusedFacts ==
  ASSUME NEW g, IsGate(g), NEW s \in Strangers, now \in Times, NEW w \in Seq(Times), NEW d,
         Decided(d, g, s, now, w), d.forward
  PROVE  Unasked(Refused(d.gate, s, d.notice), d, g, s, w)
<1>. DEFINE given == ForwardCancelled(d.gate, s)
            h == Refused(d.gate, s, d.notice)
<1>0. d.notice => s \notin g.inflight
  <2>1. d.notice => NoticeDue(g, s, now)
    BY DEF Decided
  <2>. QED
    BY <2>1 DEF NoticeDue
<1>1. IsGate(d.gate) /\ d.notice \in BOOLEAN
      /\ (s \in Keys(d.gate.forwards) => TimesOf(d.gate, s) = Append(w, now))
      /\ d.gate.inflight = IF d.notice THEN g.inflight \cup {s} ELSE g.inflight
  BY DEF Decided
<1>2. GivenBack(given, d.gate, s)
  BY <1>1, CancelledFacts
<1>3. Append(w, now) # << >> /\ Front(Append(w, now)) = w
  <2>1. Append(w, now) \in Seq(Times) /\ Len(Append(w, now)) = Len(w) + 1 /\ Len(w) \in Nat
        /\ \A i \in 1..Len(w) : Append(w, now)[i] = w[i]
    BY AppendAt
  <2>2. PICK a : a = Append(w, now)
    OBVIOUS
  <2>3. a \in Seq(Times) /\ a # << >>
    BY <2>1, <2>2
  <2>4. Front(a) \in Seq(Times) /\ Len(Front(a)) = Len(w) /\ \A i \in 1..Len(w) : Front(a)[i] = w[i]
    <3>1. /\ Front(a) \in Seq(Times) /\ Len(Front(a)) = Len(a) - 1
          /\ \A i \in 1..Len(a) - 1 : Front(a)[i] = a[i]
      BY <2>3, FrontAt
    <3>2. Len(a) - 1 = Len(w) /\ \A i \in 1..Len(w) : a[i] = w[i]
      BY <2>1, <2>2
    <3>. QED
      BY <3>1, <3>2
  <2>5. Front(a) = w
    BY <2>4, SameSeq
  <2>. QED
    BY <2>2, <2>3, <2>5
<1>4. h = IF d.notice THEN ReplyDone(given, s, FALSE, now) ELSE given
  BY DEF Refused
<1>. HIDE DEF given, h
<1>5. IsGate(given)
  BY <1>2 DEF GivenBack
<1>6. /\ IsGate(h) /\ h.forwards = given.forwards /\ h.lastReply = given.lastReply
      /\ h.inflight = IF d.notice THEN given.inflight \ {s} ELSE given.inflight
  <2>1. CASE d.notice
    <3>1. Closed(ReplyDone(given, s, FALSE, now), given, s)
          /\ ReplyDone(given, s, FALSE, now).lastReply = given.lastReply
      BY <1>5, ReplyDoneFacts
    <3>. QED
      BY <1>4, <2>1, <3>1 DEF Closed
  <2>2. CASE ~d.notice
    BY <1>4, <1>5, <2>2
  <2>. QED
    BY <1>1, <2>1, <2>2
<1>7. h.inflight = g.inflight
  <2>1. given.inflight = d.gate.inflight /\ g.inflight \subseteq Strangers
    BY <1>2, GateType DEF GivenBack
  <2>2. CASE d.notice
    BY <1>0, <1>1, <1>6, <2>1, <2>2
  <2>3. CASE ~d.notice
    BY <1>1, <1>6, <2>1, <2>3
  <2>. QED
    BY <1>1, <2>2, <2>3
<1>8. \A k : TimesOf(h, k) = TimesOf(given, k)
  BY <1>6 DEF TimesOf
<1>9. Unasked(h, d, g, s, w)
  BY <1>1, <1>2, <1>3, <1>6, <1>7, <1>8 DEF GivenBack, Unasked
<1>. QED
  BY <1>9 DEF h

LEMMA RelayTextFacts ==
  ASSUME TypeOK, Counted, busy # None, busy.sender \in Strangers, RelayText(busy),
         NEW w, w = InWindow(TimesOf(gate, busy.sender), now)
  PROVE  \E taken \in BOOLEAN : Relayed(busy.sender, w, taken)
<1>. DEFINE s == busy.sender
<1>0. s \in Strangers
  OBVIOUS
<1>1. IsGate(gate) /\ now \in Times
  BY DEF TypeOK, Times
<1>2. PICK d : d = Decide(gate, s, now)
  OBVIOUS
<1>3. Decided(d, gate, s, now, w)
  BY <1>1, <1>2, DecideFacts
<1>4. w \in Seq(Times)
  <2>1. PICK n \in 0..Len(TimesOf(gate, s)) :
          w = SubSeq(TimesOf(gate, s), n + 1, Len(TimesOf(gate, s)))
    BY <1>1, InWindowFacts, TimesOfType, Limits
  <2>. QED
    BY <1>1, <2>1, TimesOfType, RestAt
<1>5. PICK taken \in BOOLEAN : taken = (d.forward /\ RelayRoom)
  BY <1>3 DEF Decided
<1>6. /\ IF taken
         THEN Spawn(s, "relay", d.notice) /\ gate' = d.gate
         ELSE gate' = (IF d.forward THEN Refused(d.gate, s, d.notice) ELSE d.gate) /\ task' = task
      /\ relayed' = [q \in Strangers |->
                       IF q \notin Keys(gate'.forwards) THEN << >>
                       ELSE IF q = s /\ taken THEN Append(relayed[q], now)
                       ELSE relayed[q]]
  BY <1>2, <1>5 DEF RelayText
<1>7. d.gate.inflight = (IF d.notice THEN gate.inflight \cup {s} ELSE gate.inflight)
      /\ d.notice \in BOOLEAN
  BY <1>3 DEF Decided
<1>. HIDE DEF s
<1>8. CASE taken
  <2>1. /\ gate' = d.gate /\ d.forward /\ RelayRoom /\ Spawn(s, "relay", d.notice)
    BY <1>5, <1>6, <1>8
  <2>2. Begun([sender |-> s, kind |-> "relay", at |-> "new", notice |-> d.notice])
    BY <2>1, SpawnBegins
  <2>3. /\ d.notice => NoticeDue(gate, s, now)
        /\ gate'.inflight = gate.inflight \cup (IF d.notice THEN {s} ELSE {})
    <3>1. d.notice => NoticeDue(gate, s, now)
      BY <1>3 DEF Decided
    <3>. QED
      BY <1>7, <2>1, <3>1
  <2>4. gate.inflight \subseteq gate'.inflight
    BY <1>7, <2>1
  <2>5. Relayed(s, w, TRUE)
    BY <1>3, <1>6, <1>7, <1>8, <2>1, <2>2, <2>3, <2>4 DEF Decided, Relayed
  <2>. QED
    BY <2>5 DEF s
<1>9. CASE ~taken /\ d.forward
  <2>1. gate' = Refused(d.gate, s, d.notice) /\ task' = task
    BY <1>6, <1>9
  <2>2. PICK h : h = Refused(d.gate, s, d.notice)
    OBVIOUS
  <2>3. Unasked(h, d, gate, s, w)
    BY <1>0, <1>1, <1>3, <1>4, <1>9, <2>2, RefusedFacts
  <2>4. gate' = h
    BY <2>1, <2>2
  <2>5. Relayed(s, w, FALSE)
    BY <1>3, <1>6, <1>9, <2>1, <2>3, <2>4 DEF Decided, Relayed, Unasked
  <2>. QED
    BY <2>5 DEF s
<1>10. CASE ~taken /\ ~d.forward
  <2>1. gate' = d.gate /\ task' = task
    BY <1>6, <1>10
  <2>2. gate'.inflight = gate.inflight
    BY <1>3, <1>7, <1>10, <2>1 DEF Decided
  <2>3. Relayed(s, w, FALSE)
    BY <1>3, <1>6, <1>10, <2>1, <2>2 DEF Decided, Relayed
  <2>. QED
    BY <2>3 DEF s
<1>. QED
  BY <1>3, <1>8, <1>9, <1>10 DEF Decided

-----------------------------------------------------------------------------
(* What keeps the parts of the invariant.                                  *)

USE DEF lifeVars, rxVars, runVars, gateVars, menuVars

LEMMA TypeFacts ==
  ASSUME TypeOK
  PROVE  /\ now \in Nat /\ now \in Times /\ heard \in Nat /\ opened \in Nat
         /\ Len(calls) \in Nat /\ Len(queue) \in Nat /\ IsGate(gate)
         /\ pickers \in Seq(Menus) /\ relayed \in [Strangers -> Seq(Times)]
         /\ task \in [Slots -> MessageTasks \cup {None}]
  BY Limits DEF TypeOK, Times

LEMMA LaterRecorded ==
  ASSUME TypeOK, Recorded, gate'.forwards = gate.forwards, relayed' = relayed,
         now' \in Nat, now <= now'
  PROVE  Recorded'
<1>1. SUFFICES ASSUME NEW s \in Strangers
               PROVE  /\ s \notin Keys(gate'.forwards) => relayed'[s] = << >>
                      /\ Len(Get(gate'.forwards, s, << >>)) <= PerHour
                      /\ Latest(Get(gate'.forwards, s, << >>), relayed'[s], now')
  BY DEF Recorded
<1>. DEFINE times == Get(gate.forwards, s, << >>)
<1>2. times \in Seq(Times) /\ relayed[s] \in Seq(Times) /\ now \in Nat
  BY TypeFacts, TimesOfType DEF TimesOf
<1>3. /\ s \notin Keys(gate.forwards) => relayed[s] = << >>
      /\ Len(times) <= PerHour
      /\ Latest(times, relayed[s], now)
  BY DEF Recorded
<1>. HIDE DEF times
<1>4. Latest(times, relayed[s], now')
  BY <1>2, <1>3, LatestLater
<1>. QED
  BY <1>3, <1>4 DEF times

LEMMA RelayRecorded ==
  ASSUME TypeOK, Recorded, now' = now, NEW s \in Strangers,
         NEW w, w = InWindow(TimesOf(gate, s), now), NEW taken \in BOOLEAN, Relayed(s, w, taken)
  PROVE  Recorded'
<1>1. SUFFICES ASSUME NEW q \in Strangers
               PROVE  /\ q \notin Keys(gate'.forwards) => relayed'[q] = << >>
                      /\ Len(TimesOf(gate', q)) <= PerHour
                      /\ Latest(TimesOf(gate', q), relayed'[q], now)
  BY DEF Recorded, TimesOf
<1>2. /\ TimesOf(gate, q) \in Seq(Times) /\ relayed[q] \in Seq(Times) /\ now \in Nat /\ now \in Times
      /\ PerHour \in Nat
  BY TypeFacts, TimesOfType, Limits
<1>3. /\ q \notin Keys(gate.forwards) => relayed[q] = << >>
      /\ Len(TimesOf(gate, q)) <= PerHour
      /\ Latest(TimesOf(gate, q), relayed[q], now)
  BY DEF Recorded, TimesOf
<1>4. CASE q \notin Keys(gate'.forwards)
  <2>1. relayed'[q] = << >> /\ IsGate(gate')
    BY <1>4 DEF Relayed
  <2>2. TimesOf(gate', q) = << >>
    BY <1>4, <2>1, TimesOfType
  <2>3. Len(<< >>) = 0
    OBVIOUS
  <2>. QED
    BY <1>2, <2>1, <2>2, <2>3, LatestEmpty
<1>5. CASE q \in Keys(gate'.forwards) /\ q # s
  <2>1. TimesOf(gate', q) = TimesOf(gate, q) /\ relayed'[q] = relayed[q]
    BY <1>5 DEF Relayed
  <2>. QED
    BY <1>3, <1>5, <2>1
<1>6. CASE q \in Keys(gate'.forwards) /\ q = s
  <2>1. /\ TimesOf(gate', q) = IF taken THEN Append(w, now) ELSE w
        /\ relayed'[q] = IF taken THEN Append(relayed[q], now) ELSE relayed[q]
        /\ taken => Len(w) < PerHour
    BY <1>6 DEF Relayed
  <2>2. /\ w \in Seq(Times) /\ Len(w) <= Len(TimesOf(gate, q))
        /\ Latest(w, relayed[q], now)
    BY <1>2, <1>3, <1>6, LatestWindow
  <2>3. Latest(Append(w, now), Append(relayed[q], now), now)
        /\ Len(Append(w, now)) = Len(w) + 1
    BY <1>2, <2>2, LatestAppend, AppendAt
  <2>4. Len(w) \in Nat /\ Len(TimesOf(gate, q)) \in Nat
    BY <1>2, <2>2
  <2>. QED
    BY <1>2, <1>3, <1>6, <2>1, <2>2, <2>3, <2>4
<1>. QED
  BY <1>4, <1>5, <1>6

LEMMA CalmBounded ==
  ASSUME TypeOK, TasksBounded, Calmer, \A t \in Live' : t \in doomed => t \in doomed',
         PerHour > 0 => Len(gate'.forwards) <= SenderLimit, Len(gate'.lastReply) <= SenderLimit
  PROVE  TasksBounded'
<1>. DEFINE agents == {t \in Tracked : task[t].kind # "pick"}
            left == {t \in Tracked' : task'[t].kind # "pick"}
<1>1. left \subseteq agents
  BY CalmCounts DEF Calmer, Tracked, Live
<1>2. IsFiniteSet(agents)
  BY LiveFinite, FS_Subset DEF Tracked
<1>3. IsFiniteSet(left) /\ Cardinality(left) <= Cardinality(agents)
  BY <1>1, <1>2, FS_Subset
<1>4. Cardinality(left) \in Nat /\ Cardinality(agents) \in Nat /\ Cardinality(agents) <= TaskLimit
      /\ TaskLimit \in Nat
  BY <1>2, <1>3, FS_CardinalityType, Limits DEF TasksBounded
<1>5. Cardinality(left) <= TaskLimit
  BY <1>3, <1>4
<1>. QED
  BY <1>5 DEF TasksBounded

\* A task of the agent, or a relay, begins only if there is room for it.
LEMMA BegunBounded ==
  ASSUME TypeOK, TasksBounded, NEW r \in MessageTasks, Begun(r), doomed' = doomed,
         r.kind # "pick" => Cardinality(Tracked) < TaskLimit,
         PerHour > 0 => Len(gate'.forwards) <= SenderLimit, Len(gate'.lastReply) <= SenderLimit
  PROVE  TasksBounded'
<1>. DEFINE agents == {t \in Tracked : task[t].kind # "pick"}
            more == {t \in Tracked' : task'[t].kind # "pick"}
<1>1. PICK f \in Slots : task[f] = None /\ task' = [task EXCEPT ![f] = r]
  BY DEF Begun
<1>2. task \in [Slots -> MessageTasks \cup {None}]
  BY DEF TypeOK
<1>3. more \subseteq agents \cup (IF r.kind = "pick" THEN {} ELSE {f})
  BY <1>1, <1>2 DEF Tracked, Live
<1>4. IsFiniteSet(agents) /\ IsFiniteSet(Tracked) /\ agents \subseteq Tracked
  BY LiveFinite, FS_Subset DEF Tracked
<1>5. Cardinality(agents) \in Nat /\ Cardinality(agents) <= Cardinality(Tracked)
      /\ Cardinality(agents) <= TaskLimit /\ TaskLimit \in Nat /\ Cardinality(Tracked) \in Nat
  BY <1>4, FS_Subset, FS_CardinalityType, Limits DEF TasksBounded
<1>6. Cardinality(more) <= TaskLimit
  <2>1. CASE r.kind = "pick"
    <3>1. more \subseteq agents
      BY <1>3, <2>1
    <3>2. IsFiniteSet(more) /\ Cardinality(more) <= Cardinality(agents)
      BY <1>4, <3>1, FS_Subset
    <3>. QED
      BY <1>5, <3>2, FS_CardinalityType
  <2>2. CASE r.kind # "pick"
    <3>1. more \subseteq agents \cup {f} /\ f \notin agents
      BY <1>1, <1>3, <2>2 DEF Tracked, Live
    <3>2. IsFiniteSet(agents \cup {f}) /\ Cardinality(agents \cup {f}) = Cardinality(agents) + 1
      BY <1>4, <3>1, FS_AddElement
    <3>3. IsFiniteSet(more) /\ Cardinality(more) <= Cardinality(agents) + 1
      BY <3>1, <3>2, FS_Subset
    <3>. QED
      BY <1>5, <2>2, <3>3, FS_CardinalityType
  <2>. QED
    BY <2>1, <2>2
<1>. QED
  BY <1>6 DEF TasksBounded

-----------------------------------------------------------------------------
(* The notices.                                                            *)

LEMMA LastReply ==
  ASSUME NEW g, IsGate(g), NEW s
  PROVE  s \in Keys(g.lastReply) => Get(g.lastReply, s, 0) \in Nat
  BY GateType, GetFacts, Limits

LEMMA NoticeKept ==
  ASSUME TypeOK, Marked, NoticeSpacing, Calmer, gate.inflight \subseteq gate'.inflight,
         Kept(gate'.lastReply, gate.lastReply), now' \in Nat, now <= now'
  PROVE  Marked' /\ NoticeSpacing'
<1>1. \A t \in Live' : t \in Live /\ task'[t].kind = task[t].kind
        /\ task'[t].sender = task[t].sender /\ task'[t].notice = task[t].notice
  BY DEF Calmer, Live
<1>2. Marked'
  BY <1>1 DEF Marked
<1>3. ASSUME NEW t \in Live', task'[t].notice,
             NEW s, s = task'[t].sender
      PROVE  /\ \A u \in Live' \ {t} : ~(task'[u].notice /\ task'[u].sender = s)
             /\ s \in Keys(gate'.lastReply) => now' - Get(gate'.lastReply, s, 0) >= Cooldown
  <2>1. /\ \A u \in Live \ {t} : ~(task[u].notice /\ task[u].sender = s)
        /\ s \in Keys(gate.lastReply) => now - Get(gate.lastReply, s, 0) >= Cooldown
    BY <1>1, <1>3 DEF NoticeSpacing
  <2>2. \A u \in Live' \ {t} : ~(task'[u].notice /\ task'[u].sender = s)
    BY <1>1, <2>1
  <2>3. s \in Keys(gate'.lastReply) => s \in Keys(gate.lastReply)
          /\ Get(gate'.lastReply, s, 0) = Get(gate.lastReply, s, 0)
    BY DEF Kept
  <2>4. now \in Nat /\ Cooldown \in Nat /\ (s \in Keys(gate.lastReply) => Get(gate.lastReply, s, 0) \in Nat)
    BY TypeFacts, LastReply, Limits
  <2>. QED
    BY <2>1, <2>2, <2>3, <2>4
<1>4. NoticeSpacing'
  BY <1>3 DEF NoticeSpacing
<1>. QED
  BY <1>2, <1>4

\* The task that owes a sender its notice ends: no other one does.
LEMMA NoticeClosed ==
  ASSUME TypeOK, Marked, NoticeSpacing, NEW t \in Live, task[t].notice, Ends(t),
         Closed(gate', gate, task[t].sender), now' = now
  PROVE  Marked' /\ NoticeSpacing'
<1>1. t \in Slots
  BY DEF Live
<1>2. \A u \in Live' : u \in Live /\ u # t /\ task'[u] = task[u]
  BY <1>1, EndsCalm DEF Live
<1>3. \A u \in Live' : task'[u].notice => task'[u].sender # task[t].sender
  BY <1>2 DEF NoticeSpacing
<1>4. Marked'
  BY <1>2, <1>3 DEF Marked, Closed
<1>5. ASSUME NEW u \in Live', task'[u].notice, NEW s, s = task'[u].sender
      PROVE  /\ \A v \in Live' \ {u} : ~(task'[v].notice /\ task'[v].sender = s)
             /\ s \in Keys(gate'.lastReply) => now' - Get(gate'.lastReply, s, 0) >= Cooldown
  <2>1. /\ \A v \in Live \ {u} : ~(task[v].notice /\ task[v].sender = s)
        /\ s \in Keys(gate.lastReply) => now - Get(gate.lastReply, s, 0) >= Cooldown
    BY <1>2, <1>5 DEF NoticeSpacing
  <2>2. \A v \in Live' \ {u} : ~(task'[v].notice /\ task'[v].sender = s)
    BY <1>2, <2>1
  <2>3. s \in Keys(gate'.lastReply) => s \in Keys(gate.lastReply)
          /\ Get(gate'.lastReply, s, 0) = Get(gate.lastReply, s, 0)
    BY <1>3, <1>5 DEF Closed
  <2>. QED
    BY <2>1, <2>2, <2>3
<1>6. NoticeSpacing'
  BY <1>5 DEF NoticeSpacing
<1>. QED
  BY <1>4, <1>6

LEMMA NoticeBegun ==
  ASSUME TypeOK, Marked, NoticeSpacing, NEW r \in MessageTasks, Begun(r), r.kind = "relay",
         r.notice => NoticeDue(gate, r.sender, now) /\ r.sender \in gate'.inflight,
         gate.inflight \subseteq gate'.inflight, Kept(gate'.lastReply, gate.lastReply), now' = now
  PROVE  Marked' /\ NoticeSpacing'
<1>1. PICK f \in Slots : task[f] = None /\ task' = [task EXCEPT ![f] = r]
  BY DEF Begun
<1>2. task \in [Slots -> MessageTasks \cup {None}]
  BY DEF TypeOK
<1>3. /\ task'[f] = r /\ f \notin Live
      /\ \A u \in Live' : u # f => u \in Live /\ task'[u] = task[u]
  BY <1>1, <1>2 DEF Live
<1>4. Marked'
  <2>1. SUFFICES ASSUME NEW u \in Live', task'[u].notice
                 PROVE  task'[u].kind = "relay" /\ task'[u].sender \in gate'.inflight
    BY DEF Marked
  <2>. QED
    BY <1>3, <2>1 DEF Marked
<1>5. \A u \in Live' : task'[u].notice /\ r.notice /\ u # f => task'[u].sender # r.sender
  <2>1. r.notice => r.sender \notin gate.inflight
    BY DEF NoticeDue
  <2>. QED
    BY <1>3, <2>1 DEF Marked
<1>6. ASSUME NEW u \in Live', task'[u].notice, NEW s, s = task'[u].sender
      PROVE  /\ \A v \in Live' \ {u} : ~(task'[v].notice /\ task'[v].sender = s)
             /\ s \in Keys(gate'.lastReply) => now' - Get(gate'.lastReply, s, 0) >= Cooldown
  <2>1. s \in Keys(gate'.lastReply) => s \in Keys(gate.lastReply)
          /\ \A x : Get(gate'.lastReply, s, x) = Get(gate.lastReply, s, x)
    BY DEF Kept
  <2>2. CASE u = f
    <3>1. r.notice /\ s = r.sender
      BY <1>3, <1>6, <2>2
    <3>2. s \in Keys(gate.lastReply) => now - Get(gate.lastReply, s, now) >= Cooldown
      BY <3>1 DEF NoticeDue
    <3>3. s \in Keys(gate.lastReply) => Get(gate.lastReply, s, now) = Get(gate.lastReply, s, 0)
      BY DEF Get
    <3>4. \A v \in Live' \ {u} : ~(task'[v].notice /\ task'[v].sender = s)
      BY <1>5, <2>2, <3>1
    <3>. QED
      BY <2>1, <3>2, <3>3, <3>4
  <2>3. CASE u # f
    <3>1. /\ \A v \in Live \ {u} : ~(task[v].notice /\ task[v].sender = s)
          /\ s \in Keys(gate.lastReply) => now - Get(gate.lastReply, s, 0) >= Cooldown
      BY <1>3, <1>6, <2>3 DEF NoticeSpacing
    <3>2. \A v \in Live' \ {u} : ~(task'[v].notice /\ task'[v].sender = s)
      BY <1>3, <1>5, <1>6, <2>3, <3>1
    <3>. QED
      BY <2>1, <3>1, <3>2
  <2>. QED
    BY <2>2, <2>3
<1>7. NoticeSpacing'
  BY <1>6 DEF NoticeSpacing
<1>. QED
  BY <1>4, <1>7

\* A task that begins without a notice changes nothing for those with one.
LEMMA QuietBegun ==
  ASSUME TypeOK, Marked, NoticeSpacing, NEW r \in MessageTasks, Begun(r), r.notice = FALSE,
         gate' = gate, now' = now
  PROVE  Marked' /\ NoticeSpacing'
<1>1. PICK f \in Slots : task[f] = None /\ task' = [task EXCEPT ![f] = r]
  BY DEF Begun
<1>2. task \in [Slots -> MessageTasks \cup {None}]
  BY DEF TypeOK
<1>3. \A u \in Live' : task'[u].notice => u \in Live /\ task'[u] = task[u]
  BY <1>1, <1>2 DEF Live
<1>. QED
  BY <1>3 DEF Marked, NoticeSpacing

\* The relays that owe a notice stay, and no other sender's notice is in flight.
LEMMA OwedKept ==
  ASSUME InflightHasRelay, gate'.inflight \subseteq gate.inflight,
         \A t \in Live : task[t].notice =>
           /\ t \in Live' /\ task'[t].kind = task[t].kind
           /\ task'[t].sender = task[t].sender /\ task'[t].notice = task[t].notice
  PROVE  InflightHasRelay'
<1>1. SUFFICES ASSUME NEW s \in gate'.inflight
               PROVE  \E t \in Live' : task'[t].kind = "relay" /\ task'[t].notice /\ task'[t].sender = s
  BY DEF InflightHasRelay
<1>2. PICK t \in Live : task[t].kind = "relay" /\ task[t].notice /\ task[t].sender = s
  BY DEF InflightHasRelay
<1>. QED
  BY <1>2

\* The task that owes a sender its notice ends with it.
LEMMA OwedClosed ==
  ASSUME TypeOK, InflightHasRelay, NEW t \in Live, Ends(t), gate'.inflight = gate.inflight \ {task[t].sender}
  PROVE  InflightHasRelay'
<1>1. SUFFICES ASSUME NEW s \in gate'.inflight
               PROVE  \E u \in Live' : task'[u].kind = "relay" /\ task'[u].notice /\ task'[u].sender = s
  BY DEF InflightHasRelay
<1>2. PICK u \in Live : task[u].kind = "relay" /\ task[u].notice /\ task[u].sender = s
  BY DEF InflightHasRelay
<1>3. u # t /\ u \in Slots /\ t \in Slots
  BY <1>2 DEF Live
<1>4. task'[u] = task[u] /\ u \in Live'
  BY <1>3, EndsCalm DEF Live
<1>. QED
  BY <1>2, <1>4

\* A task begins, with the notice that it owes if it owes one.
LEMMA OwedBegun ==
  ASSUME TypeOK, InflightHasRelay, NEW r \in MessageTasks, Begun(r), r # None, r.kind = "relay" \/ ~r.notice,
         gate'.inflight = gate.inflight \cup (IF r.notice THEN {r.sender} ELSE {})
  PROVE  InflightHasRelay'
<1>1. PICK f \in Slots : task[f] = None /\ task' = [task EXCEPT ![f] = r]
  BY DEF Begun
<1>2. task \in [Slots -> MessageTasks \cup {None}]
  BY DEF TypeOK
<1>3. f \in Live' /\ task'[f] = r /\ \A u \in Live : u \in Live' /\ task'[u] = task[u]
  BY <1>1, <1>2 DEF Live
<1>4. SUFFICES ASSUME NEW s \in gate'.inflight
               PROVE  \E u \in Live' : task'[u].kind = "relay" /\ task'[u].notice /\ task'[u].sender = s
  BY DEF InflightHasRelay
<1>5. CASE s \in gate.inflight
  <2>1. PICK u \in Live : task[u].kind = "relay" /\ task[u].notice /\ task[u].sender = s
    BY <1>5 DEF InflightHasRelay
  <2>. QED
    BY <1>3, <2>1
<1>6. CASE s \notin gate.inflight
  <2>1. r.notice /\ s = r.sender /\ r.kind = "relay"
    BY <1>4, <1>6
  <2>. QED
    BY <1>3, <2>1
<1>. QED
  BY <1>5, <1>6

-----------------------------------------------------------------------------
(* The menus that a step leaves.                                           *)

\* Menus that agree with what their chats were given are those the invariant asks for.
LEMMA MenusAgree ==
  ASSUME pickers \in Seq(Menus)
  PROVE  MenusKept <=> OnePerChat(pickers) /\ Agree(pickers, shown)
<1>1. DOMAIN pickers = 1..Len(pickers)
  OBVIOUS
<1>. QED
  BY <1>1 DEF MenusKept, OnePerChat, Agree, Agrees

LEMMA MenusAgreeNext ==
  ASSUME pickers' \in Seq(Menus), OnePerChat(pickers'), Agree(pickers', shown')
  PROVE  MenusKept'
<1>1. DOMAIN pickers' = 1..Len(pickers')
  OBVIOUS
<1>. QED
  BY <1>1 DEF MenusKept, OnePerChat, Agree, Agrees

LEMMA ShownType ==
  ASSUME TypeOK
  PROVE  /\ shown \in [Friends -> [menu : Nat, since : Nat]]
         /\ shown \in [Friends -> [menu : 0..opened, since : 0..MaxTime]]
         /\ NoMenu \in [menu : 0..opened, since : 0..MaxTime]
  BY Limits DEF TypeOK, NoMenu

-----------------------------------------------------------------------------
(* The parts that a step does not touch.                                   *)

TasksUnmoved == task' = task /\ doomed' = doomed /\ gate' = gate /\ relayed' = relayed /\ now' = now

LEMMA TasksRest ==
  ASSUME IInv, TasksUnmoved
  PROVE  TasksBounded' /\ Marked' /\ NoticeSpacing' /\ InflightHasRelay' /\ Recorded'
<1>1. TasksBounded'
  BY DEF IInv, TasksUnmoved, TasksBounded, Tracked, Live
<1>2. Marked' /\ NoticeSpacing' /\ InflightHasRelay'
  BY DEF IInv, TasksUnmoved, Marked, NoticeSpacing, InflightHasRelay, Live
<1>3. Recorded'
  BY DEF IInv, TasksUnmoved, Recorded
<1>. QED
  BY <1>1, <1>2, <1>3

MenusUnmoved == pickers' = pickers /\ opened' = opened /\ sending' = sending /\ shown' = shown

LEMMA MenusRest ==
  ASSUME IInv, MenusUnmoved
  PROVE  MenusKept'
  BY DEF IInv, MenusUnmoved, MenusKept

RxUnmoved ==
  lid' = lid /\ running' = running /\ teardown' = teardown /\ heard' = heard /\ calls' = calls
  /\ queue' = queue /\ busy' = busy

-----------------------------------------------------------------------------
(* The lifecycle.                                                          *)

LEMMA InitIInv ==
  ASSUME Init
  PROVE  IInv
<1>1. Live = {}
  BY DEF Init, Live
<1>2. Keys(<< >>) = {}
  BY DEF Keys
<1>3. IsGate(NewGate)
  <2>1. IsDict(<< >>, Seq(Times)) /\ IsDict(<< >>, Times)
    BY DEF IsDict
  <2>. QED
    BY <2>1, GateMade DEF NewGate
<1>4. gate.forwards = << >> /\ gate.lastReply = << >> /\ gate.inflight = {}
  BY DEF Init, NewGate
<1>5. TypeOK
  <2>1. /\ now \in 0..MaxTime /\ lid \in 0..MaxLifecycle /\ running = FALSE /\ teardown = "none"
        /\ heard \in 0..MaxPackets /\ busy = None /\ opened \in 0..MaxMenus
    BY Limits DEF Init
  <2>2. calls \in Seq(Packets) /\ queue \in Seq(Packets) /\ pickers \in Seq(Menus)
    BY DEF Init
  <2>3. task \in [Slots -> MessageTasks \cup {None}] /\ doomed \subseteq Live
    BY DEF Init
  <2>4. IsGate(gate) /\ relayed \in [Strangers -> Seq(0..MaxTime)]
    BY <1>3 DEF Init
  <2>5. sending = {} /\ shown \in [Friends -> [menu : 0..opened, since : 0..MaxTime]]
    BY Limits DEF Init, NoMenu
  <2>. QED
    BY <2>1, <2>2, <2>3, <2>4, <2>5 DEF TypeOK
<1>6. QueueIsLive /\ HeardInItsLife
  BY DEF Init, QueueIsLive, HeardInItsLife
<1>7. Counted
  BY <1>1, FS_EmptySet DEF Init, Counted
<1>8. TasksBounded
  <2>1. {t \in Tracked : task[t].kind # "pick"} = {}
    BY <1>1 DEF Tracked
  <2>2. Cardinality({t \in Tracked : task[t].kind # "pick"}) = 0
    BY <2>1, FS_EmptySet
  <2>3. Len(gate.forwards) = 0 /\ Len(gate.lastReply) = 0
    BY <1>4
  <2>4. TaskLimit \in Nat /\ SenderLimit \in Nat
    BY Limits
  <2>. QED
    BY <2>2, <2>3, <2>4 DEF TasksBounded
<1>9. Recorded
  <2>1. \A s \in Strangers : Get(gate.forwards, s, << >>) = << >> /\ relayed[s] = << >>
    BY <1>2, <1>4 DEF Get, Init
  <2>2. Len(<< >>) = 0 /\ PerHour \in Nat
    BY Limits
  <2>. QED
    BY <2>1, <2>2, LatestEmpty DEF Recorded
<1>10. Marked /\ NoticeSpacing /\ InflightHasRelay
  BY <1>1, <1>4 DEF Marked, NoticeSpacing, InflightHasRelay
<1>11. MenusKept
  BY DEF Init, MenusKept
<1>. QED
  BY <1>5, <1>6, <1>7, <1>8, <1>9, <1>10, <1>11 DEF IInv

LEMMA TickStep ==
  ASSUME IInv, Tick
  PROVE  IInv'
<1>1. TypeOK /\ now \in Nat /\ now' \in Nat /\ now <= now' /\ now' \in 0..MaxTime
  BY Limits DEF IInv, TypeOK, Tick
<1>2. RxUnmoved /\ MenusUnmoved /\ task' = task /\ doomed' = doomed /\ gate' = gate /\ relayed' = relayed
  BY DEF Tick, RxUnmoved, MenusUnmoved
<1>3. TypeOK'
  BY <1>1, <1>2 DEF TypeOK, RxUnmoved, MenusUnmoved, Live
<1>4. QueueIsLive' /\ HeardInItsLife' /\ Counted' /\ TasksBounded'
  BY <1>2 DEF IInv, QueueIsLive, HeardInItsLife, Counted, TasksBounded, Tracked, Live, RxUnmoved
<1>5. Recorded'
  BY <1>1, <1>2, LaterRecorded DEF IInv
<1>6. Marked' /\ NoticeSpacing' /\ InflightHasRelay'
  <2>1. Kept(gate'.lastReply, gate.lastReply) /\ gate.inflight \subseteq gate'.inflight
    BY <1>2 DEF Kept
  <2>2. Marked' /\ NoticeSpacing'
    BY <1>1, <1>2, <2>1, SameTasksCalm, NoticeKept DEF IInv
  <2>3. InflightHasRelay'
    BY <1>2 DEF IInv, InflightHasRelay, Live
  <2>. QED
    BY <2>2, <2>3
<1>. QED
  BY <1>2, <1>3, <1>4, <1>5, <1>6, MenusRest DEF IInv

LEMMA ConnectStep ==
  ASSUME IInv, Connect
  PROVE  IInv'
<1>1. /\ TasksUnmoved /\ MenusUnmoved /\ busy' = busy /\ busy = None /\ queue' = << >>
      /\ calls' = calls /\ heard' = heard /\ lid' = lid + 1 /\ lid < MaxLifecycle
      /\ running' = TRUE /\ teardown' = teardown /\ teardown = "none"
  BY DEF Connect, TasksUnmoved, MenusUnmoved
<1>2. TypeOK'
  BY <1>1, Limits DEF IInv, TypeOK, TasksUnmoved, MenusUnmoved, Live
<1>3. QueueIsLive' /\ HeardInItsLife'
  BY <1>1 DEF QueueIsLive, HeardInItsLife
<1>4. Counted'
  <2>1. Live' = Live /\ Cardinality(Live) \in Nat /\ Len(queue) \in Nat /\ Len(calls) \in Nat
    BY <1>1, LiveFinite, TypeFacts DEF IInv, TasksUnmoved, Live
  <2>. QED
    BY <1>1, <2>1, TypeFacts DEF IInv, Counted
<1>. QED
  BY <1>1, <1>2, <1>3, <1>4, TasksRest, MenusRest DEF IInv

LEMMA DisconnectStep ==
  ASSUME IInv, Disconnect
  PROVE  IInv'
<1>1. /\ TasksUnmoved /\ MenusUnmoved /\ busy' = busy /\ queue' = queue
      /\ calls' = calls /\ heard' = heard /\ lid' = lid
      /\ running' = FALSE /\ teardown' = "claim"
  BY DEF Disconnect, TasksUnmoved, MenusUnmoved
<1>2. TypeOK'
  BY <1>1 DEF IInv, TypeOK, TasksUnmoved, MenusUnmoved, Live
<1>3. QueueIsLive' /\ HeardInItsLife' /\ Counted'
  BY <1>1 DEF IInv, QueueIsLive, HeardInItsLife, Counted, Live, TasksUnmoved
<1>. QED
  BY <1>1, <1>2, <1>3, TasksRest, MenusRest DEF IInv

LEMMA ClaimStep ==
  ASSUME IInv, Claim
  PROVE  IInv'
<1>1. /\ TasksUnmoved /\ busy' = busy /\ busy = None /\ queue' = << >> /\ calls' = calls
      /\ heard' = heard /\ lid' = lid /\ running' = running /\ teardown' = "tasks"
      /\ teardown = "claim" /\ pickers' = << >> /\ shown' = [chat \in Friends |-> NoMenu]
      /\ opened' = opened /\ sending' = sending
  BY DEF Claim, TasksUnmoved
<1>2. TypeOK'
  <2>1. shown' \in [Friends -> [menu : 0..opened', since : 0..MaxTime]]
    BY <1>1, ShownType DEF IInv
  <2>. QED
    BY <1>1, <2>1 DEF IInv, TypeOK, TasksUnmoved, Live
<1>3. QueueIsLive' /\ HeardInItsLife'
  BY <1>1 DEF QueueIsLive, HeardInItsLife
<1>4. Counted'
  <2>1. Live' = Live /\ Cardinality(Live) \in Nat /\ Len(queue) \in Nat /\ Len(calls) \in Nat
    BY <1>1, LiveFinite, TypeFacts DEF IInv, TasksUnmoved, Live
  <2>. QED
    BY <1>1, <2>1, TypeFacts DEF IInv, Counted
<1>5. MenusKept'
  BY <1>1 DEF MenusKept
<1>. QED
  BY <1>1, <1>2, <1>3, <1>4, <1>5, TasksRest DEF IInv

LEMMA CancelTasksStep ==
  ASSUME IInv, CancelTasks
  PROVE  IInv'
<1>1. /\ MenusUnmoved /\ busy' = busy /\ queue' = queue /\ calls' = calls /\ heard' = heard
      /\ lid' = lid /\ running' = running /\ teardown' = "gather" /\ teardown = "tasks"
      /\ doomed' = Live /\ task' = task /\ gate' = gate /\ relayed' = relayed /\ now' = now
  BY DEF CancelTasks, MenusUnmoved
<1>2. TypeOK'
  BY <1>1 DEF IInv, TypeOK, MenusUnmoved, Live
<1>3. QueueIsLive' /\ HeardInItsLife' /\ Counted'
  BY <1>1 DEF IInv, QueueIsLive, HeardInItsLife, Counted, Live
<1>4. TasksBounded'
  <2>1. \A t \in Live' : t \in doomed'
    BY <1>1 DEF Live
  <2>2. TypeOK /\ TasksBounded /\ (PerHour > 0 => Len(gate'.forwards) <= SenderLimit)
        /\ Len(gate'.lastReply) <= SenderLimit
    BY <1>1 DEF IInv, TasksBounded
  <2>. QED
    BY <1>1, <2>1, <2>2, SameTasksCalm, CalmBounded
<1>5. Marked' /\ NoticeSpacing' /\ InflightHasRelay' /\ Recorded'
  BY <1>1 DEF IInv, Marked, NoticeSpacing, InflightHasRelay, Recorded, Live
<1>. QED
  BY <1>1, <1>2, <1>3, <1>4, <1>5, MenusRest DEF IInv

LEMMA SettleStep ==
  ASSUME IInv, Settle
  PROVE  IInv'
<1>1. /\ TasksUnmoved /\ MenusUnmoved /\ busy' = busy /\ queue' = queue
      /\ calls' = calls /\ heard' = heard /\ lid' = lid
      /\ running' = running /\ teardown' = "none"
  BY DEF Settle, TasksUnmoved, MenusUnmoved
<1>2. TypeOK'
  BY <1>1 DEF IInv, TypeOK, TasksUnmoved, MenusUnmoved, Live
<1>3. QueueIsLive' /\ HeardInItsLife' /\ Counted'
  BY <1>1 DEF IInv, QueueIsLive, HeardInItsLife, Counted, Live, TasksUnmoved
<1>. QED
  BY <1>1, <1>2, <1>3, TasksRest, MenusRest DEF IInv

-----------------------------------------------------------------------------
(* From the radio to the consumer.                                         *)

LEMMA HearStep ==
  ASSUME IInv, NEW sender \in Friends \cup Strangers, NEW text \in Texts, Hear(sender, text)
  PROVE  IInv'
<1>. DEFINE p == [sender |-> sender, text |-> text, life |-> lid]
<1>1. /\ TasksUnmoved /\ MenusUnmoved /\ busy' = busy /\ queue' = queue /\ running
      /\ calls' = Append(calls, p) /\ heard' = heard + 1 /\ heard < MaxPackets /\ lid' = lid
      /\ running' = running /\ teardown' = teardown
  BY DEF Hear, TasksUnmoved, MenusUnmoved
<1>2. TypeOK
  BY DEF IInv
<1>3. p \in Packets
  <2>1. lid \in 1..MaxLifecycle
    BY <1>1, <1>2, Limits DEF TypeOK
  <2>. QED
    BY <2>1 DEF Packets
<1>. HIDE DEF p
<1>4. calls' \in Seq(Packets) /\ Len(calls') = Len(calls) + 1
  <2>1. calls \in Seq(Packets)
    BY <1>2 DEF TypeOK
  <2>. QED
    BY <1>1, <1>3, <2>1, AppendAt
<1>5. TypeOK'
  BY <1>1, <1>2, <1>4, Limits DEF TypeOK, TasksUnmoved, MenusUnmoved, Live
<1>6. QueueIsLive' /\ HeardInItsLife'
  BY <1>1 DEF IInv, QueueIsLive, HeardInItsLife
<1>7. Counted'
  <2>1. Live' = Live /\ Cardinality(Live) \in Nat
    BY <1>1, LiveFinite DEF TasksUnmoved, Live
  <2>2. Len(queue) \in Nat /\ Len(calls) \in Nat /\ heard \in Nat
    BY <1>2, TypeFacts
  <2>. QED
    BY <1>1, <1>4, <2>1, <2>2 DEF IInv, Counted
<1>. QED
  BY <1>1, <1>5, <1>6, <1>7, TasksRest, MenusRest DEF IInv

LEMMA EnqueueStep ==
  ASSUME IInv, Enqueue
  PROVE  IInv'
<1>. DEFINE p == Head(calls)
            shed == IF Len(queue) >= QueueMax THEN Tail(queue) ELSE queue
<1>1. /\ TasksUnmoved /\ MenusUnmoved /\ busy' = busy /\ calls # << >>
      /\ queue' = (IF QueueOf(p) THEN Append(shed, p) ELSE queue) /\ calls' = Tail(calls)
      /\ heard' = heard /\ lid' = lid /\ running' = running /\ teardown' = teardown
  BY DEF Enqueue, TasksUnmoved, MenusUnmoved
<1>2. TypeOK /\ QueueIsLive
  BY DEF IInv
<1>3. /\ calls' \in Seq(Packets) /\ Len(calls') = Len(calls) - 1 /\ Len(calls) >= 1 /\ p \in Packets
      /\ Len(calls) \in Nat
  <2>1. calls \in Seq(Packets)
    BY <1>2 DEF TypeOK
  <2>. QED
    BY <1>1, <2>1, TailAt
<1>4. /\ shed \in Seq(Packets) /\ Len(shed) <= Len(queue) /\ Len(shed) \in Nat
      /\ \A i \in 1..Len(shed) : shed[i].life = lid
  <2>1. queue \in Seq(Packets) /\ \A i \in 1..Len(queue) : queue[i].life = lid
    BY <1>2 DEF TypeOK, QueueIsLive
  <2>2. CASE queue # << >>
    <3>1. /\ Tail(queue) \in Seq(Packets) /\ Len(queue) \in Nat /\ Len(Tail(queue)) = Len(queue) - 1
          /\ Len(queue) >= 1 /\ \A i \in 1..Len(queue) - 1 : Tail(queue)[i] = queue[i + 1]
      BY <2>1, <2>2, TailAt
    <3>2. \A i \in 1..Len(queue) - 1 : i + 1 \in 1..Len(queue)
      BY <3>1
    <3>. QED
      BY <2>1, <3>1, <3>2
  <2>3. CASE queue = << >>
    <3>1. Tail(queue) = << >>
      BY <2>3
    <3>. QED
      BY <2>1, <2>3, <3>1
  <2>. QED
    BY <2>2, <2>3
<1>. HIDE DEF p, shed
<1>5. /\ queue' \in Seq(Packets) /\ Len(queue') <= Len(queue) + 1 /\ Len(queue') \in Nat
      /\ \A i \in 1..Len(queue') : queue'[i].life = lid
  <2>1. CASE QueueOf(p)
    <3>1. queue' = Append(shed, p) /\ p.life = lid
      BY <1>1, <2>1 DEF QueueOf
    <3>2. /\ Append(shed, p) \in Seq(Packets) /\ Len(Append(shed, p)) = Len(shed) + 1
          /\ Append(shed, p)[Len(shed) + 1] = p
          /\ \A i \in 1..Len(shed) : Append(shed, p)[i] = shed[i]
      BY <1>3, <1>4, AppendAt
    <3>3. Len(queue) \in Nat
      BY <1>2, TypeFacts
    <3>4. \A i \in 1..Len(queue') : i \in 1..Len(shed) \/ i = Len(shed) + 1
      BY <1>4, <3>1, <3>2
    <3>. QED
      BY <1>4, <3>1, <3>2, <3>3, <3>4
  <2>2. CASE ~QueueOf(p)
    BY <1>1, <1>2, <2>2 DEF TypeOK, QueueIsLive
  <2>. QED
    BY <2>1, <2>2
<1>6. TypeOK'
  BY <1>1, <1>2, <1>3, <1>5 DEF TypeOK, TasksUnmoved, MenusUnmoved, Live
<1>7. QueueIsLive' /\ HeardInItsLife'
  BY <1>1, <1>5 DEF IInv, QueueIsLive, HeardInItsLife
<1>8. Counted'
  <2>1. Live' = Live /\ Cardinality(Live) \in Nat
    BY <1>1, LiveFinite DEF TasksUnmoved, Live
  <2>2. Len(queue) \in Nat /\ heard \in Nat
    BY <1>2, TypeFacts
  <2>. QED
    BY <1>1, <1>3, <1>5, <2>1, <2>2 DEF IInv, Counted
<1>. QED
  BY <1>1, <1>6, <1>7, <1>8, TasksRest, MenusRest DEF IInv

LEMMA TakeStep ==
  ASSUME IInv, Take
  PROVE  IInv'
<1>1. /\ TasksUnmoved /\ MenusUnmoved /\ busy = None /\ calls' = calls /\ queue # << >>
      /\ busy' = Head(queue) /\ queue' = Tail(queue)
      /\ heard' = heard /\ lid' = lid /\ running' = running /\ teardown' = teardown
  BY DEF Take, TasksUnmoved, MenusUnmoved
<1>2. TypeOK /\ QueueIsLive
  BY DEF IInv
<1>3. /\ queue' \in Seq(Packets) /\ Len(queue') = Len(queue) - 1 /\ Len(queue) >= 1
      /\ Len(queue) \in Nat /\ busy' \in Packets /\ busy' = queue[1]
      /\ \A i \in 1..Len(queue) - 1 : queue'[i] = queue[i + 1]
  <2>1. queue \in Seq(Packets)
    BY <1>2 DEF TypeOK
  <2>. QED
    BY <1>1, <2>1, TailAt
<1>4. \A i \in 1..Len(queue) : queue[i].life = lid
  BY <1>2 DEF TypeOK, QueueIsLive
<1>5. TypeOK'
  BY <1>1, <1>2, <1>3 DEF TypeOK, TasksUnmoved, MenusUnmoved, Live
<1>6. QueueIsLive' /\ HeardInItsLife'
  <2>1. \A i \in 1..Len(queue') : i + 1 \in 1..Len(queue) /\ queue'[i].life = lid
    BY <1>3, <1>4
  <2>2. DOMAIN queue' = 1..Len(queue')
    BY <1>3
  <2>3. 1 \in 1..Len(queue)
    BY <1>3
  <2>. QED
    BY <1>1, <1>3, <1>4, <2>1, <2>2, <2>3 DEF QueueIsLive, HeardInItsLife
<1>7. Counted'
  <2>1. Live' = Live /\ Cardinality(Live) \in Nat
    BY <1>1, LiveFinite DEF TasksUnmoved, Live
  <2>2. Len(calls) \in Nat /\ heard \in Nat
    BY <1>2, TypeFacts
  <2>. QED
    BY <1>1, <1>3, <2>1, <2>2 DEF IInv, Counted
<1>. QED
  BY <1>1, <1>5, <1>6, <1>7, TasksRest, MenusRest DEF IInv

-----------------------------------------------------------------------------
(* The dispatch.                                                           *)

\* The menus, and what their chats were given.
MenusGood ==
  /\ pickers \in Seq(Menus) /\ OnePerChat(pickers) /\ Agree(pickers, shown)
  /\ shown \in [Friends -> [menu : 0..opened, since : 0..MaxTime]]

LEMMA StandingType ==
  ASSUME TypeOK, NEW n \in Nat, NEW given \in [menu : 0..n, since : 0..MaxTime], NEW text, NEW reply
  PROVE  Standing(given, text, reply) \in [menu : 0..n, since : 0..MaxTime]
<1>1. NoMenu \in [menu : 0..n, since : 0..MaxTime] /\ now \in 0..MaxTime
  BY Limits DEF NoMenu, TypeOK
<1>2. [given EXCEPT !.since = now] \in [menu : 0..n, since : 0..MaxTime]
  BY <1>1
<1>. QED
  BY <1>1, <1>2 DEF Standing

\* A menu of the chat that has not expired is one that its number may answer.
LEMMA NotExpired ==
  ASSUME TypeOK, MenusKept, NEW chat \in Friends, NEW m \in Pending(pickers, chat), ~Expired(m, now)
  PROVE  Answerable(chat)
<1>1. /\ now \in Nat /\ TTL \in Nat /\ pickers \in Seq(Menus)
      /\ shown \in [Friends -> [menu : Nat, since : Nat]]
  BY TypeFacts, ShownType, Limits
<1>2. PICK i \in 1..Len(pickers) : m = pickers[i] /\ pickers[i].chat = chat
  BY <1>1, PendingAt
<1>3. Agree(pickers, shown)
  BY <1>1, MenusAgree
<1>4. m.request = shown[chat].menu /\ m.expires = shown[chat].since + TTL /\ shown[chat].since \in Nat
  BY <1>1, <1>2, <1>3 DEF Agree, Agrees
<1>5. ~(now >= m.expires)
  BY DEF Expired
<1>6. now - shown[chat].since < TTL
  BY <1>1, <1>4, <1>5
<1>. QED
  BY <1>4, <1>6 DEF Answerable

LEMMA AgentTextFacts ==
  ASSUME TypeOK, Counted, MenusKept, busy # None, busy.sender \in Friends, AgentText(busy), opened' = opened
  PROVE  /\ MenusGood' /\ gate' = gate /\ relayed' = relayed
         /\ \/ task' = task
            \/ \E kind \in {"agent", "pick"} :
                 /\ Begun([sender |-> busy.sender, kind |-> kind, at |-> "new", notice |-> FALSE])
                 /\ kind # "pick" => Cardinality(Tracked) < TaskLimit
                 /\ kind = "pick" => Answerable(busy.sender)
<1>. DEFINE c == busy.sender
<1>1. /\ busy.text \in Texts /\ now \in Nat /\ pickers \in Seq(Menus) /\ opened \in Nat /\ c \in Friends
      /\ shown \in [Friends -> [menu : Nat, since : Nat]]
      /\ shown \in [Friends -> [menu : 0..opened, since : 0..MaxTime]]
  BY TypeFacts, ShownType DEF TypeOK, Packets
<1>2. OnePerChat(pickers) /\ Agree(pickers, shown)
  BY <1>1, MenusAgree
<1>3. PICK a : a = Answer(pickers, c, busy.text, now)
  OBVIOUS
<1>4. /\ a.pickers \in Seq(Menus) /\ OnePerChat(a.pickers)
      /\ Agree(a.pickers, [shown EXCEPT ![c] = Standing(shown[c], busy.text, a.reply)])
      /\ a.reply # "no" /\ a.reply # "raises" => \E m \in Pending(pickers, c) : ~Expired(m, now)
  BY <1>1, <1>2, <1>3, AnswerFacts
<1>5. /\ pickers' = a.pickers /\ gate' = gate /\ relayed' = relayed
      /\ shown' = [shown EXCEPT ![c] = Standing(shown[c], busy.text, a.reply)]
  BY <1>3 DEF AgentText
<1>6. MenusGood'
  <2>1. shown' \in [Friends -> [menu : 0..opened, since : 0..MaxTime]]
    <3>1. Standing(shown[c], busy.text, a.reply) \in [menu : 0..opened, since : 0..MaxTime]
      BY <1>1, StandingType
    <3>. QED
      BY <1>1, <1>5, <3>1
  <2>2. pickers' \in Seq(Menus) /\ OnePerChat(pickers') /\ Agree(pickers', shown')
    BY <1>4, <1>5
  <2>. QED
    BY <2>1, <2>2 DEF MenusGood
<1>7. CASE a.reply = "raises"
  BY <1>3, <1>5, <1>6, <1>7 DEF AgentText
<1>8. CASE a.reply = "no"
  <2>1. \/ task' = task
        \/ Cardinality(Tracked) < TaskLimit /\ Spawn(c, "agent", FALSE)
    BY <1>3, <1>8 DEF AgentText
  <2>. QED
    BY <1>5, <1>6, <2>1, SpawnBegins
<1>9. CASE a.reply # "raises" /\ a.reply # "no"
  <2>1. Spawn(c, "pick", FALSE)
    BY <1>3, <1>9 DEF AgentText
  <2>2. Answerable(c)
    BY <1>1, <1>4, <1>9, NotExpired
  <2>. QED
    BY <1>5, <1>6, <2>1, <2>2, SpawnBegins
<1>. QED
  BY <1>7, <1>8, <1>9

LEMMA DispatchStep ==
  ASSUME IInv, Dispatch
  PROVE  IInv'
<1>1. /\ busy # None /\ busy' = None /\ now' = now /\ lid' = lid /\ running' = running
      /\ teardown' = teardown /\ heard' = heard /\ calls' = calls /\ queue' = queue
      /\ doomed' = doomed /\ opened' = opened /\ sending' = sending
      /\ IF busy.sender \in Strangers THEN RelayText(busy) ELSE AgentText(busy)
  BY DEF Dispatch
<1>2. /\ TypeOK /\ Counted /\ TasksBounded /\ Recorded /\ Marked /\ NoticeSpacing
      /\ InflightHasRelay /\ MenusKept
  BY DEF IInv
<1>3. /\ busy \in Packets /\ IsGate(gate) /\ now \in Nat /\ busy.sender \in Friends \cup Strangers
  BY <1>1, <1>2, TypeFacts DEF TypeOK, Packets
\* What each of the two makes of the tasks.
<1>4. /\ MenusGood'
      /\ \/ task' = task
         \/ \E r \in MessageTasks : Begun(r)
      /\ IsGate(gate') /\ relayed' \in [Strangers -> Seq(Times)]
      /\ TasksBounded' /\ Recorded' /\ Marked' /\ NoticeSpacing' /\ InflightHasRelay'
  <2>1. CASE busy.sender \in Strangers
    <3>1. RelayText(busy) /\ pickers' = pickers /\ shown' = shown
      BY <1>1, <2>1 DEF RelayText
    <3>2. PICK w : w = InWindow(TimesOf(gate, busy.sender), now)
      OBVIOUS
    <3>3. PICK taken \in BOOLEAN : Relayed(busy.sender, w, taken)
      BY <1>1, <1>2, <2>1, <3>1, <3>2, RelayTextFacts
    <3>4. Recorded'
      BY <1>1, <1>2, <2>1, <3>2, <3>3, RelayRecorded
    <3>5. /\ IsGate(gate') /\ Kept(gate'.lastReply, gate.lastReply)
          /\ gate.inflight \subseteq gate'.inflight
          /\ PerHour > 0 => Len(gate'.forwards) <= SenderLimit
          /\ Len(gate'.lastReply) <= SenderLimit
      BY <1>2, <3>3 DEF Relayed, TasksBounded
    <3>6. relayed' \in [Strangers -> Seq(Times)]
      <4>1. now \in Times /\ relayed \in [Strangers -> Seq(Times)]
        BY <1>2, TypeFacts
      <4>2. \A q \in Strangers : relayed[q] \in Seq(Times) /\ Append(relayed[q], now) \in Seq(Times)
        BY <4>1, AppendAt
      <4>. QED
        BY <3>3, <4>2 DEF Relayed
    <3>7. MenusGood'
      BY <1>1, <1>2, <3>1, TypeFacts, ShownType, MenusAgree DEF MenusGood
    <3>8. CASE taken
      <4>1. PICK notice \in BOOLEAN :
              /\ Begun([sender |-> busy.sender, kind |-> "relay", at |-> "new", notice |-> notice])
              /\ notice => NoticeDue(gate, busy.sender, now)
              /\ gate'.inflight = gate.inflight \cup (IF notice THEN {busy.sender} ELSE {})
        BY <3>3, <3>8 DEF Relayed
      <4>2. PICK r : r = [sender |-> busy.sender, kind |-> "relay", at |-> "new", notice |-> notice]
        OBVIOUS
      <4>3. r \in MessageTasks /\ r.kind = "relay" /\ r.sender = busy.sender /\ r.notice = notice
        BY <1>3, <4>2 DEF MessageTasks
      <4>4. Begun(r)
        BY <4>1, <4>2
      <4>5. TasksBounded'
        <5>1. Cardinality(Tracked) < TaskLimit
          BY <3>3, <3>8 DEF Relayed, RelayRoom
        <5>. QED
          BY <1>1, <1>2, <3>5, <4>3, <4>4, <5>1, BegunBounded
      <4>6. Marked' /\ NoticeSpacing'
        BY <1>1, <1>2, <3>5, <4>1, <4>3, <4>4, NoticeBegun
      <4>7. InflightHasRelay'
        <5>1. r # None
          BY <4>3, TaskAssumption
        <5>. QED
          BY <1>2, <4>1, <4>3, <4>4, <5>1, OwedBegun
      <4>. QED
        BY <3>4, <3>5, <3>6, <3>7, <4>3, <4>4, <4>5, <4>6, <4>7
    <3>9. CASE ~taken
      <4>1. task' = task
        BY <3>3, <3>9 DEF Relayed
      <4>2. Calmer /\ \A t \in Live' : t \in doomed => t \in doomed'
        BY <1>1, <4>1, SameTasksCalm
      <4>3. TasksBounded'
        BY <1>2, <3>5, <4>2, CalmBounded
      <4>4. Marked' /\ NoticeSpacing'
        BY <1>1, <1>2, <1>3, <3>5, <4>2, NoticeKept
      <4>5. InflightHasRelay'
        BY <1>2, <3>3, <3>9, <4>1, OwedKept DEF Relayed, Live
      <4>. QED
        BY <3>4, <3>5, <3>6, <3>7, <4>1, <4>3, <4>4, <4>5
    <3>. QED
      BY <3>8, <3>9
  <2>2. CASE busy.sender \notin Strangers
    <3>1. AgentText(busy) /\ busy.sender \in Friends
      BY <1>1, <1>3, <2>2
    <3>2. /\ MenusGood' /\ gate' = gate /\ relayed' = relayed
          /\ \/ task' = task
             \/ \E kind \in {"agent", "pick"} :
                  /\ Begun([sender |-> busy.sender, kind |-> kind, at |-> "new", notice |-> FALSE])
                  /\ kind # "pick" => Cardinality(Tracked) < TaskLimit
      BY <1>1, <1>2, <3>1, AgentTextFacts
    <3>3. /\ Recorded' /\ IsGate(gate') /\ relayed' \in [Strangers -> Seq(Times)]
          /\ PerHour > 0 => Len(gate'.forwards) <= SenderLimit
          /\ Len(gate'.lastReply) <= SenderLimit
      BY <1>1, <1>2, <1>3, <3>2, TypeFacts DEF Recorded, TasksBounded
    <3>4. CASE task' = task
      <4>1. TasksUnmoved
        BY <1>1, <3>2, <3>4 DEF TasksUnmoved
      <4>. QED
        BY <3>2, <3>3, <3>4, <4>1, TasksRest
    <3>5. CASE \E kind \in {"agent", "pick"} :
                 /\ Begun([sender |-> busy.sender, kind |-> kind, at |-> "new", notice |-> FALSE])
                 /\ kind # "pick" => Cardinality(Tracked) < TaskLimit
      <4>1. PICK kind \in {"agent", "pick"} :
                 /\ Begun([sender |-> busy.sender, kind |-> kind, at |-> "new", notice |-> FALSE])
                 /\ kind # "pick" => Cardinality(Tracked) < TaskLimit
        BY <3>5
      <4>2. PICK r : r = [sender |-> busy.sender, kind |-> kind, at |-> "new", notice |-> FALSE]
        OBVIOUS
      <4>3. r \in MessageTasks /\ r.kind = kind /\ r.notice = FALSE
        BY <1>3, <4>2 DEF MessageTasks
      <4>4. Begun(r)
        BY <4>1, <4>2
      <4>5. TasksBounded'
        BY <1>1, <1>2, <3>3, <4>1, <4>3, <4>4, BegunBounded
      <4>6. Marked' /\ NoticeSpacing'
        BY <1>1, <1>2, <3>2, <4>3, <4>4, QuietBegun
      <4>7. InflightHasRelay'
        <5>1. r # None /\ ~r.notice /\ gate'.inflight = gate.inflight \cup (IF r.notice THEN {r.sender} ELSE {})
          BY <3>2, <4>3, TaskAssumption
        <5>. QED
          BY <1>2, <4>3, <4>4, <5>1, OwedBegun
      <4>. QED
        BY <3>2, <3>3, <4>3, <4>4, <4>5, <4>6, <4>7
    <3>. QED
      BY <3>2, <3>4, <3>5
  <2>. QED
    BY <2>1, <2>2
<1>5. /\ task' \in [Slots -> MessageTasks \cup {None}] /\ Live \subseteq Live'
      /\ Cardinality(Live') <= Cardinality(Live) + 1 /\ Cardinality(Live') \in Nat
      /\ Cardinality(Live) \in Nat
  <2>1. CASE task' = task
    <3>1. Live' = Live
      BY <2>1 DEF Live
    <3>. QED
      BY <1>2, <2>1, <3>1, LiveFinite, TypeFacts
  <2>2. CASE \E r \in MessageTasks : Begun(r)
    BY <1>2, <2>2, BegunCounts, LiveFinite
  <2>. QED
    BY <1>4, <2>1, <2>2
<1>6. /\ MenusKept' /\ pickers' \in Seq(Menus)
      /\ shown' \in [Friends -> [menu : 0..opened', since : 0..MaxTime]]
  BY <1>1, <1>4, MenusAgreeNext DEF MenusGood
<1>7. TypeOK'
  BY <1>1, <1>2, <1>4, <1>5, <1>6 DEF TypeOK, Times
<1>8. QueueIsLive' /\ HeardInItsLife'
  BY <1>1 DEF IInv, QueueIsLive, HeardInItsLife
<1>9. Counted'
  <2>1. Len(queue) \in Nat /\ Len(calls) \in Nat /\ heard \in Nat
    BY <1>2, TypeFacts
  <2>. QED
    BY <1>1, <1>2, <1>5, <2>1 DEF Counted
<1>. QED
  BY <1>4, <1>6, <1>7, <1>8, <1>9 DEF IInv

-----------------------------------------------------------------------------
(* The message tasks.                                                      *)

LEMMA CalmStep ==
  ASSUME IInv, RxUnmoved, MenusUnmoved, now' = now, relayed' = relayed,
         Calmer, task' \in [Slots -> MessageTasks \cup {None}], doomed' \subseteq Live',
         \A t \in Live' : t \in doomed => t \in doomed',
         IsGate(gate'), gate'.forwards = gate.forwards, Len(gate'.lastReply) <= SenderLimit,
         Marked', NoticeSpacing', InflightHasRelay'
  PROVE  IInv'
<1>1. TypeOK'
  BY DEF IInv, TypeOK, RxUnmoved, MenusUnmoved
<1>2. QueueIsLive' /\ HeardInItsLife'
  BY DEF IInv, QueueIsLive, HeardInItsLife, RxUnmoved
<1>3. Counted'
  <2>1. /\ Cardinality(Live') <= Cardinality(Live) /\ Cardinality(Live') \in Nat
        /\ Cardinality(Live) \in Nat
    BY CalmCounts, LiveFinite
  <2>2. Len(queue) \in Nat /\ Len(calls) \in Nat /\ heard \in Nat
    BY TypeFacts DEF IInv
  <2>. QED
    BY <2>1, <2>2 DEF IInv, Counted, RxUnmoved
<1>4. TasksBounded'
  <2>1. PerHour > 0 => Len(gate'.forwards) <= SenderLimit
    BY DEF IInv, TasksBounded
  <2>. QED
    BY <2>1, CalmBounded DEF IInv
<1>5. Recorded'
  BY DEF IInv, Recorded
<1>. QED
  BY <1>1, <1>2, <1>3, <1>4, <1>5, MenusRest DEF IInv

\* What each step of a task leaves alone.
LEMMA TaskFrame ==
  ASSUME IInv, NEW t \in Slots, TaskStep(t)
  PROVE  /\ RxUnmoved /\ MenusUnmoved /\ now' = now /\ relayed' = relayed
         /\ TypeOK /\ Marked /\ NoticeSpacing /\ InflightHasRelay /\ IsGate(gate) /\ now \in Nat /\ now \in Times
         /\ Len(gate.lastReply) <= SenderLimit
         /\ Kept(gate.lastReply, gate.lastReply)
         /\ t \in Live
<1>1. RxUnmoved /\ MenusUnmoved /\ now' = now /\ relayed' = relayed
  BY DEF TaskStep, Start, Finish, Forwarded, Notified, Cancelled, RxUnmoved, MenusUnmoved
<1>2. TypeOK /\ Marked /\ NoticeSpacing /\ InflightHasRelay /\ Len(gate.lastReply) <= SenderLimit
  BY DEF IInv, TasksBounded
<1>3. t \in Live
  <2>1. t \in Tracked \/ t \in doomed
    BY DEF TaskStep, Start, Finish, Forwarded, Notified, Cancelled, Runs
  <2>. QED
    BY <1>2, <2>1 DEF TypeOK, Tracked
<1>. QED
  BY <1>1, <1>2, <1>3, TypeFacts DEF Kept

\* A task that is not doomed goes on, or ends without a notice that it owes.
LEMMA QuietStep ==
  ASSUME IInv, NEW t \in Slots, TaskStep(t), Calmer, gate' = gate,
         task' \in [Slots -> MessageTasks \cup {None}], doomed' \subseteq Live',
         \A u \in Live' : u \in doomed => u \in doomed',
         \A u \in Live : task[u].notice => u \in Live'
  PROVE  IInv'
<1>1. Marked' /\ NoticeSpacing'
  BY TaskFrame, NoticeKept
<1>2. InflightHasRelay'
  BY TaskFrame, OwedKept DEF Calmer, Live
<1>. QED
  BY <1>1, <1>2, TaskFrame, CalmStep

\* A task ends that closes the notice it owes.
LEMMA ClosingStep ==
  ASSUME IInv, NEW t \in Slots, TaskStep(t), task[t].notice, Ends(t),
         Closed(gate', gate, task[t].sender), doomed' = doomed \ {t}
  PROVE  IInv'
<1>1. Marked' /\ NoticeSpacing'
  BY TaskFrame, NoticeClosed
<1>2. /\ Calmer /\ task' \in [Slots -> MessageTasks \cup {None}]
      /\ task'[t] = None /\ \A u \in Slots \ {t} : task'[u] = task[u]
  BY TaskFrame, EndsCalm
<1>3. doomed' \subseteq Live' /\ \A u \in Live' : u \in doomed => u \in doomed'
  BY <1>2, TaskFrame DEF TypeOK, Live
<1>4. IsGate(gate') /\ gate'.forwards = gate.forwards /\ Len(gate'.lastReply) <= SenderLimit
  BY TaskFrame DEF Closed
<1>5. InflightHasRelay'
  BY TaskFrame, OwedClosed DEF Closed
<1>. QED
  BY <1>1, <1>2, <1>3, <1>4, <1>5, TaskFrame, CalmStep

LEMMA TaskStepIInv ==
  ASSUME IInv, NEW t \in Slots, TaskStep(t)
  PROVE  IInv'
<1>1. TypeOK /\ t \in Live /\ IsGate(gate) /\ now \in Times
  BY TaskFrame
<1>2. task[t] \in MessageTasks /\ doomed \subseteq Live /\ task[t].notice \in BOOLEAN
  BY <1>1 DEF TypeOK, Live, MessageTasks
<1>3. task[t].notice => task[t].sender \in Strangers
  BY <1>1, GateType DEF IInv, Marked
\* A task goes a step further.
<1>4. ASSUME NEW at \in {"sending", "notifying"}, at = "notifying" => task[t].notice,
             Goes(t, at), gate' = gate, doomed' = doomed, t \in Tracked
      PROVE  IInv'
  <2>1. /\ Calmer /\ task' \in [Slots -> MessageTasks \cup {None}]
        /\ \A u \in Slots \ {t} : task'[u] = task[u]
    BY <1>1, <1>4, GoesCalm
  <2>2. task'[t] # None
    <3>1. task'[t] = [task[t] EXCEPT !.at = at] /\ task'[t] \in MessageTasks
      BY <1>1, <1>2, <1>4 DEF Goes, TypeOK, Live, MessageTasks
    <3>. QED
      BY <3>1, TaskAssumption
  <2>3. doomed' \subseteq Live' /\ \A u \in Live : u \in Live'
    BY <1>2, <1>4, <2>1, <2>2 DEF Live, Tracked
  <2>. QED
    BY <1>4, <2>1, <2>3, QuietStep
\* A task ends that owes no notice.
<1>5. ASSUME Ends(t), ~task[t].notice, gate' = gate, doomed' = doomed \ {t}
      PROVE  IInv'
  <2>1. /\ Calmer /\ task' \in [Slots -> MessageTasks \cup {None}]
        /\ task'[t] = None /\ \A u \in Slots \ {t} : task'[u] = task[u]
    BY <1>1, <1>5, EndsCalm
  <2>2. /\ doomed' \subseteq Live' /\ \A u \in Live' : u \in doomed => u \in doomed'
        /\ \A u \in Live : task[u].notice => u \in Live'
    BY <1>2, <1>5, <2>1 DEF Live
  <2>. QED
    BY <1>5, <2>1, <2>2, QuietStep
\* A task ends that closes its notice.
<1>6. ASSUME task[t].notice, Ends(t), doomed' = doomed \ {t}, NEW delivered \in BOOLEAN,
             gate' = ReplyDone(gate, task[t].sender, delivered, now)
      PROVE  IInv'
  <2>1. Closed(gate', gate, task[t].sender)
    BY <1>1, <1>3, <1>6, ReplyDoneFacts
  <2>. QED
    BY <1>6, <2>1, ClosingStep
<1>7. t \in Tracked => doomed = doomed \ {t}
  BY DEF Tracked
<1>8. CASE Start(t)
  BY <1>4, <1>8 DEF Start, Runs
<1>9. CASE Finish(t)
  BY <1>5, <1>7, <1>9 DEF Finish, Runs
<1>10. CASE Forwarded(t)
  BY <1>4, <1>6, <1>7, <1>10 DEF Forwarded, Runs
<1>11. CASE Notified(t)
  <2>1. task[t].notice
    BY <1>2, <1>11 DEF Notified, MessageTasks
  <2>. QED
    BY <1>6, <1>7, <1>11, <2>1 DEF Notified, Runs
<1>12. CASE Cancelled(t)
  BY <1>5, <1>6, <1>12 DEF Cancelled
<1>. QED
  BY <1>8, <1>9, <1>10, <1>11, <1>12 DEF TaskStep

-----------------------------------------------------------------------------
(* The gateway's menus.                                                    *)

\* What a step that only touches the menus keeps.
LEMMA MenuStepIInv ==
  ASSUME IInv, TasksUnmoved, RxUnmoved, pickers' \in Seq(Menus), OnePerChat(pickers'),
         Agree(pickers', shown'), opened' \in 0..MaxMenus,
         shown' \in [Friends -> [menu : 0..opened', since : 0..MaxTime]],
         sending' \subseteq [menu : 1..opened', chat : Friends]
  PROVE  IInv'
<1>1. TypeOK'
  BY DEF IInv, TypeOK, TasksUnmoved, RxUnmoved, Live
<1>2. QueueIsLive' /\ HeardInItsLife' /\ Counted'
  BY DEF IInv, QueueIsLive, HeardInItsLife, Counted, Live, TasksUnmoved, RxUnmoved
<1>. QED
  BY <1>1, <1>2, TasksRest, MenusAgreeNext DEF IInv

LEMMA MenuFacts ==
  ASSUME IInv
  PROVE  /\ TypeOK /\ MenusKept /\ pickers \in Seq(Menus) /\ OnePerChat(pickers)
         /\ Agree(pickers, shown) /\ From(pickers, pickers)
         /\ opened \in 0..MaxMenus /\ opened \in Nat /\ now \in Times /\ now \in Nat
         /\ shown \in [Friends -> [menu : Nat, since : Nat]]
         /\ shown \in [Friends -> [menu : 0..opened, since : 0..MaxTime]]
         /\ NoMenu \in [menu : 0..opened, since : 0..MaxTime]
         /\ sending \subseteq [menu : 1..opened, chat : Friends]
<1>1. TypeOK /\ MenusKept
  BY DEF IInv
<1>2. pickers \in Seq(Menus) /\ OnePerChat(pickers) /\ Agree(pickers, shown)
  BY <1>1, TypeFacts, MenusAgree
<1>. QED
  BY <1>1, <1>2, TypeFacts, ShownType DEF TypeOK, From

LEMMA OpenMenuStep ==
  ASSUME IInv, NEW chat \in Friends, OpenMenu(chat)
  PROVE  IInv'
<1>1. /\ TasksUnmoved /\ RxUnmoved /\ opened < MaxMenus /\ opened' = opened + 1
      /\ sending' = sending \cup {[menu |-> opened', chat |-> chat]}
      /\ shown' = [shown EXCEPT ![chat] = [menu |-> opened', since |-> now]]
  BY DEF OpenMenu, TasksUnmoved, RxUnmoved
<1>2. PICK single \in BOOLEAN : pickers' = Open(pickers, chat, opened', single, now)
  BY DEF OpenMenu
<1>3. opened' \in 1..MaxMenus /\ opened' \in 0..MaxMenus /\ opened \in Nat
  BY <1>1, MenuFacts, Limits
<1>4. PICK r \in 1..MaxMenus : r = opened'
  BY <1>3
<1>5. /\ pickers' \in Seq(Menus) /\ OnePerChat(pickers')
      /\ Agree(pickers', [shown EXCEPT ![chat] = [menu |-> r, since |-> now]])
  BY <1>2, <1>4, MenuFacts, OpenFacts
<1>6. Agree(pickers', shown')
  BY <1>1, <1>4, <1>5
<1>7. shown' \in [Friends -> [menu : 0..opened', since : 0..MaxTime]]
  BY <1>1, <1>3, MenuFacts DEF Times
<1>8. sending' \subseteq [menu : 1..opened', chat : Friends]
  <2>1. \A m \in sending : m \in [menu : 1..opened', chat : Friends]
    BY <1>1, <1>3, MenuFacts
  <2>2. [menu |-> opened', chat |-> chat] \in [menu : 1..opened', chat : Friends]
    BY <1>3
  <2>. QED
    BY <1>1, <2>1, <2>2
<1>. QED
  BY <1>1, <1>3, <1>5, <1>6, <1>7, <1>8, MenuStepIInv

\* The menu of a chat goes, and none comes.
LEMMA ClosedStep ==
  ASSUME IInv, TasksUnmoved, RxUnmoved, NEW chat, pickers' = Without(pickers, chat), opened' = opened,
         sending' \subseteq sending, NEW g \in [menu : 0..opened, since : 0..MaxTime],
         shown' = [shown EXCEPT ![chat] = g]
  PROVE  IInv'
<1>1. From(pickers', pickers) /\ \A i \in 1..Len(pickers') : pickers'[i].chat # chat
  BY MenuFacts, WithoutFacts
<1>2. Agree(pickers', [shown EXCEPT ![chat] = g])
  BY <1>1, MenuFacts, AgreeElsewhere
<1>3. shown' \in [Friends -> [menu : 0..opened', since : 0..MaxTime]]
  BY MenuFacts
<1>4. sending' \subseteq [menu : 1..opened', chat : Friends] /\ opened' \in 0..MaxMenus
  BY MenuFacts
<1>5. pickers' \in Seq(Menus) /\ OnePerChat(pickers') /\ Agree(pickers', shown')
  BY <1>1, <1>2 DEF From
<1>. QED
  BY <1>3, <1>4, <1>5, MenuStepIInv

LEMMA OpenNoneStep ==
  ASSUME IInv, NEW chat \in Friends, OpenNone(chat)
  PROVE  IInv'
<1>1. /\ TasksUnmoved /\ RxUnmoved /\ pickers' = Without(pickers, chat) /\ opened' = opened
      /\ shown' = [shown EXCEPT ![chat] = NoMenu] /\ sending' = sending
  BY DEF OpenNone, TasksUnmoved, RxUnmoved
<1>. QED
  BY <1>1, MenuFacts, ClosedStep

LEMMA MenuStaysStep ==
  ASSUME IInv, NEW m \in sending, MenuStays(m)
  PROVE  IInv'
<1>1. /\ TasksUnmoved /\ RxUnmoved /\ pickers' = pickers /\ opened' = opened
      /\ shown' = shown /\ sending' \subseteq sending
  BY DEF MenuStays, TasksUnmoved, RxUnmoved
<1>2. sending' \subseteq [menu : 1..opened', chat : Friends]
  BY <1>1, MenuFacts
<1>. QED
  BY <1>1, <1>2, MenuFacts, MenuStepIInv

\* Whichever menu its chat has goes, and the one whose text failed with it.
LEMMA MenuFailsStep ==
  ASSUME IInv, NEW m \in sending, MenuFails(m)
  PROVE  IInv'
<1>. DEFINE given == IF shown[m.chat].menu = m.menu THEN NoMenu ELSE shown[m.chat]
<1>1. m.chat \in Friends
  BY MenuFacts
<1>2. /\ TasksUnmoved /\ RxUnmoved /\ pickers' = Without(pickers, m.chat) /\ opened' = opened
      /\ sending' \subseteq sending /\ shown' = [shown EXCEPT ![m.chat] = given]
  BY DEF MenuFails, AfterFailure, TasksUnmoved, RxUnmoved
<1>3. given \in [menu : 0..opened, since : 0..MaxTime]
  BY <1>1, MenuFacts
<1>. HIDE DEF given
<1>. QED
  BY <1>2, <1>3, ClosedStep

-----------------------------------------------------------------------------
(* The theorems.                                                           *)

LEMMA NextIInv ==
  ASSUME IInv, [Next]_vars
  PROVE  IInv'
<1>1. ASSUME NEW s \in Friends, NEW text \in Texts, Hear(s, text)
      PROVE  IInv'
  BY <1>1, HearStep
<1>2. ASSUME NEW s \in Strangers, Hear(s, "words")
      PROVE  IInv'
  BY <1>2, HearStep DEF Texts
<1>3. ASSUME NEW t \in Slots, TaskStep(t)
      PROVE  IInv'
  BY <1>3, TaskStepIInv
<1>4. ASSUME NEW chat \in Friends, OpenMenu(chat) \/ OpenNone(chat)
      PROVE  IInv'
  BY <1>4, OpenMenuStep, OpenNoneStep
<1>5. ASSUME NEW m \in sending, MenuStays(m) \/ MenuFails(m)
      PROVE  IInv'
  BY <1>5, MenuStaysStep, MenuFailsStep
<1>6. ASSUME UNCHANGED vars
      PROVE  IInv'
  <2>1. TasksUnmoved /\ MenusUnmoved /\ RxUnmoved
    BY <1>6 DEF vars, TasksUnmoved, MenusUnmoved, RxUnmoved
  <2>2. TypeOK' /\ QueueIsLive' /\ HeardInItsLife' /\ Counted'
    BY <2>1 DEF IInv, TypeOK, QueueIsLive, HeardInItsLife, Counted, Live, TasksUnmoved,
                MenusUnmoved, RxUnmoved
  <2>. QED
    BY <2>1, <2>2, TasksRest, MenusRest DEF IInv
<1>. QED
  BY <1>1, <1>2, <1>3, <1>4, <1>5, <1>6, TickStep, ConnectStep, DisconnectStep, ClaimStep,
     CancelTasksStep, SettleStep, EnqueueStep, TakeStep, DispatchStep DEF Next

\* The inductive invariant of the receive side: what the queue, the gate, the tasks
\* and the menus hold, and what each rests on.
THEOREM Invariance == Spec => []IInv
<1>1. Init => IInv
  BY InitIInv
<1>2. IInv /\ [Next]_vars => IInv'
  BY NextIInv
<1>. QED
  BY <1>1, <1>2, PTL DEF Spec

\* A packet is dispatched in the lifecycle that heard it, however long it waited on
\* its way to the platform loop (_queue_packet, _consume_packets).
THEOREM OwnLife == Spec => []HeardInItsLife
<1>1. IInv => HeardInItsLife
  BY DEF IInv
<1>. QED
  BY <1>1, Invariance, PTL

\* In any hour a stranger whom the gate tracks is relayed at most PerHour times,
\* with refused and cancelled relays in between (ForwardGate.decide).
THEOREM CapHolds == Spec => []HourlyCap
<1>1. IInv => HourlyCap
  <2>1. SUFFICES ASSUME IInv, NEW s \in Strangers
                 PROVE  Cardinality({i \in DOMAIN relayed[s] : now - relayed[s][i] < Hour}) <= PerHour
    BY DEF HourlyCap
  <2>. DEFINE times == TimesOf(gate, s)
              young == {i \in DOMAIN relayed[s] : now - relayed[s][i] < Hour}
  <2>2. /\ times \in Seq(Times) /\ relayed[s] \in Seq(Times) /\ now \in Nat /\ Len(times) \in Nat
        /\ Len(times) <= PerHour /\ Latest(times, relayed[s], now) /\ PerHour \in Nat
    BY <2>1, TypeFacts, TimesOfType, TimesAt, Limits DEF IInv, Recorded, TimesOf
  <2>. HIDE DEF times
  <2>3. Cardinality(young) <= Len(times)
    BY <2>2, LatestCount
  <2>4. IsFiniteSet(young)
    <3>1. DOMAIN relayed[s] = 1..Len(relayed[s]) /\ Len(relayed[s]) \in Nat
      BY <2>2
    <3>2. IsFiniteSet(1..Len(relayed[s]))
      <4>1. 1 \in Int /\ Len(relayed[s]) \in Int
        BY <3>1
      <4>. QED
        BY <4>1, FS_Interval
    <3>. QED
      BY <3>1, <3>2, FS_Subset
  <2>5. Cardinality(young) \in Nat
    BY <2>4, FS_CardinalityType
  <2>. QED
    BY <2>2, <2>3, <2>5
<1>. QED
  BY <1>1, Invariance, PTL

\* A stranger has one notice on its way at a time, and none within the cooldown of
\* one that it confirmed (ForwardGate.decide and reply_done).
THEOREM NoticesSpaced == Spec => []NoticeSpacing
<1>1. IInv => NoticeSpacing
  BY DEF IInv
<1>. QED
  BY <1>1, Invariance, PTL

\* The tasks of a flood stay within the limit, and so do the tables of the gate, the
\* table of forwards when at least one message an hour is allowed.
THEOREM FloodBounded == Spec => []TasksBounded
<1>1. IInv => TasksBounded
  BY DEF IInv
<1>. QED
  BY <1>1, Invariance, PTL

\* Whatever was refused, failed or cancelled, a notice that the gate holds to be in
\* flight has a relay that will settle it (_forward_unauthorized_dm, _relay_unauthorized_dm).
THEOREM NoticesOwed == Spec => []InflightHasRelay
<1>1. IInv => InflightHasRelay
  BY DEF IInv
<1>. QED
  BY <1>1, Invariance, PTL

\* No step but a dispatch begins a task.
LEMMA OnlyDispatchBegins ==
  ASSUME IInv, [Next]_vars, ~Dispatch, NEW t \in Slots, task[t] = None
  PROVE  task'[t] = None
<1>1. ASSUME NEW u \in Slots, TaskStep(u)
      PROVE  task'[t] = None
  <2>1. u \in Live /\ task \in [Slots -> MessageTasks \cup {None}]
    BY <1>1, TaskFrame, TypeFacts
  <2>2. u # t
    BY <2>1 DEF Live
  <2>. QED
    BY <1>1, <2>1, <2>2 DEF TaskStep, Start, Finish, Forwarded, Notified, Cancelled, Goes, Ends
<1>2. ASSUME task' = task
      PROVE  task'[t] = None
  BY <1>2
<1>. QED
  BY <1>1, <1>2 DEF Next, vars, Tick, Connect, Disconnect, Claim, CancelTasks, Settle, Hear, Enqueue,
     Take, OpenMenu, OpenNone, MenuStays, MenuFails

\* A number is an answer only to the menu that its chat was given last, and in time
\* (ModelPicker.answer, send_model_picker, _disconnect_impl).
THEOREM MenusAnswered == Spec => NumbersAnswerMenus
<1>1. ASSUME IInv, [Next]_vars, NEW t \in Slots, task[t] = None, task'[t] # None, task'[t].kind = "pick"
      PROVE  Answerable(task'[t].sender)
  <2>1. Dispatch
    BY <1>1, OnlyDispatchBegins
  <2>2. TypeOK /\ Counted /\ MenusKept /\ busy # None /\ opened' = opened
    BY <1>1, <2>1 DEF IInv, Dispatch
  <2>3. busy.sender \in Friends \cup Strangers /\ task \in [Slots -> MessageTasks \cup {None}]
    BY <2>2, TypeFacts DEF TypeOK, Packets
  <2>4. ASSUME NEW r, Begun(r)
        PROVE  task'[t] = r
    BY <1>1, <2>3, <2>4 DEF Begun
  <2>5. CASE busy.sender \in Strangers
    <3>1. RelayText(busy)
      BY <2>1, <2>5 DEF Dispatch
    <3>2. PICK w : w = InWindow(TimesOf(gate, busy.sender), now)
      OBVIOUS
    <3>3. PICK taken \in BOOLEAN : Relayed(busy.sender, w, taken)
      BY <2>2, <2>5, <3>1, <3>2, RelayTextFacts
    <3>4. taken
      BY <1>1, <3>3 DEF Relayed
    <3>5. PICK notice \in BOOLEAN :
            Begun([sender |-> busy.sender, kind |-> "relay", at |-> "new", notice |-> notice])
      BY <3>3, <3>4 DEF Relayed
    <3>6. task'[t].kind = "relay"
      BY <2>4, <3>5
    <3>. QED
      BY <1>1, <3>6
  <2>6. CASE busy.sender \notin Strangers
    <3>1. AgentText(busy) /\ busy.sender \in Friends
      BY <2>1, <2>3, <2>6 DEF Dispatch
    <3>2. PICK kind \in {"agent", "pick"} :
            /\ Begun([sender |-> busy.sender, kind |-> kind, at |-> "new", notice |-> FALSE])
            /\ kind = "pick" => Answerable(busy.sender)
      BY <1>1, <2>2, <3>1, AgentTextFacts
    <3>3. task'[t].kind = kind /\ task'[t].sender = busy.sender
      BY <2>4, <3>2
    <3>. QED
      BY <1>1, <3>2, <3>3
  <2>. QED
    BY <2>5, <2>6
<1>2. IInv /\ [Next]_vars =>
        [\A t \in Slots : task[t] = None /\ task'[t] # None /\ task'[t].kind = "pick"
           => Answerable(task'[t].sender)]_vars
  BY <1>1
<1>. QED
  BY <1>2, Invariance, PTL DEF Spec, NumbersAnswerMenus
=============================================================================
