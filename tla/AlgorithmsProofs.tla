----------------------------- MODULE AlgorithmsProofs -----------------------------
(***************************************************************************)
(* The pure algorithms, for inputs of any size.  Their loops are recursive *)
(* functions on an interval, and what a loop has done after i steps is a   *)
(* set of numbers that an induction shows to be the whole interval.  As    *)
(* the provers have no induction, the first section derives it from the    *)
(* least element of a set of numbers, and from it that the functions are   *)
(* defined.                                                                *)
(***************************************************************************)
EXTENDS Algorithms, FiniteSetTheorems, SequenceTheorems, WellFoundedInduction, TLAPS

-----------------------------------------------------------------------------
(* Numbers.                                                                *)

\* Every set of numbers has a least one.
LEMMA Least ==
  ASSUME NEW T, T \subseteq Nat, T # {}
  PROVE  Min(T) \in T /\ \A m \in T : Min(T) <= m
<1>1. PICK b \in T : TRUE
  OBVIOUS
<1>. DEFINE S == 0..b
            U == {0..n : n \in {m \in T : m <= b}}
            R == StrictSubsetOrdering(S)
<1>2. IsFiniteSet(S) /\ b \in Nat
  BY <1>1, FS_Interval
<1>3. IsWellFoundedOn(R, SUBSET S)
  BY <1>2, FS_StrictSubsetOrderingWellFounded, FS_FiniteSubsetsOfFinite
<1>4. U \subseteq SUBSET S /\ 0..b \in U
  <2>1. \A n \in T : n <= b => 0..n \subseteq S
    BY <1>2
  <2>. QED
    BY <1>1, <1>2, <2>1
<1>5. \E x \in U : \A y \in U : ~(<<y, x>> \in R)
  <2>. HIDE DEF U, R, S
  <2>1. U # {}
    BY <1>4
  <2>. QED
    BY <1>3, <1>4, <2>1, WFMin
<1>6. PICK n \in T : n <= b /\ \A y \in U : ~(<<y, 0..n>> \in R)
  BY <1>5
<1>7. ASSUME NEW m \in T, m < n
      PROVE  FALSE
  <2>1. m \in Nat /\ n \in Nat /\ m <= b
    BY <1>2, <1>6, <1>7
  <2>2. 0..m \in U /\ 0..m \subseteq 0..n /\ 0..m \subseteq S /\ 0..n \subseteq S
    BY <1>2, <1>6, <1>7, <2>1
  <2>3. n \in 0..n /\ n \notin 0..m
    BY <1>7, <2>1
  <2>4. <<0..m, 0..n>> \in R
    BY <2>2, <2>3 DEF StrictSubsetOrdering
  <2>. QED
    BY <1>6, <2>2, <2>4
<1>8. \A m \in T : n <= m
  BY <1>6, <1>7
<1>. QED
  BY <1>6, <1>8 DEF Min

\* And a greatest one, if there is a bound.
LEMMA Greatest ==
  ASSUME NEW T, NEW b \in Nat, T \subseteq 0..b, T # {}
  PROVE  Max(T) \in T /\ \A m \in T : m <= Max(T)
<1>. DEFINE U == {b - x : x \in T}
<1>1. U \subseteq Nat /\ U # {}
  <2>1. \A x \in T : x \in Int /\ b - x \in Nat
    OBVIOUS
  <2>2. \A x \in T : b - x \in U
    OBVIOUS
  <2>. QED
    BY <2>1, <2>2
<1>2. Min(U) \in U /\ \A m \in U : Min(U) <= m
  <2>. HIDE DEF U
  <2>. QED
    BY <1>1, Least
<1>3. PICK n \in T : Min(U) = b - n
  BY <1>2
<1>4. \A m \in T : n >= m
  <2>. TAKE m \in T
  <2>1. b - m \in U
    OBVIOUS
  <2>2. b - n <= b - m
    BY <1>2, <1>3, <2>1
  <2>. QED
    BY <2>2
<1>5. Max(T) \in T /\ \A m \in T : Max(T) >= m
  BY <1>4 DEF Max
<1>. QED
  BY <1>5

LEMMA MaxOfTwo ==
  ASSUME NEW a \in Int, NEW b \in Int
  PROVE  Max({a, b}) = (IF a >= b THEN a ELSE b) /\ Min({a, b}) = (IF a <= b THEN a ELSE b)
<1>1. \E x \in {a, b} : \A y \in {a, b} : x >= y
  OBVIOUS
<1>2. \E x \in {a, b} : \A y \in {a, b} : x <= y
  OBVIOUS
<1>3. Max({a, b}) \in {a, b} /\ \A y \in {a, b} : Max({a, b}) >= y
  BY <1>1 DEF Max
<1>4. Min({a, b}) \in {a, b} /\ \A y \in {a, b} : Min({a, b}) <= y
  BY <1>2 DEF Min
<1>. QED
  BY <1>3, <1>4

LEMMA Shifted ==
  ASSUME NEW x \in Int, NEW y \in Int, NEW j \in 2..y - x
  PROVE  j \in 1..y - x /\ x + j \in x + 2..y
  OBVIOUS

\* A set that has 0, and with each i below n also i + 1, has 0..n.
LEMMA Induction ==
  ASSUME NEW n \in Nat, NEW P, 0 \in P, \A i \in 0..n - 1 : i \in P => i + 1 \in P
  PROVE  0..n \subseteq P
<1>. DEFINE T == 0..n \ P
<1>1. SUFFICES ASSUME T # {} PROVE FALSE
  OBVIOUS
<1>2. Min(T) \in T /\ \A m \in T : Min(T) <= m
  BY <1>1, Least
<1>3. Min(T) - 1 \in 0..n - 1 /\ Min(T) - 1 \in P
  <2>1. Min(T) \in 1..n
    BY <1>2
  <2>2. Min(T) - 1 \notin T
    BY <1>2, <2>1
  <2>. QED
    BY <2>1, <2>2
<1>. QED
  BY <1>2, <1>3

\* A function on 0..n that starts with a and goes on with step.
Iterates(f, n, S, a, step) ==
  f \in [0..n -> S] /\ f[0] = a /\ \A i \in 1..n : f[i] = step[i][f[i - 1]]

\* What is defined from its predecessor is defined.
LEMMA Recursion ==
  ASSUME NEW n \in Nat, NEW S, NEW a \in S, NEW step \in [1..n -> [S -> S]]
  PROVE  \E f : Iterates(f, n, S, a, step)
<1>. DEFINE Fits(f, k) == f[0] = a /\ \A i \in 1..k : f[i] = step[i][f[i - 1]]
            P == {k \in 0..n : \E f \in [0..n -> S] : Fits(f, k)}
<1>1. 0 \in P
  <2>. DEFINE g == [i \in 0..n |-> a]
  <2>1. g \in [0..n -> S] /\ Fits(g, 0) /\ 0 \in 0..n
    OBVIOUS
  <2>. HIDE DEF g, Fits
  <2>. QED
    BY <2>1
<1>2. ASSUME NEW k \in 0..n - 1, k \in P
      PROVE  k + 1 \in P
  <2>1. PICK f \in [0..n -> S] : Fits(f, k)
    BY <1>2
  <2>. DEFINE g == [f EXCEPT ![k + 1] = step[k + 1][f[k]]]
  <2>2. k + 1 \in 1..n /\ k \in 0..n /\ f[k] \in S /\ step[k + 1][f[k]] \in S
    OBVIOUS
  <2>3. g \in [0..n -> S] /\ \A i \in 0..n : g[i] = IF i = k + 1 THEN step[k + 1][f[k]] ELSE f[i]
    BY <2>2
  <2>4. g[0] = a
    BY <2>1, <2>3
  <2>5. \A i \in 1..k + 1 : g[i] = step[i][g[i - 1]]
    <3>. TAKE i \in 1..k + 1
    <3>1. i \in 0..n /\ i - 1 \in 0..n /\ i - 1 # k + 1
      BY <2>2
    <3>2. g[i - 1] = f[i - 1]
      BY <2>3, <3>1
    <3>3. CASE i = k + 1
      BY <2>2, <2>3, <3>1, <3>2, <3>3
    <3>4. CASE i \in 1..k
      BY <2>1, <2>3, <3>1, <3>2, <3>4
    <3>. QED
      BY <3>3, <3>4
  <2>6. Fits(g, k + 1) /\ g \in [0..n -> S] /\ k + 1 \in 0..n
    BY <2>2, <2>3, <2>4, <2>5
  <2>. HIDE DEF g, Fits
  <2>. QED
    BY <2>6
<1>3. 0..n \subseteq P
  <2>. HIDE DEF P
  <2>. QED
    BY <1>1, <1>2, Induction
<1>4. PICK f \in [0..n -> S] : Fits(f, n)
  BY <1>3
<1>5. Iterates(f, n, S, a, step)
  BY <1>4 DEF Iterates
<1>. QED
  BY <1>5

\* A function that starts in a set and keeps to it.
LEMMA Stays ==
  ASSUME NEW n \in Nat, NEW S, NEW f, f = [i \in 0..n |-> f[i]],
         f[0] \in S, \A i \in 1..n : f[i - 1] \in S => f[i] \in S
  PROVE  f \in [0..n -> S]
<1>. DEFINE P == {i \in 0..n : f[i] \in S}
<1>1. 0 \in P /\ \A i \in 0..n - 1 : i \in P => i + 1 \in P
  <2>1. 0 \in P
    OBVIOUS
  <2>2. ASSUME NEW i \in 0..n - 1, i \in P
        PROVE  i + 1 \in P
    <3>1. i + 1 \in 1..n /\ (i + 1) - 1 = i
      OBVIOUS
    <3>2. f[i + 1] \in S
      BY <2>2, <3>1
    <3>. QED
      BY <3>1, <3>2
  <2>. QED
    BY <2>1, <2>2
<1>2. 0..n \subseteq P
  <2>. HIDE DEF P
  <2>. QED
    BY <1>1, Induction
<1>. QED
  BY <1>2

\* A sequence of numbers that nowhere falls.
LEMMA Rising ==
  ASSUME NEW n \in Nat, NEW f \in [0..n -> Int], \A i \in 1..n : f[i - 1] <= f[i]
  PROVE  \A b \in 0..n : \A a \in 0..b : f[a] <= f[b]
<1>. DEFINE P == {b \in 0..n : \A a \in 0..b : f[a] <= f[b]}
<1>1. 0 \in P
  OBVIOUS
<1>2. ASSUME NEW i \in 0..n - 1, i \in P
      PROVE  i + 1 \in P
  <2>1. i + 1 \in 1..n /\ i + 1 \in 0..n /\ f[i] <= f[i + 1] /\ f[i] \in Int /\ f[i + 1] \in Int
    OBVIOUS
  <2>2. ASSUME NEW a \in 0..i + 1
        PROVE  f[a] <= f[i + 1]
    <3>1. CASE a \in 0..i
      <4>1. f[a] \in Int /\ f[a] <= f[i]
        BY <1>2, <3>1
      <4>. QED
        BY <2>1, <4>1
    <3>2. CASE a = i + 1
      BY <2>1, <3>2
    <3>. QED
      BY <2>2, <3>1, <3>2
  <2>. QED
    BY <2>1, <2>2
<1>3. 0..n \subseteq P
  <2>. HIDE DEF P
  <2>. QED
    BY <1>1, <1>2, Induction
<1>. QED
  BY <1>3

-----------------------------------------------------------------------------
(* Where a text is cut.                                                    *)

LEMMA OffsetsDefined ==
  ASSUME NEW C, NEW text \in Seq(C)
  PROVE  /\ Offsets(text) \in [0..Len(text) -> Nat]
         /\ Offsets(text)[0] = 0
         /\ \A i \in 1..Len(text) : Offsets(text)[i] = Offsets(text)[i - 1] + Width(text[i])
<1>. DEFINE n == Len(text)
            step == [i \in 1..n |-> [s \in Nat |-> s + Width(text[i])]]
            Def(g) == [i \in 0..n |-> IF i = 0 THEN 0 ELSE g[i - 1] + Width(text[i])]
<1>1. n \in Nat
  OBVIOUS
<1>2. \A i \in 1..n : Width(text[i]) \in Nat
  BY ChunkingAssumption DEF Width
<1>3. \E g : g = Def(g)
  <2>1. /\ step \in [1..n -> [Nat -> Nat]]
        /\ \A i \in 1..n : \A s \in Nat : step[i][s] = s + Width(text[i])
    BY <1>2
  <2>. HIDE DEF step, n
  <2>2. PICK f : Iterates(f, n, Nat, 0, step)
    BY <1>1, <2>1, Recursion
  <2>3. f \in [0..n -> Nat] /\ f[0] = 0 /\ \A i \in 1..n : f[i] = step[i][f[i - 1]]
    BY <2>2 DEF Iterates
  <2>4. \A i \in 1..n : f[i] = f[i - 1] + Width(text[i])
    <3>. TAKE i \in 1..n
    <3>1. i - 1 \in 0..n
      BY <1>1
    <3>. QED
      BY <2>1, <2>3, <3>1
  <2>5. f = Def(f)
    BY <1>1, <2>3, <2>4
  <2>. QED
    BY <2>5
<1>4. Offsets(text) = Def(Offsets(text))
  <2>1. Offsets(text) = CHOOSE g : g = Def(g)
    BY DEF Offsets
  <2>. HIDE DEF Def
  <2>. QED
    BY <1>3, <2>1
<1>. DEFINE o == Offsets(text)
<1>5. o = Def(o)
  BY <1>4
<1>. HIDE DEF o, n
<1>6. /\ o = [i \in 0..n |-> o[i]] /\ o[0] = 0
      /\ \A i \in 1..n : o[i] = o[i - 1] + Width(text[i])
  <2>1. DOMAIN o = 0..n /\ \A i \in 0..n : o[i] = IF i = 0 THEN 0 ELSE o[i - 1] + Width(text[i])
    BY <1>5
  <2>2. o = [i \in 0..n |-> o[i]]
    BY <1>5, Zenon
  <2>3. 0 \in 0..n /\ \A i \in 1..n : i \in 0..n /\ i # 0
    BY <1>1
  <2>. QED
    BY <2>1, <2>2, <2>3, Zenon
<1>7. o \in [0..n -> Nat]
  <2>1. \A i \in 1..n : o[i - 1] \in Nat => o[i] \in Nat
    <3>. TAKE i \in 1..n
    <3>1. o[i] = o[i - 1] + Width(text[i]) /\ Width(text[i]) \in Nat
      BY <1>2, <1>6, Zenon
    <3>. QED
      BY <3>1
  <2>. QED
    BY <1>1, <1>6, <2>1, Stays
<1>. QED
  BY <1>6, <1>7 DEF o, n

\* Each character has a byte, and fits into the least room.
LEMMA OffsetsRise ==
  ASSUME NEW C, NEW text \in Seq(C)
  PROVE  \A b \in 0..Len(text) : \A a \in 0..b :
           /\ Offsets(text)[b] - Offsets(text)[a] >= b - a
           /\ b = a + 1 => Offsets(text)[b] - Offsets(text)[a] <= MinCapacity
<1>. DEFINE n == Len(text)
            o == Offsets(text)
            f == [i \in 0..n |-> o[i] - i]
<1>1. /\ n \in Nat /\ o \in [0..n -> Nat]
      /\ \A i \in 1..n : o[i] = o[i - 1] + Width(text[i])
  BY OffsetsDefined
<1>2. \A i \in 1..n : Width(text[i]) \in 1..MinCapacity /\ MinCapacity \in Nat
  BY ChunkingAssumption DEF Width
<1>. HIDE DEF o, n
<1>3. \A i \in 1..n : f[i - 1] <= f[i]
  <2>. TAKE i \in 1..n
  <2>1. i \in 0..n /\ i - 1 \in 0..n
    BY <1>1
  <2>2. o[i] \in Nat /\ o[i - 1] \in Nat /\ o[i] >= o[i - 1] + 1
    BY <1>1, <1>2, <2>1
  <2>. QED
    BY <2>1, <2>2
<1>4. \A b \in 0..n : \A a \in 0..b : f[a] <= f[b]
  <2>1. f \in [0..n -> Int]
    BY <1>1
  <2>. HIDE DEF f
  <2>. QED
    BY <1>1, <1>3, <2>1, Rising
<1>5. ASSUME NEW b \in 0..n, NEW a \in 0..b
      PROVE  o[b] - o[a] >= b - a /\ (b = a + 1 => o[b] - o[a] <= MinCapacity)
  <2>1. a \in 0..n /\ o[a] \in Nat /\ o[b] \in Nat
    BY <1>1
  <2>2. f[a] <= f[b]
    BY <1>4
  <2>3. b = a + 1 => o[b] - o[a] <= MinCapacity
    <3>1. b = a + 1 => b \in 1..n /\ b - 1 = a
      BY <1>1
    <3>. QED
      BY <1>1, <1>2, <2>1, <3>1
  <2>. QED
    BY <1>1, <2>1, <2>2, <2>3
<1>. QED
  BY <1>5 DEF o, n

\* Where the bytes end: the last character that fits.
Reach(text, at, room) == Max(Fitting(text, at, room))

LEMMA ReachIs ==
  ASSUME NEW C, NEW text \in Seq(C), NEW at \in 0..Len(text) - 1, NEW room \in Int
  PROVE  /\ Reach(text, at, room) \in at + 1..Len(text)
         /\ \/ Reach(text, at, room) = at + 1
            \/ Offsets(text)[Reach(text, at, room)] - Offsets(text)[at] <= room
         /\ \A i \in at + 1..Len(text) :
              i = at + 1 \/ Offsets(text)[i] - Offsets(text)[at] <= room => i <= Reach(text, at, room)
<1>. DEFINE n == Len(text)
            T == Fitting(text, at, room)
<1>1. n \in Nat /\ at \in 0..n - 1
  OBVIOUS
<1>2. T = {i \in at + 1..n : i = at + 1 \/ Offsets(text)[i] - Offsets(text)[at] <= room}
  BY DEF Fitting
<1>. HIDE DEF n, T
<1>3. T \subseteq 0..n /\ at + 1 \in T
  BY <1>1, <1>2
<1>4. Max(T) \in T /\ \A m \in T : m <= Max(T)
  <2>1. T # {}
    BY <1>3
  <2>. QED
    BY <1>1, <1>3, <2>1, Greatest
<1>. QED
  BY <1>2, <1>4 DEF Reach, T, n

\* How a part that begins behind at ends, if the bytes end with end.
Ends(text, at, end, cut) ==
  /\ end \in at + 1..Len(text) /\ cut \in at + 1..end
  /\ end = Len(text) => cut = end
  /\ \/ cut = end /\ \A i \in at + 2..end : text[i] # "space"
     \/ cut = end /\ end = Len(text)
     \/ /\ cut >= at + 2 /\ text[cut] = "space"
        /\ \A i \in at + 2..end : text[i] = "space" => i <= cut

LEMMA CutIs ==
  ASSUME NEW C, NEW text \in Seq(C), NEW at \in 0..Len(text) - 1, NEW room \in Int
  PROVE  Ends(text, at, Reach(text, at, room), Cut(text, at, room))
<1>. DEFINE end == Reach(text, at, room)
            cut == Cut(text, at, room)
<1>. SUFFICES Ends(text, at, end, cut)
  OBVIOUS
<1>. DEFINE spaces == {i \in at + 2..end : text[i] = "space"}
            n == Len(text)
<1>1. n \in Nat /\ at \in 0..n - 1
  OBVIOUS
<1>2. end \in at + 1..n
  BY ReachIs
<1>3. cut = IF end = n \/ spaces = {} THEN end ELSE Max(spaces)
  BY DEF Cut, Reach
<1>. HIDE DEF n, end, cut
<1>4. spaces # {} => Max(spaces) \in spaces /\ \A m \in spaces : m <= Max(spaces)
  <2>1. spaces \subseteq 0..n
    BY <1>1, <1>2
  <2>. HIDE DEF spaces
  <2>. QED
    BY <1>1, <2>1, Greatest
<1>5. CASE end = n
  BY <1>1, <1>2, <1>3, <1>5 DEF n, Ends
<1>6. CASE end # n /\ spaces = {}
  <2>1. cut = end /\ \A i \in at + 2..end : text[i] # "space"
    BY <1>3, <1>6
  <2>. QED
    BY <1>1, <1>2, <1>6, <2>1 DEF n, Ends
<1>7. CASE end # n /\ spaces # {}
  <2>1. cut \in spaces /\ \A m \in spaces : m <= cut
    BY <1>3, <1>4, <1>7
  <2>2. cut \in at + 2..end /\ text[cut] = "space"
    BY <2>1
  <2>. QED
    BY <1>1, <1>2, <1>7, <2>1, <2>2 DEF n, Ends
<1>. QED
  BY <1>5, <1>6, <1>7

\* A part moves on, fits its room, and cuts no word that could be kept whole.
LEMMA CutFits ==
  ASSUME NEW C, NEW text \in Seq(C), NEW at \in 0..Len(text) - 1,
         NEW room \in Int, room >= MinCapacity
  PROVE  /\ Cut(text, at, room) \in at + 1..Len(text)
         /\ Offsets(text)[Cut(text, at, room)] - Offsets(text)[at] <= room
         /\ \/ Cut(text, at, room) = Len(text)
            \/ text[Cut(text, at, room)] = "space"
            \/ \A i \in at + 2..Cut(text, at, room) : text[i] # "space"
<1>. DEFINE n == Len(text)
            o == Offsets(text)
            end == Reach(text, at, room)
            cut == Cut(text, at, room)
<1>1. n \in Nat /\ at \in 0..n - 1 /\ MinCapacity \in Nat
  BY ChunkingAssumption
<1>2. end \in at + 1..n /\ (end = at + 1 \/ o[end] - o[at] <= room)
  BY ReachIs
<1>3. /\ cut \in at + 1..end
      /\ cut = n \/ text[cut] = "space" \/ \A i \in at + 2..cut : text[i] # "space"
  BY <1>1, <1>2, CutIs DEF Ends
<1>4. /\ o \in [0..n -> Nat]
      /\ \A b \in 0..n : \A a \in 0..b :
           o[b] - o[a] >= b - a /\ (b = a + 1 => o[b] - o[a] <= MinCapacity)
  BY OffsetsDefined, OffsetsRise
<1>. HIDE DEF n, o, end, cut
<1>5. o[end] - o[at] <= room /\ o[at] \in Nat /\ o[end] \in Nat
  <2>1. end \in 0..n /\ at \in 0..end
    BY <1>1, <1>2
  <2>2. o[at] \in Nat /\ o[end] \in Nat
    <3>1. o \in [0..n -> Nat]
      BY <1>4, Zenon
    <3>2. at \in 0..n
      BY <1>1
    <3>. QED
      BY <2>1, <3>1, <3>2
  <2>3. end = at + 1 => o[end] - o[at] <= MinCapacity
    BY <1>4, <2>1, Zenon
  <2>. QED
    BY <1>1, <1>2, <2>2, <2>3
<1>6. cut \in at + 1..n /\ o[cut] \in Nat /\ o[end] - o[cut] >= end - cut
  <2>1. end \in 0..n /\ cut \in 0..end /\ cut \in at + 1..n /\ cut \in 0..n
    BY <1>1, <1>2, <1>3
  <2>. QED
    BY <1>4, <2>1
<1>7. o[cut] - o[at] <= room
  BY <1>2, <1>3, <1>5, <1>6
<1>. QED
  BY <1>3, <1>6, <1>7 DEF n, o, cut

\* The later a part begins and the more room it has, the later it ends.
LEMMA CutRises ==
  ASSUME NEW C, NEW text \in Seq(C), NEW a \in 0..Len(text) - 1, NEW b \in a..Len(text) - 1,
         NEW r \in Int, NEW s \in Int, r <= s
  PROVE  Cut(text, a, r) <= Cut(text, b, s)
<1>. DEFINE n == Len(text)
            o == Offsets(text)
            endA == Reach(text, a, r)
            endB == Reach(text, b, s)
            cutA == Cut(text, a, r)
            cutB == Cut(text, b, s)
<1>. SUFFICES cutA <= cutB
  OBVIOUS
<1>1. n \in Nat /\ a \in 0..n - 1 /\ b \in 0..n - 1 /\ a <= b
  OBVIOUS
<1>2. /\ endA \in a + 1..n /\ endB \in b + 1..n
      /\ endA = a + 1 \/ o[endA] - o[a] <= r
      /\ \A i \in b + 1..n : i = b + 1 \/ o[i] - o[b] <= s => i <= endB
  BY <1>1, ReachIs
<1>3. o \in [0..n -> Nat] /\ \A y \in 0..n : \A x \in 0..y : o[y] - o[x] >= y - x
  BY OffsetsDefined, OffsetsRise
<1>4. /\ cutA \in a + 1..endA
      /\ endA = n => cutA = endA
      /\ \/ cutA = endA /\ \A i \in a + 2..endA : text[i] # "space"
         \/ cutA = endA /\ endA = n
         \/ cutA >= a + 2 /\ text[cutA] = "space"
  BY <1>1, <1>2, CutIs DEF Ends
<1>5. /\ cutB \in b + 1..endB
      /\ endB = n => cutB = endB
      /\ \/ cutB = endB
         \/ /\ cutB >= b + 2 /\ text[cutB] = "space"
            /\ \A i \in b + 2..endB : text[i] = "space" => i <= cutB
  BY <1>1, <1>2, CutIs DEF Ends
<1>. HIDE DEF n, o, endA, endB, cutA, cutB
<1>6. endA <= endB
  <2>1. CASE endA <= b
    BY <1>1, <1>2, <2>1
  <2>2. CASE endA > b /\ endA = a + 1
    BY <1>1, <1>2, <2>2
  <2>3. CASE endA > b /\ endA # a + 1
    <3>1. o[b] - o[a] >= b - a /\ o[a] \in Nat /\ o[b] \in Nat /\ o[endA] \in Nat
      <4>1. b \in 0..n /\ a \in 0..b /\ a \in 0..n /\ endA \in 0..n
        BY <1>1, <1>2
      <4>. QED
        BY <1>3, <4>1
    <3>2. o[endA] - o[b] <= s /\ endA \in b + 1..n
      BY SMTT(30), <1>1, <1>2, <2>3, <3>1
    <3>. QED
      BY <1>2, <3>2
  <2>. QED
    BY <1>1, <1>2, <2>1, <2>2, <2>3
<1>7. CASE cutB = endB
  BY <1>1, <1>2, <1>4, <1>6, <1>7
<1>8. CASE cutB # endB
  <2>1. /\ endB # n /\ cutB \in b + 2..endB /\ text[cutB] = "space"
        /\ \A i \in b + 2..endB : text[i] = "space" => i <= cutB
    BY <1>1, <1>2, <1>5, <1>8
  <2>2. endA # n
    BY <1>1, <1>2, <1>6, <2>1
  <2>3. CASE cutA = endA /\ \A i \in a + 2..endA : text[i] # "space"
    <3>1. cutB \notin a + 2..endA
      BY <2>1, <2>3
    <3>. QED
      BY <1>1, <1>2, <2>1, <2>3, <3>1
  <2>4. CASE cutA >= a + 2 /\ text[cutA] = "space"
    <3>1. CASE cutA \in b + 2..endB
      BY <2>1, <2>4, <3>1
    <3>2. CASE cutA < b + 2
      BY <1>1, <1>2, <1>4, <2>1, <3>2
    <3>. QED
      BY <1>1, <1>2, <1>4, <1>6, <3>1, <3>2
  <2>. QED
    BY <1>4, <2>2, <2>3, <2>4
<1>. QED
  BY <1>7, <1>8

LEMMA CutsDefined ==
  ASSUME NEW C, NEW text \in Seq(C), NEW rooms \in [1..Len(text) -> Int]
  PROVE  /\ Cuts(text, rooms) \in [0..Len(text) -> 0..Len(text)]
         /\ Cuts(text, rooms)[0] = 0
         /\ \A i \in 1..Len(text) :
              Cuts(text, rooms)[i] =
                IF Cuts(text, rooms)[i - 1] = Len(text) THEN Len(text)
                ELSE Cut(text, Cuts(text, rooms)[i - 1], rooms[i])
<1>. DEFINE n == Len(text)
            next(at, i) == IF at = n THEN at ELSE Cut(text, at, rooms[i])
            step == [i \in 1..n |-> [at \in 0..n |-> next(at, i)]]
            Def(g) == [i \in 0..n |-> IF i = 0 THEN 0 ELSE next(g[i - 1], i)]
<1>1. n \in Nat /\ rooms \in [1..n -> Int]
  OBVIOUS
<1>2. ASSUME NEW i \in 1..n, NEW at \in 0..n
      PROVE  next(at, i) \in 0..n
  <2>1. CASE at = n
    BY <2>1
  <2>2. CASE at # n
    <3>1. at \in 0..n - 1 /\ rooms[i] \in Int
      BY <1>1, <2>2
    <3>2. /\ Reach(text, at, rooms[i]) \in at + 1..n
          /\ Cut(text, at, rooms[i]) \in at + 1..Reach(text, at, rooms[i])
      BY <3>1, ReachIs, CutIs DEF Ends
    <3>3. Cut(text, at, rooms[i]) \in 0..n
      BY <1>1, <3>1, <3>2
    <3>. QED
      BY <2>2, <3>3
  <2>. QED
    BY <2>1, <2>2
<1>3. \E g : g = Def(g)
  <2>1. /\ step \in [1..n -> [0..n -> 0..n]]
        /\ \A i \in 1..n : \A s \in 0..n : step[i][s] = next(s, i)
    <3>. HIDE DEF next, n
    <3>. QED
      BY <1>2
  <2>. HIDE DEF step, n, next
  <2>2. PICK f : Iterates(f, n, 0..n, 0, step)
    <3>1. 0 \in 0..n
      BY <1>1
    <3>. QED
      BY <1>1, <2>1, <3>1, Recursion
  <2>3. f \in [0..n -> 0..n] /\ f[0] = 0 /\ \A i \in 1..n : f[i] = step[i][f[i - 1]]
    BY <2>2 DEF Iterates
  <2>4. \A i \in 1..n : f[i] = next(f[i - 1], i)
    <3>. TAKE i \in 1..n
    <3>1. i - 1 \in 0..n
      BY <1>1
    <3>. QED
      BY <2>1, <2>3, <3>1
  <2>5. f = Def(f)
    BY <1>1, <2>3, <2>4
  <2>. QED
    BY <2>5
<1>4. Cuts(text, rooms) = Def(Cuts(text, rooms))
  <2>1. Cuts(text, rooms) = CHOOSE g : g = Def(g)
    BY DEF Cuts
  <2>. HIDE DEF Def
  <2>. QED
    BY <1>3, <2>1
<1>. DEFINE o == Cuts(text, rooms)
<1>. SUFFICES /\ o \in [0..n -> 0..n] /\ o[0] = 0
              /\ \A i \in 1..n : o[i] = next(o[i - 1], i)
  <2>. HIDE DEF o
  <2>. QED
    BY DEF o
<1>5. o = Def(o)
  BY <1>4
<1>. HIDE DEF o, n, next
<1>6. /\ o = [i \in 0..n |-> o[i]] /\ o[0] = 0
      /\ \A i \in 1..n : o[i] = next(o[i - 1], i)
  <2>1. DOMAIN o = 0..n /\ \A i \in 0..n : o[i] = IF i = 0 THEN 0 ELSE next(o[i - 1], i)
    BY <1>5
  <2>2. o = [i \in 0..n |-> o[i]]
    BY <1>5, Zenon
  <2>3. 0 \in 0..n /\ \A i \in 1..n : i \in 0..n /\ i # 0
    BY <1>1
  <2>. QED
    BY <2>1, <2>2, <2>3, Zenon
<1>7. o \in [0..n -> 0..n]
  <2>1. \A i \in 1..n : o[i - 1] \in 0..n => o[i] \in 0..n
    BY <1>2, <1>6, Zenon
  <2>2. o[0] \in 0..n
    BY <1>1, <1>6
  <2>. QED
    BY <1>1, <1>6, <2>1, <2>2, Stays
<1>. QED
  BY <1>6, <1>7

\* The parts follow each other, until they reach the end of the text.
LEMMA CutsRise ==
  ASSUME NEW C, NEW text \in Seq(C), NEW rooms \in [1..Len(text) -> Int]
  PROVE  \A i \in 0..Len(text) : Cuts(text, rooms)[i] >= i
<1>. DEFINE n == Len(text)
            cut == Cuts(text, rooms)
            P == {i \in 0..n : cut[i] >= i}
<1>1. n \in Nat /\ rooms \in [1..n -> Int]
  OBVIOUS
<1>2. /\ cut \in [0..n -> 0..n] /\ cut[0] = 0
      /\ \A i \in 1..n : cut[i] = IF cut[i - 1] = n THEN n ELSE Cut(text, cut[i - 1], rooms[i])
  BY CutsDefined
<1>3. ASSUME NEW at \in 0..n - 1, NEW room \in Int
      PROVE  Cut(text, at, room) \in at + 1..n
  <2>1. /\ Reach(text, at, room) \in at + 1..n
        /\ Cut(text, at, room) \in at + 1..Reach(text, at, room)
    BY ReachIs, CutIs DEF Ends
  <2>. QED
    BY <1>1, <2>1
<1>. HIDE DEF cut, n
<1>4. 0 \in P
  BY <1>1, <1>2
<1>5. ASSUME NEW i \in 0..n - 1, i \in P
      PROVE  i + 1 \in P
  <2>1. i + 1 \in 1..n /\ (i + 1) - 1 = i /\ cut[i] \in 0..n /\ cut[i] >= i /\ rooms[i + 1] \in Int
    BY <1>1, <1>2, <1>5
  <2>2. cut[i + 1] = IF cut[i] = n THEN n ELSE Cut(text, cut[i], rooms[i + 1])
    BY <1>2, <2>1
  <2>3. CASE cut[i] = n
    BY <1>1, <2>1, <2>2, <2>3
  <2>4. CASE cut[i] # n
    <3>1. cut[i] \in 0..n - 1
      BY <1>1, <2>1, <2>4
    <3>2. Cut(text, cut[i], rooms[i + 1]) \in cut[i] + 1..n
      BY <1>3, <2>1, <3>1
    <3>. QED
      BY <1>1, <2>1, <2>2, <2>4, <3>2
  <2>. QED
    BY <2>3, <2>4
<1>6. 0..n \subseteq P
  <2>. HIDE DEF P
  <2>. QED
    BY <1>1, <1>4, <1>5, Induction
<1>. QED
  BY <1>6 DEF n, cut

LEMMA CountIs ==
  ASSUME NEW C, NEW text \in Seq(C), NEW rooms \in [1..Len(text) -> Int]
  PROVE  /\ Count(text, rooms) \in 0..Len(text)
         /\ Cuts(text, rooms)[Count(text, rooms)] = Len(text)
         /\ \A i \in 0..Len(text) : Cuts(text, rooms)[i] = Len(text) => Count(text, rooms) <= i
<1>. DEFINE n == Len(text)
            cut == Cuts(text, rooms)
            T == {i \in 0..n : cut[i] = n}
<1>1. n \in Nat /\ cut \in [0..n -> 0..n]
  BY CutsDefined
<1>2. cut[n] >= n
  BY CutsRise
<1>3. Count(text, rooms) = Min(T)
  BY DEF Count
<1>. HIDE DEF n, cut
<1>4. T \subseteq Nat /\ n \in T
  BY <1>1, <1>2
<1>5. Min(T) \in T /\ \A m \in T : Min(T) <= m
  <2>1. T # {}
    BY <1>4
  <2>. HIDE DEF T
  <2>. QED
    BY <1>4, <2>1, Least
<1>. QED
  BY <1>3, <1>5 DEF n, cut

\* Each part but the last ends before the text does, so that every part has
\* something to cut.
LEMMA PartsAre ==
  ASSUME NEW C, NEW text \in Seq(C), NEW rooms \in [1..Len(text) -> Int],
         NEW i \in 1..Count(text, rooms)
  PROVE  /\ i \in 1..Len(text) /\ Cuts(text, rooms)[i - 1] \in 0..Len(text) - 1
         /\ Cuts(text, rooms)[i] = Cut(text, Cuts(text, rooms)[i - 1], rooms[i])
<1>. DEFINE n == Len(text)
            cut == Cuts(text, rooms)
            count == Count(text, rooms)
<1>1. /\ n \in Nat /\ cut \in [0..n -> 0..n]
      /\ \A j \in 1..n : cut[j] = IF cut[j - 1] = n THEN n ELSE Cut(text, cut[j - 1], rooms[j])
  BY CutsDefined
<1>2. count \in 0..n /\ \A j \in 0..n : cut[j] = n => count <= j
  BY CountIs
<1>3. i \in 1..count
  OBVIOUS
<1>. HIDE DEF n, cut, count
<1>4. i \in 1..n /\ i - 1 \in 0..n /\ ~(count <= i - 1)
  BY <1>1, <1>2, <1>3
<1>5. cut[i - 1] \in 0..n /\ cut[i - 1] # n
  BY <1>1, <1>2, <1>4
<1>6. cut[i - 1] \in 0..n - 1
  BY <1>1, <1>5
<1>7. cut[i] = Cut(text, cut[i - 1], rooms[i])
  BY <1>1, <1>4, <1>5
<1>. QED
  BY <1>4, <1>6, <1>7 DEF n, cut, count

\* With more room for each part there are no more parts: the one that the larger
\* rooms cut never lags behind the one that the smaller rooms cut.
LEMMA MoreRoomNoMoreParts ==
  ASSUME NEW C, NEW text \in Seq(C),
         NEW r \in [1..Len(text) -> Int], NEW s \in [1..Len(text) -> Int],
         \A i \in 1..Count(text, r) : r[i] <= s[i]
  PROVE  Count(text, s) <= Count(text, r)
<1>. DEFINE n == Len(text)
            less == Cuts(text, r)
            more == Cuts(text, s)
            count == Count(text, r)
            P == {i \in 0..count : less[i] <= more[i]}
<1>1. /\ n \in Nat /\ count \in 0..n /\ less \in [0..n -> 0..n] /\ more \in [0..n -> 0..n]
      /\ less[0] = 0 /\ more[0] = 0 /\ less[count] = n
  BY CutsDefined, CountIs
<1>2. \A i \in 1..n : more[i] = IF more[i - 1] = n THEN n ELSE Cut(text, more[i - 1], s[i])
  BY CutsDefined
<1>3. \A i \in 1..count : less[i - 1] \in 0..n - 1 /\ less[i] = Cut(text, less[i - 1], r[i])
  BY PartsAre
<1>4. \A i \in 1..count : r[i] \in Int /\ s[i] \in Int /\ r[i] <= s[i]
  <2>1. \A i \in 1..count : i \in 1..n
    BY <1>1
  <2>. QED
    BY <2>1
<1>5. ASSUME NEW a \in 0..n - 1, NEW b \in a..n - 1, NEW x \in Int, NEW y \in Int, x <= y
      PROVE  Cut(text, a, x) <= Cut(text, b, y)
  BY <1>5, CutRises
<1>6. \A i \in 0..n : more[i] = n => Count(text, s) <= i
  BY CountIs
<1>. HIDE DEF n, less, more, count
<1>7. 0 \in P
  BY <1>1
<1>8. ASSUME NEW i \in 0..count - 1, i \in P
      PROVE  i + 1 \in P
  <2>1. /\ i + 1 \in 1..count /\ i + 1 \in 1..n /\ (i + 1) - 1 = i
        /\ i \in 0..n /\ i + 1 \in 0..n /\ less[i] <= more[i]
    BY <1>1, <1>8
  <2>2. less[i] \in 0..n - 1 /\ less[i + 1] = Cut(text, less[i], r[i + 1])
    BY <1>3, <2>1
  <2>3. more[i] \in 0..n /\ less[i + 1] \in 0..n
    BY <1>1, <2>1
  <2>4. more[i + 1] = IF more[i] = n THEN n ELSE Cut(text, more[i], s[i + 1])
    BY <1>2, <2>1
  <2>5. CASE more[i] = n
    BY <1>1, <2>1, <2>3, <2>4, <2>5
  <2>6. CASE more[i] # n
    <3>1. more[i] \in less[i]..n - 1
      BY <1>1, <2>1, <2>2, <2>3, <2>6
    <3>2. r[i + 1] \in Int /\ s[i + 1] \in Int /\ r[i + 1] <= s[i + 1]
      BY <1>4, <2>1
    <3>3. Cut(text, less[i], r[i + 1]) <= Cut(text, more[i], s[i + 1])
      BY <1>5, <2>2, <3>1, <3>2
    <3>. QED
      BY <2>1, <2>2, <2>4, <2>6, <3>3
  <2>. QED
    BY <2>5, <2>6
<1>9. 0..count \subseteq P
  <2>. HIDE DEF P
  <2>1. count \in Nat
    BY <1>1
  <2>. QED
    BY <1>7, <1>8, <2>1, Induction
<1>10. more[count] = n
  <2>1. count \in P
    BY <1>1, <1>9
  <2>2. more[count] \in 0..n /\ n <= more[count]
    BY <1>1, <2>1
  <2>. QED
    BY <1>1, <2>2
<1>. QED
  BY <1>1, <1>6, <1>10 DEF count

-----------------------------------------------------------------------------
(* The numbers of the messages.                                            *)

LEMMA DigitsRise ==
  ASSUME NEW a \in Nat, NEW b \in Nat, a <= b
  PROVE  Digits(a) \in Nat \ {0} /\ Digits(a) <= Digits(b)
<1>. DEFINE T(n) == {0} \cup {d \in 1..n : Radix^d <= n}
<1>1. \A d \in Nat : Radix^d \in Int
  BY ChunkingAssumption
<1>2. ASSUME NEW n \in Nat
      PROVE  Max(T(n)) \in T(n) /\ (\A m \in T(n) : m <= Max(T(n))) /\ Max(T(n)) \in Nat
  <2>1. T(n) \subseteq 0..n /\ T(n) # {}
    OBVIOUS
  <2>. HIDE DEF T
  <2>2. Max(T(n)) \in T(n) /\ \A m \in T(n) : m <= Max(T(n))
    BY <2>1, Greatest
  <2>. QED
    BY <2>1, <2>2
<1>3. T(a) \subseteq T(b)
  BY <1>1
<1>4. Digits(a) = 1 + Max(T(a)) /\ Digits(b) = 1 + Max(T(b))
  BY DEF Digits
<1>. HIDE DEF T
<1>. QED
  BY <1>2, <1>3, <1>4

LEMMA PrefixRises ==
  ASSUME NEW i \in Nat, NEW j \in Nat, NEW t \in Nat, NEW u \in Nat, i <= j, t <= u
  PROVE  PrefixBytes(i, t) \in Nat /\ PrefixBytes(i, t) <= PrefixBytes(j, u)
<1>1. Punctuation \in Nat
  BY ChunkingAssumption
<1>2. Digits(i) \in Nat /\ Digits(i) <= Digits(j) /\ Digits(t) \in Nat /\ Digits(t) <= Digits(u)
  BY DigitsRise
<1>3. Digits(j) \in Nat /\ Digits(u) \in Nat
  BY DigitsRise
<1>. QED
  BY <1>1, <1>2, <1>3 DEF PrefixBytes

LEMMA RoomIs ==
  ASSUME NEW limit \in Int, NEW prefix \in Int
  PROVE  /\ Room(limit, prefix) \in Int /\ Room(limit, prefix) >= MinCapacity
         /\ Room(limit, prefix) = IF MinCapacity >= limit - prefix THEN MinCapacity ELSE limit - prefix
<1>1. MinCapacity \in Int /\ limit - prefix \in Int
  BY ChunkingAssumption
<1>2. Max({MinCapacity, limit - prefix}) =
        IF MinCapacity >= limit - prefix THEN MinCapacity ELSE limit - prefix
  BY <1>1, MaxOfTwo
<1>. QED
  BY <1>1, <1>2 DEF Room

\* The count of the chunks whose prefixes are to hold the number t.
Recount(text, limit, t) == Count(text, Rooms(text, limit, t))

LEMMA RoomsAre ==
  ASSUME NEW C, NEW text \in Seq(C), NEW limit \in Int, NEW t \in Nat
  PROVE  /\ Rooms(text, limit, t) \in [1..Len(text) -> Int]
         /\ \A i \in 1..Len(text) : Rooms(text, limit, t)[i] >= MinCapacity
<1>1. ASSUME NEW i \in 1..Len(text)
      PROVE  /\ Room(limit, PrefixBytes(i, t)) \in Int
             /\ Room(limit, PrefixBytes(i, t)) >= MinCapacity
  <2>1. PrefixBytes(i, t) \in Int
    BY PrefixRises
  <2>. QED
    BY <2>1, RoomIs
<1>. QED
  BY <1>1 DEF Rooms

\* A larger number, with prefixes no shorter, gives no fewer chunks; it is the
\* number of its digits that counts.
LEMMA RecountRises ==
  ASSUME NEW C, NEW text \in Seq(C), NEW limit \in Int, NEW t \in Nat, NEW u \in Nat, t <= u
  PROVE  /\ Recount(text, limit, t) \in 0..Len(text)
         /\ text # << >> => Recount(text, limit, t) # 0
         /\ Recount(text, limit, t) <= Recount(text, limit, u)
         /\ Digits(t) = Digits(u) => Recount(text, limit, t) = Recount(text, limit, u)
<1>. DEFINE n == Len(text)
            r == Rooms(text, limit, t)
            s == Rooms(text, limit, u)
<1>1. n \in Nat /\ r \in [1..n -> Int] /\ s \in [1..n -> Int]
  BY RoomsAre
<1>2. \A i \in 1..n : s[i] <= r[i]
  <2>. TAKE i \in 1..n
  <2>1. PrefixBytes(i, t) \in Nat /\ PrefixBytes(i, u) \in Nat /\ PrefixBytes(i, t) <= PrefixBytes(i, u)
    <3>1. i \in Nat /\ i <= i /\ u <= u
      OBVIOUS
    <3>. QED
      BY <3>1, PrefixRises, Zenon
  <2>2. /\ Room(limit, PrefixBytes(i, t)) =
             IF MinCapacity >= limit - PrefixBytes(i, t) THEN MinCapacity ELSE limit - PrefixBytes(i, t)
        /\ Room(limit, PrefixBytes(i, u)) =
             IF MinCapacity >= limit - PrefixBytes(i, u) THEN MinCapacity ELSE limit - PrefixBytes(i, u)
    <3>1. PrefixBytes(i, t) \in Int /\ PrefixBytes(i, u) \in Int
      BY <2>1
    <3>. QED
      BY <3>1, RoomIs, Zenon
  <2>3. r[i] = Room(limit, PrefixBytes(i, t)) /\ s[i] = Room(limit, PrefixBytes(i, u))
    BY DEF Rooms
  <2>4. MinCapacity \in Int
    BY ChunkingAssumption
  <2>. HIDE DEF r, s
  <2>. QED
    BY <2>1, <2>2, <2>3, <2>4
<1>3. Count(text, r) <= Count(text, s)
  <2>1. Count(text, s) \in 0..n
    BY <1>1, CountIs
  <2>2. \A i \in 1..Count(text, s) : s[i] <= r[i]
    BY <1>1, <1>2, <2>1
  <2>. HIDE DEF r, s
  <2>. QED
    BY <1>1, <2>2, MoreRoomNoMoreParts
<1>4. Digits(t) = Digits(u) => r = s
  BY DEF Rooms, PrefixBytes
<1>5. Count(text, r) \in 0..n /\ Cuts(text, r)[Count(text, r)] = n /\ Cuts(text, r)[0] = 0
  BY <1>1, CountIs, CutsDefined
<1>6. text # << >> => n # 0
  OBVIOUS
<1>. QED
  BY <1>3, <1>4, <1>5, <1>6 DEF Recount

\* The estimate takes each prefix for the longest, so that no round finds more.
LEMMA EstimateIsABound ==
  ASSUME NEW C, NEW text \in Seq(C), NEW limit \in Int,
         Estimate(text, limit) <= MaxChunks, NEW t \in 0..MaxChunks
  PROVE  Recount(text, limit, t) <= Estimate(text, limit) /\ Estimate(text, limit) \in 0..Len(text)
<1>. DEFINE n == Len(text)
            r == [i \in 1..n |-> Room(limit, PrefixBudget)]
            s == Rooms(text, limit, t)
<1>1. n \in Nat /\ t \in Nat /\ MaxChunks \in Nat /\ PrefixBudget \in Int /\ MinCapacity \in Int
  BY ChunkingAssumption
<1>2. /\ Room(limit, PrefixBudget) \in Int
      /\ Room(limit, PrefixBudget) =
           IF MinCapacity >= limit - PrefixBudget THEN MinCapacity ELSE limit - PrefixBudget
  BY <1>1, RoomIs
<1>3. r \in [1..n -> Int] /\ s \in [1..n -> Int]
  BY <1>1, <1>2, RoomsAre
<1>4. Estimate(text, limit) = Count(text, r) /\ Count(text, r) \in 0..n
  BY <1>3, CountIs DEF Estimate
<1>5. \A i \in 1..Count(text, r) : r[i] <= s[i]
  <2>. TAKE i \in 1..Count(text, r)
  <2>1. i \in 1..n /\ i \in Nat /\ i <= MaxChunks /\ t <= MaxChunks
    BY <1>1, <1>4
  <2>2. PrefixBytes(i, t) \in Nat /\ PrefixBytes(i, t) <= PrefixBytes(MaxChunks, MaxChunks)
    BY <1>1, <2>1, PrefixRises, Zenon
  <2>3. PrefixBytes(MaxChunks, MaxChunks) \in Nat
    BY <1>1, PrefixRises
  <2>4. PrefixBytes(i, t) <= PrefixBudget
    BY <1>1, <2>2, <2>3, NumberingAssumption
  <2>5. Room(limit, PrefixBytes(i, t)) =
          IF MinCapacity >= limit - PrefixBytes(i, t) THEN MinCapacity ELSE limit - PrefixBytes(i, t)
    <3>1. PrefixBytes(i, t) \in Int
      BY <2>2
    <3>. QED
      BY <3>1, RoomIs, Zenon
  <2>6. r[i] = Room(limit, PrefixBudget) /\ s[i] = Room(limit, PrefixBytes(i, t))
    BY <2>1 DEF Rooms
  <2>. HIDE DEF r, s
  <2>. QED
    BY <1>1, <1>2, <2>2, <2>4, <2>5, <2>6
<1>6. Count(text, s) <= Count(text, r)
  <2>. HIDE DEF r, s
  <2>. QED
    BY <1>3, <1>5, MoreRoomNoMoreParts
<1>. QED
  BY <1>4, <1>6 DEF Recount

LEMMA RoundsDefined ==
  ASSUME NEW C, NEW text \in Seq(C), NEW limit \in Int, NEW total \in Nat
  PROVE  /\ Rounds(text, limit, total) \in [0..6 -> Nat]
         /\ Rounds(text, limit, total)[0] = total
         /\ \A k \in 1..6 :
              Rounds(text, limit, total)[k] = Recount(text, limit, Rounds(text, limit, total)[k - 1])
<1>. DEFINE again(t) == Recount(text, limit, t)
            step == [k \in 1..6 |-> [t \in Nat |-> again(t)]]
            Def(g) == [k \in 0..6 |-> IF k = 0 THEN total ELSE again(g[k - 1])]
<1>1. \A t \in Nat : again(t) \in Nat
  BY RecountRises
<1>2. \E g : g = Def(g)
  <2>1. /\ step \in [1..6 -> [Nat -> Nat]]
        /\ \A k \in 1..6 : \A t \in Nat : step[k][t] = again(t)
    <3>. HIDE DEF again
    <3>. QED
      BY <1>1
  <2>. HIDE DEF step, again
  <2>2. PICK f : Iterates(f, 6, Nat, total, step)
    BY <2>1, Recursion
  <2>3. f \in [0..6 -> Nat] /\ f[0] = total /\ \A k \in 1..6 : f[k] = step[k][f[k - 1]]
    BY <2>2 DEF Iterates
  <2>4. \A k \in 1..6 : f[k] = again(f[k - 1])
    <3>. TAKE k \in 1..6
    <3>1. k - 1 \in 0..6
      OBVIOUS
    <3>2. f[k - 1] \in Nat /\ f[k] = step[k][f[k - 1]]
      BY <2>3, <3>1
    <3>. QED
      BY <2>1, <3>2, Zenon
  <2>5. f = Def(f)
    BY <2>3, <2>4
  <2>. QED
    BY <2>5
<1>3. Rounds(text, limit, total) = Def(Rounds(text, limit, total))
  <2>1. Rounds(text, limit, total) = CHOOSE g : g = Def(g)
    BY DEF Rounds, Recount
  <2>. HIDE DEF Def
  <2>. QED
    BY <1>2, <2>1
<1>. DEFINE o == Rounds(text, limit, total)
<1>. SUFFICES o \in [0..6 -> Nat] /\ o[0] = total /\ \A k \in 1..6 : o[k] = again(o[k - 1])
  OBVIOUS
<1>4. o = Def(o)
  BY <1>3
<1>. HIDE DEF o, again
<1>5. o = [k \in 0..6 |-> o[k]] /\ o[0] = total /\ \A k \in 1..6 : o[k] = again(o[k - 1])
  <2>1. DOMAIN o = 0..6 /\ \A k \in 0..6 : o[k] = IF k = 0 THEN total ELSE again(o[k - 1])
    BY <1>4
  <2>2. o = [k \in 0..6 |-> o[k]]
    BY <1>4, Zenon
  <2>3. 0 \in 0..6 /\ \A k \in 1..6 : k \in 0..6 /\ k # 0
    OBVIOUS
  <2>. QED
    BY <2>1, <2>2, <2>3, Zenon
<1>6. o \in [0..6 -> Nat]
  <2>1. \A k \in 1..6 : o[k - 1] \in Nat => o[k] \in Nat
    BY <1>1, <1>5, Zenon
  <2>2. 6 \in Nat
    OBVIOUS
  <2>. QED
    BY <1>5, <2>1, <2>2, Stays
<1>. QED
  BY <1>5, <1>6

\* Six rounds are enough: as long as they change the number they take a digit from
\* it, and the largest one has six.
LEMMA RoundsConverge ==
  ASSUME NEW C, NEW text \in Seq(C), text # << >>, NEW limit \in Int,
         Estimate(text, limit) <= MaxChunks
  PROVE  LET total == Rounds(text, limit, Estimate(text, limit))[6]
         IN  total \in 1..MaxChunks /\ Recount(text, limit, total) = total
<1>. DEFINE t == Rounds(text, limit, Estimate(text, limit))
            again(x) == Recount(text, limit, x)
            d(x) == Digits(x)
<1>1. Estimate(text, limit) \in 0..MaxChunks /\ MaxChunks \in Nat
  <2>1. MaxChunks \in Nat /\ 0 \in 0..MaxChunks
    BY ChunkingAssumption
  <2>2. Estimate(text, limit) \in 0..Len(text)
    BY <2>1, EstimateIsABound
  <2>. QED
    BY <2>1, <2>2
<1>2. t \in [0..6 -> Nat] /\ t[0] = Estimate(text, limit) /\ \A k \in 1..6 : t[k] = again(t[k - 1])
  BY <1>1, RoundsDefined
<1>3. \A x \in 0..MaxChunks : again(x) \in 1..t[0]
  <2>. TAKE x \in 0..MaxChunks
  <2>1. x \in Nat /\ again(x) <= t[0]
    BY <1>1, <1>2, EstimateIsABound
  <2>2. again(x) \in 0..Len(text) /\ again(x) # 0
    BY <2>1, RecountRises
  <2>. HIDE DEF t, again
  <2>. QED
    BY SMTT(30), <1>1, <1>2, <2>1, <2>2
<1>4. \A x \in Nat, y \in Nat : x <= y => again(x) <= again(y) /\ (d(x) = d(y) => again(x) = again(y))
  BY RecountRises
<1>5. \A x \in Nat, y \in Nat : x <= y => d(x) \in Nat \ {0} /\ d(x) <= d(y)
  BY DigitsRise
<1>6. d(MaxChunks) <= 6
  BY NumberingAssumption
<1>. HIDE DEF t, again, d
<1>7. /\ t[1] = again(t[0]) /\ t[2] = again(t[1]) /\ t[3] = again(t[2])
      /\ t[4] = again(t[3]) /\ t[5] = again(t[4]) /\ t[6] = again(t[5])
  BY <1>2
<1>8. t[0] \in 0..MaxChunks
  BY <1>1, <1>2
\* The numbers only fall, and one that has as many digits as the one before it stays.
<1>9. ASSUME NEW x \in 0..MaxChunks, NEW y \in 0..MaxChunks, y <= x, y = again(x)
      PROVE  /\ again(y) \in 0..MaxChunks /\ again(y) <= y
             /\ y # 0 /\ d(x) \in Nat /\ d(y) \in Nat \ {0} /\ (again(y) # y => d(y) < d(x))
  <2>1. again(y) \in 1..t[0] /\ y \in 1..t[0]
    BY <1>3, <1>9
  <2>2. again(y) <= again(x) /\ (d(y) = d(x) => again(y) = again(x))
    BY <1>4, <1>9
  <2>3. d(y) \in Nat \ {0} /\ d(y) <= d(x) /\ d(x) \in Nat
    BY <1>5, <1>9
  <2>4. again(y) \in 0..MaxChunks /\ again(y) <= y /\ y # 0
    BY <1>1, <1>8, <1>9, <2>1, <2>2
  <2>5. again(y) # y => d(y) # d(x)
    BY <1>9, <2>2, Zenon
  <2>6. again(y) # y => d(y) < d(x)
    BY <2>3, <2>5
  <2>. QED
    BY <2>3, <2>4, <2>6
<1>10. t[1] \in 0..MaxChunks /\ t[1] <= t[0]
  <2>1. again(t[0]) \in 1..t[0]
    BY <1>3, <1>8, Zenon
  <2>. QED
    BY <1>1, <1>7, <1>8, <2>1
<1>11. /\ t[2] \in 0..MaxChunks /\ t[2] <= t[1] /\ d(t[0]) \in Nat /\ d(t[1]) \in Nat \ {0}
       /\ t[2] # t[1] => d(t[1]) < d(t[0])
  BY <1>7, <1>8, <1>9, <1>10
<1>12. /\ t[3] \in 0..MaxChunks /\ t[3] <= t[2] /\ d(t[2]) \in Nat \ {0}
       /\ t[3] # t[2] => d(t[2]) < d(t[1])
  BY <1>7, <1>9, <1>10, <1>11
<1>13. /\ t[4] \in 0..MaxChunks /\ t[4] <= t[3] /\ d(t[3]) \in Nat \ {0}
       /\ t[4] # t[3] => d(t[3]) < d(t[2])
  BY <1>7, <1>9, <1>11, <1>12
<1>14. /\ t[5] \in 0..MaxChunks /\ t[5] <= t[4] /\ d(t[4]) \in Nat \ {0}
       /\ t[5] # t[4] => d(t[4]) < d(t[3])
  BY <1>7, <1>9, <1>12, <1>13
<1>15. /\ t[6] \in 0..MaxChunks /\ t[6] <= t[5] /\ d(t[5]) \in Nat \ {0}
       /\ t[6] # t[5] => d(t[5]) < d(t[4])
  BY <1>7, <1>9, <1>13, <1>14
<1>16. /\ again(t[6]) \in 0..MaxChunks /\ t[6] # 0 /\ d(t[6]) \in Nat \ {0}
       /\ again(t[6]) # t[6] => d(t[6]) < d(t[5])
  BY SMTT(30), <1>7, <1>9, <1>14, <1>15
<1>17. d(t[0]) <= 6
  <2>1. t[0] \in Nat /\ t[0] <= MaxChunks /\ MaxChunks <= MaxChunks
    BY <1>1, <1>8
  <2>2. d(t[0]) <= d(MaxChunks) /\ d(MaxChunks) \in Nat
    <3>1. d(t[0]) <= d(MaxChunks)
      BY <1>1, <1>5, <2>1, Zenon
    <3>2. d(MaxChunks) \in Nat \ {0}
      BY <1>1, <1>5, <2>1, Zenon
    <3>. QED
      BY <3>1, <3>2
  <2>. QED
    BY <1>6, <1>11, <2>2
<1>18. again(t[6]) = t[6]
  <2>1. SUFFICES ASSUME again(t[6]) # t[6] PROVE FALSE
    OBVIOUS
  <2>2. t[6] # t[5]
    BY <1>7, <2>1
  <2>3. t[5] # t[4]
    BY <1>7, <2>2
  <2>4. t[4] # t[3]
    BY <1>7, <2>3
  <2>5. t[3] # t[2]
    BY <1>7, <2>4
  <2>6. t[2] # t[1]
    BY <1>7, <2>5
  <2>. QED
    BY SMTT(30), <1>11, <1>12, <1>13, <1>14, <1>15, <1>16, <1>17, <2>1, <2>2, <2>3, <2>4, <2>5, <2>6
<1>. QED
  BY <1>15, <1>16, <1>18 DEF t, again

-----------------------------------------------------------------------------
(* What the chunks hold.                                                   *)

LEMMA PartOf ==
  ASSUME NEW C, NEW text \in Seq(C), NEW a \in 0..Len(text), NEW b \in a..Len(text)
  PROVE  /\ SubSeq(text, a + 1, b) \in Seq(C) /\ Len(SubSeq(text, a + 1, b)) = b - a
         /\ \A i \in 1..b - a : SubSeq(text, a + 1, b)[i] = text[a + i]
<1>1. a + 1 \in 1..Len(text) + 1 /\ b \in 0..Len(text) /\ b - (a + 1) + 1 = b - a
  OBVIOUS
<1>2. ASSUME NEW i \in a + 1..b
      PROVE  text[i] \in C
  OBVIOUS
<1>3. SubSeq(text, a + 1, b) = [i \in 1..b - a |-> text[a + i]]
  <2>1. \A i \in 1..b - a : i + (a + 1) - 1 = a + i
    OBVIOUS
  <2>. QED
    BY <1>1, <2>1
<1>4. \A i \in 1..b - a : text[a + i] \in C
  BY <1>2
<1>5. b - a \in Nat
  OBVIOUS
<1>. QED
  BY <1>3, <1>4, <1>5

LEMMA PartBytes ==
  ASSUME NEW C, NEW text \in Seq(C), NEW a \in 0..Len(text), NEW b \in a..Len(text)
  PROVE  Bytes(SubSeq(text, a + 1, b)) = Offsets(text)[b] - Offsets(text)[a]
<1>. DEFINE n == Len(text)
            o == Offsets(text)
            part == SubSeq(text, a + 1, b)
            p == Offsets(part)
            P == {k \in 0..b - a : p[k] = o[a + k] - o[a]}
<1>1. n \in Nat /\ a \in 0..n /\ b \in a..n
  OBVIOUS
<1>2. part \in Seq(C) /\ Len(part) = b - a /\ \A i \in 1..b - a : part[i] = text[a + i]
  BY PartOf
<1>3. /\ o \in [0..n -> Nat]
      /\ \A i \in 1..n : o[i] = o[i - 1] + Width(text[i])
  BY OffsetsDefined
<1>4. /\ p \in [0..b - a -> Nat] /\ p[0] = 0
      /\ \A i \in 1..b - a : p[i] = p[i - 1] + Width(part[i])
  BY <1>2, OffsetsDefined
<1>5. Bytes(part) = p[b - a]
  BY <1>2 DEF Bytes
<1>. HIDE DEF n, o, p, part
<1>6. 0 \in P
  BY <1>1, <1>3, <1>4
<1>7. ASSUME NEW k \in 0..b - a - 1, k \in P
      PROVE  k + 1 \in P
  <2>1. k + 1 \in 1..b - a /\ (k + 1) - 1 = k /\ a + (k + 1) \in 1..n /\ a + (k + 1) - 1 = a + k
    BY <1>1
  <2>2. p[k + 1] = p[k] + Width(part[k + 1]) /\ part[k + 1] = text[a + (k + 1)]
    BY <1>2, <1>4, <2>1
  <2>3. o[a + (k + 1)] = o[a + k] + Width(text[a + (k + 1)])
    BY <1>3, <2>1
  <2>4. p[k] = o[a + k] - o[a]
    BY <1>7
  <2>5. o[a + k] \in Nat /\ o[a] \in Nat /\ p[k] \in Nat /\ Width(text[a + (k + 1)]) \in Nat
    <3>1. a + k \in 0..n /\ a \in 0..n /\ k \in 0..b - a
      BY <1>1
    <3>2. Width(text[a + (k + 1)]) \in Nat
      BY ChunkingAssumption DEF Width
    <3>. QED
      BY <1>3, <1>4, <3>1, <3>2
  <2>6. p[k + 1] = o[a + (k + 1)] - o[a]
    BY SMTT(30), <2>2, <2>3, <2>4, <2>5
  <2>. QED
    BY <2>1, <2>6
<1>8. 0..b - a \subseteq P
  <2>. HIDE DEF P
  <2>1. b - a \in Nat
    BY <1>1
  <2>. QED
    BY <1>6, <1>7, <2>1, Induction
<1>9. b - a \in P /\ a + (b - a) = b
  BY <1>1, <1>8
<1>. QED
  BY <1>5, <1>9 DEF part, o

LEMMA PartsJoin ==
  ASSUME NEW C, NEW text \in Seq(C), NEW a \in 0..Len(text), NEW b \in a..Len(text)
  PROVE  SubSeq(text, 1, a) \o SubSeq(text, a + 1, b) = SubSeq(text, 1, b)
<1>. DEFINE head == SubSeq(text, 1, a)
            tail == SubSeq(text, a + 1, b)
            whole == SubSeq(text, 1, b)
<1>. SUFFICES head \o tail = whole
  OBVIOUS
<1>1. head \in Seq(C) /\ Len(head) = a /\ \A i \in 1..a : head[i] = text[i]
  OBVIOUS
<1>2. tail \in Seq(C) /\ Len(tail) = b - a /\ \A i \in 1..b - a : tail[i] = text[a + i]
  BY PartOf
<1>3. whole \in Seq(C) /\ Len(whole) = b /\ \A i \in 1..b : whole[i] = text[i]
  OBVIOUS
<1>. HIDE DEF head, tail, whole
<1>4. head \o tail \in Seq(C) /\ Len(head \o tail) = b
  <2>1. a \in Nat /\ b \in Nat /\ a + (b - a) = b
    OBVIOUS
  <2>2. head \o tail \in Seq(C)
    BY <1>1, <1>2
  <2>3. Len(head \o tail) = Len(head) + Len(tail)
    <3>1. head \in Seq(C) /\ tail \in Seq(C)
      BY <1>1, <1>2
    <3>. QED
      BY <3>1
  <2>. QED
    BY <1>1, <1>2, <2>1, <2>2, <2>3
<1>5. \A i \in 1..b : (head \o tail)[i] = whole[i]
  <2>. TAKE i \in 1..b
  <2>1. CASE i \in 1..a
    BY <1>1, <1>2, <1>3, <2>1
  <2>2. CASE i \notin 1..a
    <3>1. i - a \in 1..b - a /\ a + (i - a) = i
      BY <2>2
    <3>2. (head \o tail)[i] = tail[i - a]
      BY <1>1, <1>2, <2>2, <3>1
    <3>. QED
      BY <1>2, <1>3, <3>1, <3>2
  <2>. QED
    BY <2>1, <2>2
<1>6. Len(head \o tail) = Len(whole) /\ \A i \in 1..Len(head \o tail) : (head \o tail)[i] = whole[i]
  BY <1>3, <1>4, <1>5, Zenon
<1>. QED
  BY <1>3, <1>4, <1>6, SeqEqual, Zenon

\* Bodies that follow each other from the beginning of a text to its end.
Follow(chunks, text, m, cut) ==
  /\ m \in Nat /\ cut \in [0..m -> 0..Len(text)] /\ cut[0] = 0 /\ cut[m] = Len(text)
  /\ Len(chunks) = m
  /\ \A i \in 1..m : /\ cut[i - 1] <= cut[i]
                    /\ chunks[i].body = SubSeq(text, cut[i - 1] + 1, cut[i])

LEMMA JoinedIs ==
  ASSUME NEW C, NEW text \in Seq(C), NEW m, NEW cut, NEW chunks, Follow(chunks, text, m, cut)
  PROVE  Joined(chunks) = text
<1>. DEFINE n == Len(text)
            S == Seq(C)
            body(i) == chunks[i].body
            step == [i \in 1..m |-> [s \in S |-> s \o body(i)]]
            Def(g) == [i \in 0..m |-> IF i = 0 THEN << >> ELSE g[i - 1] \o body(i)]
            joined == CHOOSE g : g = Def(g)
            P == {i \in 0..m : joined[i] = SubSeq(text, 1, cut[i])}
<1>0. /\ m \in Nat /\ cut \in [0..m -> 0..n] /\ cut[0] = 0 /\ cut[m] = n /\ Len(chunks) = m
      /\ \A i \in 1..m : cut[i - 1] <= cut[i] /\ body(i) = SubSeq(text, cut[i - 1] + 1, cut[i])
  BY DEF Follow
<1>1. Joined(chunks) = joined[m]
  BY <1>0 DEF Joined
<1>2. \A i \in 1..m : /\ i - 1 \in 0..m /\ i \in 0..m
                      /\ cut[i - 1] \in 0..n /\ cut[i] \in cut[i - 1]..n
  BY <1>0
<1>3. \A i \in 1..m : body(i) \in S
  <2>. TAKE i \in 1..m
  <2>1. cut[i - 1] \in 0..n /\ cut[i] \in cut[i - 1]..n
    BY <1>2
  <2>2. SubSeq(text, cut[i - 1] + 1, cut[i]) \in Seq(C)
    BY <2>1, PartOf
  <2>. QED
    BY <1>0, <2>2
<1>4. \E g : g = Def(g)
  <2>1. /\ step \in [1..m -> [S -> S]]
        /\ \A i \in 1..m : \A s \in S : step[i][s] = s \o body(i)
    <3>1. \A i \in 1..m : \A s \in S : s \o body(i) \in S
      BY <1>3
    <3>. HIDE DEF body, S
    <3>. QED
      BY <3>1
  <2>2. << >> \in S
    OBVIOUS
  <2>. HIDE DEF step, body, S
  <2>3. PICK f : Iterates(f, m, S, << >>, step)
    BY <1>0, <2>1, <2>2, Recursion
  <2>4. f \in [0..m -> S] /\ f[0] = << >> /\ \A i \in 1..m : f[i] = step[i][f[i - 1]]
    BY <2>3 DEF Iterates
  <2>5. \A i \in 1..m : f[i] = f[i - 1] \o body(i)
    <3>. TAKE i \in 1..m
    <3>1. f[i - 1] \in S
      BY <1>2, <2>4
    <3>. QED
      BY <2>1, <2>4, <3>1, Zenon
  <2>6. f = Def(f)
    <3>1. \A i \in 0..m : f[i] = IF i = 0 THEN << >> ELSE f[i - 1] \o body(i)
      <4>1. \A i \in 0..m : i # 0 => i \in 1..m
        OBVIOUS
      <4>. QED
        BY <2>4, <2>5, <4>1, Zenon
    <3>2. f = [i \in 0..m |-> f[i]]
      BY <2>4, Zenon
    <3>. QED
      BY <3>1, <3>2, Zenon
  <2>. QED
    BY <2>6
<1>5. joined = Def(joined)
  <2>. HIDE DEF Def
  <2>. QED
    BY <1>4
<1>. HIDE DEF joined
<1>6. joined[0] = << >> /\ \A i \in 1..m : joined[i] = joined[i - 1] \o body(i)
  <2>. HIDE DEF body
  <2>1. \A i \in 0..m : joined[i] = IF i = 0 THEN << >> ELSE joined[i - 1] \o body(i)
    BY <1>5
  <2>2. 0 \in 0..m /\ \A i \in 1..m : i \in 0..m /\ i # 0
    BY <1>0
  <2>. QED
    BY <2>1, <2>2, Zenon
<1>7. 0 \in P
  <2>1. SubSeq(text, 1, 0) = << >>
    OBVIOUS
  <2>2. joined[0] = SubSeq(text, 1, cut[0]) /\ 0 \in 0..m
    BY <1>0, <1>6, <2>1
  <2>. QED
    BY <2>2
<1>8. ASSUME NEW i \in 0..m - 1, i \in P
      PROVE  i + 1 \in P
  <2>1. i + 1 \in 1..m /\ (i + 1) - 1 = i /\ i + 1 \in 0..m
    BY <1>0
  <2>2. joined[i + 1] = joined[i] \o body(i + 1) /\ joined[i] = SubSeq(text, 1, cut[i])
    BY <1>6, <1>8, <2>1
  <2>3. body(i + 1) = SubSeq(text, cut[i] + 1, cut[i + 1])
    BY <1>0, <2>1
  <2>4. cut[i] \in 0..n /\ cut[i + 1] \in cut[i]..n
    BY <1>2, <2>1
  <2>5. SubSeq(text, 1, cut[i]) \o SubSeq(text, cut[i] + 1, cut[i + 1]) = SubSeq(text, 1, cut[i + 1])
    BY <2>4, PartsJoin
  <2>. QED
    BY <2>1, <2>2, <2>3, <2>5
<1>9. 0..m \subseteq P
  <2>. HIDE DEF P
  <2>. QED
    BY <1>0, <1>7, <1>8, Induction
<1>10. joined[m] = SubSeq(text, 1, Len(text))
  BY <1>0, <1>9
<1>11. SubSeq(text, 1, Len(text)) = text
  OBVIOUS
<1>. QED
  BY <1>1, <1>10, <1>11

\* Chunks that are the text, with their own numbers, within the limit.
AreChunks(chunks, text, limit, total) ==
  /\ Len(chunks) = total /\ DOMAIN chunks = 1..total /\ Joined(chunks) = text
  /\ \A i \in 1..total :
       /\ chunks[i].index = i /\ chunks[i].total = total
       /\ chunks[i].body # << >> /\ ChunkSize(chunks[i]) <= limit
       /\ i < total =>
            \/ Last(chunks[i].body) = "space"
            \/ \A j \in 2..Len(chunks[i].body) : chunks[i].body[j] # "space"

\* The chunks of a count that the prefixes do not change.
LEMMA NumberedIs ==
  ASSUME NEW C, NEW text \in Seq(C), text # << >>, NEW limit \in Int, Floor <= limit,
         NEW total \in 1..MaxChunks, Recount(text, limit, total) = total
  PROVE  AreChunks(Numbered(text, limit, total), text, limit, total)
<1>. DEFINE chunks == Numbered(text, limit, total)
<1>. SUFFICES AreChunks(chunks, text, limit, total)
  OBVIOUS
<1>. DEFINE n == Len(text)
            rooms == Rooms(text, limit, total)
            cut == Cuts(text, rooms)
            o == Offsets(text)
            body(i) == SubSeq(text, cut[i - 1] + 1, cut[i])
<1>1. /\ n \in Nat /\ total \in Nat /\ total >= 1 /\ total <= MaxChunks /\ MaxChunks \in Nat
      /\ MinCapacity \in Nat /\ Floor \in Nat
  BY ChunkingAssumption
<1>2. rooms \in [1..n -> Int] /\ \A i \in 1..n : rooms[i] >= MinCapacity
  BY <1>1, RoomsAre
<1>3. /\ cut \in [0..n -> 0..n] /\ cut[0] = 0 /\ cut[total] = n /\ total \in 0..n
      /\ Count(text, rooms) = total
  <2>1. Count(text, rooms) = total
    BY DEF Recount
  <2>. HIDE DEF rooms
  <2>. QED
    BY <1>2, <2>1, CutsDefined, CountIs
<1>4. ASSUME NEW i \in 1..total
      PROVE  i \in 1..n /\ cut[i - 1] \in 0..n - 1 /\ cut[i] = Cut(text, cut[i - 1], rooms[i])
  <2>. HIDE DEF rooms
  <2>. QED
    BY <1>2, <1>3, PartsAre
<1>5. chunks = [i \in 1..total |-> [index |-> i, total |-> total, body |-> body(i)]]
  BY <1>3 DEF Numbered
<1>6. DOMAIN chunks = 1..total /\ Len(chunks) = total
  <2>. HIDE DEF body
  <2>. QED
    BY <1>1, <1>5
<1>7. \A i \in 1..total : /\ chunks[i].index = i /\ chunks[i].total = total
                          /\ chunks[i].body = body(i)
  <2>. HIDE DEF body
  <2>. QED
    BY <1>5
<1>. HIDE DEF cut, rooms, o
<1>8. ASSUME NEW i \in 1..total
      PROVE  /\ cut[i] \in cut[i - 1] + 1..n /\ o[cut[i]] - o[cut[i - 1]] <= rooms[i]
             /\ \/ cut[i] = n
                \/ text[cut[i]] = "space"
                \/ \A j \in cut[i - 1] + 2..cut[i] : text[j] # "space"
  <2>1. rooms[i] \in Int /\ rooms[i] >= MinCapacity
    BY <1>2, <1>4
  <2>2. cut[i - 1] \in 0..n - 1 /\ cut[i] = Cut(text, cut[i - 1], rooms[i])
    BY <1>4
  <2>. QED
    BY <2>1, <2>2, CutFits DEF o
<1>9. ASSUME NEW i \in 1..total
       PROVE  cut[i - 1] \in 0..n /\ cut[i] \in cut[i - 1]..n /\ cut[i] \in 0..n
  <2>1. cut[i - 1] \in 0..n - 1 /\ cut[i] \in cut[i - 1] + 1..n
    BY <1>4, <1>8
  <2>. HIDE DEF n
  <2>. QED
    BY <1>1, <2>1
<1>10. Joined(chunks) = text
  <2>. DEFINE f == [i \in 0..total |-> cut[i]]
  <2>1. f \in [0..total -> 0..n] /\ \A i \in 0..total : f[i] = cut[i]
    <3>1. \A i \in 0..total : i \in 0..n
      BY <1>1, <1>3
    <3>. QED
      BY <1>3, <3>1
  <2>2. f[0] = 0 /\ f[total] = n
    BY <1>1, <1>3, <2>1
  <2>3. \A i \in 1..total : f[i - 1] <= f[i]
    <3>. TAKE i \in 1..total
    <3>1. f[i - 1] = cut[i - 1] /\ f[i] = cut[i]
      BY <1>1, <2>1
    <3>2. cut[i - 1] <= cut[i]
      BY <1>4, <1>8
    <3>. HIDE DEF f
    <3>. QED
      BY <3>1, <3>2
  <2>4. \A i \in 1..total : chunks[i].body = SubSeq(text, f[i - 1] + 1, f[i])
    <3>. TAKE i \in 1..total
    <3>1. f[i - 1] = cut[i - 1] /\ f[i] = cut[i]
      BY <1>1, <2>1
    <3>. HIDE DEF f
    <3>. QED
      BY <1>7, <3>1
  <2>. HIDE DEF f
  <2>. QED
    <3>1. Follow(chunks, text, total, f)
      BY <1>1, <1>6, <2>1, <2>2, <2>3, <2>4 DEF Follow
    <3>. QED
      BY <3>1, JoinedIs
<1>11. ASSUME NEW i \in 1..total
       PROVE  /\ body(i) \in Seq(C) /\ Len(body(i)) = cut[i] - cut[i - 1]
              /\ \A j \in 1..cut[i] - cut[i - 1] : body(i)[j] = text[cut[i - 1] + j]
              /\ Bytes(body(i)) = o[cut[i]] - o[cut[i - 1]]
  <2>1. cut[i - 1] \in 0..Len(text) /\ cut[i] \in cut[i - 1]..Len(text)
    BY <1>9
  <2>2. /\ body(i) \in Seq(C) /\ Len(body(i)) = cut[i] - cut[i - 1]
        /\ \A j \in 1..cut[i] - cut[i - 1] : body(i)[j] = text[cut[i - 1] + j]
    BY <2>1, PartOf
  <2>3. Bytes(body(i)) = o[cut[i]] - o[cut[i - 1]]
    BY <2>1, PartBytes DEF o
  <2>. QED
    BY <2>2, <2>3
<1>12. ASSUME NEW i \in 1..total
       PROVE  body(i) # << >> /\ ChunkSize(chunks[i]) <= limit
  <2>1. cut[i] - cut[i - 1] >= 1
    BY <1>4, <1>8
  <2>2. i \in Nat /\ i <= MaxChunks
    BY <1>1
  <2>3. PrefixBytes(i, total) \in Nat /\ PrefixBytes(i, total) <= PrefixBytes(MaxChunks, MaxChunks)
    BY <1>1, <2>2, PrefixRises, Zenon
  <2>4. PrefixBytes(MaxChunks, MaxChunks) \in Nat
    <3>1. MaxChunks <= MaxChunks
      BY <1>1
    <3>. QED
      BY <1>1, <3>1, PrefixRises, Zenon
  <2>5. rooms[i] = Room(limit, PrefixBytes(i, total))
    BY <1>4 DEF rooms, Rooms
  <2>6. Room(limit, PrefixBytes(i, total)) =
          IF MinCapacity >= limit - PrefixBytes(i, total) THEN MinCapacity ELSE limit - PrefixBytes(i, total)
    <3>1. PrefixBytes(i, total) \in Int
      BY <2>3
    <3>. QED
      BY <3>1, RoomIs, Zenon
  <2>7. rooms[i] <= limit - PrefixBytes(i, total)
    BY <1>1, <2>3, <2>4, <2>5, <2>6, NumberingAssumption
  <2>8. Bytes(body(i)) <= rooms[i] /\ Bytes(body(i)) \in Int
    <3>1. o \in [0..n -> Nat]
      BY OffsetsDefined DEF o
    <3>2. cut[i] \in 0..n /\ cut[i - 1] \in 0..n
      BY <1>9
    <3>3. o[cut[i]] \in Nat /\ o[cut[i - 1]] \in Nat
      BY <3>1, <3>2
    <3>. QED
      BY SMTT(30), <1>8, <1>11, <3>3
  <2>9. ChunkSize(chunks[i]) = Bytes(body(i)) + PrefixBytes(i, total)
    <3>1. chunks[i].index = i /\ chunks[i].total = total /\ chunks[i].body = body(i)
      BY <1>7
    <3>2. total # 0
      BY <1>1
    <3>. QED
      BY <3>1, <3>2 DEF ChunkSize
  <2>10. rooms[i] \in Int
    BY <1>2, <1>4
  <2>11. body(i) # << >>
    <3>1. Len(body(i)) # 0
      BY <1>11, <2>1
    <3>. HIDE DEF body
    <3>. QED
      BY <3>1
  <2>. QED
    BY <2>3, <2>7, <2>8, <2>9, <2>10, <2>11
<1>13. ASSUME NEW i \in 1..total, i < total
       PROVE  Last(body(i)) = "space" \/ \A j \in 2..Len(body(i)) : body(i)[j] # "space"
  <2>1. cut[i] # n
    <3>1. i + 1 \in 1..total /\ (i + 1) - 1 = i
      BY <1>1, <1>13
    <3>2. cut[i] \in 0..n - 1
      BY <1>4, <3>1
    <3>. QED
      BY <1>1, <3>2
  <2>2. cut[i] - cut[i - 1] \in Nat \ {0} /\ cut[i] \in Int /\ cut[i - 1] \in Int
    BY SMTT(30), <1>1, <1>4, <1>8
  <2>3. CASE text[cut[i]] = "space"
    <3>1. cut[i - 1] + (cut[i] - cut[i - 1]) = cut[i] /\ cut[i] - cut[i - 1] \in 1..cut[i] - cut[i - 1]
      BY <2>2
    <3>2. body(i)[cut[i] - cut[i - 1]] = text[cut[i]]
      BY <1>11, <3>1, Zenon
    <3>3. Last(body(i)) = body(i)[Len(body(i))]
      BY DEF Last
    <3>. HIDE DEF body
    <3>. QED
      BY <1>11, <2>3, <3>2, <3>3
  <2>4. CASE \A j \in cut[i - 1] + 2..cut[i] : text[j] # "space"
    <3>1. ASSUME NEW j \in 2..Len(body(i))
          PROVE  body(i)[j] # "space"
      <4>1. Len(body(i)) = cut[i] - cut[i - 1]
        BY <1>11
      <4>2. j \in 1..cut[i] - cut[i - 1] /\ cut[i - 1] + j \in cut[i - 1] + 2..cut[i]
        <5>1. cut[i] \in Int /\ cut[i - 1] \in Int /\ j \in 2..cut[i] - cut[i - 1]
          BY <2>2, <4>1
        <5>. QED
          BY <5>1, Shifted
      <4>3. body(i)[j] = text[cut[i - 1] + j]
        BY <1>11, <4>2
      <4>. HIDE DEF body
      <4>. QED
        BY <2>4, <4>2, <4>3
    <3>. QED
      BY <3>1
  <2>. QED
    BY <1>8, <2>1, <2>3, <2>4
<1>. HIDE DEF body, chunks
<1>. QED
  BY <1>6, <1>7, <1>10, <1>12, <1>13 DEF AreChunks

LEMMA ChunkBytesIs ==
  ASSUME NEW setting, setting \in Int \cup {None}
  PROVE  ChunkBytes(setting) \in Floor..Ceiling
<1>1. Floor \in Nat /\ Default \in Nat /\ Ceiling \in Nat /\ Floor <= Default /\ Default <= Ceiling
  BY ChunkingAssumption
<1>2. CASE setting = None
  BY <1>1, <1>2 DEF ChunkBytes
<1>3. CASE setting # None
  <2>1. Max({setting, Floor}) = (IF setting >= Floor THEN setting ELSE Floor)
    BY <1>1, <1>3, MaxOfTwo
  <2>2. Max({setting, Floor}) \in Int /\ Max({setting, Floor}) >= Floor
    BY <1>1, <1>3, <2>1
  <2>3. Min({Max({setting, Floor}), Ceiling}) =
          (IF Max({setting, Floor}) <= Ceiling THEN Max({setting, Floor}) ELSE Ceiling)
    BY <1>1, <2>2, MaxOfTwo
  <2>4. ChunkBytes(setting) = Min({Max({setting, Floor}), Ceiling})
    BY <1>3 DEF ChunkBytes
  <2>. QED
    BY <1>1, <2>2, <2>3, <2>4
<1>. QED
  BY <1>2, <1>3

\* What ChunksRight says of a text and a setting.
ChunkedRight(text, setting) ==
  LET limit == ChunkBytes(setting)
      result == ChunkMessage(text, setting)
      chunks == result.chunks
  IN  /\ limit \in Floor..Ceiling
      /\ ~result.tooLong => Joined(chunks) = IF Blank(text) THEN << >> ELSE text
      /\ Len(chunks) <= MaxChunks
      /\ \A i \in DOMAIN chunks :
           /\ chunks[i].body # << >> /\ ChunkSize(chunks[i]) <= limit
           /\ Len(chunks) > 1 => chunks[i].index = i /\ chunks[i].total = Len(chunks)
           /\ i < Len(chunks) =>
                \/ Last(chunks[i].body) = "space"
                \/ \A j \in 2..Len(chunks[i].body) : chunks[i].body[j] # "space"

LEMMA JoinedNone == Joined(<< >>) = << >>
<1>1. << >> \in Seq(Int) /\ [i \in 0..0 |-> 0] \in [0..0 -> 0..Len(<< >>)]
  OBVIOUS
<1>. DEFINE cut == [i \in 0..0 |-> 0]
<1>2. cut[0] = 0 /\ cut[0] = Len(<< >>) /\ Len(<< >>) = 0 /\ 0 \in Nat
  OBVIOUS
<1>3. \A i \in 1..0 : cut[i - 1] <= cut[i] /\ << >>[i].body = SubSeq(<< >>, cut[i - 1] + 1, cut[i])
  OBVIOUS
<1>. HIDE DEF cut
<1>4. cut \in [0..0 -> 0..Len(<< >>)]
  BY <1>1 DEF cut
<1>. QED
  BY <1>1, <1>2, <1>3, <1>4, JoinedIs DEF Follow

LEMMA JoinedOne ==
  ASSUME NEW C, NEW text \in Seq(C), NEW chunk, chunk.body = text
  PROVE  Joined(<<chunk>>) = text
<1>. DEFINE n == Len(text)
            cut == [i \in 0..1 |-> IF i = 0 THEN 0 ELSE n]
            chunks == <<chunk>>
<1>1. n \in Nat
  OBVIOUS
<1>2. Len(chunks) = 1 /\ chunks[1].body = text
  OBVIOUS
<1>3. cut \in [0..1 -> 0..n] /\ cut[0] = 0 /\ cut[1] = n
  BY <1>1
<1>4. SubSeq(text, 1, n) = text
  OBVIOUS
<1>. HIDE DEF cut, n, chunks
<1>5. /\ \A i \in 1..1 : cut[i - 1] <= cut[i]
      /\ \A i \in 1..1 : chunks[i].body = SubSeq(text, cut[i - 1] + 1, cut[i])
  <2>1. \A i \in 1..1 : i = 1 /\ i - 1 = 0 /\ 0 + 1 = 1
    OBVIOUS
  <2>. QED
    BY <1>1, <1>2, <1>3, <1>4, <2>1
<1>6. cut \in [0..1 -> 0..Len(text)] /\ cut[0] = 0 /\ cut[1] = Len(text) /\ 1 \in Nat
  BY <1>3 DEF n
<1>7. Follow(chunks, text, 1, cut)
  BY <1>2, <1>5, <1>6 DEF Follow
<1>8. Joined(chunks) = text
  BY <1>7, JoinedIs
<1>. QED
  BY <1>8 DEF chunks

\* Of every text and with every setting.
LEMMA ChunkMessageRight ==
  ASSUME NEW C, NEW text \in Seq(C), NEW setting, setting \in Int \cup {None}
  PROVE  ChunkedRight(text, setting)
<1>. DEFINE limit == ChunkBytes(setting)
            result == ChunkMessage(text, setting)
            chunks == result.chunks
            whole == [index |-> 0, total |-> 0, body |-> text]
<1>1. limit \in Floor..Ceiling /\ limit \in Int /\ Floor <= limit /\ MaxChunks \in Nat /\ MaxChunks >= 1
  BY ChunkBytesIs, ChunkingAssumption
<1>2. CASE Blank(text)
  <2>1. result.tooLong = FALSE /\ chunks = << >>
    BY <1>2 DEF ChunkMessage
  <2>2. Len(chunks) = 0 /\ DOMAIN chunks = {}
    BY <2>1
  <2>. HIDE DEF result
  <2>. QED
    BY <1>1, <1>2, <2>1, <2>2, JoinedNone DEF ChunkedRight, result
<1>3. CASE ~Blank(text) /\ Bytes(text) <= limit
  <2>1. result.tooLong = FALSE /\ chunks = <<whole>>
    BY <1>3 DEF ChunkMessage
  <2>2. whole.body = text /\ whole.total = 0 /\ text # << >>
    BY <1>3 DEF Blank
  <2>3. Joined(<<whole>>) = text
    <3>. HIDE DEF whole
    <3>. QED
      BY <2>2, JoinedOne
  <2>4. Bytes(text) \in Int
    <3>1. Offsets(text) \in [0..Len(text) -> Nat] /\ Len(text) \in 0..Len(text)
      BY OffsetsDefined
    <3>. QED
      BY <3>1 DEF Bytes
  <2>5. ChunkSize(whole) <= limit
    <3>. HIDE DEF whole, limit
    <3>. QED
      BY <1>3, <2>2, <2>4 DEF ChunkSize
  <2>6. Len(chunks) = 1 /\ DOMAIN chunks = {1} /\ chunks[1] = whole
    <3>. HIDE DEF whole, result
    <3>. QED
      BY <2>1
  <2>7. /\ Joined(chunks) = text /\ Len(chunks) <= MaxChunks
        /\ \A i \in DOMAIN chunks :
             /\ chunks[i].body # << >> /\ ChunkSize(chunks[i]) <= limit
             /\ ~(Len(chunks) > 1) /\ ~(i < Len(chunks))
    <3>. HIDE DEF whole, result, limit
    <3>. QED
      BY <1>1, <2>1, <2>2, <2>3, <2>5, <2>6
  <2>. HIDE DEF whole
  <2>. QED
    BY <1>1, <1>3, <2>1, <2>7 DEF ChunkedRight
<1>4. CASE ~Blank(text) /\ ~(Bytes(text) <= limit) /\ Estimate(text, limit) > MaxChunks
  <2>1. result.tooLong = TRUE /\ chunks = << >>
    BY <1>4 DEF ChunkMessage
  <2>2. Len(chunks) = 0 /\ DOMAIN chunks = {}
    BY <2>1
  <2>. HIDE DEF result
  <2>. QED
    BY <1>1, <2>1, <2>2 DEF ChunkedRight, result
<1>5. CASE ~Blank(text) /\ ~(Bytes(text) <= limit) /\ ~(Estimate(text, limit) > MaxChunks)
  <2>. DEFINE total == Rounds(text, limit, Estimate(text, limit))[6]
  <2>1. result.tooLong = FALSE /\ chunks = Numbered(text, limit, total)
    BY <1>5 DEF ChunkMessage, Renumbered
  <2>2. text # << >>
    BY <1>5 DEF Blank
  <2>3. Estimate(text, limit) <= MaxChunks
    <3>1. [i \in 1..Len(text) |-> Room(limit, PrefixBudget)] \in [1..Len(text) -> Int]
      BY <1>1, RoomIs, ChunkingAssumption
    <3>2. Estimate(text, limit) \in Nat
      BY <3>1, CountIs DEF Estimate
    <3>. QED
      BY <1>1, <1>5, <3>2
  <2>4. total \in 1..MaxChunks /\ Recount(text, limit, total) = total
    BY <1>1, <2>2, <2>3, RoundsConverge
  <2>. HIDE DEF result, total, limit
  <2>5. AreChunks(chunks, text, limit, total)
    BY <1>1, <2>1, <2>2, <2>4, NumberedIs
  <2>6. Len(chunks) <= MaxChunks
    BY <1>1, <2>4, <2>5 DEF AreChunks
  <2>. QED
    BY <1>1, <1>5, <2>1, <2>5, <2>6, Zenon DEF ChunkedRight, AreChunks, result, limit
<1>. QED
  BY <1>2, <1>3, <1>4, <1>5

-----------------------------------------------------------------------------
(* The interface that a message goes out on.                               *)

\* The interfaces that the walk has found after each step.
Walks(w, n, dest, ifaces) ==
  /\ w \in [0..n -> [keyed : Nat, keyless : Nat]]
  /\ w[0] = [keyed |-> 0, keyless |-> 0] /\ Walk(dest, ifaces) = w[n]
  /\ \A i \in 1..n :
       w[i] = IF w[i - 1].keyed # 0 \/ ~Knows(ifaces[i], dest) THEN w[i - 1]
              ELSE IF Keyed(ifaces[i], dest) THEN [w[i - 1] EXCEPT !.keyed = i]
              ELSE [w[i - 1] EXCEPT !.keyless = IF @ = 0 THEN i ELSE @]

LEMMA WalkDefined ==
  ASSUME NEW n \in Nat, NEW dest, NEW ifaces, Len(ifaces) = n
  PROVE  \E w : Walks(w, n, dest, ifaces)
<1>. DEFINE S == [keyed : Nat, keyless : Nat]
            next(before, i) ==
              IF before.keyed # 0 \/ ~Knows(ifaces[i], dest) THEN before
              ELSE IF Keyed(ifaces[i], dest) THEN [before EXCEPT !.keyed = i]
              ELSE [before EXCEPT !.keyless = IF @ = 0 THEN i ELSE @]
            none == [keyed |-> 0, keyless |-> 0]
            step == [i \in 1..n |-> [s \in S |-> next(s, i)]]
            Def(g) == [i \in 0..n |-> IF i = 0 THEN none ELSE next(g[i - 1], i)]
            w == CHOOSE g : g = Def(g)
<1>1. \A i \in 1..n : \A s \in S : next(s, i) \in S
  OBVIOUS
<1>2. Walk(dest, ifaces) = w[n]
  BY DEF Walk
<1>3. \E g : g = Def(g)
  <2>1. none \in S
    OBVIOUS
  <2>. HIDE DEF next, none, S
  <2>2. /\ step \in [1..n -> [S -> S]]
        /\ \A i \in 1..n : \A s \in S : step[i][s] = next(s, i)
    BY <1>1
  <2>. HIDE DEF step
  <2>3. PICK f : Iterates(f, n, S, none, step)
    BY <2>1, <2>2, Recursion
  <2>4. f \in [0..n -> S] /\ f[0] = none /\ \A i \in 1..n : f[i] = step[i][f[i - 1]]
    BY <2>3 DEF Iterates
  <2>5. \A i \in 1..n : f[i] = next(f[i - 1], i)
    <3>. TAKE i \in 1..n
    <3>1. i - 1 \in 0..n
      OBVIOUS
    <3>2. f[i - 1] \in S /\ f[i] = step[i][f[i - 1]]
      BY <2>4, <3>1
    <3>. QED
      BY <2>2, <3>2, Zenon
  <2>6. f = Def(f)
    <3>1. \A i \in 0..n : f[i] = IF i = 0 THEN none ELSE next(f[i - 1], i)
      <4>1. \A i \in 0..n : i # 0 => i \in 1..n
        OBVIOUS
      <4>. QED
        BY <2>4, <2>5, <4>1, Zenon
    <3>2. f = [i \in 0..n |-> f[i]]
      BY <2>4, Zenon
    <3>. QED
      BY <3>1, <3>2, Zenon
  <2>. QED
    BY <2>6
<1>4. w = Def(w)
  <2>. HIDE DEF Def
  <2>. QED
    BY <1>3
<1>. HIDE DEF w
<1>5. w = [i \in 0..n |-> w[i]] /\ w[0] = none /\ \A i \in 1..n : w[i] = next(w[i - 1], i)
  <2>. HIDE DEF next, none
  <2>1. DOMAIN w = 0..n /\ \A i \in 0..n : w[i] = IF i = 0 THEN none ELSE next(w[i - 1], i)
    BY <1>4
  <2>2. w = [i \in 0..n |-> w[i]]
    BY <1>4, Zenon
  <2>3. 0 \in 0..n /\ \A i \in 1..n : i \in 0..n /\ i # 0
    OBVIOUS
  <2>. QED
    BY <2>1, <2>2, <2>3, Zenon
<1>6. w \in [0..n -> S]
  <2>1. none \in S
    OBVIOUS
  <2>. HIDE DEF next, none, S
  <2>2. \A i \in 1..n : w[i - 1] \in S => w[i] \in S
    BY <1>1, <1>5, Zenon
  <2>. QED
    BY <1>5, <2>1, <2>2, Stays
<1>7. Walks(w, n, dest, ifaces)
  BY <1>2, <1>5, <1>6 DEF Walks
<1>. QED
  BY <1>7

\* The walk finds the first interface that has the key, and, if none has, one that
\* knows the node.
LEMMA WalkIs ==
  ASSUME NEW n \in Nat, NEW dest, NEW ifaces, Len(ifaces) = n
  PROVE  LET end == Walk(dest, ifaces)
         IN  /\ end.keyed \in 0..n
             /\ end.keyed = 0 => \A j \in 1..n : ~Keyed(ifaces[j], dest)
             /\ end.keyed # 0 => /\ Keyed(ifaces[end.keyed], dest)
                                 /\ \A j \in 1..end.keyed - 1 : ~Keyed(ifaces[j], dest)
             /\ end.keyless \in 0..n
             /\ end.keyless # 0 => Knows(ifaces[end.keyless], dest)
             /\ end.keyed = 0 /\ end.keyless = 0 => \A j \in 1..n : ~Knows(ifaces[j], dest)
<1>. DEFINE knows(j) == Knows(ifaces[j], dest)
            keyed(j) == Keyed(ifaces[j], dest)
            Found(e, i) ==
              /\ e.keyed \in 0..i
              /\ e.keyed = 0 => \A j \in 1..i : ~keyed(j)
              /\ e.keyed # 0 => keyed(e.keyed) /\ \A j \in 1..e.keyed - 1 : ~keyed(j)
              /\ e.keyless \in 0..i
              /\ e.keyless # 0 => knows(e.keyless)
              /\ e.keyed = 0 /\ e.keyless = 0 => \A j \in 1..i : ~knows(j)
<1>1. PICK w : Walks(w, n, dest, ifaces)
  BY WalkDefined
<1>2. \A j : keyed(j) => knows(j)
  BY DEF Keyed
<1>. DEFINE P == {i \in 0..n : Found(w[i], i)}
<1>3. /\ w \in [0..n -> [keyed : Nat, keyless : Nat]]
      /\ w[0] = [keyed |-> 0, keyless |-> 0] /\ Walk(dest, ifaces) = w[n]
      /\ \A i \in 1..n :
           w[i] = IF w[i - 1].keyed # 0 \/ ~knows(i) THEN w[i - 1]
                  ELSE IF keyed(i) THEN [w[i - 1] EXCEPT !.keyed = i]
                  ELSE [w[i - 1] EXCEPT !.keyless = IF @ = 0 THEN i ELSE @]
  BY <1>1, Zenon DEF Walks
<1>. HIDE DEF knows, keyed
<1>4. 0 \in P
  BY <1>3
<1>5. ASSUME NEW k \in 0..n - 1, k \in P
      PROVE  k + 1 \in P
  <2>. DEFINE i == k + 1
              before == w[k]
  <2>1. i \in 1..n /\ i - 1 = k /\ i \in 0..n /\ k \in 0..n /\ k < i /\ 0..k \subseteq 0..i
    OBVIOUS
  <2>2. before \in [keyed : Nat, keyless : Nat] /\ Found(before, k)
    BY <1>3, <1>5, <2>1
  <2>3. w[i] = IF before.keyed # 0 \/ ~knows(i) THEN before
               ELSE IF keyed(i) THEN [before EXCEPT !.keyed = i]
               ELSE [before EXCEPT !.keyless = IF @ = 0 THEN i ELSE @]
    BY <1>3, <2>1
  <2>4. \A j \in 1..i : j \in 1..k \/ j = i
    BY <2>1
  <2>. HIDE DEF before, i
  <2>5. CASE before.keyed # 0
    <3>1. w[i] = before
      BY <2>3, <2>5
    <3>2. Found(before, i)
      BY <2>1, <2>2, <2>5
    <3>. QED
      BY <2>1, <3>1, <3>2 DEF i
  <2>6. CASE before.keyed = 0 /\ ~knows(i)
    <3>1. w[i] = before
      BY <2>3, <2>6
    <3>2. Found(before, i)
      BY <1>2, <2>1, <2>2, <2>4, <2>6
    <3>. QED
      BY <2>1, <3>1, <3>2 DEF i
  <2>7. CASE before.keyed = 0 /\ knows(i) /\ keyed(i)
    <3>1. w[i] = [before EXCEPT !.keyed = i]
      BY <2>3, <2>7
    <3>2. w[i].keyed = i /\ w[i].keyless = before.keyless
      BY <2>2, <3>1
    <3>3. \A j \in 1..i - 1 : ~keyed(j)
      BY <2>1, <2>2, <2>7
    <3>4. i # 0 /\ before.keyless \in 0..i /\ i \in 0..i
      BY <2>1, <2>2
    <3>5. Found(w[i], i)
      BY <2>2, <2>7, <3>2, <3>3, <3>4
    <3>. QED
      BY <2>1, <3>5 DEF i
  <2>8. CASE before.keyed = 0 /\ knows(i) /\ ~keyed(i)
    <3>1. w[i] = [before EXCEPT !.keyless = IF @ = 0 THEN i ELSE @]
      BY <2>3, <2>8
    <3>2. w[i].keyed = 0 /\ w[i].keyless = IF before.keyless = 0 THEN i ELSE before.keyless
      BY <2>2, <2>8, <3>1
    <3>3. \A j \in 1..i : ~keyed(j)
      BY <2>2, <2>4, <2>8
    <3>4. w[i].keyless \in 0..i /\ w[i].keyless # 0 /\ knows(w[i].keyless)
      BY <2>1, <2>2, <2>8, <3>2
    <3>5. Found(w[i], i)
      <4>1. 0 \in 0..i
        BY <2>1
      <4>. QED
        BY <3>2, <3>3, <3>4, <4>1
    <3>. QED
      BY <2>1, <3>5 DEF i
  <2>. QED
    BY <2>5, <2>6, <2>7, <2>8 DEF i
<1>6. 0..n \subseteq P
  <2>. HIDE DEF P
  <2>. QED
    BY <1>4, <1>5, Induction
<1>7. Found(w[n], n)
  BY <1>6
<1>. QED
  BY <1>3, <1>7 DEF knows, keyed

\* What TargetsRight says of a direct message.
DmRight(dest, ifaces) ==
  LET target == DmSendTarget(dest, ifaces)
      knowing == {i \in DOMAIN ifaces : Knows(ifaces[i], dest)}
      entry(i) == ResolveDmNode(dest, ifaces[i].nodes)
      keyed == {i \in knowing : entry(i).info = "keyed"}
  IN  /\ target.sendable <=> (knowing # {} => keyed # {})
      /\ keyed # {} => target.iface = Min(keyed)
      /\ knowing = {} => target.iface = 1
      /\ dest.form = "hex" => \A i \in knowing : OwnEntry(ifaces[i].nodes, dest, entry(i))

LEMMA MinIs ==
  ASSUME NEW T, T \subseteq Nat, NEW n \in T, \A m \in T : n <= m
  PROVE  Min(T) = n
<1>1. Min(T) \in T /\ \A m \in T : Min(T) <= m
  BY Least
<1>2. Min(T) <= n /\ n <= Min(T) /\ Min(T) \in Nat /\ n \in Nat
  BY <1>1
<1>. QED
  BY <1>2

LEMMA DmTargetRight ==
  ASSUME NEW n \in Nat, NEW dest, NEW ifaces, Len(ifaces) = n, DOMAIN ifaces = 1..n,
         \A i \in 1..n : DOMAIN ifaces[i].nodes \subseteq Nat
  PROVE  DmRight(dest, ifaces)
<1>. DEFINE target == DmSendTarget(dest, ifaces)
            knowing == {i \in DOMAIN ifaces : Knows(ifaces[i], dest)}
            entry(i) == ResolveDmNode(dest, ifaces[i].nodes)
            keyed == {i \in knowing : entry(i).info = "keyed"}
            end == Walk(dest, ifaces)
            knows(j) == Knows(ifaces[j], dest)
            hasKey(j) == Keyed(ifaces[j], dest)
<1>1. knowing = {i \in 1..n : knows(i)} /\ keyed = {i \in 1..n : hasKey(i)}
  BY DEF Keyed
<1>2. /\ end.keyed \in 0..n
      /\ end.keyed = 0 => \A j \in 1..n : ~hasKey(j)
      /\ end.keyed # 0 => hasKey(end.keyed) /\ \A j \in 1..end.keyed - 1 : ~hasKey(j)
      /\ end.keyless \in 0..n
      /\ end.keyless # 0 => knows(end.keyless)
      /\ end.keyed = 0 /\ end.keyless = 0 => \A j \in 1..n : ~knows(j)
  BY WalkIs
<1>3. target = IF end.keyed # 0 THEN [iface |-> end.keyed, sendable |-> TRUE]
               ELSE IF end.keyless # 0 THEN [iface |-> end.keyless, sendable |-> FALSE]
               ELSE [iface |-> 1, sendable |-> TRUE]
  BY DEF DmSendTarget
<1>4. \A j : hasKey(j) => knows(j)
  BY DEF Keyed
<1>5. ASSUME dest.form = "hex", NEW i \in knowing
      PROVE  OwnEntry(ifaces[i].nodes, dest, entry(i))
  <2>. DEFINE nodes == ifaces[i].nodes
              exact == {k \in DOMAIN nodes : nodes[k].node = dest.node /\ nodes[k].form = dest.form}
              alike == {k \in DOMAIN nodes : SameId(nodes[k], dest)}
  <2>1. DOMAIN nodes \subseteq Nat /\ entry(i) # None
    BY <1>5 DEF Knows
  <2>2. entry(i) = IF exact # {} THEN nodes[Min(exact)] ELSE IF alike # {} THEN nodes[Min(alike)] ELSE None
    BY DEF ResolveDmNode
  <2>3. CASE exact # {}
    <3>1. Min(exact) \in exact
      <4>1. exact \subseteq Nat
        BY <2>1
      <4>. HIDE DEF exact
      <4>. QED
        BY <2>3, <4>1, Least
    <3>2. nodes[Min(exact)].node = dest.node /\ nodes[Min(exact)].form = "hex"
      BY <1>5, <3>1
    <3>. QED
      BY <2>2, <2>3, <3>2 DEF OwnEntry
  <2>4. CASE exact = {}
    <3>1. alike # {}
      BY <2>1, <2>2, <2>4
    <3>2. Min(alike) \in alike
      <4>1. alike \subseteq Nat
        BY <2>1
      <4>. HIDE DEF alike
      <4>. QED
        BY <3>1, <4>1, Least
    <3>3. Min(alike) \notin exact /\ Min(alike) \in DOMAIN nodes /\ SameId(nodes[Min(alike)], dest)
      BY <2>4, <3>2
    <3>4. nodes[Min(alike)].form = "decimal" /\ Reads[nodes[Min(alike)].node] = dest.node
      BY <1>5, <3>3 DEF SameId
    <3>5. \A e \in ToSet(nodes) : ~(e.node = dest.node /\ e.form = "hex")
      BY <1>5, <2>4 DEF ToSet
    <3>. QED
      BY <2>2, <2>4, <3>1, <3>4, <3>5 DEF OwnEntry
  <2>. QED
    BY <2>3, <2>4
<1>. HIDE DEF knows, hasKey, end, target, keyed, knowing
<1>6. keyed # {} => end.keyed # 0
  BY <1>1, <1>2
<1>7. keyed # {} => target.iface = Min(keyed)
  <2>1. SUFFICES ASSUME keyed # {} PROVE target.iface = Min(keyed)
    OBVIOUS
  <2>2. end.keyed \in 1..n /\ end.keyed \in keyed
    BY <1>1, <1>2, <1>6, <2>1
  <2>3. keyed \subseteq Nat
    BY <1>1
  <2>4. \A m \in keyed : end.keyed <= m
    <3>1. SUFFICES ASSUME NEW m \in keyed, ~(end.keyed <= m) PROVE FALSE
      OBVIOUS
    <3>2. m \in 1..end.keyed - 1 /\ hasKey(m)
      BY <1>1, <2>2, <3>1
    <3>. QED
      BY <1>2, <2>2, <3>2
  <2>5. Min(keyed) = end.keyed
    BY <2>2, <2>3, <2>4, MinIs
  <2>6. target.iface = end.keyed
    BY <1>3, <2>2
  <2>. QED
    BY <2>5, <2>6
<1>8. knowing = {} => target.iface = 1
  <2>1. SUFFICES ASSUME knowing = {} PROVE target.iface = 1
    OBVIOUS
  <2>2. \A j \in 1..n : ~knows(j)
    BY <1>1, <2>1
  <2>3. end.keyed = 0 /\ end.keyless = 0
    <3>1. end.keyed # 0 => end.keyed \in 1..n /\ knows(end.keyed)
      BY <1>2, <1>4
    <3>2. end.keyless # 0 => end.keyless \in 1..n /\ knows(end.keyless)
      BY <1>2
    <3>. QED
      BY <2>2, <3>1, <3>2
  <2>. QED
    BY <1>3, <2>3
<1>9. target.sendable <=> (knowing # {} => keyed # {})
  <2>1. CASE end.keyed # 0
    <3>1. keyed # {} /\ target.sendable = TRUE
      BY <1>1, <1>2, <1>3, <2>1
    <3>. QED
      BY <3>1
  <2>2. CASE end.keyed = 0 /\ end.keyless # 0
    <3>1. keyed = {} /\ target.sendable = FALSE
      BY <1>1, <1>2, <1>3, <2>2
    <3>2. end.keyless \in knowing
      BY <1>1, <1>2, <2>2
    <3>. QED
      BY <3>1, <3>2
  <2>3. CASE end.keyed = 0 /\ end.keyless = 0
    <3>1. knowing = {} /\ target.sendable = TRUE
      BY <1>1, <1>2, <1>3, <2>3
    <3>. QED
      BY <3>1
  <2>. QED
    BY <2>1, <2>2, <2>3
<1>. QED
  BY <1>5, <1>7, <1>8, <1>9 DEF DmRight, target, keyed, knowing

\* What TargetsRight says of a channel message.
ChannelRight(spec, ifaces) ==
  LET target == ChannelSendTarget(spec, ifaces)
      tabled == {i \in DOMAIN ifaces : ifaces[i].channels # None}
      named(i) == {ch \in ToSet(ifaces[i].channels) :
                     IF spec.index # None THEN ch.index = spec.index ELSE ch.name = spec.name}
  IN  /\ target.iface = None <=> tabled # {} /\ \A i \in tabled : named(i) = {}
      /\ target.iface # None /\ tabled # {} =>
           /\ \E ch \in named(target.iface) : ch.index \in {target.channel, None}
           /\ \A i \in tabled : i < target.iface => named(i) = {}

LEMMA ChannelTargetRight ==
  ASSUME NEW n \in Nat, NEW spec, NEW ifaces, DOMAIN ifaces = 1..n,
         \A i \in 1..n : ifaces[i].channels # None => DOMAIN ifaces[i].channels \subseteq Nat
  PROVE  ChannelRight(spec, ifaces)
<1>. DEFINE target == ChannelSendTarget(spec, ifaces)
            tabled == {i \in DOMAIN ifaces : ifaces[i].channels # None}
            table(i) == ifaces[i].channels
            named(i) == {ch \in ToSet(ifaces[i].channels) :
                           IF spec.index # None THEN ch.index = spec.index ELSE ch.name = spec.name}
            owners == {i \in tabled : named(i) # {}}
<1>1. tabled = Tabled(ifaces) /\ tabled \subseteq 1..n /\ None \notin Nat
  BY AlgorithmsAssumption DEF Tabled
<1>2. owners # {} => /\ Min(owners) \in owners /\ Min(owners) \in Nat
                     /\ \A i \in tabled : i < Min(owners) => named(i) = {}
  <2>1. owners \subseteq Nat
    BY <1>1
  <2>2. owners # {} => Min(owners) \in owners /\ \A m \in owners : Min(owners) <= m
    <3>. HIDE DEF owners
    <3>. QED
      BY <2>1, Least
  <2>3. ASSUME owners # {}, NEW i \in tabled, i < Min(owners)
        PROVE  named(i) = {}
    <3>1. i \in Nat /\ Min(owners) \in Nat /\ ~(Min(owners) <= i)
      BY <1>1, <2>1, <2>2, <2>3
    <3>2. i \notin owners
      BY <2>2, <2>3, <3>1
    <3>. QED
      BY <2>3, <3>2
  <2>. HIDE DEF owners, named, tabled
  <2>. QED
    BY <2>1, <2>2, <2>3
\* Either there is no table at all, or no table has it, or the first that has it is
\* the interface's.
<1>3. \/ tabled = {} /\ target.iface = 1
      \/ tabled # {} /\ owners = {} /\ target.iface = None
      \/ /\ owners # {} /\ target.iface = Min(owners)
         /\ \E ch \in named(Min(owners)) : ch.index \in {target.channel, None}
  <2>1. CASE spec.index # None
    <3>1. target = NumericTarget(ifaces, spec.index)
      BY <2>1 DEF ChannelSendTarget
    <3>2. owners = Owners(ifaces, spec.index)
      BY <1>1, <2>1 DEF Owners
    <3>3. CASE tabled = {}
      BY <1>1, <3>1, <3>3 DEF NumericTarget
    <3>4. CASE tabled # {} /\ owners = {}
      BY <1>1, <3>1, <3>2, <3>4 DEF NumericTarget, Reject
    <3>5. CASE owners # {}
      <4>1. target = [channel |-> spec.index, iface |-> Min(owners)]
        <5>1. tabled # {}
          BY <3>5
        <5>. HIDE DEF owners, tabled
        <5>. QED
          BY <1>1, <3>1, <3>2, <3>5, <5>1 DEF NumericTarget
      <4>2. PICK ch \in named(Min(owners)) : TRUE
        BY <1>2, <3>5
      <4>3. ch.index = spec.index
        BY <2>1
      <4>. HIDE DEF owners, named, tabled, target
      <4>. QED
        BY <3>5, <4>1, <4>2, <4>3
    <3>. QED
      BY <3>3, <3>4, <3>5
  <2>2. CASE spec.index = None
    <3>. DEFINE first == table(Min(owners))
                here == Named(first, spec.name)
    <3>1. target = NamedTarget(ifaces, spec.name)
      BY <2>2 DEF ChannelSendTarget
    <3>2. \A i : named(i) # {} <=> Named(table(i), spec.name) # {}
      BY <2>2 DEF Named, ToSet
    <3>3. owners = {i \in Tabled(ifaces) : Named(ifaces[i].channels, spec.name) # {}}
      BY <1>1, <3>2
    <3>4. target = CASE Tabled(ifaces) = {} -> [channel |-> 0, iface |-> 1]
                     [] Tabled(ifaces) # {} /\ owners = {} -> Reject
                     [] OTHER -> [channel |-> Index(first[Min(here)]), iface |-> Min(owners)]
      BY <3>1, <3>3, Zenon DEF NamedTarget
    <3>5. CASE tabled = {}
      <4>1. target = [channel |-> 0, iface |-> 1]
        <5>. HIDE DEF target, owners
        <5>. QED
          BY <1>1, <3>4, <3>5
      <4>. QED
        BY <3>5, <4>1
    <3>6. CASE tabled # {} /\ owners = {}
      <4>1. target = Reject
        <5>. HIDE DEF target, owners
        <5>. QED
          BY <1>1, <3>4, <3>6
      <4>. QED
        BY <3>6, <4>1 DEF Reject
    <3>7. CASE owners # {}
      <4>1. tabled # {}
        BY <3>7
      <4>2. target = [channel |-> Index(first[Min(here)]), iface |-> Min(owners)]
        <5>. HIDE DEF target, owners, tabled, first, here
        <5>. QED
          BY <1>1, <3>4, <3>7, <4>1
      <4>3. Min(owners) \in 1..n /\ first # None /\ here # {} /\ here \subseteq Nat
        <5>1. Min(owners) \in owners
          BY <1>2, <3>7
        <5>2. Min(owners) \in 1..n /\ first # None /\ named(Min(owners)) # {}
          BY <1>1, <5>1
        <5>3. DOMAIN first \subseteq Nat
          BY <5>2
        <5>. QED
          BY <3>2, <5>2, <5>3 DEF Named
      <4>4. Min(here) \in here
        <5>. HIDE DEF here
        <5>. QED
          BY <4>3, Least
      <4>5. first[Min(here)] \in named(Min(owners))
        BY <2>2, <4>4 DEF Named, ToSet
      <4>6. first[Min(here)].index \in {Index(first[Min(here)]), None}
        BY DEF Index
      <4>. HIDE DEF owners, named, tabled, target, first, here
      <4>. QED
        BY <3>7, <4>2, <4>5, <4>6
    <3>. QED
      BY <3>5, <3>6, <3>7
  <2>. QED
    BY <2>1, <2>2
<1>4. 1 # None /\ (owners # {} => Min(owners) # None)
  BY <1>1, <1>2
<1>5. target.iface = None <=> tabled # {} /\ \A i \in tabled : named(i) = {}
  <2>1. owners = {} <=> \A i \in tabled : named(i) = {}
    OBVIOUS
  <2>2. owners # {} => tabled # {}
    OBVIOUS
  <2>. HIDE DEF owners, named, tabled, target
  <2>. QED
    BY <1>3, <1>4, <2>1, <2>2
<1>6. ASSUME target.iface # None, tabled # {}
      PROVE  /\ \E ch \in named(target.iface) : ch.index \in {target.channel, None}
             /\ \A i \in tabled : i < target.iface => named(i) = {}
  <2>. HIDE DEF owners, named, tabled, target
  <2>. QED
    BY <1>2, <1>3, <1>6
<1>. HIDE DEF target
<1>. QED
  BY <1>5, <1>6 DEF ChannelRight, target

-----------------------------------------------------------------------------
(* The overlay of what the packets say about their nodes.                  *)

EntryOf(N, H, G) == [node : N, lastHeard : Nat, hops : H, signal : G]

Distinct(overlay) == \A i, j \in DOMAIN overlay : overlay[i].node = overlay[j].node => i = j

LEMMA Removed ==
  ASSUME NEW E, NEW s \in Seq(E), NEW k \in 1..Len(s)
  PROVE  /\ RemoveAt(s, k) \in Seq(E) /\ Len(RemoveAt(s, k)) = Len(s) - 1
         /\ \A i \in 1..Len(s) - 1 : RemoveAt(s, k)[i] = IF i < k THEN s[i] ELSE s[i + 1]
<1>. DEFINE n == Len(s)
            head == SubSeq(s, 1, k - 1)
            tail == SubSeq(s, k + 1, n)
<1>1. n \in Nat /\ k \in 1..n /\ k - 1 \in Nat /\ n - k \in Nat
  OBVIOUS
<1>2. head \in Seq(E) /\ Len(head) = k - 1 /\ \A i \in 1..k - 1 : head[i] = s[i]
  OBVIOUS
<1>3. tail \in Seq(E) /\ Len(tail) = n - k /\ \A i \in 1..n - k : tail[i] = s[k + i]
  <2>1. k \in 0..Len(s) /\ n \in k..Len(s)
    OBVIOUS
  <2>. QED
    BY <2>1, PartOf
<1>4. RemoveAt(s, k) = head \o tail
  BY DEF RemoveAt
<1>. HIDE DEF head, tail, n
<1>5. head \o tail \in Seq(E) /\ Len(head \o tail) = n - 1
  <2>1. head \in Seq(E) /\ tail \in Seq(E) /\ Len(head) = k - 1 /\ Len(tail) = n - k
    BY <1>2, <1>3
  <2>2. Len(head \o tail) = Len(head) + Len(tail)
    BY <2>1
  <2>. QED
    BY <1>1, <2>1, <2>2
<1>6. ASSUME NEW i \in 1..n - 1
      PROVE  (head \o tail)[i] = IF i < k THEN s[i] ELSE s[i + 1]
  <2>1. CASE i < k
    <3>1. i \in 1..k - 1
      BY <1>1, <2>1
    <3>2. (head \o tail)[i] = head[i]
      BY <1>1, <1>2, <1>3, <3>1
    <3>. QED
      BY <1>2, <2>1, <3>1, <3>2
  <2>2. CASE ~(i < k)
    <3>1. i - (k - 1) \in 1..n - k /\ k + (i - (k - 1)) = i + 1 /\ i \notin 1..k - 1
      BY <1>1, <2>2
    <3>2. (head \o tail)[i] = tail[i - (k - 1)]
      <4>1. i \in 1..Len(head) + Len(tail) /\ i \notin 1..Len(head)
        BY <1>1, <1>2, <1>3, <3>1
      <4>2. (head \o tail)[i] = tail[i - Len(head)]
        BY <1>2, <1>3, <4>1
      <4>. QED
        BY <1>2, <4>2
    <3>. QED
      BY <1>3, <2>2, <3>1, <3>2
  <2>. QED
    BY <2>1, <2>2
<1>. QED
  BY <1>4, <1>5, <1>6 DEF n

LEMMA StalestIs ==
  ASSUME NEW N, NEW H, NEW G, NEW overlay \in Seq(EntryOf(N, H, G)), overlay # << >>
  PROVE  /\ Stalest(overlay) \in DOMAIN overlay
         /\ \A j \in DOMAIN overlay : overlay[Stalest(overlay)].lastHeard <= overlay[j].lastHeard
<1>. DEFINE D == DOMAIN overlay
            heard(i) == overlay[i].lastHeard
            T == {heard(i) : i \in D}
            oldest == {i \in D : heard(i) = Min(T)}
            Is(i) == /\ \A j \in DOMAIN overlay : overlay[i].lastHeard <= overlay[j].lastHeard
                     /\ \A j \in 1..i - 1 : overlay[i].lastHeard < overlay[j].lastHeard
<1>1. D = 1..Len(overlay) /\ Len(overlay) \in Nat /\ D # {} /\ \A i \in D : heard(i) \in Nat
  <2>1. D = 1..Len(overlay) /\ Len(overlay) \in Nat /\ Len(overlay) # 0
    OBVIOUS
  <2>2. D # {}
    <3>1. 1 \in 1..Len(overlay)
      BY <2>1
    <3>. QED
      BY <2>1, <3>1
  <2>3. \A i \in D : overlay[i] \in EntryOf(N, H, G)
    OBVIOUS
  <2>4. \A i \in D : heard(i) \in Nat
    BY <2>3 DEF EntryOf
  <2>. QED
    BY <2>1, <2>2, <2>4
<1>2. Min(T) \in T /\ \A m \in T : Min(T) <= m
  <2>1. T \subseteq Nat /\ T # {}
    <3>. HIDE DEF heard, D
    <3>. QED
      BY <1>1
  <2>. HIDE DEF T
  <2>. QED
    BY <2>1, Least
<1>3. Min(oldest) \in oldest /\ \A m \in oldest : Min(oldest) <= m
  <2>1. oldest \subseteq Nat
    <3>. HIDE DEF heard
    <3>. QED
      BY <1>1
  <2>2. oldest # {}
    <3>. HIDE DEF heard, D
    <3>. QED
      BY <1>2
  <2>. HIDE DEF oldest
  <2>. QED
    BY <2>1, <2>2, Least
<1>4. Min(oldest) \in D /\ Is(Min(oldest))
  <2>. DEFINE first == Min(oldest)
  <2>1. first \in oldest /\ \A m \in oldest : first <= m
    BY <1>3
  <2>. HIDE DEF first
  <2>2. first \in D /\ heard(first) = Min(T)
    BY <2>1
  <2>3. ASSUME NEW j \in D
        PROVE  heard(first) <= heard(j)
    <3>1. heard(j) \in T
      OBVIOUS
    <3>. HIDE DEF heard, T
    <3>. QED
      BY <1>2, <2>2, <3>1
  <2>4. ASSUME NEW j \in 1..first - 1
        PROVE  heard(first) < heard(j)
    <3>1. j \in D /\ ~(first <= j)
      BY <1>1, <2>2
    <3>2. heard(j) # heard(first)
      <4>. HIDE DEF heard
      <4>. QED
        BY <2>1, <2>2, <3>1
    <3>3. heard(first) <= heard(j) /\ heard(first) \in Nat /\ heard(j) \in Nat
      BY <1>1, <2>2, <2>3, <3>1
    <3>. HIDE DEF heard
    <3>. QED
      BY <3>2, <3>3
  <2>. QED
    BY <2>2, <2>3, <2>4 DEF first
<1>5. Stalest(overlay) = CHOOSE i \in D : Is(i)
  BY DEF Stalest
<1>6. Stalest(overlay) \in D /\ Is(Stalest(overlay))
  <2>. HIDE DEF Is, D
  <2>. QED
    BY <1>4, <1>5
<1>. QED
  BY <1>6

Fresh(node) == [node |-> node, lastHeard |-> 0, hops |-> None, signal |-> None]

\* Making room for a node: what it keeps, and whom it drops.
TrackedRight(before, after, node) ==
  /\ Tracks(before, node) => after = before
  /\ ~Tracks(before, node) =>
       /\ \A i \in DOMAIN after : after[i] = Fresh(node) \/ \E j \in DOMAIN before : after[i] = before[j]
       /\ \A j \in DOMAIN before :
            \/ \E i \in DOMAIN after : after[i] = before[j]
            \/ \A k \in DOMAIN before : before[j].lastHeard <= before[k].lastHeard

LEMMA TrackedIs ==
  ASSUME NEW N, NEW H, NEW G, None \in H, None \in G, NEW node \in N,
         NEW overlay \in Seq(EntryOf(N, H, G)), Distinct(overlay), Len(overlay) <= Limit
  PROVE  /\ Tracked(overlay, node) \in Seq(EntryOf(N, H, G)) /\ Distinct(Tracked(overlay, node))
         /\ Len(Tracked(overlay, node)) <= Limit /\ Tracks(Tracked(overlay, node), node)
         /\ TrackedRight(overlay, Tracked(overlay, node), node)
<1>. DEFINE E == EntryOf(N, H, G)
            n == Len(overlay)
            after == Tracked(overlay, node)
            room == IF n >= Limit THEN RemoveAt(overlay, Stalest(overlay)) ELSE overlay
<1>. SUFFICES /\ after \in Seq(E) /\ Distinct(after) /\ Len(after) <= Limit /\ Tracks(after, node)
              /\ TrackedRight(overlay, after, node)
  OBVIOUS
<1>1. n \in Nat /\ Limit \in Nat /\ Limit >= 1 /\ n <= Limit /\ DOMAIN overlay = 1..n
  BY FreshnessAssumption DEF Limit
<1>2. Fresh(node) \in E
  BY DEF Fresh, EntryOf
<1>3. CASE Tracks(overlay, node)
  <2>1. after = overlay
    BY <1>3 DEF Tracked
  <2>. HIDE DEF after
  <2>. QED
    BY <1>1, <1>3, <2>1 DEF TrackedRight
<1>4. CASE ~Tracks(overlay, node)
  <2>1. after = Append(room, Fresh(node))
    BY <1>4 DEF Tracked, Fresh
  <2>2. /\ room \in Seq(E) /\ Len(room) \in Nat /\ Len(room) + 1 <= Limit
        /\ \A i \in 1..Len(room) : \E j \in 1..n : room[i] = overlay[j]
        /\ \A i, j \in 1..Len(room) : room[i].node = room[j].node => i = j
        /\ \A j \in 1..n : \/ \E i \in 1..Len(room) : room[i] = overlay[j]
                           \/ \A k \in 1..n : overlay[j].lastHeard <= overlay[k].lastHeard
    <3>1. CASE n >= Limit
      <4>. DEFINE s == Stalest(overlay)
                  rest == RemoveAt(overlay, s)
      <4>1. overlay # << >> /\ n >= 1
        BY <1>1, <3>1
      <4>2. s \in 1..n /\ \A k \in 1..n : overlay[s].lastHeard <= overlay[k].lastHeard
        BY <1>1, <4>1, StalestIs
      <4>. HIDE DEF s, E
      <4>3. /\ rest \in Seq(E) /\ Len(rest) = n - 1
            /\ \A i \in 1..n - 1 : rest[i] = IF i < s THEN overlay[i] ELSE overlay[i + 1]
        BY <4>2, Removed DEF E
      <4>. HIDE DEF rest, n
      <4>4. \A i \in 1..n - 1 : i \in 1..n /\ i + 1 \in 1..n
        BY <1>1
      <4>5. \A i \in 1..n - 1 : \E j \in 1..n : rest[i] = overlay[j]
        BY <4>3, <4>4
      <4>6. ASSUME NEW i \in 1..n - 1, NEW j \in 1..n - 1, rest[i].node = rest[j].node
            PROVE  i = j
        <5>. DEFINE f(x) == IF x < s THEN x ELSE x + 1
        <5>1. f(i) \in 1..n /\ f(j) \in 1..n /\ rest[i] = overlay[f(i)] /\ rest[j] = overlay[f(j)]
          BY <4>3, <4>4
        <5>2. f(i) = f(j)
          <6>. HIDE DEF f
          <6>. QED
            BY <1>1, <4>6, <5>1 DEF Distinct
        <5>. QED
          BY <4>2, <5>2
      <4>7. ASSUME NEW j \in 1..n, j # s
            PROVE  \E i \in 1..n - 1 : rest[i] = overlay[j]
        <5>1. CASE j < s
          <6>1. j \in 1..n - 1 /\ rest[j] = overlay[j]
            BY <1>1, <4>2, <4>3, <5>1
          <6>. QED
            BY <6>1
        <5>2. CASE j > s
          <6>1. j - 1 \in 1..n - 1 /\ ~(j - 1 < s) /\ (j - 1) + 1 = j
            BY <1>1, <4>2, <5>2
          <6>2. rest[j - 1] = overlay[j]
            BY <4>3, <6>1
          <6>. QED
            BY <6>1, <6>2
        <5>. QED
          BY <1>1, <4>2, <4>7, <5>1, <5>2
      <4>8. room = rest
        BY <3>1 DEF n, rest, s
      <4>9. \A j \in 1..n : \/ \E i \in 1..n - 1 : rest[i] = overlay[j]
                            \/ \A k \in 1..n : overlay[j].lastHeard <= overlay[k].lastHeard
        BY <4>2, <4>7
      <4>10. Len(rest) \in Nat /\ Len(rest) + 1 <= Limit /\ 1..Len(rest) = 1..n - 1
        BY <1>1, <4>1, <4>3
      <4>. HIDE DEF room
      <4>. QED
        BY <4>3, <4>5, <4>6, <4>8, <4>9, <4>10
    <3>2. CASE ~(n >= Limit)
      <4>1. room = overlay
        BY <3>2
      <4>2. \A i, j \in 1..n : overlay[i].node = overlay[j].node => i = j
        BY <1>1 DEF Distinct
      <4>. HIDE DEF room
      <4>. QED
        BY <1>1, <3>2, <4>1, <4>2
    <3>. QED
      BY <3>1, <3>2
  <2>. DEFINE m == Len(room)
  <2>. HIDE DEF room, after, E
  <2>3. /\ after \in Seq(E) /\ Len(after) = m + 1 /\ DOMAIN after = 1..m + 1 /\ m \in Nat
        /\ after[m + 1] = Fresh(node)
        /\ \A i \in 1..m : after[i] = room[i]
    BY <1>2, <2>1, <2>2
  <2>. HIDE DEF m, n
  <2>4. \A i \in 1..m : \E j \in 1..n : after[i] = overlay[j]
    BY <2>2, <2>3 DEF m
  <2>5. \A i \in 1..m + 1 : i \in 1..m \/ i = m + 1
    BY <2>3
  <2>6. \A i \in 1..m : after[i].node # node
    BY <1>1, <1>4, <2>4 DEF Tracks
  <2>7. Fresh(node).node = node /\ m + 1 \in 1..m + 1 /\ 1..m \subseteq 1..m + 1
    BY <2>3 DEF Fresh
  <2>8. Distinct(after)
    <3>1. \A i, j \in 1..m : after[i].node = after[j].node => i = j
      BY <2>2, <2>3 DEF m
    <3>. QED
      BY <2>3, <2>5, <2>6, <2>7, <3>1 DEF Distinct
  <2>9. Tracks(after, node)
    BY <2>3, <2>7 DEF Tracks
  <2>10. Len(after) <= Limit
    BY <2>2, <2>3 DEF m
  <2>11. \A i \in 1..m + 1 : after[i] = Fresh(node) \/ \E j \in 1..n : after[i] = overlay[j]
    BY <2>3, <2>4, <2>5
  <2>12. \A j \in 1..n : \/ \E i \in 1..m + 1 : after[i] = overlay[j]
                         \/ \A k \in 1..n : overlay[j].lastHeard <= overlay[k].lastHeard
    <3>. TAKE j \in 1..n
    <3>1. ASSUME NEW i \in 1..m, room[i] = overlay[j]
          PROVE  i \in 1..m + 1 /\ after[i] = overlay[j]
      BY <2>3, <2>7, <3>1
    <3>. QED
      BY <2>2, <3>1 DEF m
  <2>13. TrackedRight(overlay, after, node)
    BY <1>1, <1>4, <2>3, <2>11, <2>12, Zenon DEF TrackedRight
  <2>. QED
    BY <2>3, <2>8, <2>9, <2>10, <2>13
<1>. QED
  BY <1>3, <1>4

\* What an observation does to the overlay.
UpdateRight(before, after, o) ==
  /\ \A i \in DOMAIN after :
       \/ after[i].node # o.node /\ \E j \in DOMAIN before : before[j] = after[i]
       \/ /\ after[i].node = o.node
          /\ \E j \in DOMAIN before : before[j].node = o.node /\ after[i] = Observed(before[j], o)
       \/ ~Tracks(before, o.node) /\ after[i] = Observed(Fresh(o.node), o)
  /\ \A j \in DOMAIN before :
       \/ Tracks(after, before[j].node)
       \/ \A k \in DOMAIN before : before[j].lastHeard <= before[k].lastHeard

LEMMA ObservedIs ==
  ASSUME NEW N, NEW H, NEW G, NEW e \in EntryOf(N, H, G), NEW o,
         o.hops \in H, o.signal \in G, HeardAt(o) \in Nat
  PROVE  /\ Observed(e, o) \in EntryOf(N, H, G) /\ Observed(e, o).node = e.node
         /\ Observed(e, o).lastHeard = IF HeardAt(o) > e.lastHeard THEN HeardAt(o) ELSE e.lastHeard
         /\ Observed(e, o).signal = IF o.hops = 0 /\ o.signal # None THEN o.signal ELSE e.signal
<1>1. /\ DOMAIN e = {"node", "lastHeard", "hops", "signal"}
      /\ e.node \in N /\ e.lastHeard \in Nat /\ e.hops \in H /\ e.signal \in G
  BY DEF EntryOf
<1>. HIDE DEF HeardAt
<1>. DEFINE heard == HeardAt(o)
            last == IF heard > e.lastHeard THEN heard ELSE e.lastHeard
            hops == IF o.hops # None THEN o.hops ELSE e.hops
            signal == IF o.hops = 0 /\ o.signal # None THEN o.signal ELSE e.signal
<1>2. last \in Nat /\ hops \in H /\ signal \in G
  BY <1>1
<1>3. e = [node |-> e.node, lastHeard |-> e.lastHeard, hops |-> e.hops, signal |-> e.signal]
  BY DEF EntryOf
<1>4. Observed(e, o) = [node |-> e.node, lastHeard |-> last, hops |-> hops, signal |-> signal]
  <2>1. Observed(e, o) = [e EXCEPT !.lastHeard = last, !.hops = hops, !.signal = signal]
    BY DEF Observed
  <2>. HIDE DEF last, hops, signal
  <2>. QED
    BY <1>3, <2>1
<1>. HIDE DEF last, hops, signal
<1>5. [node |-> e.node, lastHeard |-> last, hops |-> hops, signal |-> signal] \in EntryOf(N, H, G)
  BY <1>1, <1>2 DEF EntryOf
<1>. QED
  BY <1>4, <1>5 DEF last, hops, signal

LEMMA UpdateIs ==
  ASSUME NEW N, NEW H, NEW G, None \in H, None \in G, NEW o,
         o.node \in N, o.hops \in H, o.signal \in G, HeardAt(o) \in Nat,
         NEW overlay \in Seq(EntryOf(N, H, G)), Distinct(overlay), Len(overlay) <= Limit
  PROVE  /\ Update(overlay, o) \in Seq(EntryOf(N, H, G)) /\ Distinct(Update(overlay, o))
         /\ Len(Update(overlay, o)) <= Limit /\ Tracks(Update(overlay, o), o.node)
         /\ UpdateRight(overlay, Update(overlay, o), o)
<1>. DEFINE E == EntryOf(N, H, G)
            tracked == Tracked(overlay, o.node)
            after == Update(overlay, o)
            m == Len(tracked)
<1>. SUFFICES /\ after \in Seq(E) /\ Distinct(after) /\ Len(after) <= Limit /\ Tracks(after, o.node)
              /\ UpdateRight(overlay, after, o)
  OBVIOUS
<1>1. /\ tracked \in Seq(E) /\ Distinct(tracked) /\ Len(tracked) <= Limit
      /\ Tracks(tracked, o.node) /\ TrackedRight(overlay, tracked, o.node)
  BY TrackedIs
<1>2. after = [i \in DOMAIN tracked |->
                 IF tracked[i].node = o.node THEN Observed(tracked[i], o) ELSE tracked[i]]
  BY DEF Update
<1>3. \A e \in E : Observed(e, o) \in E /\ Observed(e, o).node = e.node
  BY ObservedIs
<1>4. Fresh(o.node) \in E
  BY DEF Fresh, EntryOf
<1>. HIDE DEF E, tracked, after
<1>5. m \in Nat /\ DOMAIN tracked = 1..m /\ \A i \in 1..m : tracked[i] \in E
  BY <1>1
<1>. HIDE DEF m
<1>6. /\ DOMAIN after = 1..m
      /\ \A i \in 1..m : /\ after[i] \in E /\ after[i].node = tracked[i].node
                         /\ after[i] = IF tracked[i].node = o.node THEN Observed(tracked[i], o) ELSE tracked[i]
  BY <1>2, <1>3, <1>5
<1>7. after \in Seq(E) /\ Len(after) = m
  <2>1. after \in [1..m -> E]
    <3>1. after = [i \in 1..m |-> after[i]]
      BY <1>2, <1>5, <1>6
    <3>. QED
      BY <1>6, <3>1
  <2>. QED
    BY <1>5, <2>1
<1>8. Distinct(after)
  BY <1>1, <1>5, <1>6 DEF Distinct
<1>9. Tracks(after, o.node)
  BY <1>1, <1>5, <1>6 DEF Tracks
<1>10. Len(after) <= Limit
  BY <1>1, <1>7 DEF m
<1>11. ASSUME NEW i \in 1..m
       PROVE  \/ after[i].node # o.node /\ \E j \in DOMAIN overlay : overlay[j] = after[i]
              \/ /\ after[i].node = o.node
                 /\ \E j \in DOMAIN overlay : overlay[j].node = o.node /\ after[i] = Observed(overlay[j], o)
              \/ ~Tracks(overlay, o.node) /\ after[i] = Observed(Fresh(o.node), o)
  <2>1. CASE Tracks(overlay, o.node)
    <3>1. tracked = overlay
      BY <1>1, <2>1 DEF TrackedRight
    <3>2. i \in DOMAIN overlay
      BY <1>5, <3>1
    <3>. QED
      BY <1>6, <3>1, <3>2
  <2>2. CASE ~Tracks(overlay, o.node)
    <3>1. tracked[i] = Fresh(o.node) \/ \E j \in DOMAIN overlay : tracked[i] = overlay[j]
      BY <1>1, <1>5, <2>2 DEF TrackedRight
    <3>2. CASE tracked[i] = Fresh(o.node)
      <4>1. tracked[i].node = o.node
        BY <3>2 DEF Fresh
      <4>. QED
        BY <1>6, <2>2, <3>2, <4>1
    <3>3. CASE \E j \in DOMAIN overlay : tracked[i] = overlay[j]
      <4>1. tracked[i].node # o.node
        BY <2>2, <3>3 DEF Tracks
      <4>2. after[i] = tracked[i]
        BY <1>6, <4>1
      <4>. QED
        BY <3>3, <4>1, <4>2
    <3>. QED
      BY <3>1, <3>2, <3>3
  <2>. QED
    BY <2>1, <2>2
<1>12. ASSUME NEW j \in DOMAIN overlay
       PROVE  \/ Tracks(after, overlay[j].node)
              \/ \A k \in DOMAIN overlay : overlay[j].lastHeard <= overlay[k].lastHeard
  <2>1. \/ \E i \in 1..m : tracked[i] = overlay[j]
        \/ \A k \in DOMAIN overlay : overlay[j].lastHeard <= overlay[k].lastHeard
    <3>1. CASE Tracks(overlay, o.node)
      <4>1. tracked = overlay
        BY <1>1, <3>1 DEF TrackedRight
      <4>. QED
        BY <1>5, <4>1
    <3>2. CASE ~Tracks(overlay, o.node)
      BY <1>1, <1>5, <3>2 DEF TrackedRight
    <3>. QED
      BY <3>1, <3>2
  <2>2. ASSUME NEW i \in 1..m, tracked[i] = overlay[j]
        PROVE  Tracks(after, overlay[j].node)
    BY <1>6, <2>2 DEF Tracks
  <2>. QED
    BY <2>1, <2>2
<1>13. UpdateRight(overlay, after, o)
  BY <1>6, <1>11, <1>12, Zenon DEF UpdateRight
<1>. QED
  BY <1>7, <1>8, <1>9, <1>10, <1>13

\* The overlays of a log, all of them over the entries E.
AreOverlays(o, log, n, E) ==
  /\ o[0] = << >>
  /\ \A t \in 1..n : o[t] = Update(o[t - 1], log[t])
  /\ \A t \in 0..n : o[t] \in Seq(E) /\ Distinct(o[t]) /\ Len(o[t]) <= Limit

LEMMA OverlaysDefined ==
  ASSUME NEW N, NEW H, NEW G, None \in H, None \in G, NEW n \in Nat, NEW log, Len(log) = n,
         \A t \in 1..n : /\ log[t].node \in N /\ log[t].hops \in H /\ log[t].signal \in G
                         /\ HeardAt(log[t]) \in Nat
  PROVE  AreOverlays(Overlays(log), log, n, EntryOf(N, H, G))
<1>. DEFINE S == {s \in Seq(EntryOf(N, H, G)) : Distinct(s) /\ Len(s) <= Limit}
            next(s, t) == Update(s, log[t])
            step == [t \in 1..n |-> [s \in S |-> next(s, t)]]
            Def(g) == [t \in 0..n |-> IF t = 0 THEN << >> ELSE next(g[t - 1], t)]
            o == Overlays(log)
<1>1. ASSUME NEW t \in 1..n, NEW s \in S
      PROVE  next(s, t) \in S
  <2>. DEFINE x == log[t]
  <2>1. x.node \in N /\ x.hops \in H /\ x.signal \in G /\ HeardAt(x) \in Nat
    OBVIOUS
  <2>2. s \in Seq(EntryOf(N, H, G)) /\ Distinct(s) /\ Len(s) <= Limit
    BY <1>1
  <2>. HIDE DEF x
  <2>3. Update(s, x) \in S
    BY <2>1, <2>2, UpdateIs
  <2>. QED
    BY <2>3 DEF x
<1>2. << >> \in S
  <2>1. << >> \in Seq(EntryOf(N, H, G)) /\ Len(<< >>) = 0 /\ DOMAIN << >> = {}
    OBVIOUS
  <2>2. Limit \in Nat
    BY FreshnessAssumption DEF Limit
  <2>. QED
    BY <2>1, <2>2 DEF Distinct
<1>3. o = CHOOSE g : g = Def(g)
  BY DEF Overlays
<1>. HIDE DEF next, S, o
<1>4. \E g : g = Def(g)
  <2>1. /\ step \in [1..n -> [S -> S]]
        /\ \A t \in 1..n : \A s \in S : step[t][s] = next(s, t)
    BY <1>1
  <2>. HIDE DEF step
  <2>2. PICK f : Iterates(f, n, S, << >>, step)
    BY <1>2, <2>1, Recursion
  <2>3. f \in [0..n -> S] /\ f[0] = << >> /\ \A t \in 1..n : f[t] = step[t][f[t - 1]]
    BY <2>2 DEF Iterates
  <2>4. \A t \in 1..n : f[t] = next(f[t - 1], t)
    <3>. TAKE t \in 1..n
    <3>1. t - 1 \in 0..n
      OBVIOUS
    <3>2. f[t - 1] \in S /\ f[t] = step[t][f[t - 1]]
      BY <2>3, <3>1
    <3>. QED
      BY <2>1, <3>2, Zenon
  <2>5. f = Def(f)
    <3>1. \A t \in 0..n : f[t] = IF t = 0 THEN << >> ELSE next(f[t - 1], t)
      <4>1. \A t \in 0..n : t # 0 => t \in 1..n
        OBVIOUS
      <4>. QED
        BY <2>3, <2>4, <4>1, Zenon
    <3>2. f = [t \in 0..n |-> f[t]]
      BY <2>3, Zenon
    <3>. QED
      BY <3>1, <3>2, Zenon
  <2>. QED
    BY <2>5
<1>5. o = Def(o)
  <2>. HIDE DEF Def
  <2>. QED
    BY <1>3, <1>4
<1>6. o = [t \in 0..n |-> o[t]] /\ o[0] = << >> /\ \A t \in 1..n : o[t] = next(o[t - 1], t)
  <2>1. DOMAIN o = 0..n /\ \A t \in 0..n : o[t] = IF t = 0 THEN << >> ELSE next(o[t - 1], t)
    BY <1>5
  <2>2. o = [t \in 0..n |-> o[t]]
    BY <1>5, Zenon
  <2>3. 0 \in 0..n /\ \A t \in 1..n : t \in 0..n /\ t # 0
    OBVIOUS
  <2>. QED
    BY <2>1, <2>2, <2>3, Zenon
<1>7. o \in [0..n -> S]
  <2>1. \A t \in 1..n : o[t - 1] \in S => o[t] \in S
    BY <1>1, <1>6, Zenon
  <2>. QED
    BY ZenonT(30), <1>2, <1>6, <2>1, Stays
<1>8. \A t \in 0..n : o[t] \in S
  BY <1>7
<1>. QED
  BY <1>6, <1>8 DEF o, next, S, AreOverlays

-----------------------------------------------------------------------------
(* The stay of a node in the overlay.                                      *)

HeardIn(log, t) == IF log[t].rx = None \/ log[t].rx > t THEN t ELSE log[t].rx

\* The node came in at j and has been there since, up to t.
Since(log, node, j, t) ==
  /\ j \in 1..t
  /\ \A u \in j..t : Tracks(Overlays(log)[u], node)
  /\ ~Tracks(Overlays(log)[j - 1], node)

StayOf(log, node, j, t) == {u \in j..t : log[u].node = node}

DirectOf(log, node, j, t) ==
  {u \in StayOf(log, node, j, t) : log[u].hops = 0 /\ log[u].signal # None}

\* What an entry says is what the packets of its stay say.
SaysWhatItHeard(log, e, j, t) ==
  /\ Since(log, e.node, j, t)
  /\ \E u \in StayOf(log, e.node, j, t) : e.lastHeard = HeardIn(log, u)
  /\ \A u \in StayOf(log, e.node, j, t) : HeardIn(log, u) <= e.lastHeard
  /\ \/ DirectOf(log, e.node, j, t) = {} /\ e.signal = None
     \/ \E u \in DirectOf(log, e.node, j, t) :
          e.signal = log[u].signal /\ \A v \in DirectOf(log, e.node, j, t) : v <= u

\* A log is a sequence of observations, each at its own time.
IsLog(log, n) ==
  /\ n \in Nat /\ Len(log) = n /\ DOMAIN log = 1..n
  /\ \A t \in 1..n : log[t].now = t /\ log[t].rx \in (Nat \ {0}) \cup {None}

LEMMA LogIs ==
  ASSUME NEW n, NEW log, IsLog(log, n)
  PROVE  \A t \in 1..n : HeardAt(log[t]) = HeardIn(log, t) /\ HeardIn(log, t) \in Nat \ {0}
<1>1. n \in Nat
  BY DEF IsLog
<1>. TAKE t \in 1..n
<1>2. log[t].now = t /\ log[t].rx \in (Nat \ {0}) \cup {None} /\ t \in Nat \ {0}
  BY <1>1 DEF IsLog
<1>3. HeardAt(log[t]) = HeardIn(log, t)
  BY <1>2 DEF HeardAt, HeardIn
<1>4. HeardIn(log, t) \in Nat \ {0}
  BY <1>2 DEF HeardIn
<1>. QED
  BY <1>3, <1>4

LEMMA StayGrows ==
  ASSUME NEW log, NEW node, NEW t \in Nat, NEW j \in 1..t + 1
  PROVE  /\ StayOf(log, node, j, t + 1) =
              StayOf(log, node, j, t) \cup {u \in {t + 1} : log[u].node = node}
         /\ DirectOf(log, node, j, t + 1) =
              DirectOf(log, node, j, t)
                \cup {u \in {t + 1} : log[u].node = node /\ log[u].hops = 0 /\ log[u].signal # None}
         /\ \A u \in StayOf(log, node, j, t) : u \in 1..t
<1>1. j..t + 1 = (j..t) \cup {t + 1} /\ \A u \in j..t : u \in 1..t
  OBVIOUS
<1>2. StayOf(log, node, j, t + 1) =
        StayOf(log, node, j, t) \cup {u \in {t + 1} : log[u].node = node}
  BY <1>1, Zenon DEF StayOf
<1>3. DirectOf(log, node, j, t + 1) =
        DirectOf(log, node, j, t)
          \cup {u \in {t + 1} : log[u].node = node /\ log[u].hops = 0 /\ log[u].signal # None}
  BY <1>2, Zenon DEF DirectOf
<1>. QED
  BY <1>1, <1>2, <1>3 DEF StayOf

\* The next observation: of another node, of this one, or of one that comes in.
LEMMA SaysMore ==
  ASSUME NEW n, NEW log, IsLog(log, n), NEW t \in 0..n - 1, NEW N, NEW H, NEW G,
         NEW e, NEW r, Tracks(Overlays(log)[t + 1], r.node),
         log[t + 1].hops \in H, log[t + 1].signal \in G,
         \/ r = e /\ r.node # log[t + 1].node /\ \E j : SaysWhatItHeard(log, e, j, t)
         \/ /\ e \in EntryOf(N, H, G) /\ e.node = log[t + 1].node
            /\ r = Observed(e, log[t + 1])
            /\ \E j : SaysWhatItHeard(log, e, j, t)
         \/ /\ e \in EntryOf(N, H, G) /\ e = Fresh(log[t + 1].node)
            /\ r = Observed(e, log[t + 1])
            /\ ~Tracks(Overlays(log)[t], log[t + 1].node)
  PROVE  \E j : SaysWhatItHeard(log, r, j, t + 1)
<1>. DEFINE o == log[t + 1]
            heard == HeardIn(log, t + 1)
<1>1. /\ n \in Nat /\ t \in Nat /\ t + 1 \in 1..n /\ HeardAt(o) = heard /\ heard \in Nat \ {0}
      /\ \A u \in 1..n : HeardIn(log, u) \in Nat
  <2>1. n \in Nat
    BY DEF IsLog
  <2>2. t \in Nat /\ t + 1 \in 1..n
    BY <2>1
  <2>3. \A u \in 1..n : HeardAt(log[u]) = HeardIn(log, u) /\ HeardIn(log, u) \in Nat \ {0}
    BY LogIs
  <2>4. \A u \in 1..n : HeardIn(log, u) \in Nat
    BY <2>3, Zenon
  <2>. QED
    BY <2>1, <2>2, <2>3, <2>4, Zenon
<1>. HIDE DEF heard
<1>2. ASSUME NEW e2 \in EntryOf(N, H, G)
      PROVE  /\ Observed(e2, o).node = e2.node
             /\ Observed(e2, o).lastHeard = IF heard > e2.lastHeard THEN heard ELSE e2.lastHeard
             /\ Observed(e2, o).signal = IF o.hops = 0 /\ o.signal # None THEN o.signal ELSE e2.signal
  BY <1>1, ObservedIs
<1>3. ASSUME NEW j, Since(log, r.node, j, t)
      PROVE  Since(log, r.node, j, t + 1) /\ j \in 1..t + 1
  <2>1. j \in 1..t /\ j \in 1..t + 1 /\ \A u \in j..t + 1 : u \in j..t \/ u = t + 1
    BY <1>1, <1>3 DEF Since
  <2>. QED
    BY <1>3, <2>1 DEF Since
<1>4. CASE r = e /\ r.node # o.node /\ \E j : SaysWhatItHeard(log, e, j, t)
  <2>1. PICK j : SaysWhatItHeard(log, r, j, t)
    BY <1>4
  <2>2. Since(log, r.node, j, t + 1) /\ j \in 1..t + 1
    BY <1>3, <2>1 DEF SaysWhatItHeard
  <2>. DEFINE node == r.node
              away == {u \in {t + 1} : log[u].node = node}
              mute == {u \in {t + 1} : log[u].node = node /\ log[u].hops = 0 /\ log[u].signal # None}
  <2>3. /\ StayOf(log, node, j, t + 1) = StayOf(log, node, j, t)
        /\ DirectOf(log, node, j, t + 1) = DirectOf(log, node, j, t)
    <3>1. away = {} /\ mute = {}
      BY <1>4
    <3>. HIDE DEF node
    <3>2. /\ StayOf(log, node, j, t + 1) = StayOf(log, node, j, t) \cup away
          /\ DirectOf(log, node, j, t + 1) = DirectOf(log, node, j, t) \cup mute
          /\ \A u \in StayOf(log, node, j, t) : u \in 1..t
      BY <1>1, <2>2, StayGrows, Zenon
    <3>. HIDE DEF away, mute
    <3>. QED
      BY <3>1, <3>2, Zenon
  <2>4. SaysWhatItHeard(log, r, j, t + 1)
    BY <2>1, <2>2, <2>3, Zenon DEF SaysWhatItHeard
  <2>. QED
    BY <2>4
<1>5. CASE /\ e \in EntryOf(N, H, G) /\ e.node = o.node /\ r = Observed(e, o)
           /\ \E j : SaysWhatItHeard(log, e, j, t)
  <2>. DEFINE node == o.node
  <2>1. /\ r.node = node /\ e.node = node
        /\ r.lastHeard = IF heard > e.lastHeard THEN heard ELSE e.lastHeard
        /\ r.signal = IF o.hops = 0 /\ o.signal # None THEN o.signal ELSE e.signal
        /\ e.lastHeard \in Nat
    BY <1>2, <1>5 DEF EntryOf
  <2>2. PICK j : SaysWhatItHeard(log, e, j, t)
    BY <1>5
  <2>3. Since(log, node, j, t + 1) /\ j \in 1..t + 1
    <3>1. Since(log, r.node, j, t)
      BY <2>1, <2>2 DEF SaysWhatItHeard
    <3>. QED
      BY <1>3, <2>1, <3>1
  <2>. DEFINE stay == StayOf(log, node, j, t)
              direct == DirectOf(log, node, j, t)
              stay2 == StayOf(log, node, j, t + 1)
              direct2 == DirectOf(log, node, j, t + 1)
  <2>4. /\ stay2 = stay \cup {t + 1}
        /\ direct2 = direct \cup {u \in {t + 1} : o.hops = 0 /\ o.signal # None}
        /\ \A u \in stay : u \in 1..t
    <3>1. /\ {u \in {t + 1} : log[u].node = node} = {t + 1}
          /\ {u \in {t + 1} : log[u].node = node /\ log[u].hops = 0 /\ log[u].signal # None} =
               {u \in {t + 1} : o.hops = 0 /\ o.signal # None}
      OBVIOUS
    <3>2. /\ stay2 = stay \cup {u \in {t + 1} : log[u].node = node}
          /\ direct2 = direct
               \cup {u \in {t + 1} : log[u].node = node /\ log[u].hops = 0 /\ log[u].signal # None}
          /\ \A u \in stay : u \in 1..t
      BY <1>1, <2>3, StayGrows, Zenon
    <3>. HIDE DEF stay, stay2, direct, direct2, node
    <3>. QED
      BY <3>1, <3>2, Zenon
  <2>5. /\ \E u \in stay : e.lastHeard = HeardIn(log, u)
        /\ \A u \in stay : HeardIn(log, u) <= e.lastHeard
        /\ \/ direct = {} /\ e.signal = None
           \/ \E u \in direct : e.signal = log[u].signal /\ \A v \in direct : v <= u
    BY <2>1, <2>2 DEF SaysWhatItHeard
  <2>6. direct \subseteq stay
    BY DEF DirectOf
  <2>. HIDE DEF stay, direct, stay2, direct2, node
  <2>7. \E u \in stay2 : r.lastHeard = HeardIn(log, u)
    <3>1. CASE heard > e.lastHeard
      BY <2>1, <2>4, <3>1 DEF heard
    <3>2. CASE ~(heard > e.lastHeard)
      BY <2>1, <2>4, <2>5, <3>2
    <3>. QED
      BY <3>1, <3>2
  <2>8. \A u \in stay2 : HeardIn(log, u) <= r.lastHeard
    <3>. TAKE u \in stay2
    <3>1. CASE u \in stay
      <4>1. HeardIn(log, u) <= e.lastHeard /\ u \in 1..n
        BY <1>1, <2>4, <2>5, <3>1
      <4>2. HeardIn(log, u) \in Nat
        BY <1>1, <4>1
      <4>. QED
        BY <1>1, <2>1, <4>1, <4>2
    <3>2. CASE u = t + 1
      <4>1. HeardIn(log, u) = heard
        BY <3>2 DEF heard
      <4>. QED
        BY <1>1, <2>1, <4>1
    <3>. QED
      BY <2>4, <3>1, <3>2
  <2>9. \/ direct2 = {} /\ r.signal = None
        \/ \E u \in direct2 : r.signal = log[u].signal /\ \A v \in direct2 : v <= u
    <3>1. CASE o.hops = 0 /\ o.signal # None
      <4>1. direct2 = direct \cup {t + 1} /\ r.signal = log[t + 1].signal
        BY <2>1, <2>4, <3>1
      <4>2. \A v \in direct2 : v <= t + 1
        BY <1>1, <2>4, <2>6, <4>1
      <4>. QED
        BY <4>1, <4>2
    <3>2. CASE ~(o.hops = 0 /\ o.signal # None)
      <4>1. direct2 = direct /\ r.signal = e.signal
        BY <2>1, <2>4, <3>2
      <4>. QED
        BY <2>5, <4>1
    <3>. QED
      BY <3>1, <3>2
  <2>10. SaysWhatItHeard(log, r, j, t + 1)
    BY <2>1, <2>3, <2>7, <2>8, <2>9, Zenon DEF SaysWhatItHeard, stay2, direct2
  <2>. QED
    BY <2>10
<1>6. CASE /\ e \in EntryOf(N, H, G) /\ e = Fresh(o.node) /\ r = Observed(e, o)
           /\ ~Tracks(Overlays(log)[t], o.node)
  <2>. DEFINE node == o.node
              j == t + 1
              stay2 == StayOf(log, node, j, j)
              direct2 == DirectOf(log, node, j, j)
  <2>1. /\ r.node = node /\ r.lastHeard = heard
        /\ r.signal = IF o.hops = 0 /\ o.signal # None THEN o.signal ELSE None
    <3>1. e.node = node /\ e.lastHeard = 0 /\ e.signal = None
      BY <1>6 DEF Fresh
    <3>2. /\ r.node = e.node
          /\ r.lastHeard = IF heard > e.lastHeard THEN heard ELSE e.lastHeard
          /\ r.signal = IF o.hops = 0 /\ o.signal # None THEN o.signal ELSE e.signal
      BY <1>2, <1>6
    <3>3. r.lastHeard = heard
      BY <1>1, <3>1, <3>2
    <3>. QED
      BY <3>1, <3>2, <3>3
  <2>2. j \in Nat /\ j..j = {j} /\ j \in 1..t + 1 /\ j - 1 = t /\ t \in Nat
    BY <1>1
  <2>3. Since(log, node, j, j)
    BY <1>6, <2>1, <2>2 DEF Since
  <2>4. stay2 = {j}
    BY <2>2 DEF StayOf
  <2>5. direct2 = {u \in {j} : o.hops = 0 /\ o.signal # None}
    <3>1. log[j] = o
      OBVIOUS
    <3>. HIDE DEF j
    <3>. QED
      BY <2>4, <3>1, Zenon DEF DirectOf
  <2>. HIDE DEF j, node, stay2, direct2
  <2>6. \E u \in stay2 : r.lastHeard = HeardIn(log, u)
    BY <2>1, <2>4 DEF heard, j
  <2>7. \A u \in stay2 : HeardIn(log, u) <= r.lastHeard
    BY <1>1, <2>1, <2>4 DEF heard, j
  <2>8. \/ direct2 = {} /\ r.signal = None
        \/ \E u \in direct2 : r.signal = log[u].signal /\ \A v \in direct2 : v <= u
    BY <2>1, <2>2, <2>5 DEF j
  <2>9. SaysWhatItHeard(log, r, j, j)
    BY <2>1, <2>3, <2>6, <2>7, <2>8, Zenon DEF SaysWhatItHeard, stay2, direct2
  <2>. QED
    BY <2>9 DEF j
<1>. QED
  BY <1>4, <1>5, <1>6

Nodes(log, n) == {log[t].node : t \in 1..n}
Hops(log, n) == {None} \cup {log[t].hops : t \in 1..n}
Signals(log, n) == {None} \cup {log[t].signal : t \in 1..n}
Entries(log, n) == EntryOf(Nodes(log, n), Hops(log, n), Signals(log, n))

LEMMA OverlayStep ==
  ASSUME NEW n, NEW log, IsLog(log, n)
  PROVE  /\ n \in Nat /\ Overlays(log)[0] = << >> /\ Limit \in Nat \ {0}
         /\ \A t \in 0..n : /\ Overlays(log)[t] \in Seq(Entries(log, n))
                            /\ Distinct(Overlays(log)[t]) /\ Len(Overlays(log)[t]) <= Limit
         /\ \A t \in 1..n : /\ log[t].hops \in Hops(log, n) /\ log[t].signal \in Signals(log, n)
                            /\ log[t].node \in Nodes(log, n)
                            /\ Tracks(Overlays(log)[t], log[t].node)
                            /\ UpdateRight(Overlays(log)[t - 1], Overlays(log)[t], log[t])
<1>. DEFINE N == Nodes(log, n)
            H == Hops(log, n)
            G == Signals(log, n)
            E == EntryOf(N, H, G)
            o == Overlays(log)
<1>1. n \in Nat /\ Len(log) = n
  BY DEF IsLog
<1>2. /\ None \in H /\ None \in G
      /\ \A t \in 1..n : log[t].node \in N /\ log[t].hops \in H /\ log[t].signal \in G
  BY DEF Nodes, Hops, Signals
<1>3. \A t \in 1..n : HeardAt(log[t]) \in Nat
  <2>1. \A t \in 1..n : HeardAt(log[t]) = HeardIn(log, t) /\ HeardIn(log, t) \in Nat \ {0}
    BY LogIs
  <2>. QED
    BY <2>1
<1>. HIDE DEF N, H, G
<1>4. /\ o[0] = << >>
      /\ \A t \in 1..n : o[t] = Update(o[t - 1], log[t])
      /\ \A t \in 0..n : /\ o[t] \in Seq(E)
                         /\ Distinct(o[t]) /\ Len(o[t]) <= Limit
  <2>1. \A t \in 1..n : /\ log[t].node \in N /\ log[t].hops \in H /\ log[t].signal \in G
                        /\ HeardAt(log[t]) \in Nat
    BY <1>2, <1>3, Zenon
  <2>2. AreOverlays(o, log, n, EntryOf(N, H, G))
    BY <1>1, <1>2, <2>1, OverlaysDefined
  <2>. QED
    BY <2>2, Zenon DEF AreOverlays
<1>. HIDE DEF o
<1>5. ASSUME NEW t \in 1..n
      PROVE  Tracks(o[t], log[t].node) /\ UpdateRight(o[t - 1], o[t], log[t])
  <2>1. o[t - 1] \in Seq(E) /\ Distinct(o[t - 1]) /\ Len(o[t - 1]) <= Limit /\ o[t] = Update(o[t - 1], log[t])
    <3>1. t - 1 \in 0..n
      BY <1>1
    <3>. QED
      BY <1>4, <3>1
  <2>. DEFINE x == log[t]
  <2>2. x.node \in N /\ x.hops \in H /\ x.signal \in G /\ HeardAt(x) \in Nat
    BY <1>2, <1>3
  <2>. DEFINE s == o[t - 1]
              after == Update(s, x)
  <2>. HIDE DEF x, s
  <2>3. /\ after \in Seq(E) /\ Distinct(after)
        /\ Len(after) <= Limit /\ Tracks(after, x.node)
        /\ UpdateRight(s, after, x)
    <3>1. s \in Seq(E) /\ Distinct(s) /\ Len(s) <= Limit
      BY <2>1 DEF s
    <3>2. None \in H /\ None \in G
      BY <1>2
    <3>. QED
      BY <3>1, <3>2, <2>2, UpdateIs, Zenon
  <2>4. o[t] = after
    BY <2>1 DEF s, x
  <2>. HIDE DEF after
  <2>. QED
    BY <2>3, <2>4 DEF x, s
<1>6. Limit \in Nat \ {0}
  BY FreshnessAssumption DEF Limit
<1>. QED
  BY <1>1, <1>2, <1>4, <1>5, <1>6 DEF o, Entries, N, H, G

LEMMA OverlaySays ==
  ASSUME NEW n, NEW log, IsLog(log, n)
  PROVE  \A t \in 0..n : \A i \in DOMAIN Overlays(log)[t] :
           \E j : SaysWhatItHeard(log, Overlays(log)[t][i], j, t)
<1>. DEFINE o == Overlays(log)
            N == Nodes(log, n)
            H == Hops(log, n)
            G == Signals(log, n)
            P == {t \in 0..n : \A i \in DOMAIN o[t] : \E j : SaysWhatItHeard(log, o[t][i], j, t)}
<1>1. /\ n \in Nat /\ o[0] = << >>
      /\ \A t \in 0..n : o[t] \in Seq(EntryOf(N, H, G))
      /\ \A t \in 1..n : /\ log[t].hops \in H /\ log[t].signal \in G /\ log[t].node \in N
                         /\ UpdateRight(o[t - 1], o[t], log[t])
  BY OverlayStep DEF Entries
<1>2. None \in H /\ None \in G
  BY DEF Hops, Signals
<1>. HIDE DEF o, N, H, G
<1>3. 0 \in P
  BY <1>1
<1>4. ASSUME NEW t \in 0..n - 1, t \in P
      PROVE  t + 1 \in P
  <2>1. t + 1 \in 1..n /\ (t + 1) - 1 = t /\ t \in 0..n /\ t + 1 \in 0..n
    BY <1>1
  <2>. DEFINE x == log[t + 1]
  <2>2. x.hops \in H /\ x.signal \in G /\ x.node \in N /\ UpdateRight(o[t], o[t + 1], x)
    BY <1>1, <2>1
  <2>3. ASSUME NEW i \in DOMAIN o[t + 1]
        PROVE  \E j : SaysWhatItHeard(log, o[t + 1][i], j, t + 1)
    <3>. DEFINE r == o[t + 1][i]
    <3>1. Tracks(Overlays(log)[t + 1], r.node)
      BY DEF Tracks, o
    <3>2. \/ r.node # x.node /\ \E k \in DOMAIN o[t] : o[t][k] = r
          \/ r.node = x.node /\ \E k \in DOMAIN o[t] : o[t][k].node = x.node /\ r = Observed(o[t][k], x)
          \/ ~Tracks(o[t], x.node) /\ r = Observed(Fresh(x.node), x)
      BY <2>2 DEF UpdateRight
    <3>3. CASE r.node # x.node /\ \E k \in DOMAIN o[t] : o[t][k] = r
      <4>1. PICK k \in DOMAIN o[t] : o[t][k] = r
        BY <3>3
      <4>2. \E j : SaysWhatItHeard(log, r, j, t)
        BY <1>4, <4>1
      <4>. HIDE DEF r
      <4>. QED
        BY <2>2, <3>1, <3>3, <4>2, SaysMore DEF r
    <3>4. CASE \E k \in DOMAIN o[t] : o[t][k].node = x.node /\ r = Observed(o[t][k], x)
      <4>1. PICK k \in DOMAIN o[t] : o[t][k].node = x.node /\ r = Observed(o[t][k], x)
        BY <3>4
      <4>. DEFINE e == o[t][k]
      <4>2. \E j : SaysWhatItHeard(log, e, j, t)
        BY <1>4, <4>1
      <4>3. e \in EntryOf(N, H, G)
        BY <1>1, <2>1, <4>1
      <4>4. e.node = x.node /\ r = Observed(e, x)
        BY <4>1
      <4>. HIDE DEF r, e
      <4>5. \E j : SaysWhatItHeard(log, r, j, t + 1)
        BY <2>2, <3>1, <4>2, <4>3, <4>4, SaysMore
      <4>. QED
        BY <4>5 DEF r
    <3>5. CASE ~Tracks(o[t], x.node) /\ r = Observed(Fresh(x.node), x)
      <4>. DEFINE e == Fresh(x.node)
      <4>1. e \in EntryOf(N, H, G)
        BY <1>2, <2>2 DEF Fresh, EntryOf
      <4>2. e = Fresh(x.node) /\ r = Observed(e, x) /\ ~Tracks(Overlays(log)[t], x.node)
        BY <3>5 DEF o
      <4>. HIDE DEF r, e
      <4>3. \E j : SaysWhatItHeard(log, r, j, t + 1)
        BY <2>2, <3>1, <4>1, <4>2, SaysMore
      <4>. QED
        BY <4>3 DEF r
    <3>. QED
      BY <3>2, <3>3, <3>4, <3>5
  <2>. QED
    BY <2>1, <2>3
<1>5. 0..n \subseteq P
  <2>. HIDE DEF P
  <2>. QED
    BY <1>1, <1>3, <1>4, Induction
<1>. QED
  BY <1>5 DEF o

LEMMA JoinedOnce ==
  ASSUME NEW log, NEW node, NEW t \in Nat, NEW j, NEW k, Since(log, node, j, t), Since(log, node, k, t)
  PROVE  j = k
<1>1. j \in 1..t /\ k \in 1..t
  BY DEF Since
<1>2. CASE j < k
  <2>1. k - 1 \in j..t
    BY <1>1, <1>2
  <2>. QED
    BY <2>1 DEF Since
<1>3. CASE k < j
  <2>1. j - 1 \in k..t
    BY <1>1, <1>3
  <2>. QED
    BY <2>1 DEF Since
<1>. QED
  BY <1>1, <1>2, <1>3

\* A call with a log of packets finds the overlay right.
LEMMA OverlayRight ==
  ASSUME call.packets # << >>, IsLog(call.packets, Len(call.packets))
  PROVE  FreshnessRight
<1>. DEFINE log == call.packets
            n == Len(log)
            overlay(t) == Overlays(log)[t]
            joined(m) == CHOOSE t \in 1..n : /\ \A u \in t..n : Tracks(overlay(u), m)
                                             /\ ~Tracks(overlay(t - 1), m)
            stay(m) == {t \in joined(m)..n : log[t].node = m}
            direct(m) == {t \in stay(m) : log[t].hops = 0 /\ log[t].signal # None}
            latest(times) == CHOOSE t \in times : \A u \in times : u <= t
            heard(t) == IF log[t].rx = None \/ log[t].rx > t THEN t ELSE log[t].rx
            said(e) == /\ e.lastHeard \in {heard(t) : t \in stay(e.node)}
                       /\ \A t \in stay(e.node) : heard(t) <= e.lastHeard
                       /\ e.signal = IF direct(e.node) = {} THEN None ELSE log[latest(direct(e.node))].signal
            evicted(m) == Tracks(overlay(n - 1), m) /\ ~Tracks(overlay(n), m)
            gone(m) == \A i \in DOMAIN overlay(n - 1) :
                         Entry(overlay(n - 1), m).lastHeard <= overlay(n - 1)[i].lastHeard
<1>. HIDE DEF n
<1>1. n \in Nat /\ IsLog(log, n) /\ n \in 1..n /\ n \in 0..n
  BY DEF IsLog, n
<1>2. SUFFICES /\ Len(overlay(n)) <= Limit /\ Tracks(overlay(n), log[n].node)
               /\ \A i \in DOMAIN overlay(n) : said(overlay(n)[i])
               /\ \A m \in {o.node : o \in ToSet(log)} : evicted(m) => gone(m)
  BY DEF FreshnessRight, n
<1>. HIDE DEF log
<1>3. /\ Len(overlay(n)) <= Limit /\ Tracks(overlay(n), log[n].node)
      /\ UpdateRight(overlay(n - 1), overlay(n), log[n])
  BY <1>1, OverlayStep DEF log
<1>4. ASSUME NEW i \in DOMAIN overlay(n)
      PROVE  said(overlay(n)[i])
  <2>. DEFINE e == overlay(n)[i]
              node == e.node
  <2>1. PICK j : SaysWhatItHeard(log, e, j, n)
    BY <1>1, OverlaySays DEF log
  <2>. HIDE DEF e
  <2>2. joined(node) = j
    <3>1. Since(log, node, j, n)
      BY <2>1 DEF SaysWhatItHeard
    <3>2. /\ j \in 1..n
          /\ \A u \in j..n : Tracks(overlay(u), node)
          /\ ~Tracks(overlay(j - 1), node)
      BY <3>1 DEF Since
    <3>3. ASSUME NEW t \in 1..n, \A u \in t..n : Tracks(overlay(u), node), ~Tracks(overlay(t - 1), node)
          PROVE  t = j
      <4>1. Since(log, node, t, n)
        BY <3>3 DEF Since
      <4>. QED
        BY <1>1, <3>1, <4>1, JoinedOnce
    <3>. HIDE DEF overlay, node
    <3>. QED
      BY <3>2, <3>3
  <2>3. stay(node) = StayOf(log, node, j, n)
    BY <2>2, Zenon DEF StayOf
  <2>4. direct(node) = DirectOf(log, node, j, n)
    BY <2>3, Zenon DEF DirectOf
  <2>5. /\ \E u \in stay(node) : e.lastHeard = HeardIn(log, u)
        /\ \A u \in stay(node) : HeardIn(log, u) <= e.lastHeard
        /\ \/ direct(node) = {} /\ e.signal = None
           \/ \E u \in direct(node) : e.signal = log[u].signal /\ \A v \in direct(node) : v <= u
    <3>. HIDE DEF stay, direct
    <3>. QED
      BY <2>1, <2>3, <2>4 DEF SaysWhatItHeard
  <2>6. \A u : HeardIn(log, u) = heard(u)
    BY DEF HeardIn
  <2>7. direct(node) \subseteq Int
    BY <1>1, <2>2, <2>1 DEF SaysWhatItHeard, Since
  <2>. HIDE DEF stay, direct, heard, node
  <2>8. e.signal = IF direct(node) = {} THEN None ELSE log[latest(direct(node))].signal
    <3>1. CASE direct(node) = {}
      BY <2>5, <3>1
    <3>2. CASE direct(node) # {}
      <4>1. PICK u \in direct(node) : e.signal = log[u].signal /\ \A v \in direct(node) : v <= u
        BY <2>5, <3>2
      <4>2. latest(direct(node)) = u
        BY <2>7, <4>1
      <4>. QED
        BY <3>2, <4>1, <4>2
    <3>. QED
      BY <3>1, <3>2
  <2>9. e.lastHeard \in {heard(t) : t \in stay(node)} /\ \A t \in stay(node) : heard(t) <= e.lastHeard
    BY <2>5, <2>6
  <2>. QED
    BY <2>8, <2>9 DEF node, e
<1>5. ASSUME NEW m, evicted(m)
      PROVE  gone(m)
  <2>. DEFINE k == CHOOSE i \in DOMAIN overlay(n - 1) : overlay(n - 1)[i].node = m
  <2>1. k \in DOMAIN overlay(n - 1) /\ overlay(n - 1)[k].node = m
    BY <1>5 DEF Tracks
  <2>2. Entry(overlay(n - 1), m) = overlay(n - 1)[k]
    BY DEF Entry
  <2>. HIDE DEF k
  <2>3. \A i \in DOMAIN overlay(n - 1) : overlay(n - 1)[k].lastHeard <= overlay(n - 1)[i].lastHeard
    BY <1>3, <1>5, <2>1 DEF UpdateRight
  <2>. QED
    BY <2>2, <2>3
<1>. HIDE DEF said, evicted, gone, overlay
<1>. QED
  BY <1>3, <1>4, <1>5

-----------------------------------------------------------------------------
(* Who is let in.                                                          *)

Form(bangs, upper, body) == [bangs |-> bangs, upper |-> upper, body |-> body]

Written(bangs, body) == Form(bangs, FALSE, body)

LEMMA FormIs ==
  ASSUME NEW b, NEW u, NEW w
  PROVE  Form(b, u, w).bangs = b /\ Form(b, u, w).upper = u /\ Form(b, u, w).body = w
BY DEF Form

LEMMA LowerIs ==
  ASSUME NEW b, NEW u, NEW w
  PROVE  Lower(Form(b, u, w)) = Form(b, FALSE, w)
<1>. DEFINE v == FALSE
<1>. SUFFICES Lower(Form(b, u, w)) = Form(b, v, w)
  OBVIOUS
<1>1. Lower(Form(b, u, w)) = [Form(b, u, w) EXCEPT !.upper = v]
  BY DEF Lower
<1>. HIDE DEF v
<1>. QED
  BY <1>1 DEF Form

LEMMA BangsAre ==
  ASSUME NEW b, NEW u, NEW w
  PROVE  Bare(Form(b, u, w)) = Form(0, u, w) /\ Banged(Form(b, u, w)) = Form(b + 1, u, w)
BY DEF Form, Bare, Banged

LEMMA WrittenIs ==
  ASSUME NEW b, NEW w
  PROVE  /\ Written(b, w).bangs = b /\ Written(b, w).body = w
         /\ Lower(Written(b, w)) = Written(b, w) /\ Bare(Written(b, w)) = Written(0, w)
         /\ Banged(Written(b, w)) = Written(b + 1, w)
         /\ b \in 0..2 /\ w \in HexIds \cup Words => Written(b, w) \in Forms
<1>. DEFINE v == FALSE
<1>1. Form(b, v, w).bangs = b /\ Form(b, v, w).upper = v /\ Form(b, v, w).body = w
  <2>. HIDE DEF v
  <2>. QED
    BY FormIs
<1>2. Lower(Form(b, v, w)) = Form(b, v, w) /\ v \in BOOLEAN
  BY LowerIs, Zenon
<1>3. /\ Bare(Form(b, v, w)) = Form(0, v, w) /\ Banged(Form(b, v, w)) = Form(b + 1, v, w)
      /\ b \in 0..2 /\ w \in HexIds \cup Words => Form(b, v, w) \in Forms
  <2>. HIDE DEF v
  <2>1. Bare(Form(b, v, w)) = Form(0, v, w) /\ Banged(Form(b, v, w)) = Form(b + 1, v, w)
    BY BangsAre
  <2>2. b \in 0..2 /\ w \in HexIds \cup Words => Form(b, v, w) \in Forms
    BY <1>2 DEF Form, Forms
  <2>. QED
    BY <2>1, <2>2
<1>. QED
  BY <1>1, <1>2, <1>3, Zenon DEF Written

LEMMA WrittenSmall ==
  ASSUME NEW b, NEW w
  PROVE  Written(b, w).upper = FALSE
<1>. DEFINE v == FALSE
<1>1. Form(b, v, w).upper = v
  <2>. HIDE DEF v
  <2>. QED
    BY FormIs
<1>. QED
  BY <1>1, Zenon DEF Written

LEMMA OneBang ==
  ASSUME NEW b, NEW w
  PROVE  [Written(b, w) EXCEPT !.bangs = 1] = Written(1, w)
<1>. DEFINE v == FALSE
<1>1. [Form(b, v, w) EXCEPT !.bangs = 1] = Form(1, v, w)
  <2>. HIDE DEF v
  <2>. QED
    BY DEF Form
<1>. QED
  BY <1>1, Zenon DEF Written

LEMMA FormsAre ==
  ASSUME NEW form \in Forms
  PROVE  /\ form.bangs \in 0..2 /\ form.body \in HexIds \cup Words
         /\ Lower(form) = Written(form.bangs, form.body) /\ Lower(form) \in Forms
         /\ form.upper = FALSE => /\ form = Written(form.bangs, form.body)
                                  /\ Bare(form) = Written(0, form.body)
                                  /\ Banged(form) = Written(form.bangs + 1, form.body)
<1>1. PICK b \in 0..2, u \in BOOLEAN, w \in HexIds \cup Words : form = Form(b, u, w)
  <2>1. form = Form(form.bangs, form.upper, form.body)
    BY DEF Forms, Form
  <2>2. form.bangs \in 0..2 /\ form.upper \in BOOLEAN /\ form.body \in HexIds \cup Words
    BY DEF Forms
  <2>. QED
    BY <2>1, <2>2
<1>2. form.bangs = b /\ form.upper = u /\ form.body = w
  BY <1>1, FormIs
<1>3. Lower(form) = Written(b, w)
  BY <1>1, LowerIs, Zenon DEF Written
<1>4. Lower(form) \in Forms
  <2>1. Form(b, FALSE, w) \in Forms
    BY DEF Form, Forms
  <2>. QED
    BY <1>3, <2>1, Zenon DEF Written
<1>5. Bare(form) = Form(0, u, w) /\ Banged(form) = Form(b + 1, u, w)
  BY <1>1, BangsAre
<1>. QED
  BY <1>1, <1>2, <1>3, <1>4, <1>5, Zenon DEF Written

\* The id of a sender is a form in small letters, that normalizing leaves alone.
LEMMA NormalFormIs ==
  ASSUME NEW form \in Forms
  PROVE  /\ NormalizeNodeId(form) \in Forms /\ NormalizeNodeId(form).upper = FALSE
         /\ NormalizeNodeId(NormalizeNodeId(form)) = NormalizeNodeId(form)
<1>. DEFINE low == Lower(form)
            id == NormalizeNodeId(form)
<1>1. low = Written(form.bangs, form.body) /\ form.bangs \in 0..2 /\ form.body \in HexIds \cup Words
  BY FormsAre
<1>2. low.bangs = form.bangs /\ low.body = form.body /\ [low EXCEPT !.bangs = 1] = Written(1, low.body)
  <2>1. low.bangs = form.bangs /\ low.body = form.body
    BY <1>1, WrittenIs
  <2>2. [Written(form.bangs, form.body) EXCEPT !.bangs = 1] = Written(1, form.body)
    BY OneBang
  <2>. HIDE DEF low
  <2>. QED
    BY <1>1, <2>1, <2>2, Zenon
<1>. HIDE DEF low
<1>3. \/ form.body \in HexIds /\ id = Written(1, form.body)
      \/ ~(form.body \in HexIds /\ form.bangs <= 1) /\ id = Written(form.bangs, form.body)
  BY <1>1, <1>2, Zenon DEF NormalizeNodeId, low
<1>. HIDE DEF id
<1>4. id \in Forms /\ id.upper = FALSE
  <2>1. 1 \in 0..2
    OBVIOUS
  <2>2. \E b \in 0..2 : id = Written(b, form.body)
    BY <1>1, <1>3, <2>1, Zenon
  <2>3. PICK b \in 0..2 : id = Written(b, form.body)
    BY <2>2, Zenon
  <2>4. Written(b, form.body) \in Forms
    BY <1>1, WrittenIs
  <2>5. Written(b, form.body).upper = FALSE
    BY WrittenSmall, Zenon
  <2>. QED
    BY <2>3, <2>4, <2>5, Zenon
<1>5. /\ Lower(id) = id
      /\ \/ id.body \in HexIds /\ id.bangs = 1 /\ [id EXCEPT !.bangs = 1] = id
         \/ ~(id.body \in HexIds /\ id.bangs <= 1)
  BY <1>3, WrittenIs, OneBang
<1>6. NormalizeNodeId(id) = id
  BY <1>5, Zenon DEF NormalizeNodeId
<1>. QED
  BY <1>4, <1>6 DEF id

\* The forms of a part: in small letters, without a bang, with one.
LEMMA PartIs ==
  ASSUME NEW part \in Forms
  PROVE  /\ Lower(part) = Written(part.bangs, part.body) /\ part.bangs \in 0..2
         /\ Lower(part).bangs = part.bangs
         /\ Bare(Lower(part)) = Written(0, part.body)
         /\ Banged(Lower(part)) = Written(part.bangs + 1, part.body)
         /\ Banged(Bare(Lower(part))) = Written(1, part.body)
<1>1. Lower(part) = Written(part.bangs, part.body) /\ part.bangs \in 0..2 /\ Lower(part) \in Forms
  BY FormsAre
<1>2. 0 + 1 = 1
  OBVIOUS
<1>. QED
  BY <1>1, <1>2, WrittenIs

\* What the adapter's list has of a part, and where what it has comes from.
LEMMA AllowedIs ==
  ASSUME NEW lists, Listed(lists) \subseteq Forms
  PROVE  /\ \A part \in Listed(lists) :
              /\ part.bangs = 0 => {Written(0, part.body), Written(1, part.body)} \subseteq AllowedNodes(lists)
              /\ part.bangs # 0 => {Written(part.bangs, part.body), Written(0, part.body)}
                                     \subseteq AllowedNodes(lists)
         /\ \A form \in AllowedNodes(lists) : \E part \in Listed(lists) :
              /\ form.body = part.body
              /\ form = Written(part.bangs, part.body)
                   \/ form = Written(0, part.body) \/ form = Written(1, part.body)
<1>. DEFINE parts == Listed(lists)
            two(part) == LET p == Lower(part) IN {p, IF p.bangs = 0 THEN Banged(p) ELSE Bare(p)}
<1>1. AllowedNodes(lists) = UNION {two(part) : part \in parts}
  BY DEF AllowedNodes
<1>2. ASSUME NEW part \in parts
      PROVE  two(part) = IF part.bangs = 0 THEN {Written(0, part.body), Written(1, part.body)}
                                           ELSE {Written(part.bangs, part.body), Written(0, part.body)}
  <2>1. 0 + 1 = 1
    OBVIOUS
  <2>. QED
    BY <2>1, PartIs
<1>3. \A form \in AllowedNodes(lists) : \E part \in parts : form \in two(part)
  BY <1>1
<1>4. \A part \in parts : two(part) \subseteq AllowedNodes(lists)
  BY <1>1
<1>. HIDE DEF two
<1>5. ASSUME NEW form \in AllowedNodes(lists)
      PROVE  \E part \in parts : /\ form.body = part.body
                                 /\ form = Written(part.bangs, part.body)
                                      \/ form = Written(0, part.body) \/ form = Written(1, part.body)
  <2>1. PICK part \in parts : form \in two(part)
    BY <1>3
  <2>2. \/ form = Written(part.bangs, part.body)
        \/ form = Written(0, part.body) \/ form = Written(1, part.body)
    BY <1>2, <2>1
  <2>. QED
    BY <2>2, WrittenIs
<1>. QED
  BY <1>2, <1>4, <1>5

\* What the rewritten list of the environment has of a part, and of which part it is.
LEMMA ExpandedIs ==
  ASSUME NEW parts, parts \subseteq Forms
  PROVE  /\ \A part \in parts :
              {Written(part.bangs, part.body), Written(0, part.body), Written(1, part.body)}
                \subseteq ExpandedEnv(parts)
         /\ \A form \in ExpandedEnv(parts) : \E part \in parts :
              \/ form = part \/ form = Written(part.bangs, part.body)
              \/ form = Written(0, part.body) \/ form = Written(1, part.body)
  BY PartIs DEF ExpandedEnv

\* Whom the adapter lets in is on its list, and whom the environment's list lets in at
\* the gateway it lets in at the adapter.
LEMMA GatesAgree ==
  ASSUME NEW id \in Forms, id.upper = FALSE, NEW lists \in Lists
  PROVE  /\ IsAuthorizedNode(id, AllowedNodes(lists)) =>
              /\ id.bangs < 2
              /\ \E part \in Listed(lists) : part.body = id.body
              /\ DmPolicy(lists, FALSE) = "allowlist"
         /\ lists.env # None =>
              (IsAuthorizedNode(id, AllowedNodes(lists)) <=> id.bangs < 2 /\ GatewayAccepts(id, lists.env))
<1>. DEFINE parts == Listed(lists)
            allowed == AllowedNodes(lists)
<1>1. /\ id = Written(id.bangs, id.body) /\ Lower(id) = id /\ Bare(id) = Written(0, id.body)
      /\ id.bangs \in 0..2
  BY FormsAre
<1>2. IsAuthorizedNode(id, allowed) <=>
        /\ id.bangs < 2
        /\ id \in allowed \/ (id.bangs = 1 /\ Written(0, id.body) \in allowed)
  <2>1. IsAuthorizedNode(id, allowed) <=>
          LET nid == Lower(id)
          IN  nid.bangs < 2 /\ (nid \in allowed \/ (nid.bangs = 1 /\ Bare(nid) \in allowed))
    BY DEF IsAuthorizedNode
  <2>2. Lower(id) = id
    BY <1>1
  <2>. QED
    BY <1>1, <2>1, <2>2, Zenon
<1>3. parts \subseteq Forms
  BY DEF Lists, Listed
<1>4. /\ \A part \in parts :
           /\ part.bangs = 0 => {Written(0, part.body), Written(1, part.body)} \subseteq allowed
           /\ part.bangs # 0 => {Written(part.bangs, part.body), Written(0, part.body)} \subseteq allowed
      /\ \A form \in allowed : \E part \in parts :
           /\ form.body = part.body
           /\ form = Written(part.bangs, part.body)
                \/ form = Written(0, part.body) \/ form = Written(1, part.body)
  BY <1>3, AllowedIs
<1>. HIDE DEF allowed
<1>5. ASSUME IsAuthorizedNode(id, allowed)
      PROVE  /\ allowed # {}
             /\ \E part \in parts : /\ part.body = id.body
                                    /\ id = Written(part.bangs, part.body)
                                         \/ id = Written(0, part.body) \/ id = Written(1, part.body)
  <2>1. CASE id \in allowed
    BY <1>4, <2>1
  <2>2. CASE id.bangs = 1 /\ Written(0, id.body) \in allowed
    <3>1. PICK part \in parts : Written(0, id.body).body = part.body
      BY <1>4, <2>2
    <3>2. part.body = id.body /\ id = Written(1, part.body)
      BY <1>1, <2>2, <3>1, WrittenIs
    <3>. QED
      BY <2>2, <3>2
  <2>. QED
    BY <1>2, <1>5, <2>1, <2>2
<1>6. ASSUME lists.env # None
      PROVE  IsAuthorizedNode(id, allowed) <=> id.bangs < 2 /\ id \in ExpandedEnv(parts)
  <2>1. ASSUME IsAuthorizedNode(id, allowed)
        PROVE  id.bangs < 2 /\ id \in ExpandedEnv(parts)
    BY <1>2, <1>3, <1>5, <2>1, ExpandedIs
  <2>2. ASSUME id.bangs < 2, id \in ExpandedEnv(parts)
        PROVE  IsAuthorizedNode(id, allowed)
    <3>1. PICK part \in parts : \/ id = part \/ id = Written(part.bangs, part.body)
                               \/ id = Written(0, part.body) \/ id = Written(1, part.body)
      BY <1>3, <2>2, ExpandedIs
    <3>2. \/ id.bangs = part.bangs \/ id.bangs = 0 \/ id.bangs = 1
      BY <3>1, WrittenIs
    <3>3. id.body = part.body /\ part.bangs \in 0..2
      BY <1>3, <3>1, WrittenIs, PartIs
    <3>4. CASE part.bangs = 0
      BY <1>1, <1>2, <1>4, <2>2, <3>2, <3>3, <3>4
    <3>5. CASE part.bangs # 0
      <4>1. Written(0, id.body) \in allowed
        BY <1>4, <3>3, <3>5
      <4>2. id.bangs = 0 \/ id.bangs = 1
        BY <1>1, <2>2
      <4>. QED
        BY <1>1, <1>2, <4>1, <4>2
    <3>. QED
      BY <3>4, <3>5
  <2>. QED
    BY <2>1, <2>2
<1>7. allowed # {} => DmPolicy(lists, FALSE) = "allowlist"
  BY DEF DmPolicy, allowed
<1>8. lists.env # None => parts = lists.env
  BY DEF Listed
<1>. HIDE DEF parts
<1>9. IsAuthorizedNode(id, allowed) =>
        /\ id.bangs < 2
        /\ \E part \in parts : part.body = id.body
        /\ DmPolicy(lists, FALSE) = "allowlist"
  BY <1>2, <1>5, <1>7
<1>10. lists.env # None =>
         (IsAuthorizedNode(id, allowed) <=> id.bangs < 2 /\ GatewayAccepts(id, lists.env))
  BY <1>6, <1>8 DEF GatewayAccepts
<1>. QED
  BY <1>9, <1>10 DEF parts, allowed

LEMMA GateRight ==
  ASSUME call.of = "gate", call.form \in Forms, call.lists \in Lists
  PROVE  IntakeRight
<1>. DEFINE sender == NormalizeNodeId(call.form)
            lists == call.lists
            listed == IsAuthorizedNode(sender, AllowedNodes(lists))
            home == HomeChannel([kind |-> "node", id |-> call.form])
<1>1. sender \in Forms /\ sender.upper = FALSE /\ NormalizeNodeId(sender) = sender
  BY NormalFormIs
<1>2. home # None => home.id = sender
  BY DEF HomeChannel
<1>. HIDE DEF sender, home
<1>3. /\ lists.env # None => (listed <=> sender.bangs < 2 /\ GatewayAccepts(sender, lists.env))
      /\ listed => /\ DmPolicy(lists, FALSE) = "allowlist"
                   /\ \E part \in Listed(lists) : part.body = sender.body
  BY <1>1, GatesAgree
<1>. QED
  BY <1>1, <1>2, <1>3 DEF IntakeRight, sender, home

LEMMA PacketRight ==
  ASSUME call.of = "packet", call.packet \in Envelopes, call.config \in Configs
  PROVE  IntakeRight
<1>. DEFINE packet == call.packet
            config == call.config
            sender == Sender(packet)
            outcome == Outcome(packet, config)
            route == Route(packet, config)
<1>1. /\ {packet.fromId, packet.from} \subseteq Forms \cup {None}
      /\ packet.kind \in {"text", "telemetry", "position", "other"} /\ config.lists \in Lists
      /\ packet.broadcast \in BOOLEAN
  BY AlgorithmsAssumption
<1>2. ASSUME sender # None
      PROVE  sender \in Forms /\ sender.upper = FALSE
  <2>1. PICK from \in Forms : sender = NormalizeNodeId(from)
    BY <1>1, <1>2 DEF Sender
  <2>. QED
    BY <2>1, NormalFormIs
<1>3. \A other \in Configs : other.me = config.me => Records(packet, other) = Records(packet, config)
  BY DEF Records
<1>4. sender # None => "freshness" \in Records(packet, config)
  BY DEF Records
<1>5. /\ outcome = "text" => /\ sender # None /\ sender # config.me /\ packet.kind = "text"
                             /\ Authorized(sender, config)
      /\ outcome = "unauthorized" => ~Authorized(sender, config)
  BY <1>1 DEF Outcome
<1>6. /\ route \in {"agent", "channel"} => outcome = "text" /\ (route = "agent" <=> ~packet.broadcast)
      /\ route = "owner" => outcome = "unauthorized" /\ Forwardable(packet, config)
  <2>. HIDE DEF outcome, packet, config
  <2>1. CASE outcome = "unauthorized"
    <3>1. route = IF packet.text = "words" /\ Forwardable(packet, config) THEN "owner" ELSE "nobody"
      BY <2>1 DEF Route, outcome
    <3>. HIDE DEF route
    <3>. QED
      BY <2>1, <3>1
  <2>2. CASE outcome = "text"
    <3>1. route = IF packet.broadcast THEN IF config.channels THEN "channel" ELSE "nobody" ELSE "agent"
      BY <2>2 DEF Route, outcome
    <3>. HIDE DEF route
    <3>. QED
      BY <2>2, <3>1
  <2>3. CASE outcome \notin {"unauthorized", "text"}
    <3>1. route = "nobody"
      BY <2>3 DEF Route, outcome
    <3>. HIDE DEF route
    <3>. QED
      BY <2>3, <3>1
  <2>. QED
    BY <2>1, <2>2, <2>3
<1>7. Authorized(sender, config) => config.allowAll \/ IsAuthorizedNode(sender, AllowedNodes(config.lists))
  BY DEF Authorized
<1>8. Forwardable(packet, config) => ~packet.broadcast /\ config.target \notin {sender, config.me}
  BY DEF Forwardable
<1>. HIDE DEF route, outcome, sender, packet, config
<1>9. ASSUME route \in {"agent", "channel"}
      PROVE  /\ packet.kind = "text" /\ sender # config.me
             /\ \/ config.allowAll
                \/ /\ DmPolicy(config.lists, FALSE) = "allowlist"
                   /\ config.lists.env # None => GatewayAccepts(sender, config.lists.env)
             /\ route = "agent" <=> ~packet.broadcast
  <2>1. /\ sender \in Forms /\ sender.upper = FALSE /\ config.lists \in Lists
        /\ config.allowAll \/ IsAuthorizedNode(sender, AllowedNodes(config.lists))
    BY <1>1, <1>2, <1>5, <1>6, <1>7, <1>9
  <2>2. \/ config.allowAll
        \/ /\ DmPolicy(config.lists, FALSE) = "allowlist"
           /\ config.lists.env # None => GatewayAccepts(sender, config.lists.env)
    BY <2>1, GatesAgree
  <2>. QED
    BY <1>5, <1>6, <1>9, <2>2
<1>10. ASSUME route = "owner"
       PROVE  /\ ~Authorized(sender, config) /\ ~packet.broadcast
              /\ config.target \notin {sender, config.me}
  BY <1>5, <1>6, <1>8, <1>10
<1>. QED
  BY <1>3, <1>4, <1>9, <1>10 DEF IntakeRight, route, sender, packet, config

-----------------------------------------------------------------------------
(* The keys of TCP connections.                                            *)

Around(a, c, b) == a \o <<c>> \o b

Holding(text, a, c, b) ==
  /\ Len(text) = Len(a) + 1 + Len(b)
  /\ \A i \in 1..Len(a) : text[i] = a[i]
  /\ text[Len(a) + 1] = c
  /\ \A i \in 1..Len(b) : text[Len(a) + 1 + i] = b[i]

LEMMA AroundIs ==
  ASSUME NEW S, NEW a \in Seq(S), NEW c \in S, NEW b \in Seq(S)
  PROVE  Around(a, c, b) \in Seq(S) /\ Holding(Around(a, c, b), a, c, b)
<1>. DEFINE s == a \o <<c>>
            text == s \o b
            n == Len(a)
            m == Len(b)
<1>1. <<c>> \in Seq(S) /\ Len(<<c>>) = 1 /\ <<c>>[1] = c /\ n \in Nat /\ m \in Nat
  OBVIOUS
<1>2. /\ s \in Seq(S) /\ Len(s) = n + 1
      /\ \A i \in 1..n + 1 : s[i] = IF i <= n THEN a[i] ELSE <<c>>[i - n]
  BY <1>1, ConcatProperties
<1>3. (\A i \in 1..n : s[i] = a[i]) /\ s[n + 1] = c
  BY <1>1, <1>2
<1>. HIDE DEF s, n, m
<1>4. /\ text \in Seq(S) /\ Len(text) = n + 1 + m
      /\ \A i \in 1..n + 1 + m : text[i] = IF i <= n + 1 THEN s[i] ELSE b[i - (n + 1)]
  <2>1. /\ text \in Seq(S) /\ Len(text) = Len(s) + Len(b)
        /\ \A i \in 1..Len(s) + Len(b) : text[i] = IF i <= Len(s) THEN s[i] ELSE b[i - Len(s)]
    BY <1>2, ConcatProperties, Zenon
  <2>. HIDE DEF text
  <2>. QED
    BY <1>2, <2>1, Zenon DEF m
<1>. HIDE DEF text
<1>5. /\ \A i \in 1..n : text[i] = a[i]
      /\ text[n + 1] = c
      /\ \A i \in 1..m : text[n + 1 + i] = b[i]
  BY <1>1, <1>3, <1>4
<1>. QED
  BY <1>4, <1>5 DEF Around, Holding, text, s, n, m

\* The character is where it is, and what is before and after it is found again.
LEMMA Parted ==
  ASSUME NEW S, NEW a \in Seq(S), NEW c \in S, NEW b \in Seq(S)
  PROVE  /\ Holds(Around(a, c, b), c)
         /\ Before(Around(a, c, b), Len(a) + 1) = a /\ After(Around(a, c, b), Len(a) + 1) = b
         /\ ~Holds(a, c) => FirstAt(Around(a, c, b), c) = Len(a) + 1
         /\ ~Holds(b, c) => LastAt(Around(a, c, b), c) = Len(a) + 1
<1>. DEFINE text == Around(a, c, b)
            n == Len(a)
            m == Len(b)
<1>1. /\ text \in Seq(S) /\ Len(text) = n + 1 + m /\ n \in Nat /\ m \in Nat
      /\ \A i \in 1..n : text[i] = a[i]
      /\ text[n + 1] = c
      /\ \A i \in 1..m : text[n + 1 + i] = b[i]
  <2>1. n \in Nat /\ m \in Nat
    OBVIOUS
  <2>2. /\ text \in Seq(S) /\ Len(text) = n + 1 + m
        /\ \A i \in 1..n : text[i] = a[i]
        /\ text[n + 1] = c
        /\ \A i \in 1..m : text[n + 1 + i] = b[i]
    <3>1. text \in Seq(S) /\ Holding(text, a, c, b)
      BY AroundIs
    <3>. HIDE DEF text
    <3>. QED
      BY <3>1, Zenon DEF Holding
  <2>. QED
    BY <2>1, <2>2, Zenon
<1>. HIDE DEF text
<1>2. DOMAIN text = 1..n + 1 + m /\ DOMAIN a = 1..n /\ DOMAIN b = 1..m /\ n + 1 \in DOMAIN text
  BY <1>1
<1>3. Holds(text, c)
  BY <1>1, <1>2 DEF Holds, ToSet
<1>4. Before(text, n + 1) = a
  <2>. DEFINE before == SubSeq(text, 1, n)
  <2>1. before \in Seq(S) /\ Len(before) = n /\ \A i \in 1..n : before[i] = text[i]
    BY <1>1, SubSeqProperties
  <2>2. Before(text, n + 1) = before
    BY <1>1 DEF Before
  <2>. HIDE DEF before
  <2>3. before = a
    BY <1>1, <2>1, SeqEqual
  <2>. QED
    BY <2>2, <2>3
<1>5. After(text, n + 1) = b
  <2>. DEFINE after == SubSeq(text, n + 2, n + 1 + m)
  <2>1. after \in Seq(S) /\ Len(after) = m /\ \A i \in 1..m : after[i] = text[n + 1 + i]
    <3>1. n + 1 \in 0..Len(text) /\ n + 1 + m \in n + 1..Len(text)
      BY <1>1
    <3>2. /\ SubSeq(text, (n + 1) + 1, n + 1 + m) \in Seq(S)
          /\ Len(SubSeq(text, (n + 1) + 1, n + 1 + m)) = (n + 1 + m) - (n + 1)
          /\ \A i \in 1..(n + 1 + m) - (n + 1) : SubSeq(text, (n + 1) + 1, n + 1 + m)[i] = text[(n + 1) + i]
      BY <1>1, <3>1, PartOf
    <3>3. (n + 1) + 1 = n + 2 /\ (n + 1 + m) - (n + 1) = m
      BY <1>1
    <3>. HIDE DEF n, m
    <3>. QED
      BY <3>2, <3>3
  <2>2. After(text, n + 1) = after
    <3>1. (n + 1) + 1 = n + 2
      BY <1>1
    <3>. QED
      BY <1>1, <3>1 DEF After
  <2>. HIDE DEF after
  <2>3. after = b
    BY <1>1, <2>1, SeqEqual
  <2>. QED
    BY <2>2, <2>3
<1>. HIDE DEF n, m
<1>6. ASSUME ~Holds(a, c)
      PROVE  FirstAt(text, c) = n + 1
  <2>1. \A i \in 1..n : text[i] # c
    BY <1>1, <1>2, <1>6 DEF Holds, ToSet
  <2>2. \A i \in DOMAIN text : (text[i] = c /\ \A j \in 1..i - 1 : text[j] # c) <=> i = n + 1
    BY <1>1, <1>2, <2>1
  <2>3. \E i \in DOMAIN text : text[i] = c /\ \A j \in 1..i - 1 : text[j] # c
    BY <1>2, <2>2
  <2>. DEFINE at == CHOOSE i \in DOMAIN text : text[i] = c /\ \A j \in 1..i - 1 : text[j] # c
  <2>4. at \in DOMAIN text /\ text[at] = c /\ \A j \in 1..at - 1 : text[j] # c
    BY <2>3, Zenon
  <2>5. FirstAt(text, c) = at
    BY DEF FirstAt
  <2>. HIDE DEF at
  <2>. QED
    BY <2>2, <2>4, <2>5
<1>7. ASSUME ~Holds(b, c)
      PROVE  LastAt(text, c) = n + 1
  <2>1. \A i \in 1..m : b[i] # c
    BY <1>2, <1>7 DEF Holds, ToSet
  <2>2. \A i \in DOMAIN text : n + 1 < i => text[i] # c
    <3>. TAKE i \in DOMAIN text
    <3>. HAVE n + 1 < i
    <3>. DEFINE k == i - (n + 1)
    <3>1. k \in 1..m /\ n + 1 + k = i
      BY <1>1, <1>2
    <3>. HIDE DEF k
    <3>2. text[n + 1 + k] = b[k] /\ b[k] # c
      BY <1>1, <2>1, <3>1
    <3>. QED
      BY <3>1, <3>2
  <2>3. \A i \in DOMAIN text :
          (text[i] = c /\ \A j \in i + 1..Len(text) : text[j] # c) <=> i = n + 1
    <3>1. ASSUME NEW i \in DOMAIN text, i < n + 1
          PROVE  n + 1 \in i + 1..Len(text) /\ i # n + 1
      BY <1>1, <1>2, <3>1
    <3>2. ASSUME NEW i \in DOMAIN text, ~(i < n + 1), i # n + 1
          PROVE  text[i] # c
      BY <1>1, <1>2, <2>2, <3>2
    <3>3. \A j \in (n + 1) + 1..Len(text) : text[j] # c
      <4>1. \A j \in (n + 1) + 1..Len(text) : j \in DOMAIN text /\ n + 1 < j
        BY <1>1, <1>2
      <4>. QED
        BY <2>2, <4>1, Zenon
    <3>. QED
      BY <1>1, <3>1, <3>2, <3>3, Zenon
  <2>4. \E i \in DOMAIN text : text[i] = c /\ \A j \in i + 1..Len(text) : text[j] # c
    BY <1>2, <2>3
  <2>. DEFINE at == CHOOSE i \in DOMAIN text : text[i] = c /\ \A j \in i + 1..Len(text) : text[j] # c
  <2>5. at \in DOMAIN text /\ text[at] = c /\ \A j \in at + 1..Len(text) : text[j] # c
    BY <2>4, Zenon
  <2>6. LastAt(text, c) = at
    BY DEF LastAt
  <2>. HIDE DEF at
  <2>. QED
    BY <2>3, <2>5, <2>6
<1>. QED
  BY <1>3, <1>4, <1>5, <1>6, <1>7 DEF text, n

\* The first character of a text, and the rest.
LEMMA HeadIs ==
  ASSUME NEW S, NEW c \in S, NEW b \in Seq(S)
  PROVE  /\ <<c>> \o b \in Seq(S) /\ <<c>> \o b # << >>
         /\ Head(<<c>> \o b) = c /\ Tail(<<c>> \o b) = b
<1>. DEFINE text == <<c>> \o b
            m == Len(b)
<1>1. <<c>> \in Seq(S) /\ Len(<<c>>) = 1 /\ <<c>>[1] = c /\ m \in Nat
  OBVIOUS
<1>2. /\ text \in Seq(S) /\ Len(text) = 1 + m
      /\ \A i \in 1..1 + m : text[i] = IF i <= 1 THEN <<c>>[i] ELSE b[i - 1]
  <2>1. /\ text \in Seq(S) /\ Len(text) = Len(<<c>>) + Len(b)
        /\ \A i \in 1..Len(<<c>>) + Len(b) :
             text[i] = IF i <= Len(<<c>>) THEN <<c>>[i] ELSE b[i - Len(<<c>>)]
    BY <1>1, ConcatProperties, Zenon
  <2>. HIDE DEF text
  <2>. QED
    BY <1>1, <2>1, Zenon
<1>. HIDE DEF text, m
<1>3. text # << >> /\ Head(text) = text[1] /\ text[1] = c
  BY <1>1, <1>2
<1>4. /\ Tail(text) \in Seq(S) /\ Len(Tail(text)) = m
      /\ \A i \in 1..m : Tail(text)[i] = b[i]
  <2>1. /\ Tail(text) \in Seq(S) /\ Len(Tail(text)) = Len(text) - 1
        /\ \A i \in 1..Len(Tail(text)) : Tail(text)[i] = text[i + 1]
    BY <1>2, <1>3, HeadTailProperties
  <2>2. Len(Tail(text)) = m
    BY <1>1, <1>2, <2>1
  <2>3. \A i \in 1..m : i + 1 \in 1..1 + m /\ ~(i + 1 <= 1) /\ (i + 1) - 1 = i
    BY <1>1
  <2>4. \A i \in 1..m : text[i + 1] = b[i]
    BY <1>2, <2>3
  <2>. QED
    BY <2>1, <2>2, <2>4
<1>5. Tail(text) = b
  BY <1>4, SeqEqual DEF m
<1>. QED
  BY <1>2, <1>3, <1>5 DEF text

Wrapped(h, p, x, y, z) == (<<x>> \o h \o <<y>>) \o <<z>> \o p

LEMMA Regrouped ==
  ASSUME NEW S, NEW h \in Seq(S), NEW p \in Seq(S), NEW x \in S, NEW y \in S, NEW z \in S
  PROVE  Wrapped(h, p, x, y, z) = <<x>> \o Around(h, y, <<z>> \o p)
<1>1. <<x>> \in Seq(S) /\ <<y>> \in Seq(S) /\ <<z>> \in Seq(S)
  OBVIOUS
<1>2. PICK a \in Seq(S), b \in Seq(S), c \in Seq(S) : a = <<x>> /\ b = <<y>> /\ c = <<z>>
  BY <1>1, Zenon
<1>3. h \o b \in Seq(S) /\ c \o p \in Seq(S)
  OBVIOUS
<1>4. PICK hb \in Seq(S) : hb = h \o b
  BY <1>3, Zenon
<1>5. PICK cp \in Seq(S) : cp = c \o p
  BY <1>3, Zenon
<1>6. (a \o hb) \o cp = a \o (hb \o cp) /\ a \o hb \in Seq(S)
  BY SMTT(30)
<1>7. (a \o h) \o b = a \o (h \o b)
  BY SMTT(30)
<1>8. PICK ahb \in Seq(S) : ahb = a \o hb
  BY <1>6, Zenon
<1>9. (ahb \o c) \o p = ahb \o (c \o p)
  BY SMTT(30)
<1>10. ahb = (a \o h) \o b
  BY <1>4, <1>7, <1>8, Zenon
<1>11. ((a \o h) \o b) \o c \o p = a \o ((h \o b) \o (c \o p))
  BY <1>4, <1>5, <1>6, <1>8, <1>9, <1>10, Zenon
<1>. QED
  BY <1>2, <1>11, Zenon DEF Around, Wrapped

\* What is written in brackets before the port is the host.
LEMMA BracketsRight ==
  ASSUME NEW S, {":", "[", "]"} \subseteq S, NEW host \in Seq(S), NEW port \in Seq(S),
         ~Holds(host, "]"), IsPort(port)
  PROVE  ParseTcpTarget((<<"[">> \o host \o <<"]">>) \o <<":">> \o port) = [host |-> host, port |-> port]
<1>. DEFINE after == <<":">> \o port
            inner == Around(host, "]", after)
            target == (<<"[">> \o host \o <<"]">>) \o <<":">> \o port
<1>1. after \in Seq(S) /\ after # << >> /\ Head(after) = ":" /\ Tail(after) = port
  BY HeadIs
<1>2. target = <<"[">> \o inner
  <2>1. target = Wrapped(host, port, "[", "]", ":")
    BY Zenon DEF Wrapped
  <2>2. Wrapped(host, port, "[", "]", ":") = <<"[">> \o inner
    BY SMTT(30), Regrouped
  <2>. QED
    BY <2>1, <2>2, Zenon
<1>. HIDE DEF after
<1>3. inner \in Seq(S)
  BY <1>1, AroundIs
<1>4. /\ Holds(inner, "]") /\ FirstAt(inner, "]") = Len(host) + 1
      /\ Before(inner, Len(host) + 1) = host /\ After(inner, Len(host) + 1) = after
  BY <1>1, Parted
<1>. HIDE DEF inner
<1>5. target # << >> /\ Head(target) = "[" /\ Tail(target) = inner
  <2>1. <<"[">> \o inner # << >> /\ Head(<<"[">> \o inner) = "[" /\ Tail(<<"[">> \o inner) = inner
    BY <1>3, HeadIs
  <2>. HIDE DEF target
  <2>. QED
    BY <1>2, <2>1, Zenon
<1>. HIDE DEF target
<1>6. ParseTcpTarget(target) = ParseBracketed(target)
  BY <1>5 DEF ParseTcpTarget, Bracketed
<1>7. ParseBracketed(target) =
        [host |-> Before(inner, Len(host) + 1),
         port |-> IF after # << >> /\ Head(after) = ":" THEN Port(Tail(after)) ELSE DefaultPort]
  BY <1>4, <1>5 DEF ParseBracketed
<1>8. Port(Tail(after)) = port
  BY <1>1 DEF Port
<1>. QED
  BY <1>1, <1>4, <1>6, <1>7, <1>8 DEF target

\* A host without marks is what is before the last colon.
LEMMA PlainRight ==
  ASSUME NEW S, ":" \in S, NEW host \in Seq(S), NEW port \in Seq(S),
         host # << >>, Head(host) # "[", ~Holds(port, ":"), IsPort(port)
  PROVE  ParseTcpTarget(host \o <<":">> \o port) = [host |-> host, port |-> port]
<1>. DEFINE target == Around(host, ":", port)
<1>1. /\ target \in Seq(S) /\ Len(target) = Len(host) + 1 + Len(port)
      /\ \A i \in 1..Len(host) : target[i] = host[i]
  BY AroundIs DEF Holding
<1>2. /\ Holds(target, ":") /\ LastAt(target, ":") = Len(host) + 1
      /\ Before(target, Len(host) + 1) = host /\ After(target, Len(host) + 1) = port
  BY Parted
<1>. HIDE DEF target
<1>3. target # << >> /\ Head(target) # "["
  BY <1>1
<1>4. ParseTcpTarget(target) = ParsePlain(target)
  BY <1>3 DEF ParseTcpTarget, Bracketed
<1>5. ParsePlain(target) = [host |-> host, port |-> Port(port)]
  BY <1>2 DEF ParsePlain
<1>6. Port(port) = port
  BY DEF Port
<1>. QED
  BY <1>4, <1>5, <1>6 DEF target, Around

LEMMA KeyRight ==
  ASSUME call.of = "tcp", call.host \in Seq(Chars), call.host # << >>, call.port \in Ports
  PROVE  RoundTrip
<1>. DEFINE S == Chars \cup DigitSet \cup {":", "[", "]"}
            host == call.host
            port == call.port
            n == Len(host)
            brackets == {i \in DOMAIN host : host[i] \in {"[", "]"}}
            inside == SubSeq(host, 2, Len(host) - 1)
            parsed == ParseTcpTarget(TcpTarget(host, port))
<1>1. /\ host \in Seq(S) /\ port \in Seq(S) /\ {":", "[", "]"} \subseteq S
      /\ n \in Nat /\ n # 0 /\ DOMAIN host = 1..n /\ Head(host) = host[1] /\ Last(host) = host[n]
  <2>1. port \in Seq(DigitSet) /\ host \in Seq(Chars)
    BY AlgorithmsAssumption
  <2>2. host \in Seq(S) /\ port \in Seq(S)
    <3>1. Chars \subseteq S /\ DigitSet \subseteq S
      OBVIOUS
    <3>. HIDE DEF S
    <3>. QED
      BY <2>1, <3>1, SeqMonotonic
  <2>3. n \in Nat /\ n # 0 /\ DOMAIN host = 1..n /\ Head(host) = host[1] /\ Last(host) = host[n]
    BY <2>1 DEF Last
  <2>. QED
    BY <2>2, <2>3
<1>2. IsPort(port) /\ ~Holds(port, ":") /\ ~Holds(port, "]")
  <2>1. port \in Seq(DigitSet) /\ port # << >> /\ DigitSet \cap {":", "[", "]"} = {}
    BY AlgorithmsAssumption
  <2>2. ToSet(port) \subseteq DigitSet
    BY <2>1 DEF ToSet
  <2>. QED
    BY <2>1, <2>2 DEF IsPort, Holds
<1>. HIDE DEF S
<1>3. ASSUME brackets = {}
      PROVE  parsed = [host |-> host, port |-> port]
  <2>1. Head(host) # "[" /\ ~Holds(host, "]") /\ ~Bracketed(host)
    BY <1>1, <1>3 DEF Holds, ToSet, Bracketed
  <2>2. CASE Holds(host, ":")
    <3>1. TcpTarget(host, port) = (<<"[">> \o host \o <<"]">>) \o <<":">> \o port
      BY <2>1, <2>2 DEF TcpTarget, NeedsBrackets
    <3>. HIDE DEF host, port
    <3>. QED
      BY <1>1, <1>2, <2>1, <3>1, BracketsRight
  <2>3. CASE ~Holds(host, ":")
    <3>1. TcpTarget(host, port) = host \o <<":">> \o port
      BY <2>3 DEF TcpTarget, NeedsBrackets
    <3>2. host # << >>
      OBVIOUS
    <3>. HIDE DEF host, port
    <3>. QED
      BY <1>1, <1>2, <2>1, <3>1, <3>2, PlainRight
  <2>. QED
    BY <2>2, <2>3
<1>4. ASSUME brackets = {1, Len(host)}, Head(host) = "[", Last(host) = "]"
      PROVE  parsed = [host |-> inside, port |-> port]
  <2>1. n >= 2 /\ host[1] = "[" /\ host[n] = "]" /\ \A i \in 2..n - 1 : host[i] \notin {"[", "]"}
    <3>1. host[1] = "[" /\ host[n] = "]"
      BY <1>1, <1>4
    <3>2. n # 1
      BY <3>1
    <3>3. n >= 2
      <4>1. n \in Nat /\ n # 0
        BY <1>1
      <4>. HIDE DEF n
      <4>. QED
        BY <3>2, <4>1
    <3>4. ASSUME NEW i \in 2..n - 1, host[i] \in {"[", "]"}
          PROVE  FALSE
      <4>1. i \in 1..n /\ i \notin {1, n}
        BY <1>1
      <4>2. i \in brackets
        BY <1>1, <3>4, <4>1
      <4>. QED
        BY <1>4, <4>1, <4>2
    <3>. QED
      BY <3>1, <3>3, <3>4
  <2>2. inside \in Seq(S) /\ Len(inside) = n - 2 /\ \A i \in 1..n - 2 : inside[i] = host[1 + i]
    <3>1. 1 \in 0..n /\ n - 1 \in 1..n
      BY <1>1, <2>1
    <3>2. /\ SubSeq(host, 1 + 1, n - 1) \in Seq(S) /\ Len(SubSeq(host, 1 + 1, n - 1)) = (n - 1) - 1
          /\ \A i \in 1..(n - 1) - 1 : SubSeq(host, 1 + 1, n - 1)[i] = host[1 + i]
      BY <1>1, <3>1, PartOf
    <3>3. 1 + 1 = 2 /\ (n - 1) - 1 = n - 2
      BY <1>1
    <3>. HIDE DEF host
    <3>. QED
      BY <3>2, <3>3
  <2>3. ~Holds(inside, "]")
    <3>1. DOMAIN inside = 1..n - 2 /\ \A i \in 1..n - 2 : 1 + i \in 2..n - 1
      BY <1>1, <2>1, <2>2
    <3>. HIDE DEF inside, host
    <3>. QED
      BY <2>1, <2>2, <3>1 DEF Holds, ToSet
  <2>. HIDE DEF inside
  <2>4. host = <<"[">> \o inside \o <<"]">>
    <3>. DEFINE a == <<"[">>
                b == <<"]">>
                x == a \o inside
                y == x \o b
    <3>1. /\ a \in Seq(S) /\ b \in Seq(S) /\ Len(a) = 1 /\ Len(b) = 1
          /\ a[1] = "[" /\ b[1] = "]"
      BY <1>1
    <3>. HIDE DEF host, a, b
    <3>2. /\ x \in Seq(S) /\ Len(x) = Len(a) + Len(inside)
          /\ \A i \in 1..Len(a) + Len(inside) : x[i] = IF i <= Len(a) THEN a[i] ELSE inside[i - Len(a)]
      BY <2>2, <3>1, ConcatProperties, Zenon
    <3>. HIDE DEF x
    <3>3. /\ y \in Seq(S) /\ Len(y) = Len(x) + Len(b)
          /\ \A i \in 1..Len(x) + Len(b) : y[i] = IF i <= Len(x) THEN x[i] ELSE b[i - Len(x)]
      BY SMTT(30), <3>1, <3>2, ConcatProperties
    <3>. HIDE DEF y
    <3>4. Len(x) = n - 1 /\ Len(y) = n
      BY <1>1, <2>1, <2>2, <3>1, <3>2, <3>3
    <3>5. ASSUME NEW i \in 1..n
          PROVE  host[i] = y[i]
      <4>1. CASE i = 1
        BY <1>1, <2>1, <2>2, <3>1, <3>2, <3>3, <3>4, <4>1
      <4>2. CASE i = n
        BY <1>1, <2>1, <2>2, <3>1, <3>2, <3>3, <3>4, <4>2
      <4>3. CASE i \in 2..n - 1
        <5>1. y[i] = x[i]
          BY <1>1, <2>1, <3>1, <3>3, <3>4, <4>3
        <5>2. x[i] = inside[i - 1]
          <6>1. i \in 1..Len(a) + Len(inside) /\ ~(i <= Len(a))
            BY <1>1, <2>1, <2>2, <3>1, <4>3
          <6>2. x[i] = inside[i - Len(a)]
            BY <3>2, <6>1
          <6>. QED
            BY <3>1, <6>2
        <5>3. i - 1 \in 1..n - 2 /\ 1 + (i - 1) = i
          BY <1>1, <4>3
        <5>4. inside[i - 1] = host[1 + (i - 1)]
          BY <2>2, <5>3
        <5>. QED
          BY <5>1, <5>2, <5>3, <5>4
      <4>. QED
        BY <1>1, <4>1, <4>2, <4>3
    <3>6. host = y
      BY <1>1, <3>3, <3>4, <3>5, SeqEqual DEF n
    <3>. QED
      BY <3>6 DEF y, x, a, b
  <2>5. TcpTarget(host, port) = host \o <<":">> \o port
    BY <1>4 DEF TcpTarget, NeedsBrackets, Bracketed
  <2>6. TcpTarget(host, port) = (<<"[">> \o inside \o <<"]">>) \o <<":">> \o port
    <3>. HIDE DEF host
    <3>. QED
      BY <2>4, <2>5, Zenon
  <2>. HIDE DEF host, port
  <2>. QED
    BY <1>1, <1>2, <2>2, <2>3, <2>6, BracketsRight
<1>. QED
  BY <1>3, <1>4 DEF RoundTrip

-----------------------------------------------------------------------------
(* The calls.                                                              *)

Letters == {"narrow", "wide", "space"}
Heard == {[o EXCEPT !.now = t] : o \in Packets, t \in Nat}

\* A call has the inputs of its algorithm.
Inputs ==
  /\ call.of = "chunk" => call.text \in Seq(Letters) /\ call.setting \in Settings
  /\ call.of = "dm" => call.ifaces \in Seq({[nodes |-> d] : d \in Databases})
  /\ call.of = "channel" => call.ifaces \in Seq({[channels |-> t] : t \in Tables})
  /\ call.of = "gate" => call.form \in Forms /\ call.lists \in Lists
  /\ call.of = "packet" => call.packet \in Envelopes /\ call.config \in Configs
  /\ call.of = "tcp" => call.host \in Seq(Chars) /\ call.host # << >> /\ call.port \in Ports
  /\ call.of = "heard" =>
       /\ call = [of |-> "heard", packets |-> call.packets]
       /\ call.packets \in Seq(Heard) /\ call.packets # << >>
       /\ \A t \in DOMAIN call.packets : call.packets[t].now = t

LEMMA SeqsAre ==
  ASSUME NEW S, NEW n, NEW s \in Seqs(S, n)
  PROVE  s \in Seq(S)
<1>1. PICK k \in 0..n : s \in [1..k -> S]
  BY DEF Seqs
<1>. QED
  BY <1>1

LEMMA HeardIs ==
  ASSUME NEW o \in Packets, NEW t \in Nat
  PROVE  /\ [o EXCEPT !.now = t] \in Heard /\ [o EXCEPT !.now = t].now = t
         /\ [o EXCEPT !.now = t].rx \in (Nat \ {0}) \cup {None}
<1>1. DOMAIN o = {"node", "rx", "now", "hops", "signal"} /\ o.rx \in (Nat \ {0}) \cup {None}
  BY AlgorithmsAssumption
<1>2. [o EXCEPT !.now = t].now = t /\ [o EXCEPT !.now = t].rx = o.rx
  BY <1>1
<1>. QED
  BY <1>1, <1>2 DEF Heard

\* Every call has inputs of its algorithm: the invariant that the properties below rest on.
LEMMA InputsAreTyped == Spec => []Inputs
<1>1. Init => Inputs
  BY DEF Init, Inputs
<1>2. Inputs /\ [Next]_call => Inputs'
  <2>. SUFFICES ASSUME Inputs, [Next]_call
                PROVE  Inputs'
    OBVIOUS
  <2>1. CASE Chunk
    <3>1. PICK text \in Seqs(Letters, TextMax), setting \in Settings :
            call' = [of |-> "chunk", text |-> text, setting |-> setting]
      BY <2>1 DEF Chunk, Letters
    <3>2. text \in Seq(Letters)
      BY SeqsAre
    <3>. QED
      BY <3>1, <3>2 DEF Inputs
  <2>2. CASE SendDm
    <3>. DEFINE R == {[nodes |-> d] : d \in Databases}
    <3>1. PICK ifaces \in NonEmptySeqs(R, DmRadios), dest \in Recipients :
            call' = [of |-> "dm", ifaces |-> ifaces, dest |-> dest]
      BY <2>2 DEF SendDm
    <3>. HIDE DEF R
    <3>2. ifaces \in Seq(R)
      BY SeqsAre DEF NonEmptySeqs
    <3>. QED
      BY <3>1, <3>2 DEF Inputs, R
  <2>3. CASE SendChannel
    <3>. DEFINE R == {[channels |-> t] : t \in Tables}
    <3>1. PICK ifaces \in NonEmptySeqs(R, ChannelRadios), spec \in Specs :
            call' = [of |-> "channel", ifaces |-> ifaces, spec |-> spec]
      BY <2>3 DEF SendChannel
    <3>. HIDE DEF R
    <3>2. ifaces \in Seq(R)
      BY SeqsAre DEF NonEmptySeqs
    <3>. QED
      BY <3>1, <3>2 DEF Inputs, R
  <2>4. CASE Gate
    <3>1. PICK a \in Forms, b \in Forms, form \in Forms : \E lists \in ListsOf(a, b) :
            call' = [of |-> "gate", lists |-> lists, form |-> form]
      BY <2>4 DEF Gate
    <3>2. ListsOf(a, b) \subseteq Lists
      BY DEF ListsOf, Lists
    <3>. QED
      BY <3>1, <3>2 DEF Inputs
  <2>5. CASE Receive
    BY <2>5 DEF Receive, Inputs
  <2>6. CASE Configure
    <3>1. PICK host \in NonEmptySeqs(Chars, HostMax), port \in Ports :
            call' = [of |-> "tcp", host |-> host, port |-> port]
      BY <2>6 DEF Configure
    <3>2. host \in Seq(Chars) /\ host # << >>
      BY SeqsAre DEF NonEmptySeqs
    <3>. QED
      BY <3>1, <3>2 DEF Inputs
  <2>7. CASE Observe
    <3>1. PICK o \in Packets :
            \/ call' = [of |-> "heard", packets |-> <<[o EXCEPT !.now = 1]>>]
            \/ /\ call.of = "heard"
               /\ call' = [call EXCEPT !.packets = Append(@, [o EXCEPT !.now = Len(call.packets) + 1])]
      BY <2>7 DEF Observe
    <3>2. CASE call' = [of |-> "heard", packets |-> <<[o EXCEPT !.now = 1]>>]
      <4>. DEFINE x == [o EXCEPT !.now = 1]
      <4>1. x \in Heard /\ x.now = 1
        BY HeardIs
      <4>. HIDE DEF x
      <4>2. call' = [of |-> "heard", packets |-> <<x>>]
        BY <3>2 DEF x
      <4>3. <<x>> \in Seq(Heard) /\ <<x>> # << >> /\ DOMAIN <<x>> = {1} /\ <<x>>[1] = x
        BY <4>1
      <4>. QED
        BY <4>1, <4>2, <4>3 DEF Inputs
    <3>3. CASE /\ call.of = "heard"
               /\ call' = [call EXCEPT !.packets = Append(@, [o EXCEPT !.now = Len(call.packets) + 1])]
      <4>. DEFINE log == call.packets
                  n == Len(log)
                  x == [o EXCEPT !.now = n + 1]
      <4>1. /\ call = [of |-> "heard", packets |-> log]
            /\ log \in Seq(Heard) /\ \A t \in DOMAIN log : log[t].now = t
        BY <3>3 DEF Inputs
      <4>2. n \in Nat /\ DOMAIN log = 1..n
        BY <4>1
      <4>3. x \in Heard /\ x.now = n + 1
        <5>. DEFINE t == n + 1
        <5>1. t \in Nat
          BY <4>2
        <5>. HIDE DEF t
        <5>2. [o EXCEPT !.now = t] \in Heard /\ [o EXCEPT !.now = t].now = t
          BY <5>1, HeardIs
        <5>. QED
          BY <5>2 DEF t
      <4>4. call' = [call EXCEPT !.packets = Append(log, x)]
        BY <3>3
      <4>. HIDE DEF x, log, n
      <4>5. call' = [of |-> "heard", packets |-> Append(log, x)]
        BY <4>1, <4>4
      <4>6. /\ Append(log, x) \in Seq(Heard) /\ Append(log, x) # << >>
            /\ DOMAIN Append(log, x) = 1..n + 1 /\ Append(log, x)[n + 1] = x
            /\ \A t \in 1..n : Append(log, x)[t] = log[t]
        BY <4>1, <4>2, <4>3 DEF n
      <4>7. \A t \in DOMAIN Append(log, x) : Append(log, x)[t].now = t
        <5>1. \A t \in 1..n + 1 : t \in 1..n \/ t = n + 1
          BY <4>2
        <5>. QED
          BY <4>1, <4>2, <4>3, <4>6, <5>1
      <4>. QED
        BY <4>5, <4>6, <4>7 DEF Inputs
    <3>. QED
      BY <3>1, <3>2, <3>3
  <2>8. CASE UNCHANGED call
    BY <2>8 DEF Inputs
  <2>. QED
    BY <2>1, <2>2, <2>3, <2>4, <2>5, <2>6, <2>7, <2>8 DEF Next
<1>. QED
  BY <1>1, <1>2, PTL DEF Spec

\* Every text is cut into chunks that fit and that together are the text (chunk_message).
THEOREM TextsAreCutRight == Spec => []ChunksRight
<1>1. Inputs => ChunksRight
  <2>. SUFFICES ASSUME Inputs, call.of = "chunk"
                PROVE  ChunkedRight(call.text, call.setting)
    BY DEF ChunksRight, ChunkedRight
  <2>1. call.text \in Seq(Letters) /\ call.setting \in Int \cup {None}
    BY AlgorithmsAssumption DEF Inputs
  <2>. QED
    BY <2>1, ChunkMessageRight
<1>. QED
  BY <1>1, InputsAreTyped, PTL

\* A direct message goes out on the first radio with the key, and a channel message to a
\* radio that has the channel (dm_send_target, channel_send_target).
THEOREM TargetsAreRight == Spec => []TargetsRight
<1>1. Inputs => TargetsRight
  <2>. SUFFICES ASSUME Inputs
                PROVE  TargetsRight
    OBVIOUS
  <2>. DEFINE ifaces == call.ifaces
              n == Len(ifaces)
  <2>1. ASSUME call.of = "dm"
        PROVE  DmRight(call.dest, ifaces)
    <3>1. ifaces \in Seq({[nodes |-> d] : d \in Databases})
      BY <2>1 DEF Inputs
    <3>2. n \in Nat /\ DOMAIN ifaces = 1..n /\ \A i \in 1..n : ifaces[i] \in {[nodes |-> d] : d \in Databases}
      BY <3>1
    <3>3. \A i \in 1..n : ifaces[i].nodes \in Databases
      BY <3>2
    <3>4. \A i \in 1..n : DOMAIN ifaces[i].nodes \subseteq Nat
      BY <3>3, AlgorithmsAssumption
    <3>. QED
      BY <3>2, <3>4, DmTargetRight
  <2>2. ASSUME call.of = "channel"
        PROVE  ChannelRight(call.spec, ifaces)
    <3>1. ifaces \in Seq({[channels |-> t] : t \in Tables})
      BY <2>2 DEF Inputs
    <3>2. n \in Nat /\ DOMAIN ifaces = 1..n /\ \A i \in 1..n : ifaces[i] \in {[channels |-> t] : t \in Tables}
      BY <3>1
    <3>3. \A i \in 1..n : ifaces[i].channels \in Tables
      BY <3>2
    <3>4. \A i \in 1..n : ifaces[i].channels # None => DOMAIN ifaces[i].channels \subseteq Nat
      BY <3>3, AlgorithmsAssumption
    <3>. QED
      BY <3>2, <3>4, ChannelTargetRight
  <2>. QED
    BY <2>1, <2>2 DEF TargetsRight, DmRight, ChannelRight
<1>. QED
  BY <1>1, InputsAreTyped, PTL

\* The overlay says of every node what the packets of its stay say (NodeFreshness).
THEOREM FreshnessIsRight == Spec => []FreshnessRight
<1>1. Inputs => FreshnessRight
  <2>. SUFFICES ASSUME Inputs, call.of = "heard"
                PROVE  FreshnessRight
    BY DEF FreshnessRight
  <2>. DEFINE log == call.packets
              n == Len(log)
  <2>1. log \in Seq(Heard) /\ log # << >> /\ \A t \in DOMAIN log : log[t].now = t
    BY DEF Inputs
  <2>2. n \in Nat /\ DOMAIN log = 1..n /\ \A t \in 1..n : log[t] \in Heard
    BY <2>1
  <2>3. \A t \in 1..n : log[t].rx \in (Nat \ {0}) \cup {None}
    <3>. TAKE t \in 1..n
    <3>1. PICK o \in Packets, k \in Nat : log[t] = [o EXCEPT !.now = k]
      BY <2>2 DEF Heard
    <3>. QED
      BY <3>1, HeardIs
  <2>4. IsLog(log, n)
    BY <2>1, <2>2, <2>3 DEF IsLog
  <2>. QED
    BY <2>1, <2>4, OverlayRight
<1>. QED
  BY <1>1, InputsAreTyped, PTL

\* The gates let in the same senders where they read the same list, and every packet goes where its sender may
\* send it (is_authorized_node, InboundProcessor.process, decide).
THEOREM IntakeIsRight == Spec => []IntakeRight
<1>1. Inputs => IntakeRight
  <2>. SUFFICES ASSUME Inputs
                PROVE  IntakeRight
    OBVIOUS
  <2>1. CASE call.of = "gate"
    BY <2>1, GateRight DEF Inputs
  <2>2. CASE call.of = "packet"
    BY <2>2, PacketRight DEF Inputs
  <2>3. CASE call.of \notin {"gate", "packet"}
    BY <2>3 DEF IntakeRight
  <2>. QED
    BY <2>1, <2>2, <2>3
<1>. QED
  BY <1>1, InputsAreTyped, PTL

\* The host and the port that are written into a key are read from it again
\* (connection_targets, parse_tcp_target).
THEOREM KeysAreReadBack == Spec => []RoundTrip
<1>1. Inputs => RoundTrip
  <2>. SUFFICES ASSUME Inputs, call.of = "tcp"
                PROVE  RoundTrip
    BY DEF RoundTrip
  <2>. QED
    BY KeyRight DEF Inputs
<1>. QED
  BY <1>1, InputsAreTyped, PTL
=============================================================================
