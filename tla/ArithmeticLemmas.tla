-------------------------- MODULE ArithmeticLemmas --------------------------
(***************************************************************************)
(* Facts about the natural numbers that the proofs of several components   *)
(* rest on: positions split into a word and a bit, least elements, and     *)
(* what is reached step by step.                                           *)
(***************************************************************************)
EXTENDS Integers, TLAPS, WellFoundedInduction

\* A word and a bit determine a position, and the position gives both back.
LEMMA DivMod ==
    ASSUME NEW W \in Nat \ {0}, NEW a \in Nat, NEW b \in 0 .. W - 1
    PROVE  /\ a * W + b \in Nat
           /\ (a * W + b) \div W = a
           /\ (a * W + b) % W = b
  OBVIOUS

\* A position is that of its word and its bit.
LEMMA DivModOf ==
    ASSUME NEW W \in Nat \ {0}, NEW x \in Nat
    PROVE  /\ x \div W \in Nat
           /\ x % W \in 0 .. W - 1
           /\ x = (x \div W) * W + (x % W)
  OBVIOUS

\* The word of a position below n words is one of them.
LEMMA DivBound ==
    ASSUME NEW W \in Nat \ {0}, NEW x \in Nat, NEW n \in Nat, x < n * W
    PROVE  x \div W < n
  OBVIOUS

\* The positions of n words lie below n * W.
LEMMA MulBound ==
    ASSUME NEW W \in Nat \ {0}, NEW a \in Nat, NEW b \in 0 .. W - 1, NEW n \in Nat, a < n
    PROVE  a * W + b < n * W
  OBVIOUS

\* Positions are ordered by word, then by bit.
LEMMA Lexicographic ==
    ASSUME NEW W \in Nat \ {0}, NEW a \in Nat, NEW b \in 0 .. W - 1,
           NEW c \in Nat, NEW d \in 0 .. W - 1,
           a < c \/ (a = c /\ b <= d)
    PROVE  a * W + b <= c * W + d
<1>1. CASE a < c
  <2>1. a * W + b < c * W
    BY <1>1, MulBound
  <2>2. c * W \in Nat /\ a * W \in Nat
    OBVIOUS
  <2> QED BY <2>1, <2>2
<1>2. CASE a = c /\ b <= d
  <2>1. c * W \in Nat
    OBVIOUS
  <2> QED BY <1>2, <2>1
<1> QED BY <1>1, <1>2

\* Every nonempty set of natural numbers has a least element.
LEMMA LeastElement ==
    ASSUME NEW S \in SUBSET Nat, S # {}
    PROVE  \E x \in S : \A y \in S : x <= y
<1>1. IsWellFoundedOn(OpToRel(<, Nat), Nat)
  BY NatLessThanWellFounded
<1>2. \A x, y \in Nat : x < y => <<x, y>> \in OpToRel(<, Nat)
  BY DEF OpToRel
<1>3. PICK R : IsWellFoundedOn(R, Nat) /\ \A x, y \in Nat : x < y => <<x, y>> \in R
  BY <1>1, <1>2, Zenon
<1>4. \E x \in S : \A y \in S : ~ (<<y, x>> \in R)
  <2>1. IsWellFoundedOn(R, Nat) /\ S \subseteq Nat
    BY <1>3
  <2> QED BY <2>1, WFMin
<1>5. PICK x \in S : \A y \in S : ~ (<<y, x>> \in R)
  BY <1>4
<1>6. ASSUME NEW y \in S PROVE x <= y
  <2>1. x \in Nat /\ y \in Nat
    OBVIOUS
  <2>2. y < x => <<y, x>> \in R
    BY <1>3, <2>1, Zenon
  <2>3. ~ (y < x)
    BY <1>5, <2>2, Zenon
  <2> QED BY <2>1, <2>3
<1> QED BY <1>6

\* What holds of 0, and of each number below n whose predecessors it holds of, holds up to n.
LEMMA UpTo ==
    ASSUME NEW n \in Nat, NEW S, 0 \in S,
           \A k \in 1 .. n : k - 1 \in S => k \in S
    PROVE  0 .. n \subseteq S
<1> DEFINE Bad == {k \in 0 .. n : k \notin S}
<1>1. SUFFICES ASSUME Bad # {} PROVE FALSE
  OBVIOUS
<1>2. PICK k \in Bad : \A j \in Bad : k <= j
  <2>1. Bad \in SUBSET Nat
    OBVIOUS
  <2> QED BY <1>1, <2>1, LeastElement
<1>3. k \in 1 .. n /\ k - 1 \in 0 .. n
  BY <1>2
<1>4. k - 1 \in S
  BY <1>2, <1>3
<1> QED BY <1>2, <1>3, <1>4

\* A step for each number up to n, and what comes of taking them one after the other.
Steps(step, n, S) == step \in [1 .. n -> [S -> S]]
Iterates(f, step, n, S, x) == /\ f \in [0 .. n -> S]
                              /\ f[0] = x
                              /\ \A k \in 1 .. n : f[k] = step[k][f[k - 1]]

\* Steps can be taken.
LEMMA Iterated ==
    ASSUME NEW n \in Nat, NEW S, NEW x \in S, NEW step, Steps(step, n, S)
    PROVE  \E f : Iterates(f, step, n, S, x)
<1> USE DEF Steps
<1> DEFINE Good(m) == \E f \in [0 .. m -> S] :
                          f[0] = x /\ \A k \in 1 .. m : f[k] = step[k][f[k - 1]]
<1> DEFINE G == {m \in 0 .. n : Good(m)}
<1>1. 0 \in G
  <2>1. [k \in 0 .. 0 |-> x] \in [0 .. 0 -> S] /\ [k \in 0 .. 0 |-> x][0] = x
    OBVIOUS
  <2>2. 1 .. 0 = {}
    OBVIOUS
  <2>3. Good(0)
    BY <2>1, <2>2
  <2> QED BY <2>3
<1>2. ASSUME NEW m \in 1 .. n, m - 1 \in G PROVE m \in G
  <2>1. PICK f \in [0 .. m - 1 -> S] :
            f[0] = x /\ \A k \in 1 .. m - 1 : f[k] = step[k][f[k - 1]]
    BY <1>2
  <2> DEFINE last == step[m][f[m - 1]]
             g == [k \in 0 .. m |-> IF k = m THEN last ELSE f[k]]
  <2>2. last \in S
    <3>1. f[m - 1] \in S
      BY <2>1
    <3> QED BY <3>1
  <2>3. g \in [0 .. m -> S] /\ g[0] = x
    BY <2>1, <2>2
  <2>4. ASSUME NEW k \in 1 .. m PROVE g[k] = step[k][g[k - 1]]
    <3>1. CASE k = m
      <4>1. g[m] = last /\ g[m - 1] = f[m - 1]
        OBVIOUS
      <4> QED BY <3>1, <4>1
    <3>2. CASE k # m
      <4>1. k \in 1 .. m - 1 /\ g[k] = f[k] /\ g[k - 1] = f[k - 1]
        BY <3>2
      <4> QED BY <2>1, <4>1
    <3> QED BY <3>1, <3>2
  <2>5. Good(m)
    BY <2>3, <2>4
  <2>6. m \in 0 .. n
    OBVIOUS
  <2> HIDE DEF Good
  <2> QED BY <2>5, <2>6
<1> HIDE DEF G
<1>3. 0 .. n \subseteq G
  BY <1>1, <1>2, UpTo
<1>4. n \in G
  BY <1>3
<1> QED BY <1>4 DEF G, Iterates

\* Rounding down to a multiple keeps the order.
LEMMA FloorMonotone ==
    ASSUME NEW W \in Nat \ {0}, NEW x \in Nat, NEW y \in Nat, x <= y
    PROVE  x - (x % W) \in Nat /\ x - (x % W) <= y - (y % W) /\ y - (y % W) <= y
<1>1. /\ x \div W \in Nat /\ y \div W \in Nat
      /\ x % W \in 0 .. W - 1 /\ y % W \in 0 .. W - 1
      /\ x = (x \div W) * W + (x % W) /\ y = (y \div W) * W + (y % W)
  BY DivModOf
<1>2. x \div W <= y \div W
  <2> SUFFICES ASSUME y \div W < x \div W PROVE FALSE
    BY <1>1
  <2>1. (y \div W) * W + (y % W) < (x \div W) * W
    BY <1>1, MulBound
  <2> QED BY <1>1, <2>1
<1>3. (x \div W) * W <= (y \div W) * W
  BY <1>1, <1>2
<1>4. (x \div W) * W \in Nat /\ (y \div W) * W \in Nat
  BY <1>1
<1> QED BY <1>1, <1>3, <1>4

=============================================================================
