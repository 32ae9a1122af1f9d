--------------------------- MODULE TefLoaderProofs ---------------------------
(***************************************************************************)
(* For files, texts and limits of any size: prototype links never form a   *)
(* cycle, a node that is refused its prototype has a reason in the texts,  *)
(* and a document stands before those that include it.                     *)
(*                                                                         *)
(* Links form no cycle if every nonempty set of nodes has one whose link   *)
(* leaves the set.  A link that closes a cycle makes the walk of           *)
(* check_cycle come back to the node it starts from, since there was no    *)
(* cycle before; the walk cannot be longer than there are links, so what   *)
(* it meets is a cycle of the links as written.                            *)
(***************************************************************************)
EXTENDS TefLoader, ArithmeticLemmas, SequenceTheorems, FiniteSetTheorems

Link == [Node -> Node \cup {Null}]

Acyclic(link) == \A S \in SUBSET Node : S # {} => \E n \in S : link[n] \notin S

\* The nodes that have a link are among those that asked.
Within(link, asks) == \A n \in Node : link[n] # Null => \E k \in 1 .. Len(asks) : asks[k].n = n
-----------------------------------------------------------------------------
LEMMA NullIsNoNode == Null \notin Node /\ k_max_proto_depth \in Nat \ {0}
BY TefAssumption

\* A walk goes from node to node along the links.
LEMMA WalkSteps ==
    ASSUME NEW link \in Link, NEW start \in Node \cup {Null}, NEW K \in Nat
    PROVE  LET w == Walk(link, start, K)
           IN  /\ w \in [0 .. K -> Node \cup {Null}]
               /\ w[0] = start
               /\ \A k \in 1 .. K : w[k] = IF w[k - 1] = Null THEN Null ELSE link[w[k - 1]]
<1> DEFINE V == Node \cup {Null}
           Go(v) == IF v = Null THEN Null ELSE link[v]
           step == [k \in 1 .. K |-> [v \in V |-> Go(v)]]
<1>1. \A v \in V : Go(v) \in V
  BY NullIsNoNode DEF Link
<1> HIDE DEF Go
<1>2. Steps(step, K, V)
  BY <1>1 DEF Steps
<1>3. PICK f : f \in [0 .. K -> V] /\ f[0] = start /\ \A k \in 1 .. K : f[k] = step[k][f[k - 1]]
  <2>1. \E f : Iterates(f, step, K, V, start)
    <3> HIDE DEF step
    <3> QED BY <1>2, Iterated
  <2> QED BY <2>1 DEF Iterates
<1>4. ASSUME NEW k \in 1 .. K PROVE f[k] = Go(f[k - 1])
  <2>1. f[k - 1] \in V
    BY <1>3
  <2>2. step[k][f[k - 1]] = Go(f[k - 1])
    BY <2>1
  <2> QED BY <1>3, <2>2
<1>5. f = [k \in 0 .. K |-> IF k = 0 THEN start ELSE Go(f[k - 1])]
  <2>1. \A k \in 0 .. K : k # 0 => k \in 1 .. K
    OBVIOUS
  <2> QED BY <1>3, <1>4, <2>1
<1> DEFINE g == CHOOSE g : g = [k \in 0 .. K |-> IF k = 0 THEN start ELSE Go(g[k - 1])]
<1>6. Walk(link, start, K) = g
  BY DEF Walk, Go
<1>7. g = [k \in 0 .. K |-> IF k = 0 THEN start ELSE Go(g[k - 1])]
  BY <1>5, Zenon
<1> HIDE DEF g
<1>8. /\ g[0] = start
      /\ \A k \in 1 .. K : g[k] = Go(g[k - 1])
      /\ g = [k \in 0 .. K |-> g[k]]
  BY <1>7
<1>9. \A k \in 0 .. K : g[k] \in V
  <2> DEFINE Good == {k \in 0 .. K : g[k] \in V}
  <2>1. 0 \in Good
    BY <1>8
  <2>2. ASSUME NEW k \in 1 .. K, k - 1 \in Good PROVE k \in Good
    <3>1. g[k - 1] \in V /\ g[k] = Go(g[k - 1]) /\ k \in 0 .. K
      <4>1. g[k - 1] \in V
        BY <2>2
      <4>2. g[k] = Go(g[k - 1])
        BY <1>8
      <4> QED BY <4>1, <4>2
    <3>2. g[k] \in V
      BY <1>1, <3>1
    <3> QED BY <3>1, <3>2
  <2> HIDE DEF Good
  <2>3. 0 .. K \subseteq Good
    BY <2>1, <2>2, UpTo
  <2> QED BY <2>3 DEF Good
<1>10. g \in [0 .. K -> V]
  <2> HIDE DEF V
  <2> QED BY <1>8, <1>9
<1> QED BY <1>6, <1>8, <1>10 DEF Go

\* Once past the last link, a walk stays there.
LEMMA WalkEnds ==
    ASSUME NEW link \in Link, NEW start \in Node \cup {Null}, NEW K \in Nat, NEW k \in 0 .. K,
           Walk(link, start, K)[k] # Null
    PROVE  /\ \A i \in 0 .. k : Walk(link, start, K)[i] \in Node
           /\ \A i \in 0 .. k - 1 : Walk(link, start, K)[i + 1] = link[Walk(link, start, K)[i]]
<1> DEFINE w == Walk(link, start, K)
<1>1. /\ w \in [0 .. K -> Node \cup {Null}]
      /\ \A i \in 1 .. K : w[i] = IF w[i - 1] = Null THEN Null ELSE link[w[i - 1]]
  BY WalkSteps
<1> HIDE DEF w
<1> DEFINE Good == {d \in 0 .. k : w[k - d] # Null}
<1>2. 0 \in Good
  BY DEF w
<1>3. ASSUME NEW d \in 1 .. k, d - 1 \in Good PROVE d \in Good
  <2>1. k - (d - 1) \in 1 .. K /\ (k - (d - 1)) - 1 = k - d /\ d \in 0 .. k
    OBVIOUS
  <2>2. w[k - (d - 1)] # Null
    BY <1>3
  <2> QED BY <1>1, <2>1, <2>2
<1> HIDE DEF Good
<1>4. 0 .. k \subseteq Good
  BY <1>2, <1>3, UpTo
<1>5. ASSUME NEW i \in 0 .. k PROVE w[i] \in Node
  <2>1. k - i \in 0 .. k /\ k - (k - i) = i /\ i \in 0 .. K
    OBVIOUS
  <2>2. w[i] # Null
    BY <1>4, <2>1 DEF Good
  <2> QED BY <1>1, <2>1, <2>2
<1>6. ASSUME NEW i \in 0 .. k - 1 PROVE w[i + 1] = link[w[i]]
  <2>1. i + 1 \in 1 .. K /\ (i + 1) - 1 = i /\ i \in 0 .. k
    OBVIOUS
  <2>2. w[i] # Null
    BY <1>5, <2>1, NullIsNoNode
  <2> QED BY <1>1, <2>1, <2>2
<1> QED BY <1>5, <1>6 DEF w

LEMMA UpToCardinality ==
    ASSUME NEW n \in Nat
    PROVE  IsFiniteSet(1 .. n) /\ Cardinality(1 .. n) = n
<1>1. /\ IsFiniteSet(1 .. n)
      /\ Cardinality(1 .. n) = IF 1 > n THEN 0 ELSE n - 1 + 1
  BY FS_Interval
<1> QED BY <1>1

\* A walk that meets no node twice is not longer than there are links.
LEMMA WalkShort ==
    ASSUME NEW link \in Link, NEW start \in Node \cup {Null}, NEW K \in Nat, NEW k \in 0 .. K,
           Walk(link, start, K)[k] # Null,
           \A i, j \in 0 .. k - 1 :
               Walk(link, start, K)[i] = Walk(link, start, K)[j] => i = j,
           NEW asks, Len(asks) \in Nat, Within(link, asks)
    PROVE  k <= Len(asks)
<1> DEFINE w == Walk(link, start, K)
           L == Len(asks)
           index == [i \in 0 .. k - 1 |-> CHOOSE a \in 1 .. L : asks[a].n = w[i]]
<1>1. ASSUME NEW i \in 0 .. k - 1 PROVE index[i] \in 1 .. L /\ asks[index[i]].n = w[i]
  <2>1. i \in 0 .. k /\ i + 1 \in 0 .. k
    OBVIOUS
  <2>2. w[i] \in Node /\ w[i + 1] \in Node /\ w[i + 1] = link[w[i]]
    BY <2>1, WalkEnds
  <2>3. link[w[i]] # Null
    BY <2>2, NullIsNoNode
  <2>4. \E a \in 1 .. L : asks[a].n = w[i]
    BY <2>2, <2>3 DEF Within
  <2> HIDE DEF w
  <2> QED BY <2>4
<1> HIDE DEF index, w
<1>2. index \in Injection(0 .. k - 1, 1 .. L)
  <2>1. index \in [0 .. k - 1 -> 1 .. L]
    <3>1. index = [i \in 0 .. k - 1 |-> index[i]]
      BY DEF index
    <3> QED BY <1>1, <3>1
  <2>2. ASSUME NEW i \in 0 .. k - 1, NEW j \in 0 .. k - 1, index[i] = index[j] PROVE i = j
    <3>1. w[i] = w[j]
      BY <1>1, <2>2
    <3> QED BY <3>1 DEF w
  <2> QED BY <2>1, <2>2 DEF Injection, IsInjective
<1>3. IsFiniteSet(1 .. L) /\ Cardinality(1 .. L) = L /\ Cardinality(0 .. k - 1) = k
  <2>1. L \in Nat /\ k \in Nat
    OBVIOUS
  <2>2. IsFiniteSet(1 .. L) /\ Cardinality(1 .. L) = L
    BY <2>1, UpToCardinality
  <2>3. Cardinality(0 .. k - 1) = IF 0 > k - 1 THEN 0 ELSE (k - 1) - 0 + 1
    BY <2>1, FS_Interval
  <2> HIDE DEF L
  <2> QED BY <2>1, <2>2, <2>3
<1>4. Cardinality(0 .. k - 1) <= Cardinality(1 .. L)
  BY <1>2, <1>3, FS_Injection
<1> QED BY <1>3, <1>4

\* Where links agree, so do the walks.
LEMMA WalksAgree ==
    ASSUME NEW link \in Link, NEW other \in Link, NEW start \in Node,
           NEW K \in Nat, NEW L \in Nat, NEW k \in 0 .. K, k <= L,
           Walk(link, start, K)[k] # Null,
           \A n \in Node : link[n] # Null => link[n] = other[n]
    PROVE  Walk(other, start, L)[k] = Walk(link, start, K)[k]
<1> DEFINE w == Walk(link, start, K)
           c == Walk(other, start, L)
           Good == {i \in 0 .. k : c[i] = w[i]}
<1>1. w[0] = start /\ c[0] = start
  BY WalkSteps
<1>2. /\ \A i \in 0 .. k : w[i] \in Node
      /\ \A i \in 0 .. k - 1 : w[i + 1] = link[w[i]]
  BY WalkEnds
<1>3. \A i \in 1 .. L : c[i] = IF c[i - 1] = Null THEN Null ELSE other[c[i - 1]]
  BY WalkSteps
<1> HIDE DEF w, c
<1>4. 0 \in Good
  BY <1>1
<1>5. ASSUME NEW i \in 1 .. k, i - 1 \in Good PROVE i \in Good
  <2>1. i - 1 \in 0 .. k - 1 /\ i \in 0 .. k /\ i \in 1 .. L /\ (i - 1) + 1 = i
    OBVIOUS
  <2>2. w[i] = link[w[i - 1]] /\ w[i - 1] \in Node /\ w[i] \in Node
    BY <1>2, <2>1
  <2>3. c[i - 1] = w[i - 1]
    BY <1>5
  <2>4. c[i] = other[w[i - 1]]
    BY <1>3, <2>1, <2>2, <2>3, NullIsNoNode
  <2>5. link[w[i - 1]] = other[w[i - 1]]
    BY <2>2, NullIsNoNode
  <2> QED BY <2>1, <2>2, <2>4, <2>5
<1> HIDE DEF Good
<1>6. 0 .. k \subseteq Good
  BY <1>4, <1>5, UpTo
<1>7. k \in Good
  BY <1>6
<1> QED BY <1>7 DEF Good, w, c

\* A walk along links that form no cycle does not come back.
LEMMA NoReturn ==
    ASSUME NEW link \in Link, Acyclic(link), NEW n \in Node, NEW K \in Nat, NEW k \in 1 .. K
    PROVE  Walk(link, n, K)[k] # n
<1> SUFFICES ASSUME Walk(link, n, K)[k] = n PROVE FALSE
  OBVIOUS
<1> DEFINE w == Walk(link, n, K)
           S == {w[i] : i \in 0 .. k}
<1>1. k \in 0 .. K /\ w[k] # Null /\ w[0] = n
  BY NullIsNoNode, WalkSteps
<1>2. /\ \A i \in 0 .. k : w[i] \in Node
      /\ \A i \in 0 .. k - 1 : w[i + 1] = link[w[i]]
  BY <1>1, WalkEnds
<1>3. w[k] = w[0]
  BY <1>1
<1> HIDE DEF w
<1>4. S \in SUBSET Node /\ S # {}
  BY <1>2
<1>5. ASSUME NEW i \in 0 .. k PROVE link[w[i]] \in S
  <2>1. ASSUME NEW j \in 0 .. k - 1 PROVE link[w[j]] \in S
    <3>1. j + 1 \in 0 .. k
      OBVIOUS
    <3> QED BY <1>2, <3>1
  <2>2. CASE i = k
    <3>1. 0 \in 0 .. k - 1 /\ w[i] = w[0]
      BY <1>3, <2>2
    <3> QED BY <2>1, <3>1
  <2>3. CASE i # k
    BY <2>1, <2>3
  <2> QED BY <2>2, <2>3
<1>6. \A x \in S : link[x] \in S
  BY <1>5
<1> QED BY <1>4, <1>6 DEF Acyclic
-----------------------------------------------------------------------------
\* A link added where check_cycle finds nothing closes no cycle.
LEMMA AddedLink ==
    ASSUME NEW link \in Link, Acyclic(link), NEW n \in Node, NEW proto \in Node,
           CheckCycle([link EXCEPT ![n] = proto], n) = "none"
    PROVE  Acyclic([link EXCEPT ![n] = proto])
<1> DEFINE new == [link EXCEPT ![n] = proto]
           K == k_max_proto_depth
           w == Walk(new, n, K)
<1>1. /\ new \in Link /\ new[n] = proto /\ \A x \in Node \ {n} : new[x] = link[x]
      /\ K \in Nat \ {0}
  BY NullIsNoNode DEF Link
<1>2. w[K] = Null
  BY DEF CheckCycle
<1>3. /\ w[0] = n
      /\ \A k \in 1 .. K : w[k] = IF w[k - 1] = Null THEN Null ELSE new[w[k - 1]]
  <2> HIDE DEF new, K
  <2> QED BY <1>1, WalkSteps
<1> HIDE DEF w, new, K
<1> SUFFICES ASSUME NEW S \in SUBSET Node, S # {}, \A x \in S : new[x] \in S PROVE FALSE
  BY DEF Acyclic, new
<1>4. n \in S
  <2> SUFFICES ASSUME n \notin S PROVE FALSE
    OBVIOUS
  <2>1. \A x \in S : link[x] \in S
    BY <1>1
  <2> QED BY <2>1 DEF Acyclic
<1> DEFINE Good == {k \in 0 .. K : w[k] \in S}
<1>5. 0 \in Good
  BY <1>1, <1>3, <1>4
<1>6. ASSUME NEW k \in 1 .. K, k - 1 \in Good PROVE k \in Good
  <2>1. w[k - 1] \in S /\ w[k - 1] # Null /\ k \in 0 .. K
    BY <1>1, <1>6, NullIsNoNode
  <2> QED BY <1>3, <2>1
<1> HIDE DEF Good
<1>7. 0 .. K \subseteq Good
  BY <1>1, <1>5, <1>6, UpTo
<1>8. w[K] \in S
  BY <1>1, <1>7 DEF Good
<1> QED BY <1>2, <1>8, NullIsNoNode

\* A link that check_cycle refuses has its cause in the links as written: since there was no
\* cycle before, the first node that the walk meets again is the one it started from.
LEMMA RefusedLink ==
    ASSUME NEW link \in Link, Acyclic(link), NEW n \in Node, NEW proto \in Node,
           NEW other \in Link, NEW asks, Len(asks) \in Nat,
           Within([link EXCEPT ![n] = proto], asks),
           \A x \in Node : [link EXCEPT ![n] = proto][x] # Null
                              => [link EXCEPT ![n] = proto][x] = other[x],
           CheckCycle([link EXCEPT ![n] = proto], n) # "none"
    PROVE  \E k \in 1 .. Len(asks) :
              \/ Walk(other, n, Len(asks))[k] = n
              \/ k >= k_max_proto_depth /\ Walk(other, n, Len(asks))[k] # Null
<1> DEFINE new == [link EXCEPT ![n] = proto]
           K == k_max_proto_depth
           w == Walk(new, n, K)
           Again(k) == w[k] # Null /\ \E j \in 0 .. k - 1 : w[j] = w[k]
           again == {k \in 0 .. K : Again(k)}
<1>1. /\ new \in Link /\ new[n] = proto /\ \A x \in Node \ {n} : new[x] = link[x]
      /\ K \in Nat \ {0}
  BY NullIsNoNode DEF Link
<1>2. w[0] = n /\ w \in [0 .. K -> Node \cup {Null}]
  <2> HIDE DEF new, K
  <2> QED BY <1>1, WalkSteps
<1>3. again # {} \/ w[K] # Null
  <2>1. DOMAIN w = 0 .. K
    BY <1>2
  <2>2. {k \in DOMAIN w : w[k] # Null /\ \E j \in 0 .. k - 1 : w[j] = w[k]} # {} \/ w[K] # Null
    <3> QED BY DEF CheckCycle
  <2> QED BY <2>1, <2>2
<1> HIDE DEF again
<1>4. ASSUME NEW k \in 0 .. K, w[k] # Null, \A i \in again : k <= i
      PROVE  /\ \A i, j \in 0 .. k - 1 : w[i] = w[j] => i = j
             /\ k <= Len(asks)
             /\ Walk(other, n, Len(asks))[k] = w[k]
  <2>1. \A i \in 0 .. k : w[i] \in Node
    BY <1>1, <1>4, WalkEnds
  <2>2. ASSUME NEW i \in 0 .. k - 1, NEW j \in 0 .. k - 1, w[i] = w[j] PROVE i = j
    <3> HIDE DEF w
    <3>1. ASSUME NEW x \in 0 .. k - 1, NEW y \in 0 .. k - 1, w[x] = w[y], x < y PROVE FALSE
      <4>1. y \in 0 .. K /\ x \in 0 .. y - 1 /\ y < k
        BY <1>1, <3>1
      <4>2. w[y] # Null
        BY <2>1, <4>1, NullIsNoNode
      <4>3. y \in again
        BY <3>1, <4>1, <4>2 DEF again
      <4> QED BY <1>4, <4>1, <4>3
    <3>2. ~ i < j /\ ~ j < i
      BY <2>2, <3>1
    <3> QED BY <3>2
  <2>3. k <= Len(asks)
    <3> HIDE DEF new, K
    <3> QED BY <1>1, <1>4, <2>2, WalkShort DEF new
  <2>4. Walk(other, n, Len(asks))[k] = w[k]
    <3>1. \A x \in Node : new[x] # Null => new[x] = other[x]
      OBVIOUS
    <3> HIDE DEF new, K
    <3> QED BY <1>1, <1>4, <2>3, <3>1, WalksAgree
  <2> QED BY <2>2, <2>3, <2>4
<1>5. CASE again = {}
  <2>1. w[K] # Null /\ K \in 0 .. K
    BY <1>1, <1>3, <1>5
  <2>2. K <= Len(asks) /\ Walk(other, n, Len(asks))[K] = w[K]
    BY <1>4, <1>5, <2>1
  <2> HIDE DEF w
  <2>3. K \in 1 .. Len(asks) /\ K >= K
    BY <1>1, <2>2
  <2> QED BY <2>1, <2>2, <2>3
<1>6. CASE again # {}
  <2>1. PICK k \in again : \A i \in again : k <= i
    <3>1. again \in SUBSET Nat
      BY <1>1 DEF again
    <3> QED BY <1>6, <3>1, LeastElement
  <2>2. k \in 0 .. K /\ w[k] # Null
    BY DEF again
  <2>3. PICK j \in 0 .. k - 1 : w[j] = w[k]
    BY DEF again
  <2>4. /\ \A x, y \in 0 .. k - 1 : w[x] = w[y] => x = y
        /\ k <= Len(asks)
        /\ Walk(other, n, Len(asks))[k] = w[k]
    BY <1>4, <2>1, <2>2
  <2>5. /\ \A i \in 0 .. k : w[i] \in Node
        /\ \A i \in 0 .. k - 1 : w[i + 1] = new[w[i]]
    <3> HIDE DEF new, K
    <3> QED BY <1>1, <2>2, WalkEnds
  <2> HIDE DEF w, new, K
  <2> DEFINE S == {w[i] : i \in j .. k - 1}
  <2>6. k \in Nat \ {0} /\ j \in 0 .. k - 1
    BY <1>1, <2>2
  <2>7. S \in SUBSET Node /\ S # {}
    <3>1. j \in j .. k - 1 /\ j .. k - 1 \subseteq 0 .. k
      BY <2>6
    <3> QED BY <2>5, <3>1
  <2>8. ASSUME NEW i \in j .. k - 1 PROVE new[w[i]] \in S
    <3>1. i \in 0 .. k - 1 /\ new[w[i]] = w[i + 1]
      BY <2>5, <2>6
    <3>2. CASE i + 1 = k
      <4>1. j \in j .. k - 1 /\ new[w[i]] = w[j]
        BY <2>3, <2>6, <3>1, <3>2
      <4> QED BY <4>1
    <3>3. CASE i + 1 # k
      <4>1. i + 1 \in j .. k - 1
        BY <2>6, <3>3
      <4> QED BY <3>1, <4>1
    <3> QED BY <3>2, <3>3
  <2>9. n \in S
    <3> SUFFICES ASSUME n \notin S PROVE FALSE
      OBVIOUS
    <3>1. \A x \in S : link[x] \in S
      BY <1>1, <2>7, <2>8
    <3> QED BY <2>7, <3>1 DEF Acyclic
  <2>10. PICK i \in j .. k - 1 : w[i] = n
    BY <2>9
  <2>11. i = 0
    <3>1. i \in 0 .. k - 1 /\ 0 \in 0 .. k - 1 /\ w[i] = w[0]
      BY <1>2, <2>6, <2>10
    <3> QED BY <2>4, <3>1
  <2>12. w[k] = n
    <3>1. j = 0
      BY <2>6, <2>11
    <3> QED BY <1>2, <2>3, <3>1
  <2>13. k \in 1 .. Len(asks)
    BY <2>4, <2>6
  <2> QED BY <2>4, <2>12, <2>13
<1> QED BY <1>5, <1>6
-----------------------------------------------------------------------------
\* The inductive invariant.
Ask  == [n : Node, path : Path]
Call == [doc : File \cup {Null}, left : Seq(File)]

TypesInv == /\ text \in [File -> Text \cup {Null}]
            /\ docs \in Seq(File)
            /\ calls \in Seq(Call) /\ calls # <<>> /\ calls[1].doc = Null
            /\ loaded \in SUBSET File
            /\ inheritance \in Seq(Ask)
            /\ resolved \in 0 .. Len(inheritance)
            /\ m_prototype \in Link

\* The documents are those that are loaded, and after them those being loaded, the one that
\* was begun last first.
Open(k) == Len(docs) + 2 - k

StackInv == /\ Len(calls) - 1 <= Len(docs)
            /\ \A k \in 2 .. Len(calls) : docs[Open(k)] = calls[k].doc /\ calls[k].doc \notin loaded
            /\ \A i \in 1 .. Open(Len(calls)) - 1 : docs[i] \in loaded
            /\ \A f \in loaded : \E i \in DOMAIN docs : docs[i] = f
            /\ \A i, j \in DOMAIN docs : docs[i] = docs[j] => i = j
            /\ \A f \in File : text[f] # Null => \E i \in DOMAIN docs : docs[i] = f

\* A node asks once.
AskInv == /\ \A k \in DOMAIN inheritance : text[inheritance[k].n[1]] # Null
          /\ \A j, k \in DOMAIN inheritance : inheritance[j].n = inheritance[k].n => j = k

\* Every link is one that was written, and every refusal has its cause.
LinkInv == /\ resolved > 0 => Resolving
           /\ \A n \in Node : m_prototype[n] # Null =>
                 /\ m_prototype[n] = Written[n]
                 /\ \E k \in 1 .. resolved : inheritance[k].n = n
           /\ \A k \in 1 .. resolved :
                 m_prototype[inheritance[k].n] # Null \/ Cause(inheritance[k].n)
           /\ Acyclic(m_prototype)

LoaderInv == TypesInv /\ StackInv /\ AskInv /\ LinkInv

\* What has become of an include of f.
Precedes(g, f) == \E i, j \in DOMAIN docs : i < j /\ docs[i] = g /\ docs[j] = f

Settled(f, g) == \/ g \in loaded /\ Precedes(g, f)
                 \/ Reaches(g, f) /\ <<"E-15", g>> \in reported
                 \/ <<f, g>> \in unread

\* Call k, which loads f, has met the includes that are not left, except the one being loaded.
Waits(f, k) ==
    /\ \A i \in DOMAIN calls[k].left : calls[k].left[i] \in Includes(f)
    /\ k < Len(calls) => calls[k + 1].doc \in Includes(f)
    /\ \A g \in Includes(f) : \/ Settled(f, g)
                              \/ \E i \in DOMAIN calls[k].left : calls[k].left[i] = g
                              \/ k < Len(calls) /\ calls[k + 1].doc = g

IncludeInv == \A f \in File :
                 /\ \A k \in 2 .. Len(calls) : calls[k].doc = f => Waits(f, k)
                 /\ f \in loaded => \A g \in Includes(f) : Settled(f, g)
-----------------------------------------------------------------------------
\* The calls and the documents.
LEMMA CallFacts ==
    ASSUME TypesInv
    PROVE  /\ Len(calls) \in Nat \ {0} /\ DOMAIN calls = 1 .. Len(calls)
           /\ \A k \in 1 .. Len(calls) : calls[k].doc \in File \cup {Null} /\ calls[k].left \in Seq(File)
           /\ Caller = calls[Len(calls)]
<1>1. Len(calls) \in Nat \ {0} /\ DOMAIN calls = 1 .. Len(calls)
  BY EmptySeq, LenProperties DEF TypesInv
<1>2. \A k \in 1 .. Len(calls) : calls[k] \in Call
  BY ElementOfSeq DEF TypesInv
<1> QED BY <1>1, <1>2 DEF Caller, Last, Call

LEMMA RequestedFacts ==
    ASSUME TypesInv, Caller.left # <<>>
    PROVE  /\ Requested \in File /\ Requested = Caller.left[1] /\ 1 \in DOMAIN Caller.left
           /\ Tail(Caller.left) \in Seq(File)
           /\ \A i \in DOMAIN Tail(Caller.left) :
                 i + 1 \in DOMAIN Caller.left /\ Tail(Caller.left)[i] = Caller.left[i + 1]
           /\ \A i \in DOMAIN Caller.left \ {1} :
                 i - 1 \in DOMAIN Tail(Caller.left) /\ Tail(Caller.left)[i - 1] = Caller.left[i]
<1> DEFINE s == Caller.left
<1>1. s \in Seq(File) /\ s # <<>>
  BY CallFacts
<1> HIDE DEF s
<1>2. /\ Head(s) \in File /\ Tail(s) \in Seq(File) /\ Head(s) = s[1]
      /\ Len(s) \in Nat \ {0} /\ Len(Tail(s)) = Len(s) - 1
      /\ \A k \in 1 .. Len(s) - 1 : Tail(s)[k] = s[k + 1]
  BY <1>1, HeadTailProperties, EmptySeq
<1>3. DOMAIN s = 1 .. Len(s) /\ DOMAIN Tail(s) = 1 .. Len(s) - 1
  BY <1>1, <1>2, LenProperties
<1>4. ASSUME NEW i \in DOMAIN s \ {1}
      PROVE  i - 1 \in DOMAIN Tail(s) /\ Tail(s)[i - 1] = s[i]
  <2>1. i - 1 \in 1 .. Len(s) - 1 /\ (i - 1) + 1 = i
    BY <1>2, <1>3
  <2> QED BY <1>2, <1>3, <2>1
<1> QED BY <1>2, <1>3, <1>4 DEF Requested, s

LEMMA GoesOn ==
    ASSUME TypesInv, Caller.left # <<>>
    PROVE  /\ CallerGoesOn \in Seq(Call) /\ Len(CallerGoesOn) = Len(calls)
           /\ \A k \in 1 .. Len(calls) : CallerGoesOn[k].doc = calls[k].doc
           /\ \A k \in 1 .. Len(calls) - 1 : CallerGoesOn[k] = calls[k]
           /\ CallerGoesOn[Len(calls)].left = Tail(Caller.left)
<1> DEFINE n == Len(calls)
           new == [calls[n] EXCEPT !.left = Tail(@)]
<1>1. /\ n \in 1 .. n /\ calls \in Seq(Call) /\ calls[n] \in Call /\ Caller = calls[n]
      /\ DOMAIN calls = 1 .. n /\ n \in Nat
  BY CallFacts, ElementOfSeq DEF TypesInv
<1>2. new \in Call /\ new.doc = calls[n].doc /\ new.left = Tail(calls[n].left)
  BY <1>1, RequestedFacts DEF Call
<1>3. CallerGoesOn = [calls EXCEPT ![n] = new]
  BY <1>1 DEF CallerGoesOn
<1> HIDE DEF new
<1>4. /\ [calls EXCEPT ![n] = new] \in Seq(Call) /\ Len([calls EXCEPT ![n] = new]) = Len(calls)
      /\ \A k \in 1 .. Len(calls) : [calls EXCEPT ![n] = new][k] = IF k = n THEN new ELSE calls[k]
  <2>1. n \in 1 .. Len(calls)
    BY <1>1
  <2> HIDE DEF n
  <2> QED BY <1>1, <1>2, <2>1, ExceptSeq
<1>5. /\ CallerGoesOn \in Seq(Call) /\ Len(CallerGoesOn) = n
      /\ \A k \in 1 .. n : CallerGoesOn[k] = IF k = n THEN new ELSE calls[k]
  BY <1>3, <1>4
<1>6. \A k \in 1 .. n : CallerGoesOn[k].doc = calls[k].doc
  BY <1>2, <1>5
<1>7. \A k \in 1 .. n - 1 : CallerGoesOn[k] = calls[k]
  <2>1. n \in Nat
    BY <1>1
  <2> HIDE DEF n
  <2> QED BY <1>5, <2>1
<1>8. CallerGoesOn[n].left = Tail(Caller.left)
  <2> HIDE DEF n
  <2> QED BY <1>1, <1>2, <1>5
<1> QED BY <1>5, <1>6, <1>7, <1>8

\* Documents being loaded stand after those that are loaded.
LEMMA Documents ==
    ASSUME TypesInv, StackInv
    PROVE  /\ Len(docs) \in Nat /\ DOMAIN docs = 1 .. Len(docs)
           /\ \A i \in DOMAIN docs : docs[i] \in File
           /\ \A k \in 2 .. Len(calls) : Open(k) \in DOMAIN docs /\ calls[k].doc \in File
           /\ Open(Len(calls)) \in 1 .. Len(docs) + 1
           /\ \A i \in DOMAIN docs : i >= Open(Len(calls)) =>
                 \E k \in 2 .. Len(calls) : i = Open(k) /\ docs[i] = calls[k].doc
<1>1. /\ Len(docs) \in Nat /\ DOMAIN docs = 1 .. Len(docs)
      /\ \A i \in DOMAIN docs : docs[i] \in File
  BY LenProperties, ElementOfSeq DEF TypesInv
<1>2. Len(calls) \in Nat \ {0} /\ Len(calls) - 1 <= Len(docs)
  BY CallFacts DEF StackInv
<1>3. ASSUME NEW k \in 2 .. Len(calls) PROVE Open(k) \in DOMAIN docs /\ calls[k].doc \in File
  <2>1. Open(k) \in DOMAIN docs
    BY <1>1, <1>2 DEF Open
  <2> QED BY <1>1, <2>1 DEF StackInv
<1>4. Open(Len(calls)) \in 1 .. Len(docs) + 1
  BY <1>1, <1>2 DEF Open
<1>5. ASSUME NEW i \in DOMAIN docs, i >= Open(Len(calls))
      PROVE  \E k \in 2 .. Len(calls) : i = Open(k) /\ docs[i] = calls[k].doc
  <2> DEFINE k == Len(docs) + 2 - i
  <2>1. k \in 2 .. Len(calls) /\ i = Open(k)
    BY <1>1, <1>2, <1>5 DEF Open
  <2> HIDE DEF k
  <2> QED BY <2>1 DEF StackInv
<1> QED BY <1>1, <1>3, <1>4, <1>5

\* A file that is neither loaded nor being loaded has no document, and was not parsed.
LEMMA NotYetLoaded ==
    ASSUME TypesInv, StackInv, NEW f \in File, f \notin Visited \cup loaded
    PROVE  text[f] = Null /\ \A i \in DOMAIN docs : docs[i] # f
<1>1. ASSUME NEW i \in DOMAIN docs PROVE docs[i] # f
  <2>1. CASE i < Open(Len(calls))
    <3>1. i \in 1 .. Open(Len(calls)) - 1
      BY <2>1, Documents
    <3> QED BY <3>1 DEF StackInv
  <2>2. CASE i >= Open(Len(calls))
    <3>1. PICK k \in 2 .. Len(calls) : docs[i] = calls[k].doc
      BY <2>2, Documents
    <3>2. docs[i] \in Visited
      BY <3>1, CallFacts DEF Visited
    <3> QED BY <3>2
  <2>3. i \in Int /\ Open(Len(calls)) \in Int
    BY Documents
  <2> QED BY <2>1, <2>2, <2>3
<1> QED BY <1>1 DEF StackInv

\* A new document goes before the one of its caller, or to the end.
LEMMA DocumentInserted ==
    ASSUME TypesInv, StackInv, NEW f \in File, NewDocument(f, Caller.doc)
    PROVE  LET p == Open(Len(calls))
           IN  /\ docs' \in Seq(File) /\ Len(docs') = Len(docs) + 1
               /\ \A i \in 1 .. p - 1 : docs'[i] = docs[i]
               /\ docs'[p] = f
               /\ \A i \in p .. Len(docs) : docs'[i + 1] = docs[i]
<1> DEFINE p == Open(Len(calls))
           n == Len(docs)
<1>1. n \in Nat /\ DOMAIN docs = 1 .. n /\ p \in 1 .. n + 1 /\ docs \in Seq(File)
  BY Documents DEF TypesInv
<1>2. Len(calls) \in Nat \ {0} /\ Caller = calls[Len(calls)]
  BY CallFacts
<1>3. CASE Len(calls) = 1
  <2>1. docs' = Append(docs, f) /\ p = n + 1
    BY <1>2, <1>3, <1>1 DEF NewDocument, TypesInv, Open
  <2> HIDE DEF p
  <2> QED BY <1>1, <2>1, AppendProperties DEF p
<1>4. CASE Len(calls) # 1
  <2>1. /\ Len(calls) \in 2 .. Len(calls) /\ p \in 1 .. n /\ docs[p] = Caller.doc
        /\ Caller.doc # Null
    <3>1. Len(calls) \in 2 .. Len(calls)
      <4>1. \A c \in Nat \ {0} : c # 1 => c \in 2 .. c
        OBVIOUS
      <4> QED BY <1>2, <1>4, <4>1, Zenon
    <3>2. p \in DOMAIN docs /\ calls[Len(calls)].doc \in File
      BY <3>1, Documents
    <3>3. docs[p] = calls[Len(calls)].doc
      BY <3>1 DEF StackInv
    <3> QED BY <1>1, <1>2, <3>1, <3>2, <3>3, TefAssumption
  <2>2. Position(Caller.doc) = p
    BY <1>1, <2>1 DEF Position, StackInv
  <2>3. docs' = SubSeq(docs, 1, p - 1) \o <<f>> \o SubSeq(docs, p, n)
    BY <2>1, <2>2 DEF NewDocument, InsertAt
  <2> HIDE DEF p, n
  <2> DEFINE a == SubSeq(docs, 1, p - 1)
             b == SubSeq(docs, p, n)
  <2>4. a \in Seq(File) /\ Len(a) = p - 1 /\ \A i \in 1 .. p - 1 : a[i] = docs[i]
    <3>1. \A i \in 1 .. p - 1 : docs[i] \in File
      BY <1>1, <2>1, Documents
    <3>2. /\ a \in Seq(File) /\ Len(a) = IF 1 <= p - 1 THEN p - 1 - 1 + 1 ELSE 0
          /\ \A i \in 1 .. (p - 1) - 1 + 1 : a[i] = docs[1 + i - 1]
      BY <2>1, <3>1, SubSeqProperties
    <3> HIDE DEF a
    <3> QED BY <1>1, <2>1, <3>2
  <2>5. b \in Seq(File) /\ Len(b) = n - p + 1 /\ \A i \in 1 .. n - p + 1 : b[i] = docs[p + i - 1]
    <3>1. \A i \in p .. n : docs[i] \in File
      BY <1>1, <2>1, Documents
    <3>2. /\ b \in Seq(File) /\ Len(b) = IF p <= n THEN n - p + 1 ELSE 0
          /\ \A i \in 1 .. n - p + 1 : b[i] = docs[p + i - 1]
      BY <1>1, <2>1, <3>1, SubSeqProperties
    <3> HIDE DEF b
    <3> QED BY <1>1, <2>1, <3>2
  <2> HIDE DEF a, b
  <2>6. a \o <<f>> \in Seq(File) /\ Len(a \o <<f>>) = p
        /\ \A i \in 1 .. p : (a \o <<f>>)[i] = IF i <= p - 1 THEN a[i] ELSE f
    <3>1. <<f>> \in Seq(File) /\ Len(<<f>>) = 1 /\ <<f>>[1] = f
      OBVIOUS
    <3>2. /\ a \o <<f>> \in Seq(File) /\ Len(a \o <<f>>) = Len(a) + 1
          /\ \A i \in 1 .. Len(a) + 1 : (a \o <<f>>)[i] = IF i <= Len(a) THEN a[i] ELSE <<f>>[i - Len(a)]
      BY <2>4, <3>1, ConcatProperties
    <3> QED BY <1>1, <2>1, <2>4, <3>1, <3>2
  <2> DEFINE c == a \o <<f>>
  <2> HIDE DEF c
  <2>7. /\ c \o b \in Seq(File) /\ Len(c \o b) = p + (n - p + 1)
        /\ \A i \in 1 .. p + (n - p + 1) : (c \o b)[i] = IF i <= p THEN c[i] ELSE b[i - p]
    <3>1. c \in Seq(File) /\ Len(c) = p
      BY <2>6 DEF c
    <3>2. /\ c \o b \in Seq(File) /\ Len(c \o b) = Len(c) + Len(b)
          /\ \A i \in 1 .. Len(c) + Len(b) : (c \o b)[i] = IF i <= Len(c) THEN c[i] ELSE b[i - Len(c)]
      BY <2>5, <3>1, ConcatProperties
    <3> QED BY <2>5, <3>1, <3>2
  <2>8. docs' = c \o b
    BY <2>3 DEF c, a, b
  <2>9. docs' \in Seq(File) /\ Len(docs') = n + 1
    BY <1>1, <2>1, <2>7, <2>8
  <2>10. ASSUME NEW i \in 1 .. p - 1 PROVE docs'[i] = docs[i]
    BY <1>1, <2>1, <2>4, <2>6, <2>7, <2>8 DEF c
  <2>11. docs'[p] = f
    BY <1>1, <2>1, <2>6, <2>7, <2>8 DEF c
  <2>12. ASSUME NEW i \in p .. n PROVE docs'[i + 1] = docs[i]
    <3>1. /\ i + 1 \in 1 .. p + (n - p + 1) /\ ~ (i + 1 <= p) /\ (i + 1) - p \in 1 .. n - p + 1
          /\ p + ((i + 1) - p) - 1 = i
      BY <1>1, <2>1
    <3>2. docs'[i + 1] = b[(i + 1) - p]
      BY <2>7, <2>8, <3>1
    <3> QED BY <2>5, <3>1, <3>2
  <2> QED BY <2>9, <2>10, <2>11, <2>12 DEF p, n
<1> QED BY <1>3, <1>4

\* The three ways a call of load changes the calls.
LEMMA CallBegins ==
    ASSUME TypesInv, Caller.left # <<>>, NEW f \in File, NEW s \in Seq(File)
    PROVE  LET new == Append(CallerGoesOn, [doc |-> f, left |-> s])
               n   == Len(calls)
           IN  /\ new \in Seq(Call) /\ new # <<>> /\ Len(new) = n + 1
               /\ \A k \in 1 .. n : new[k].doc = calls[k].doc
               /\ \A k \in 1 .. n - 1 : new[k] = calls[k]
               /\ new[n].left = Tail(Caller.left)
               /\ new[n + 1].doc = f /\ new[n + 1].left = s
<1> DEFINE e == [doc |-> f, left |-> s]
           n == Len(calls)
<1>1. e \in Call /\ e.doc = f /\ e.left = s
  BY DEF Call
<1>2. /\ CallerGoesOn \in Seq(Call) /\ Len(CallerGoesOn) = n /\ n \in Nat \ {0}
      /\ \A k \in 1 .. n : CallerGoesOn[k].doc = calls[k].doc
      /\ \A k \in 1 .. n - 1 : CallerGoesOn[k] = calls[k]
      /\ CallerGoesOn[n].left = Tail(Caller.left)
  BY GoesOn, CallFacts
<1> HIDE DEF e, n
<1>3. /\ Append(CallerGoesOn, e) \in Seq(Call) /\ Append(CallerGoesOn, e) # <<>>
      /\ Len(Append(CallerGoesOn, e)) = n + 1
      /\ \A k \in 1 .. n : Append(CallerGoesOn, e)[k] = CallerGoesOn[k]
      /\ Append(CallerGoesOn, e)[n + 1] = e
  BY <1>1, <1>2, AppendProperties
<1>4. n \in 1 .. n /\ 1 .. n - 1 \subseteq 1 .. n
  BY <1>2
<1>5. \A k \in 1 .. n : Append(CallerGoesOn, e)[k].doc = calls[k].doc
  BY <1>2, <1>3
<1>6. \A k \in 1 .. n - 1 : Append(CallerGoesOn, e)[k] = calls[k]
  BY <1>2, <1>3, <1>4
<1> QED BY <1>1, <1>2, <1>3, <1>4, <1>5, <1>6 DEF e, n

LEMMA CallEnds ==
    ASSUME TypesInv, Caller.doc # Null
    PROVE  /\ Len(calls) \in 2 .. Len(calls)
           /\ Front(calls) \in Seq(Call) /\ Front(calls) # <<>> /\ Len(Front(calls)) = Len(calls) - 1
           /\ \A k \in 1 .. Len(calls) - 1 : Front(calls)[k] = calls[k]
<1> DEFINE n == Len(calls)
<1>1. n \in Nat \ {0} /\ Caller = calls[n] /\ calls[1].doc = Null
  BY CallFacts DEF TypesInv
<1>2. n # 1
  BY <1>1
<1>3. \A k \in 1 .. n : calls[k] \in Call
  BY ElementOfSeq DEF TypesInv
<1>4. Front(calls) = SubSeq(calls, 1, n - 1)
  BY DEF Front
<1> HIDE DEF n
<1>5. n \in 2 .. n /\ n - 1 \in Int /\ \A k \in 1 .. n - 1 : calls[k] \in Call
  BY <1>1, <1>2, <1>3
<1>6. /\ SubSeq(calls, 1, n - 1) \in Seq(Call)
      /\ Len(SubSeq(calls, 1, n - 1)) = IF 1 <= n - 1 THEN n - 1 - 1 + 1 ELSE 0
      /\ \A i \in 1 .. (n - 1) - 1 + 1 : SubSeq(calls, 1, n - 1)[i] = calls[1 + i - 1]
  BY <1>5, SubSeqProperties
<1>7. Len(SubSeq(calls, 1, n - 1)) = n - 1 /\ Len(SubSeq(calls, 1, n - 1)) # 0
  BY <1>5, <1>6
<1>8. SubSeq(calls, 1, n - 1) # <<>>
  <2>1. Len(<<>>) = 0
    OBVIOUS
  <2> QED BY <1>7, <2>1, Zenon
<1>9. \A k \in 1 .. n - 1 : SubSeq(calls, 1, n - 1)[k] = calls[k]
  BY <1>5, <1>6
<1> QED BY <1>4, <1>5, <1>6, <1>7, <1>8, <1>9 DEF n

LEMMA StackWaits ==
    ASSUME TypesInv, StackInv, LoadNothing
    PROVE  StackInv'
<1>1. /\ Len(calls') = Len(calls) /\ \A k \in 1 .. Len(calls) : calls'[k].doc = calls[k].doc
      /\ UNCHANGED <<text, docs, loaded>> /\ Len(calls) \in Nat
  BY GoesOn, CallFacts DEF LoadNothing
<1>2. \A k \in 2 .. Len(calls) : calls'[k].doc = calls[k].doc
  BY <1>1
<1> QED BY <1>1, <1>2 DEF StackInv, Open

LEMMA StackGrows ==
    ASSUME TypesInv, StackInv, LoadSource
    PROVE  StackInv' /\ docs' \in Seq(File)
<1> DEFINE f == Requested
           n == Len(calls)
           d == Len(docs)
           p == Open(n)
<1>1. PICK t \in Texts[f] : /\ text' = [text EXCEPT ![f] = t]
                            /\ calls' = Append(CallerGoesOn, [doc |-> f, left |-> t.includes])
  BY DEF LoadSource
<1>2. /\ f \in File /\ f \notin Visited /\ f \notin loaded /\ Caller.left # <<>>
      /\ NewDocument(f, Caller.doc) /\ loaded' = loaded
  BY RequestedFacts DEF LoadSource
<1>3. t.includes \in Seq(File)
  BY <1>2, TefAssumption DEF Text
<1> HIDE DEF f
<1>4. /\ Len(calls') = n + 1 /\ n \in Nat \ {0}
      /\ \A k \in 1 .. n : calls'[k].doc = calls[k].doc
      /\ calls'[n + 1].doc = f
  <2> DEFINE s == t.includes
  <2>1. s \in Seq(File) /\ calls' = Append(CallerGoesOn, [doc |-> f, left |-> s])
    BY <1>1, <1>3
  <2> HIDE DEF s, n
  <2>2. n \in Nat \ {0}
    BY CallFacts DEF n
  <2>3. /\ Len(calls') = n + 1
        /\ \A k \in 1 .. n : calls'[k].doc = calls[k].doc
        /\ calls'[n + 1].doc = f
    BY <1>2, <2>1, CallBegins DEF n
  <2> QED BY <2>2, <2>3
<1>5. /\ docs' \in Seq(File) /\ Len(docs') = d + 1
      /\ \A i \in 1 .. p - 1 : docs'[i] = docs[i]
      /\ docs'[p] = f
      /\ \A i \in p .. d : docs'[i + 1] = docs[i]
  BY <1>2, DocumentInserted
<1>6. /\ d \in Nat /\ DOMAIN docs = 1 .. d /\ p \in 1 .. d + 1 /\ n - 1 <= d
  BY Documents DEF StackInv
<1>7. DOMAIN docs' = 1 .. d + 1
  BY <1>5, LenProperties
<1>8. \A i \in DOMAIN docs : docs[i] # f
  BY <1>2, NotYetLoaded
<1>9. \A k \in Int : d + 1 + 2 - k = Open(k) + 1
  BY <1>6 DEF Open
<1>10. p = d + 2 - n
  BY DEF Open
<1>11. \A k \in 2 .. n : Open(k) \in p .. d /\ docs[Open(k)] = calls[k].doc /\ calls[k].doc \notin loaded
  BY <1>4, <1>6, <1>10 DEF StackInv, Open
<1>12. \A i \in 1 .. p - 1 : docs[i] \in loaded
  BY DEF StackInv
<1>13. \A i \in DOMAIN docs : \E j \in DOMAIN docs' : docs'[j] = docs[i]
  <2> SUFFICES ASSUME NEW i \in DOMAIN docs PROVE \E j \in DOMAIN docs' : docs'[j] = docs[i]
    OBVIOUS
  <2> HIDE DEF p, d
  <2>1. CASE i < p
    BY <1>5, <1>6, <1>7, <2>1
  <2>2. CASE i >= p
    <3>1. i \in p .. d /\ i + 1 \in 1 .. d + 1
      BY <1>6, <2>2
    <3> QED BY <1>5, <1>7, <3>1
  <2> QED BY <1>6, <2>1, <2>2
<1>14. \A j \in DOMAIN docs' :
          \/ j = p /\ docs'[j] = f
          \/ j < p /\ j \in DOMAIN docs /\ docs'[j] = docs[j]
          \/ j > p /\ j - 1 \in DOMAIN docs /\ docs'[j] = docs[j - 1]
  <2> SUFFICES ASSUME NEW j \in DOMAIN docs', j # p
               PROVE  \/ j < p /\ j \in DOMAIN docs /\ docs'[j] = docs[j]
                      \/ j > p /\ j - 1 \in DOMAIN docs /\ docs'[j] = docs[j - 1]
    BY <1>5
  <2> HIDE DEF p, d
  <2>1. CASE j < p
    BY <1>5, <1>6, <1>7, <2>1
  <2>2. CASE j > p
    <3>1. j - 1 \in p .. d /\ j - 1 \in 1 .. d /\ (j - 1) + 1 = j
      BY <1>6, <1>7, <2>2
    <3> QED BY <1>5, <1>6, <2>2, <3>1
  <2> QED BY <1>6, <1>7, <2>1, <2>2
<1> HIDE DEF n, d, p
<1>15. ASSUME NEW k \in 2 .. n + 1
       PROVE  docs'[d + 1 + 2 - k] = calls'[k].doc /\ calls'[k].doc \notin loaded
  <2>1. CASE k = n + 1
    BY <1>2, <1>4, <1>5, <1>6, <1>10, <2>1
  <2>2. CASE k # n + 1
    <3>1. k \in 2 .. n /\ k \in 1 .. n /\ k \in Int
      BY <1>4, <2>2
    <3>2. docs'[Open(k) + 1] = docs[Open(k)]
      BY <1>5, <1>11, <3>1
    <3> QED BY <1>4, <1>9, <1>11, <3>1, <3>2
  <2> QED BY <2>1, <2>2
<1>16. \A i \in 1 .. p - 1 : docs'[i] \in loaded
  BY <1>5, <1>12
<1>17. \A g \in loaded : \E i \in DOMAIN docs' : docs'[i] = g
  BY <1>13 DEF StackInv
<1>18. ASSUME NEW i \in DOMAIN docs', NEW j \in DOMAIN docs', docs'[i] = docs'[j] PROVE i = j
  <2>1. i \in Int /\ j \in Int /\ p \in Int
    BY <1>6, <1>7
  <2>2. \A a, b \in DOMAIN docs : docs[a] = docs[b] => a = b
    BY DEF StackInv
  <2>3. CASE i = p \/ j = p
    BY <1>8, <1>14, <1>18, <2>1, <2>3
  <2>4. CASE i # p /\ j # p
    <3>1. PICK a \in DOMAIN docs : docs'[i] = docs[a] /\ ((i < p /\ a = i) \/ (i > p /\ a = i - 1))
      BY <1>14, <2>4
    <3>2. PICK b \in DOMAIN docs : docs'[j] = docs[b] /\ ((j < p /\ b = j) \/ (j > p /\ b = j - 1))
      BY <1>14, <2>4
    <3>3. a = b
      BY <1>18, <2>2, <3>1, <3>2
    <3> QED BY <2>1, <3>1, <3>2, <3>3
  <2> QED BY <2>3, <2>4
<1>19. ASSUME NEW g \in File, text'[g] # Null PROVE \E i \in DOMAIN docs' : docs'[i] = g
  <2>1. CASE g = f
    BY <1>5, <1>6, <1>7, <2>1
  <2>2. CASE g # f
    <3>1. text[g] # Null
      BY <1>1, <1>19, <2>2 DEF TypesInv, f
    <3> QED BY <1>13, <3>1 DEF StackInv
  <2> QED BY <2>1, <2>2
<1>20. n + 1 - 1 <= d + 1
  BY <1>4, <1>6
<1>21. (d + 1) + 2 - (n + 1) = p
  BY <1>4, <1>6, <1>10
<1> QED BY <1>2, <1>4, <1>5, <1>15, <1>16, <1>17, <1>18, <1>19, <1>20, <1>21 DEF StackInv, Open

LEMMA StackShrinks ==
    ASSUME TypesInv, StackInv, FileLoaded
    PROVE  StackInv'
<1> DEFINE n == Len(calls)
           d == Len(docs)
<1>1. /\ n \in 2 .. n /\ Len(calls') = n - 1 /\ \A k \in 1 .. n - 1 : calls'[k] = calls[k]
      /\ loaded' = loaded \cup {calls[n].doc} /\ UNCHANGED <<text, docs>>
  BY CallEnds, CallFacts DEF FileLoaded
<1>2. n \in Nat /\ d \in Nat /\ DOMAIN docs = 1 .. d /\ n - 1 <= d
  BY Documents, CallFacts DEF StackInv
<1>3. \A k \in 2 .. n : Open(k) \in DOMAIN docs /\ docs[Open(k)] = calls[k].doc /\ calls[k].doc \notin loaded
  BY Documents DEF StackInv
<1>4. \A k \in Int : Open(k) = d + 2 - k
  BY DEF Open
<1>5. \A i, j \in DOMAIN docs : docs[i] = docs[j] => i = j
  BY DEF StackInv
<1>6. \A i \in 1 .. Open(n) - 1 : docs[i] \in loaded
  BY DEF StackInv
<1> HIDE DEF n, d
<1>7. ASSUME NEW k \in 2 .. n - 1
      PROVE  docs[d + 2 - k] = calls'[k].doc /\ calls'[k].doc \notin loaded'
  <2>1. k \in 2 .. n /\ k \in 1 .. n - 1 /\ k # n /\ k \in Int /\ n \in Int
    BY <1>2
  <2>2. Open(k) # Open(n)
    BY <1>2, <1>4, <2>1
  <2>3. calls[k].doc # calls[n].doc
    BY <1>1, <1>3, <1>5, <2>1, <2>2
  <2> QED BY <1>1, <1>3, <1>4, <2>1, <2>3
<1>8. ASSUME NEW i \in 1 .. d + 2 - (n - 1) - 1 PROVE docs[i] \in loaded'
  <2>1. i \in 1 .. Open(n)
    BY <1>2, <1>4
  <2>2. CASE i = Open(n)
    BY <1>1, <1>3, <2>2
  <2>3. CASE i # Open(n)
    <3>1. i \in 1 .. Open(n) - 1
      BY <1>2, <1>4, <2>1, <2>3
    <3> QED BY <1>1, <1>6, <3>1
  <2> QED BY <2>2, <2>3
<1>9. \A f \in loaded' : \E i \in DOMAIN docs : docs[i] = f
  BY <1>1, <1>3 DEF StackInv
<1>10. n - 1 - 1 <= d
  BY <1>2
<1>11. Len(docs') = d /\ docs' = docs /\ text' = text
  BY <1>1 DEF d
<1> QED BY <1>1, <1>5, <1>7, <1>8, <1>9, <1>10, <1>11 DEF StackInv, Open
-----------------------------------------------------------------------------
\* The links that are written are links.
LEMMA AtPathType ==
    ASSUME TypesInv, NEW path \in Path
    PROVE  AtPath(path) \in Node \cup {Null}
<1> DEFINE found == {k \in DOMAIN docs : Exists(docs[k], path)}
<1>1. DOMAIN docs = 1 .. Len(docs) /\ Len(docs) \in Nat /\ \A k \in DOMAIN docs : docs[k] \in File
  BY LenProperties, ElementOfSeq DEF TypesInv
<1>2. AtPath(path) = IF found = {} THEN Null ELSE <<docs[Min(found)], path>>
  BY DEF AtPath
<1>3. CASE found = {}
  BY <1>2, <1>3
<1>4. CASE found # {}
  <2>1. found \in SUBSET Nat
    BY <1>1
  <2> HIDE DEF found
  <2>2. Min(found) \in found
    BY <1>4, <2>1, LeastElement DEF Min
  <2>3. docs[Min(found)] \in File
    BY <1>1, <2>2 DEF found
  <2> QED BY <1>2, <1>4, <2>3 DEF Node
<1> QED BY <1>3, <1>4

LEMMA AskedType ==
    ASSUME NEW f \in File, NEW t \in Text
    PROVE  /\ Asked(f, t) \in Seq(Ask) /\ DOMAIN Asked(f, t) = DOMAIN t.inheritance
           /\ \A k \in DOMAIN t.inheritance : Asked(f, t)[k].n = <<f, t.inheritance[k].n>>
<1> DEFINE s == t.inheritance
           n == Len(s)
           e == [k \in 1 .. n |-> [n |-> <<f, s[k].n>>, path |-> s[k].path]]
<1>1. s \in Seq([n : Path, path : Path])
  BY DEF Text
<1> HIDE DEF s
<1>2. n \in Nat /\ DOMAIN s = 1 .. n /\ \A k \in 1 .. n : s[k] \in [n : Path, path : Path]
  BY <1>1, LenProperties, ElementOfSeq
<1> HIDE DEF n
<1>3. e \in [1 .. n -> Ask]
  BY <1>2 DEF Ask, Node
<1>4. Asked(f, t) = e
  BY <1>2 DEF Asked, s
<1>5. e \in Seq(Ask)
  BY <1>2, <1>3, SeqDef
<1> QED BY <1>2, <1>4, <1>5 DEF s

LEMMA AskFacts ==
    ASSUME TypesInv
    PROVE  /\ Len(inheritance) \in Nat /\ DOMAIN inheritance = 1 .. Len(inheritance)
           /\ \A k \in DOMAIN inheritance : /\ inheritance[k].n \in Node /\ inheritance[k].path \in Path
                                            /\ inheritance[k].n[1] \in File
<1>1. /\ Len(inheritance) \in Nat /\ DOMAIN inheritance = 1 .. Len(inheritance)
      /\ \A k \in DOMAIN inheritance : inheritance[k] \in Ask
  BY LenProperties, ElementOfSeq DEF TypesInv
<1>2. \A e \in Ask : e.n \in Node /\ e.path \in Path /\ e.n[1] \in File
  BY DEF Ask, Node
<1> QED BY <1>1, <1>2

LEMMA WrittenOf ==
    ASSUME TypesInv, AskInv
    PROVE  /\ Written \in Link
           /\ \A k \in DOMAIN inheritance : Written[inheritance[k].n] = AtPath(inheritance[k].path)
<1> DEFINE Asks(n) == \E k \in DOMAIN inheritance : inheritance[k].n = n
           The(n) == CHOOSE k \in DOMAIN inheritance : inheritance[k].n = n
           Put(n) == IF Asks(n) THEN AtPath(inheritance[The(n)].path) ELSE Null
<1>1. Written = [n \in Node |-> Put(n)]
  BY DEF Written
<1>2. ASSUME NEW n \in Node, Asks(n) PROVE The(n) \in DOMAIN inheritance /\ inheritance[The(n)].n = n
  BY <1>2
<1> HIDE DEF The
<1>3. ASSUME NEW n \in Node PROVE Put(n) \in Node \cup {Null}
  <2>1. CASE Asks(n)
    BY <1>2, <2>1, AskFacts, AtPathType
  <2>2. CASE ~ Asks(n)
    BY <2>2
  <2> QED BY <2>1, <2>2
<1>4. ASSUME NEW k \in DOMAIN inheritance
      PROVE  Written[inheritance[k].n] = AtPath(inheritance[k].path)
  <2>1. inheritance[k].n \in Node /\ Asks(inheritance[k].n)
    BY AskFacts
  <2>2. The(inheritance[k].n) = k
    BY <1>2, <2>1 DEF AskInv
  <2> QED BY <1>1, <2>1, <2>2
<1> HIDE DEF Put
<1> QED BY <1>1, <1>3, <1>4 DEF Link

\* What is written does not change once everything is loaded.
LEMMA WrittenStays ==
    ASSUME UNCHANGED <<text, docs, inheritance>>
    PROVE  /\ Written' = Written
           /\ \A n : Cause(n)' <=> Cause(n)
<1>1. \A f, path : Exists(f, path)' <=> Exists(f, path)
  BY DEF Exists, Parsed
<1>2. \A path : AtPath(path)' = AtPath(path)
  BY <1>1 DEF AtPath
<1>3. Written' = Written
  BY <1>2 DEF Written
<1>4. \A n : IsScalar(n)' <=> IsScalar(n)
  BY DEF IsScalar, Parsed
<1>5. Len(inheritance') = Len(inheritance)
  OBVIOUS
<1> QED BY <1>3, <1>4, <1>5 DEF Cause
-----------------------------------------------------------------------------
LEMMA TypesStep ==
    ASSUME TypesInv, StackInv, [Next]_vars
    PROVE  TypesInv'
<1>1. CASE UNCHANGED vars
  BY <1>1 DEF vars, TypesInv
<1>2. CASE LoadNothing
  <2>1. calls' \in Seq(Call) /\ Len(calls') = Len(calls) /\ calls'[1].doc = calls[1].doc
        /\ Len(calls') # 0
    BY <1>2, GoesOn, CallFacts DEF LoadNothing
  <2>2. calls' # <<>>
    BY <2>1
  <2> QED BY <1>2, <2>1, <2>2 DEF LoadNothing, TypesInv
<1>3. CASE LoadSource
  <2>1. PICK t \in Texts[Requested] :
            /\ text' = [text EXCEPT ![Requested] = t]
            /\ inheritance' = inheritance \o Asked(Requested, t)
            /\ calls' = Append(CallerGoesOn, [doc |-> Requested, left |-> t.includes])
    BY <1>3 DEF LoadSource
  <2>2. Requested \in File /\ Caller.left # <<>>
    BY <1>3, RequestedFacts DEF LoadSource
  <2>3. t \in Text
    BY <2>2, TefAssumption
  <2>4. t.includes \in Seq(File) /\ Asked(Requested, t) \in Seq(Ask)
    BY <2>2, <2>3, AskedType DEF Text
  <2>5. text' \in [File -> Text \cup {Null}]
    BY <2>1, <2>3 DEF TypesInv
  <2>6. inheritance' \in Seq(Ask) /\ Len(inheritance') >= Len(inheritance) /\ Len(inheritance') \in Nat
    BY <2>1, <2>4, ConcatProperties, LenProperties DEF TypesInv
  <2>7. calls' \in Seq(Call) /\ calls' # <<>> /\ calls'[1].doc = calls[1].doc
    <3>1. 1 \in 1 .. Len(calls)
      BY CallFacts
    <3> DEFINE s == t.includes
               f == Requested
    <3>2. s \in Seq(File) /\ calls' = Append(CallerGoesOn, [doc |-> f, left |-> s]) /\ f \in File
      BY <2>1, <2>2, <2>4
    <3> HIDE DEF s, f
    <3> QED BY <2>2, <3>1, <3>2, CallBegins
  <2>8. resolved \in 0 .. Len(inheritance')
    BY <2>6, AskFacts DEF TypesInv
  <2> QED BY <1>3, <2>5, <2>6, <2>7, <2>8, StackGrows DEF LoadSource, TypesInv
<1>4. CASE FileLoaded
  <2>1. /\ calls' \in Seq(Call) /\ calls' # <<>> /\ calls'[1].doc = calls[1].doc
    <3>1. 1 \in 1 .. Len(calls) - 1
      BY <1>4, CallEnds DEF FileLoaded
    <3> QED BY <1>4, <3>1, CallEnds DEF FileLoaded
  <2>2. loaded' \in SUBSET File
    BY <1>4, CallFacts DEF FileLoaded, TypesInv
  <2> QED BY <1>4, <2>1, <2>2 DEF FileLoaded, TypesInv
<1>5. CASE ResolveNext
  <2>1. resolved + 1 \in 0 .. Len(inheritance) /\ resolved' = resolved + 1
        /\ resolved' \in DOMAIN inheritance
    BY <1>5, AskFacts DEF ResolveNext, TypesInv
  <2> DEFINE inh == inheritance[resolved']
             proto == AtPath(inh.path)
  <2>2. inh.n \in Node /\ proto \in Node \cup {Null}
    BY <2>1, AskFacts, AtPathType
  <2>3. m_prototype' = [m_prototype EXCEPT ![inh.n] = proto] \/ m_prototype' = m_prototype
    BY <1>5 DEF ResolveNext
  <2> HIDE DEF inh, proto
  <2>4. m_prototype' \in Link
    BY <2>2, <2>3 DEF TypesInv, Link
  <2> QED BY <1>5, <2>1, <2>4 DEF ResolveNext, TypesInv
<1> QED BY <1>1, <1>2, <1>3, <1>4, <1>5 DEF Next, AlreadyLoaded, CycleDetected,
                                            SourceUnreadable, SourceEmpty, NoText

LEMMA StackStep ==
    ASSUME TypesInv, StackInv, [Next]_vars
    PROVE  StackInv'
<1>1. CASE UNCHANGED <<text, docs, calls, loaded>>
  BY <1>1 DEF StackInv, Open
<1>2. CASE LoadNothing
  BY <1>2, StackWaits
<1>3. CASE LoadSource
  BY <1>3, StackGrows
<1>4. CASE FileLoaded
  BY <1>4, StackShrinks
<1> QED BY <1>1, <1>2, <1>3, <1>4
        DEF Next, vars, AlreadyLoaded, CycleDetected,
            SourceUnreadable, SourceEmpty, NoText, ResolveNext

\* A file is parsed once, so that its nodes ask once.
LEMMA AskStep ==
    ASSUME TypesInv, StackInv, AskInv, [Next]_vars
    PROVE  AskInv'
<1>1. CASE UNCHANGED <<text, inheritance>>
  BY <1>1 DEF AskInv
<1>2. CASE LoadSource
  <2> DEFINE f == Requested
             L == Len(inheritance)
  <2>1. PICK t \in Texts[f] : /\ text' = [text EXCEPT ![f] = t]
                              /\ inheritance' = inheritance \o Asked(f, t)
    BY <1>2 DEF LoadSource
  <2>2. f \in File /\ f \notin Visited \cup loaded
    BY <1>2, RequestedFacts DEF LoadSource
  <2>3. /\ t \in Text /\ t # Null
        /\ \A j, k \in DOMAIN t.inheritance : t.inheritance[j].n = t.inheritance[k].n => j = k
    BY <2>2, TefAssumption
  <2>4. text[f] = Null
    BY <2>2, NotYetLoaded
  <2> HIDE DEF f
  <2> DEFINE a == Asked(f, t)
             M == Len(a)
  <2>5. /\ a \in Seq(Ask) /\ DOMAIN a = DOMAIN t.inheritance
        /\ \A k \in DOMAIN a : a[k].n = <<f, t.inheritance[k].n>>
    BY <2>2, <2>3, AskedType
  <2>6. L \in Nat /\ DOMAIN inheritance = 1 .. L /\ M \in Nat /\ DOMAIN a = 1 .. M
    BY <2>5, AskFacts, LenProperties
  <2>7. \A k \in DOMAIN inheritance : text[inheritance[k].n[1]] # Null /\ inheritance[k].n[1] \in File
    BY AskFacts DEF AskInv
  <2> HIDE DEF a, L, M
  <2>8. /\ DOMAIN inheritance' = 1 .. L + M
        /\ \A i \in 1 .. L + M : inheritance'[i] = IF i <= L THEN inheritance[i] ELSE a[i - L]
    <3>1. inheritance \in Seq(Ask) /\ inheritance' = inheritance \o a
      BY <2>1 DEF TypesInv, a
    <3>2. /\ inheritance \o a \in Seq(Ask) /\ Len(inheritance \o a) = L + M
          /\ \A i \in 1 .. L + M : (inheritance \o a)[i] = IF i <= L THEN inheritance[i] ELSE a[i - L]
      BY <2>5, <3>1, ConcatProperties DEF L, M
    <3>3. DOMAIN (inheritance \o a) = 1 .. L + M
      BY <3>2, LenProperties
    <3> QED BY <3>1, <3>2, <3>3
  <2>9. \A i \in 1 .. L + M :
            \/ i \in 1 .. L /\ inheritance'[i] = inheritance[i]
            \/ i - L \in 1 .. M /\ inheritance'[i] = a[i - L] /\ ~ (i <= L)
    BY <2>6, <2>8
  <2>10. ASSUME NEW i \in 1 .. L + M
         PROVE  /\ text'[inheritance'[i].n[1]] # Null
                /\ i <= L <=> inheritance'[i].n[1] # f
    <3>1. CASE i \in 1 .. L /\ inheritance'[i] = inheritance[i]
      <4>1. text[inheritance[i].n[1]] # Null /\ inheritance[i].n[1] \in File
        BY <2>6, <2>7, <3>1
      <4> QED BY <2>1, <2>2, <2>4, <3>1, <4>1 DEF TypesInv
    <3>2. CASE i - L \in 1 .. M /\ inheritance'[i] = a[i - L] /\ ~ (i <= L)
      <4>1. inheritance'[i].n[1] = f
        BY <2>5, <2>6, <3>2
      <4> QED BY <2>1, <2>2, <2>3, <3>2, <4>1 DEF TypesInv
    <3> QED BY <2>9, <3>1, <3>2
  <2>11. ASSUME NEW i \in 1 .. L + M, NEW j \in 1 .. L + M, inheritance'[i].n = inheritance'[j].n
         PROVE  i = j
    <3>1. i <= L <=> j <= L
      BY <2>10, <2>11
    <3>2. CASE i <= L
      <4>1. /\ i \in DOMAIN inheritance /\ j \in DOMAIN inheritance
            /\ inheritance'[i] = inheritance[i] /\ inheritance'[j] = inheritance[j]
        BY <2>6, <2>9, <3>1, <3>2
      <4> QED BY <2>11, <4>1 DEF AskInv
    <3>3. CASE ~ (i <= L)
      <4>1. /\ i - L \in DOMAIN a /\ j - L \in DOMAIN a
            /\ inheritance'[i] = a[i - L] /\ inheritance'[j] = a[j - L]
        BY <2>6, <2>9, <3>1, <3>3
      <4>2. t.inheritance[i - L].n = t.inheritance[j - L].n
        BY <2>5, <2>11, <4>1
      <4>3. i - L = j - L
        BY <2>3, <2>5, <4>1, <4>2
      <4> QED BY <2>6, <4>3
    <3> QED BY <3>2, <3>3
  <2> QED BY <2>8, <2>10, <2>11 DEF AskInv
<1> QED BY <1>1, <1>2 DEF Next, vars, AlreadyLoaded, CycleDetected,
                          SourceUnreadable, SourceEmpty, NoText, LoadNothing,
                          FileLoaded, ResolveNext

\* Resolving one prototype.
LEMMA LinkResolved ==
    ASSUME TypesInv, AskInv, LinkInv, ResolveNext
    PROVE  LinkInv'
<1> DEFINE r == resolved + 1
           n == inheritance[r].n
           proto == AtPath(inheritance[r].path)
           new == [m_prototype EXCEPT ![n] = proto]
<1>1. /\ Resolving /\ resolved' = r /\ r \in DOMAIN inheritance /\ r \in 1 .. r
      /\ r \in Nat /\ resolved \in Nat
      /\ UNCHANGED <<text, docs, calls, loaded, inheritance>>
  BY AskFacts DEF ResolveNext, TypesInv
<1>2. \/ Verdict(n, proto) = "none" /\ m_prototype' = new
      \/ Verdict(n, proto) # "none" /\ m_prototype' = m_prototype
  BY <1>1 DEF ResolveNext
<1>3. /\ n \in Node /\ proto \in Node \cup {Null} /\ Written[n] = proto
      /\ Written \in Link /\ m_prototype \in Link
  BY <1>1, AskFacts, AtPathType, WrittenOf DEF TypesInv
<1>4. Written' = Written /\ \A x : Cause(x)' <=> Cause(x)
  BY <1>1, WrittenStays
<1>5. \A x \in Node : m_prototype[x] # Null => /\ m_prototype[x] = Written[x]
                                              /\ \E k \in 1 .. resolved : inheritance[k].n = x
  BY DEF LinkInv
<1>6. \A x \in Node : new[x] # Null => /\ new[x] = Written[x]
                                      /\ \E k \in 1 .. r : inheritance[k].n = x
  <2> SUFFICES ASSUME NEW x \in Node, new[x] # Null
               PROVE  new[x] = Written[x] /\ \E k \in 1 .. r : inheritance[k].n = x
    OBVIOUS
  <2>1. CASE x = n
    <3>1. new[x] = proto
      BY <1>3, <2>1 DEF Link
    <3> QED BY <1>1, <1>3, <2>1, <3>1
  <2>2. CASE x # n
    <3>1. new[x] = m_prototype[x]
      BY <1>3, <2>2 DEF Link
    <3> HIDE DEF n, new
    <3>2. PICK k \in 1 .. resolved : inheritance[k].n = x
      BY <1>5, <3>1
    <3>3. k \in 1 .. r
      BY <1>1
    <3> QED BY <1>5, <3>1, <3>2, <3>3
  <2> QED BY <2>1, <2>2
<1>7. Resolving'
  BY <1>1 DEF Resolving, Caller
<1>8. Acyclic(m_prototype) /\ \A k \in 1 .. resolved : m_prototype[inheritance[k].n] # Null
                                                         \/ Cause(inheritance[k].n)
  BY DEF LinkInv
<1>9. \A k \in 1 .. r : inheritance[k].n \in Node /\ (k \in 1 .. resolved \/ inheritance[k].n = n)
  <2> SUFFICES ASSUME NEW k \in 1 .. r
               PROVE  inheritance[k].n \in Node /\ (k \in 1 .. resolved \/ inheritance[k].n = n)
    OBVIOUS
  <2>1. k \in DOMAIN inheritance
    BY <1>1, AskFacts
  <2>2. k \in 1 .. resolved \/ k = r
    BY <1>1
  <2> QED BY <2>1, <2>2, AskFacts
<1>10. CASE Verdict(n, proto) = "none" /\ m_prototype' = new
  <2>1. proto \in Node /\ CheckCycle(new, n) = "none"
    BY <1>3, <1>10 DEF Verdict
  <2>2. Acyclic(new)
    BY <1>3, <1>8, <2>1, AddedLink
  <2>3. new[n] # Null /\ \A x \in Node \ {n} : new[x] = m_prototype[x]
    BY <1>3, <2>1, NullIsNoNode DEF Link
  <2> HIDE DEF new, n, r
  <2>4. \A k \in 1 .. r : new[inheritance[k].n] # Null \/ Cause(inheritance[k].n)
    BY <1>8, <1>9, <2>3
  <2> QED BY <1>1, <1>4, <1>6, <1>7, <1>10, <2>2, <2>4 DEF LinkInv
<1>11. CASE Verdict(n, proto) # "none" /\ m_prototype' = m_prototype
  <2>1. Cause(n)
    <3>1. CASE proto = Null \/ IsScalar(proto) \/ HasDirectParent(n, proto)
      BY <1>3, <3>1 DEF Cause
    <3>2. CASE proto \in Node /\ CheckCycle(new, n) # "none"
      <4>1. Within(new, inheritance)
        <5> SUFFICES ASSUME NEW x \in Node, new[x] # Null
                     PROVE  \E k \in 1 .. Len(inheritance) : inheritance[k].n = x
          BY DEF Within
        <5> HIDE DEF new, n
        <5>1. PICK k \in 1 .. r : inheritance[k].n = x
          BY <1>6
        <5>2. k \in 1 .. Len(inheritance)
          BY <1>1, AskFacts
        <5> QED BY <5>1, <5>2
      <4>2. \A x \in Node : new[x] # Null => new[x] = Written[x]
        BY <1>6
      <4>3. Len(inheritance) \in Nat
        BY AskFacts
      <4>4. \E k \in 1 .. Len(inheritance) :
               \/ Walk(Written, n, Len(inheritance))[k] = n
               \/ k >= k_max_proto_depth /\ Walk(Written, n, Len(inheritance))[k] # Null
        <5> HIDE DEF n, proto
        <5> QED BY <1>3, <1>8, <3>2, <4>1, <4>2, <4>3, RefusedLink
      <4> HIDE DEF n
      <4> QED BY <4>4 DEF Cause
    <3> QED BY <1>3, <1>11, <3>1, <3>2 DEF Verdict
  <2> HIDE DEF n, r
  <2>2. \A k \in 1 .. r : m_prototype[inheritance[k].n] # Null \/ Cause(inheritance[k].n)
    BY <1>8, <1>9, <2>1
  <2>3. \A x \in Node : m_prototype[x] # Null => \E k \in 1 .. r : inheritance[k].n = x
    <3> SUFFICES ASSUME NEW x \in Node, m_prototype[x] # Null
                 PROVE  \E k \in 1 .. r : inheritance[k].n = x
      OBVIOUS
    <3>1. PICK k \in 1 .. resolved : inheritance[k].n = x
      BY <1>5
    <3>2. k \in 1 .. r
      BY <1>1 DEF r
    <3> QED BY <3>1, <3>2
  <2> QED BY <1>1, <1>4, <1>5, <1>7, <1>8, <1>11, <2>2, <2>3 DEF LinkInv
<1> QED BY <1>2, <1>10, <1>11

\* While files are loaded there are no links.
LEMMA LinkStep ==
    ASSUME TypesInv, AskInv, LinkInv, [Next]_vars
    PROVE  LinkInv'
<1>1. CASE UNCHANGED vars
  BY <1>1, WrittenStays DEF vars, LinkInv, Resolving, Caller
<1>2. CASE LoadNothing \/ LoadSource \/ FileLoaded
  <2>1. ~ Resolving
    <3>1. Caller.left # <<>> \/ Caller.doc # Null
      BY <1>2 DEF LoadNothing, LoadSource, FileLoaded
    <3>2. Len(calls) = 1 => Caller.doc = Null
      BY CallFacts DEF TypesInv
    <3> QED BY <3>1, <3>2 DEF Resolving
  <2>2. resolved = 0 /\ resolved' = resolved /\ m_prototype' = m_prototype
    BY <1>2, <2>1, AskFacts DEF LinkInv, TypesInv, LoadNothing, LoadSource, FileLoaded
  <2>3. \A n \in Node : m_prototype[n] = Null
    BY <2>2 DEF LinkInv
  <2> QED BY <2>2, <2>3 DEF LinkInv
<1>3. CASE ResolveNext
  BY <1>3, LinkResolved
<1> QED BY <1>1, <1>2, <1>3 DEF Next, AlreadyLoaded, CycleDetected,
                                SourceUnreadable, SourceEmpty, NoText

LEMMA LoaderInit == Init => LoaderInv
<1> SUFFICES ASSUME Init PROVE LoaderInv
  OBVIOUS
<1> DEFINE c == [doc |-> Null, left |-> <<Root>>]
<1>1. /\ calls = <<c>> /\ docs = <<>> /\ inheritance = <<>> /\ loaded = {} /\ resolved = 0
      /\ m_prototype = [n \in Node |-> Null] /\ text = [f \in File |-> Null]
  BY DEF Init
<1>2. c \in Call /\ c.doc = Null
  <2>1. <<Root>> \in Seq(File)
    BY TefAssumption
  <2> QED BY <2>1 DEF Call
<1> HIDE DEF c
<1>3. calls \in Seq(Call) /\ Len(calls) = 1 /\ calls[1] = c /\ calls # <<>>
  BY <1>1, <1>2
<1>4. Len(docs) = 0 /\ Len(inheritance) = 0 /\ DOMAIN docs = {} /\ DOMAIN inheritance = {}
      /\ docs \in Seq(File) /\ inheritance \in Seq(Ask)
  BY <1>1
<1>5. TypesInv
  BY <1>1, <1>2, <1>3, <1>4 DEF TypesInv, Link
<1>6. StackInv
  <2>1. Open(Len(calls)) - 1 = 0
    BY <1>3, <1>4 DEF Open
  <2>2. \A f \in File : text[f] = Null
    BY <1>1
  <2> QED BY <1>1, <1>3, <1>4, <2>1, <2>2 DEF StackInv
<1>7. AskInv
  BY <1>4 DEF AskInv
<1>8. LinkInv
  <2>1. \A n \in Node : m_prototype[n] = Null
    BY <1>1
  <2>2. Acyclic(m_prototype)
    BY <2>1, NullIsNoNode DEF Acyclic
  <2>3. 1 .. resolved = {}
    BY <1>1
  <2> QED BY <1>1, <2>1, <2>2, <2>3 DEF LinkInv
<1> QED BY <1>5, <1>6, <1>7, <1>8 DEF LoaderInv

LEMMA LoaderStep == LoaderInv /\ [Next]_vars => LoaderInv'
BY TypesStep, StackStep, AskStep, LinkStep DEF LoaderInv

\* Prototype links never form a cycle, whatever the files, the texts and the limit.
THEOREM NoPrototypeCycle == Spec => []PrototypesAcyclic
<1>1. LoaderInv => PrototypesAcyclic
  <2> SUFFICES ASSUME LoaderInv, NEW n \in Node PROVE n \notin Descends(n)
    BY DEF PrototypesAcyclic
  <2> DEFINE K == Len(inheritance) + 1
  <2>1. m_prototype \in Link /\ Acyclic(m_prototype) /\ K \in Nat
    BY AskFacts DEF LoaderInv, TypesInv, LinkInv
  <2>2. \A k \in 1 .. K : Walk(m_prototype, n, K)[k] # n
    <3> HIDE DEF K
    <3> QED BY <2>1, NoReturn
  <2> QED BY <2>2 DEF Descends
<1> QED BY <1>1, LoaderInit, LoaderStep, PTL DEF Spec

\* A node that resolve_inheritance leaves without its prototype has a reason in the texts as
\* written, whatever links were made before, and every other has the one that was written.
THEOREM RefusalsHaveCause == Spec => []RefusedForCause
<1>1. LoaderInv => RefusedForCause
  <2> SUFFICES ASSUME LoaderInv, Done, NEW k \in DOMAIN inheritance
               PROVE  LET n == inheritance[k].n
                      IN  \/ m_prototype[n] # Null /\ m_prototype[n] = Written[n]
                          \/ m_prototype[n] = Null /\ Cause(n)
    BY DEF RefusedForCause
  <2>1. inheritance[k].n \in Node /\ k \in 1 .. resolved
    BY AskFacts DEF LoaderInv, Done
  <2> QED BY <2>1 DEF LoaderInv, LinkInv
<1> QED BY <1>1, LoaderInit, LoaderStep, PTL DEF Spec
-----------------------------------------------------------------------------
\* The order of the documents.
LEMMA IncludesType ==
    ASSUME TypesInv
    PROVE  \A f \in File : Includes(f) \subseteq File
<1> SUFFICES ASSUME NEW f \in File, text[f] # Null, NEW k \in DOMAIN text[f].includes
             PROVE  text[f].includes[k] \in File
  BY DEF Includes, ToSet
<1>1. text[f].includes \in Seq(File)
  BY DEF TypesInv, Text
<1> QED BY <1>1, LenProperties, ElementOfSeq

\* A file is parsed once.
LEMMA ParsedOnce ==
    ASSUME TypesInv, StackInv, LoadSource
    PROVE  \A h \in File : Includes(h) \subseteq Includes(h)'
<1> DEFINE r == Requested
<1>1. r \in File /\ text[r] = Null
  BY RequestedFacts, NotYetLoaded DEF LoadSource
<1>2. \A h \in File : h # r => text'[h] = text[h]
  BY DEF LoadSource, TypesInv
<1> HIDE DEF r
<1> QED BY <1>1, <1>2 DEF Includes

LEMMA OrderKept ==
    ASSUME TypesInv, StackInv, LoadSource, NEW f, NEW g, Precedes(g, f)
    PROVE  Precedes(g, f)'
<1> DEFINE p == Open(Len(calls))
           d == Len(docs)
<1>1. Requested \in File /\ NewDocument(Requested, Caller.doc)
  BY RequestedFacts DEF LoadSource
<1>2. /\ docs' \in Seq(File) /\ Len(docs') = d + 1
      /\ \A i \in 1 .. p - 1 : docs'[i] = docs[i]
      /\ \A i \in p .. d : docs'[i + 1] = docs[i]
  BY <1>1, DocumentInserted
<1>3. d \in Nat /\ DOMAIN docs = 1 .. d /\ p \in 1 .. d + 1 /\ DOMAIN docs' = 1 .. d + 1
  BY <1>2, Documents, LenProperties
<1>4. PICK i, j \in DOMAIN docs : i < j /\ docs[i] = g /\ docs[j] = f
  BY DEF Precedes
<1> HIDE DEF p, d
<1> DEFINE Moved(k) == IF k < p THEN k ELSE k + 1
<1>5. ASSUME NEW k \in DOMAIN docs PROVE Moved(k) \in DOMAIN docs' /\ docs'[Moved(k)] = docs[k]
  <2>1. CASE k < p
    BY <1>2, <1>3, <2>1
  <2>2. CASE ~ k < p
    <3>1. k \in p .. d
      BY <1>3, <2>2
    <3> QED BY <1>2, <1>3, <2>2, <3>1
  <2> QED BY <2>1, <2>2
<1>6. Moved(i) < Moved(j)
  BY <1>3, <1>4
<1> HIDE DEF Moved
<1>7. /\ Moved(i) \in DOMAIN docs' /\ Moved(j) \in DOMAIN docs'
      /\ docs'[Moved(i)] = g /\ docs'[Moved(j)] = f
  BY <1>4, <1>5
<1> QED BY <1>6, <1>7 DEF Precedes

\* What is loaded stands before what is being loaded.
LEMMA LoadedPrecedes ==
    ASSUME TypesInv, StackInv, NEW g \in loaded, NEW k \in 2 .. Len(calls)
    PROVE  Precedes(g, calls[k].doc)
<1>1. PICK i \in DOMAIN docs : docs[i] = g
  BY DEF StackInv
<1>2. i < Open(Len(calls))
  <2> SUFFICES ASSUME i >= Open(Len(calls)) PROVE FALSE
    BY Documents
  <2>1. PICK j \in 2 .. Len(calls) : docs[i] = calls[j].doc
    BY Documents
  <2> QED BY <1>1, <2>1 DEF StackInv
<1>3. Open(Len(calls)) <= Open(k) /\ Open(k) \in DOMAIN docs
  BY Documents, CallFacts DEF Open
<1>4. i < Open(k)
  BY <1>2, <1>3, Documents
<1> QED BY <1>1, <1>3, <1>4 DEF StackInv, Precedes

\* The documents being loaded include one another.
LEMMA OpenReaches ==
    ASSUME TypesInv, StackInv, IncludeInv, NEW j \in 2 .. Len(calls),
           calls[j].doc \in Includes(calls[Len(calls)].doc)
    PROVE  Reaches(calls[j].doc, calls[Len(calls)].doc)
<1> DEFINE n == Len(calls)
<1>1. n \in Nat /\ j \in Nat /\ j <= n /\ \A k \in 3 .. n : calls[k].doc \in Includes(calls[k - 1].doc)
  <2>1. n \in Nat
    BY CallFacts
  <2>2. ASSUME NEW k \in 3 .. n PROVE calls[k].doc \in Includes(calls[k - 1].doc)
    <3>1. k - 1 \in 2 .. n /\ k - 1 < n /\ (k - 1) + 1 = k
      BY <2>1
    <3>2. Waits(calls[k - 1].doc, k - 1)
      BY <3>1, Documents DEF IncludeInv
    <3> QED BY <3>1, <3>2 DEF Waits
  <2> QED BY <2>1, <2>2
<1>2. calls[j].doc \in Includes(calls[n].doc)
  OBVIOUS
<1> HIDE DEF n
<1> SUFFICES ASSUME NEW S \in SUBSET File, Includes(calls[j].doc) \subseteq S,
                    \A h \in S : Includes(h) \subseteq S
             PROVE  calls[n].doc \in S
  BY DEF Reaches, n
<1>3. CASE j = n
  BY <1>2, <1>3
<1>4. CASE j # n
  <2> DEFINE m == n - j - 1
             Good == {k \in 0 .. m : calls[j + 1 + k].doc \in S}
  <2>1. m \in Nat
    BY <1>1, <1>4
  <2>2. 0 \in Good
    <3>1. j + 1 \in 3 .. n /\ (j + 1) - 1 = j /\ j + 1 + 0 = j + 1
      BY <1>1, <1>4
    <3>2. calls[j + 1].doc \in Includes(calls[j].doc)
      BY <1>1, <3>1
    <3> QED BY <2>1, <3>1, <3>2
  <2>3. ASSUME NEW k \in 1 .. m, k - 1 \in Good PROVE k \in Good
    <3>1. j + 1 + k \in 3 .. n /\ (j + 1 + k) - 1 = j + 1 + (k - 1)
      BY <1>1
    <3>2. calls[j + 1 + (k - 1)].doc \in S
      BY <2>3
    <3>3. calls[j + 1 + k].doc \in Includes(calls[j + 1 + (k - 1)].doc)
      BY <1>1, <3>1
    <3> QED BY <3>2, <3>3
  <2> HIDE DEF Good, m
  <2>4. 0 .. m \subseteq Good
    BY <2>1, <2>2, <2>3, UpTo
  <2>5. calls[j + 1 + m].doc \in S /\ j + 1 + m = n
    <3>1. m \in Good
      BY <2>1, <2>4
    <3> QED BY <1>1, <3>1 DEF Good, m
  <2> QED BY <2>5
<1> QED BY <1>3, <1>4

\* What has become of an include stays so.
LEMMA SettledStep ==
    ASSUME TypesInv, StackInv, [Next]_vars, NEW f \in File, NEW g \in File, Settled(f, g)
    PROVE  Settled(f, g)'
<1>1. Precedes(g, f) => Precedes(g, f)'
  <2>1. CASE UNCHANGED docs
    BY <2>1 DEF Precedes
  <2>2. CASE LoadSource
    BY <2>2, OrderKept
  <2> QED BY <2>1, <2>2 DEF Next, vars, AlreadyLoaded, CycleDetected,
                            SourceUnreadable, SourceEmpty, NoText, LoadNothing,
                            FileLoaded, ResolveNext
<1>2. loaded \subseteq loaded' /\ reported \subseteq reported' /\ unread \subseteq unread'
  BY DEF Next, vars, AlreadyLoaded, CycleDetected,
         SourceUnreadable, SourceEmpty, NoText, LoadNothing, LoadSource,
         FileLoaded, ResolveNext
<1>3. \A h \in File : Includes(h) \subseteq Includes(h)'
  <2>1. CASE UNCHANGED text
    BY <2>1 DEF Includes
  <2>2. CASE LoadSource
    BY <2>2, ParsedOnce
  <2> QED BY <2>1, <2>2 DEF Next, vars, AlreadyLoaded, CycleDetected,
                            SourceUnreadable, SourceEmpty, NoText, LoadNothing,
                            FileLoaded, ResolveNext
<1>4. Reaches(g, f) => Reaches(g, f)'
  BY <1>3 DEF Reaches
<1> QED BY <1>1, <1>2, <1>4 DEF Settled

\* The caller goes on once its include is settled.
LEMMA IncludesWait ==
    ASSUME TypesInv, StackInv, IncludeInv, [Next]_vars, LoadNothing,
           \A f, g \in File : f = Caller.doc /\ g = Requested => Settled(f, g)'
    PROVE  IncludeInv'
<1> DEFINE n == Len(calls)
<1>1. /\ Caller.left # <<>> /\ calls' = CallerGoesOn /\ UNCHANGED <<text, docs, loaded>>
      /\ n \in Nat \ {0} /\ Caller = calls[n]
  BY CallFacts DEF LoadNothing
<1>2. /\ Len(calls') = n /\ \A k \in 1 .. n : calls'[k].doc = calls[k].doc
      /\ \A k \in 1 .. n - 1 : calls'[k] = calls[k]
      /\ calls'[n].left = Tail(Caller.left)
  BY <1>1, GoesOn
<1>3. \A h : Includes(h)' = Includes(h)
  BY <1>1 DEF Includes
<1>4. \A f \in File : Includes(f) \subseteq File
  BY IncludesType
<1>5. ASSUME NEW f \in File, NEW g \in Includes(f), Settled(f, g) PROVE Settled(f, g)'
  BY <1>4, <1>5, SettledStep
<1>6. ASSUME NEW f \in File, NEW k \in 2 .. n, calls'[k].doc = f
      PROVE  Waits(f, k)'
  <2>1. /\ k \in 1 .. n /\ k < n => k \in 1 .. n - 1 /\ k + 1 \in 1 .. n
    BY <1>1
  <2>2. calls[k].doc = f /\ Waits(f, k)
    BY <1>2, <1>6, <2>1 DEF IncludeInv
  <2>3. CASE k = n
    <3>1. calls'[k].left = Tail(calls[k].left) /\ f = Caller.doc
      BY <1>1, <1>2, <2>2, <2>3
    <3>2. /\ Requested = calls[k].left[1]
          /\ \A i \in DOMAIN Tail(calls[k].left) :
                i + 1 \in DOMAIN calls[k].left /\ Tail(calls[k].left)[i] = calls[k].left[i + 1]
          /\ \A i \in DOMAIN calls[k].left \ {1} :
                i - 1 \in DOMAIN Tail(calls[k].left) /\ Tail(calls[k].left)[i - 1] = calls[k].left[i]
      BY <1>1, <2>3, RequestedFacts
    <3>3. \A i \in DOMAIN calls'[k].left : calls'[k].left[i] \in Includes(f)
      BY <2>2, <3>1, <3>2 DEF Waits
    <3>4. ASSUME NEW g \in Includes(f)
          PROVE  Settled(f, g)' \/ \E i \in DOMAIN calls'[k].left : calls'[k].left[i] = g
      <4>1. CASE Settled(f, g)
        BY <1>5, <4>1
      <4>2. CASE \E i \in DOMAIN calls[k].left : calls[k].left[i] = g
        <5>1. PICK i \in DOMAIN calls[k].left : calls[k].left[i] = g
          BY <4>2
        <5>2. CASE i = 1
          BY <1>4, <3>1, <3>2, <5>1, <5>2
        <5>3. CASE i # 1
          BY <3>1, <3>2, <5>1, <5>3
        <5> QED BY <5>2, <5>3
      <4>3. ~ k < Len(calls)
        BY <1>1, <2>3
      <4> QED BY <2>2, <4>1, <4>2, <4>3 DEF Waits
    <3>5. ~ k < Len(calls')
      BY <1>1, <1>2, <2>3
    <3> QED BY <1>3, <3>3, <3>4, <3>5 DEF Waits
  <2>4. CASE k # n
    <3>1. k < n /\ calls'[k] = calls[k] /\ calls'[k + 1].doc = calls[k + 1].doc
      BY <1>1, <1>2, <2>1, <2>4
    <3> QED BY <1>2, <1>3, <1>5, <2>2, <3>1 DEF Waits
  <2> QED BY <2>3, <2>4
<1>7. ASSUME NEW f \in File, f \in loaded' PROVE \A g \in Includes(f)' : Settled(f, g)'
  BY <1>1, <1>3, <1>5, <1>7 DEF IncludeInv
<1> QED BY <1>2, <1>6, <1>7 DEF IncludeInv

\* The include that was requested is now being loaded.
LEMMA IncludesBegin ==
    ASSUME TypesInv, StackInv, IncludeInv, [Next]_vars, LoadSource
    PROVE  IncludeInv'
<1> DEFINE n == Len(calls)
           r == Requested
<1>1. PICK t \in Texts[r] : /\ text' = [text EXCEPT ![r] = t]
                            /\ calls' = Append(CallerGoesOn, [doc |-> r, left |-> t.includes])
  BY DEF LoadSource
<1>2. /\ r \in File /\ r \notin Visited /\ r \notin loaded /\ Caller.left # <<>> /\ loaded' = loaded
      /\ n \in Nat \ {0} /\ Caller = calls[n] /\ DOMAIN calls = 1 .. n
  BY RequestedFacts, CallFacts DEF LoadSource
<1>3. t.includes \in Seq(File) /\ t # Null
  BY <1>2, TefAssumption DEF Text
<1>4. /\ Len(calls') = n + 1
      /\ \A k \in 1 .. n : calls'[k].doc = calls[k].doc
      /\ \A k \in 1 .. n - 1 : calls'[k] = calls[k]
      /\ calls'[n].left = Tail(Caller.left)
      /\ calls'[n + 1].doc = r /\ calls'[n + 1].left = t.includes
  <2> DEFINE s == t.includes
  <2>1. s \in Seq(File) /\ calls' = Append(CallerGoesOn, [doc |-> r, left |-> s])
    BY <1>1, <1>3
  <2>2. r \in File /\ Caller.left # <<>>
    BY <1>2
  <2> HIDE DEF s, r, n
  <2>3. /\ Len(calls') = n + 1
        /\ \A k \in 1 .. n : calls'[k].doc = calls[k].doc
        /\ \A k \in 1 .. n - 1 : calls'[k] = calls[k]
        /\ calls'[n].left = Tail(Caller.left)
        /\ calls'[n + 1].doc = r /\ calls'[n + 1].left = s
    BY <2>1, <2>2, CallBegins DEF n
  <2> QED BY <2>3 DEF s
<1>5. /\ \A h \in File \ {r} : Includes(h)' = Includes(h)
      /\ Includes(r) = {}
      /\ \A h \in File : h = r => Includes(h)' = ToSet(t.includes)
  <2>1. text[r] = Null
    BY <1>2, NotYetLoaded
  <2>2. \A h \in File : text'[h] = IF h = r THEN t ELSE text[h]
    BY <1>1 DEF TypesInv
  <2> HIDE DEF r
  <2> QED BY <1>3, <2>1, <2>2 DEF Includes
<1> HIDE DEF r
<1>6. \A f \in File : Includes(f) \subseteq File
  BY IncludesType
<1>7. ASSUME NEW f \in File, NEW g \in Includes(f), Settled(f, g) PROVE Settled(f, g)'
  BY <1>6, <1>7, SettledStep
<1>8. ASSUME NEW f \in File, NEW k \in 2 .. n + 1, calls'[k].doc = f
      PROVE  Waits(f, k)'
  <2>1. CASE k = n + 1
    <3>1. f = r /\ ~ k < Len(calls')
      BY <1>2, <1>4, <1>8, <2>1
    <3>2. Includes(f)' = ToSet(calls'[k].left)
      BY <1>4, <1>5, <2>1, <3>1
    <3> QED BY <3>1, <3>2 DEF Waits, ToSet
  <2>2. CASE k # n + 1
    <3>1. k \in 2 .. n /\ k \in 1 .. n /\ (k # n => k \in 1 .. n - 1 /\ k + 1 \in 1 .. n)
      <4>1. n \in Nat \ {0}
        BY <1>2
      <4> HIDE DEF n
      <4> QED BY <2>2, <4>1
    <3>2. calls[k].doc = f /\ Waits(f, k)
      BY <1>4, <1>8, <3>1 DEF IncludeInv
    <3>3. f # r /\ Includes(f)' = Includes(f)
      <4>1. f \in Visited
        BY <1>2, <3>1, <3>2 DEF Visited
      <4> QED BY <1>2, <1>5, <4>1
    <3>4. CASE k = n
      <4>1. calls'[k].left = Tail(calls[k].left) /\ calls'[k + 1].doc = r /\ r = calls[k].left[1]
            /\ 1 \in DOMAIN calls[k].left /\ k < Len(calls')
        BY <1>2, <1>4, <3>4, RequestedFacts DEF r
      <4>2. /\ \A i \in DOMAIN Tail(calls[k].left) :
                  i + 1 \in DOMAIN calls[k].left /\ Tail(calls[k].left)[i] = calls[k].left[i + 1]
            /\ \A i \in DOMAIN calls[k].left \ {1} :
                  i - 1 \in DOMAIN Tail(calls[k].left) /\ Tail(calls[k].left)[i - 1] = calls[k].left[i]
        BY <1>2, <3>4, RequestedFacts
      <4>3. /\ \A i \in DOMAIN calls'[k].left : calls'[k].left[i] \in Includes(f)
            /\ calls'[k + 1].doc \in Includes(f)
        BY <3>2, <4>1, <4>2 DEF Waits
      <4>4. ASSUME NEW g \in Includes(f)
            PROVE  \/ Settled(f, g)'
                   \/ \E i \in DOMAIN calls'[k].left : calls'[k].left[i] = g
                   \/ calls'[k + 1].doc = g
        <5>1. CASE Settled(f, g)
          BY <1>7, <5>1
        <5>2. CASE \E i \in DOMAIN calls[k].left : calls[k].left[i] = g
          <6>1. PICK i \in DOMAIN calls[k].left : calls[k].left[i] = g
            BY <5>2
          <6>2. CASE i = 1
            BY <4>1, <6>1, <6>2
          <6>3. CASE i # 1
            BY <4>1, <4>2, <6>1, <6>3
          <6> QED BY <6>2, <6>3
        <5>3. ~ k < Len(calls)
          BY <1>2, <3>4
        <5> QED BY <3>2, <5>1, <5>2, <5>3 DEF Waits
      <4> QED BY <3>3, <4>1, <4>3, <4>4 DEF Waits
    <3>5. CASE k # n
      <4>1. /\ k < n /\ k < Len(calls') /\ calls'[k] = calls[k]
            /\ calls'[k + 1].doc = calls[k + 1].doc
        BY <1>2, <1>4, <3>1, <3>5
      <4> QED BY <1>7, <3>2, <3>3, <4>1 DEF Waits
    <3> QED BY <3>4, <3>5
  <2> QED BY <2>1, <2>2
<1>9. ASSUME NEW f \in File, f \in loaded' PROVE \A g \in Includes(f)' : Settled(f, g)'
  <2>1. f \in loaded /\ Includes(f)' = Includes(f)
    BY <1>2, <1>5, <1>9
  <2> QED BY <1>7, <2>1 DEF IncludeInv
<1> QED BY <1>4, <1>8, <1>9 DEF IncludeInv

\* A file that is loaded has met all its includes, and stands before its caller.
LEMMA IncludesEnd ==
    ASSUME TypesInv, StackInv, IncludeInv, [Next]_vars, FileLoaded
    PROVE  IncludeInv'
<1> DEFINE n == Len(calls)
<1>1. /\ n \in 2 .. n /\ Len(calls') = n - 1 /\ \A k \in 1 .. n - 1 : calls'[k] = calls[k]
      /\ loaded' = loaded \cup {calls[n].doc} /\ UNCHANGED <<text, docs>>
      /\ calls[n].left = <<>> /\ n \in Nat
  BY CallEnds, CallFacts DEF FileLoaded
<1>2. \A h : Includes(h)' = Includes(h)
  BY <1>1 DEF Includes
<1>3. \A f \in File : Includes(f) \subseteq File
  BY IncludesType
<1>4. ASSUME NEW f \in File, NEW g \in Includes(f), Settled(f, g) PROVE Settled(f, g)'
  BY <1>3, <1>4, SettledStep
<1>5. ASSUME NEW f \in File, NEW k \in 2 .. n - 1, calls'[k].doc = f
      PROVE  Waits(f, k)'
  <2>1. k \in 2 .. n /\ k \in 1 .. n - 1 /\ k < n /\ (k + 1 # n => k + 1 \in 1 .. n - 1 /\ k < n - 1)
    BY <1>1
  <2>2. calls'[k] = calls[k] /\ calls[k].doc = f /\ Waits(f, k)
    BY <1>1, <1>5, <2>1 DEF IncludeInv
  <2>3. CASE k + 1 = n
    <3>1. ASSUME NEW g \in Includes(f), calls[k + 1].doc = g PROVE Settled(f, g)'
      <4>1. Open(n) \in DOMAIN docs /\ docs[Open(n)] = g /\ Open(k) \in DOMAIN docs /\ docs[Open(k)] = f
        BY <1>1, <2>1, <2>2, <2>3, <3>1, Documents DEF StackInv
      <4>2. Open(n) < Open(k)
        BY <1>1, <2>1, Documents DEF Open
      <4>3. Precedes(g, f)
        BY <4>1, <4>2 DEF Precedes
      <4>4. Precedes(g, f)' /\ g \in loaded'
        BY <1>1, <2>3, <3>1, <4>3 DEF Precedes
      <4> QED BY <4>4 DEF Settled
    <3>2. ~ k < Len(calls')
      BY <1>1, <2>3
    <3> QED BY <1>2, <1>4, <2>2, <3>1, <3>2 DEF Waits
  <2>4. CASE k + 1 # n
    <3>1. k < Len(calls') /\ k < Len(calls) /\ calls'[k + 1] = calls[k + 1]
      BY <1>1, <2>1, <2>4
    <3> QED BY <1>2, <1>4, <2>2, <3>1 DEF Waits
  <2> QED BY <2>3, <2>4
<1>6. ASSUME NEW f \in File, f \in loaded' PROVE \A g \in Includes(f)' : Settled(f, g)'
  <2>1. CASE f \in loaded
    BY <1>2, <1>4, <2>1 DEF IncludeInv
  <2>2. CASE f = calls[n].doc
    <3>1. Waits(f, n) /\ ~ n < Len(calls) /\ DOMAIN calls[n].left = {}
      BY <1>1, <2>2 DEF IncludeInv
    <3> QED BY <1>2, <1>4, <3>1 DEF Waits
  <2> QED BY <1>1, <1>6, <2>1, <2>2
<1> QED BY <1>1, <1>5, <1>6 DEF IncludeInv

LEMMA IncludesStep ==
    ASSUME TypesInv, StackInv, IncludeInv, [Next]_vars
    PROVE  IncludeInv'
<1>1. CASE UNCHANGED <<text, docs, calls, loaded>>
  <2>1. \A h : Includes(h)' = Includes(h)
    BY <1>1 DEF Includes
  <2>2. ASSUME NEW f \in File, NEW g \in Includes(f), Settled(f, g) PROVE Settled(f, g)'
    BY <2>2, IncludesType, SettledStep
  <2>3. ASSUME NEW f \in File, NEW k \in 2 .. Len(calls'), calls'[k].doc = f PROVE Waits(f, k)'
    <3>1. Waits(f, k)
      BY <1>1, <2>3 DEF IncludeInv
    <3> QED BY <1>1, <2>1, <2>2, <3>1 DEF Waits
  <2>4. ASSUME NEW f \in File, f \in loaded' PROVE \A g \in Includes(f)' : Settled(f, g)'
    BY <1>1, <2>1, <2>2, <2>4 DEF IncludeInv
  <2> QED BY <2>3, <2>4 DEF IncludeInv
<1>2. ASSUME LoadNothing, NEW f \in File, f = Caller.doc
      PROVE  Len(calls) \in 2 .. Len(calls) /\ calls[Len(calls)].doc = f
  <2>1. calls[Len(calls)].doc = f /\ calls[1].doc # f /\ Len(calls) \in Nat \ {0}
    BY <1>2, CallFacts, TefAssumption DEF TypesInv
  <2>2. Len(calls) # 1
    BY <2>1
  <2> QED BY <2>1, <2>2
<1>3. CASE AlreadyLoaded
  <2>1. ASSUME NEW f \in File, NEW g \in File, f = Caller.doc, g = Requested PROVE Settled(f, g)'
    <3>1. Precedes(g, f) /\ g \in loaded
      BY <1>2, <1>3, <2>1, LoadedPrecedes DEF AlreadyLoaded
    <3> QED BY <3>1, SettledStep DEF Settled
  <2> QED BY <1>3, <2>1, IncludesWait DEF AlreadyLoaded
<1>4. CASE CycleDetected
  <2>1. ASSUME NEW f \in File, NEW g \in File, f = Caller.doc, g = Requested PROVE Settled(f, g)'
    <3>1. PICK j \in DOMAIN calls : calls[j].doc = g
      BY <1>4, <2>1 DEF CycleDetected, Visited
    <3>2. j # 1
      BY <2>1, <3>1, TefAssumption DEF TypesInv
    <3>3. j \in 2 .. Len(calls)
      BY <3>1, <3>2, CallFacts
    <3>4. Waits(f, Len(calls)) /\ Len(calls) \in 2 .. Len(calls) /\ calls[Len(calls)].doc = f
      BY <1>2, <1>4, <2>1 DEF CycleDetected, IncludeInv
    <3>5. g \in Includes(f)
      BY <1>4, <2>1, <3>4, RequestedFacts, CallFacts DEF Waits, CycleDetected, LoadNothing
    <3>6. Reaches(g, f)
      BY <3>1, <3>3, <3>4, <3>5, OpenReaches
    <3>7. Reaches(g, f)'
      BY <1>4, <3>6 DEF CycleDetected, LoadNothing, Reaches, Includes
    <3>8. <<"E-15", g>> \in reported'
      BY <1>4, <2>1 DEF CycleDetected
    <3> QED BY <3>7, <3>8 DEF Settled
  <2> QED BY <1>4, <2>1, IncludesWait DEF CycleDetected
<1>5. CASE NoText
  <2>1. ASSUME NEW f \in File, NEW g \in File, f = Caller.doc, g = Requested PROVE Settled(f, g)'
    BY <1>5, <2>1 DEF NoText, Settled
  <2> QED BY <1>5, <2>1, IncludesWait DEF NoText
<1>6. CASE LoadSource
  BY <1>6, IncludesBegin
<1>7. CASE FileLoaded
  BY <1>7, IncludesEnd
<1>8. CASE ResolveNext
  BY <1>1, <1>8 DEF ResolveNext
<1> QED BY <1>1, <1>3, <1>4, <1>5, <1>6, <1>7, <1>8 DEF Next, vars, SourceUnreadable, SourceEmpty

LEMMA PositionIs ==
    ASSUME TypesInv, StackInv, NEW i \in DOMAIN docs
    PROVE  Position(docs[i]) = i
BY DEF Position, StackInv

\* The document of a file stands before the documents of all files that include it, unless a
\* cycle of includes is reported or a reading of the file for that very one gave no text.
THEOREM BasesStandFirst == Spec => []BasesFirst
<1>1. Init => IncludeInv
  <2> SUFFICES ASSUME Init PROVE IncludeInv
    OBVIOUS
  <2>1. 2 .. Len(calls) = {} /\ loaded = {}
    BY DEF Init
  <2> QED BY <2>1 DEF IncludeInv
<1>2. LoaderInv /\ IncludeInv /\ [Next]_vars => IncludeInv'
  BY IncludesStep DEF LoaderInv
<1>3. LoaderInv /\ IncludeInv => BasesFirst
  <2> SUFFICES ASSUME LoaderInv, IncludeInv PROVE BasesFirst
    OBVIOUS
  <2>1. TypesInv /\ StackInv
    BY DEF LoaderInv
  <2>2. IsInjective(docs)
    BY <2>1 DEF StackInv, IsInjective
  <2>3. ASSUME NEW f \in ToSet(docs), NEW g \in Includes(f) \cap loaded
        PROVE  \/ Position(g) < Position(f)
               \/ Reaches(g, f) /\ <<"E-15", g>> \in reported
               \/ <<f, g>> \in unread
    <3>1. PICK i \in DOMAIN docs : docs[i] = f
      BY DEF ToSet
    <3>2. f \in File
      BY <2>1, <3>1, Documents
    <3>3. ASSUME Precedes(g, f) PROVE Position(g) < Position(f)
      BY <2>1, <3>3, PositionIs DEF Precedes
    <3>4. CASE f \in loaded
      BY <3>2, <3>3, <3>4 DEF IncludeInv, Settled
    <3>5. CASE f \notin loaded
      <4>1. PICK k \in 2 .. Len(calls) : calls[k].doc = f
        <5>1. i >= Open(Len(calls))
          <6> SUFFICES ASSUME ~ i >= Open(Len(calls)) PROVE FALSE
            OBVIOUS
          <6>1. i \in 1 .. Open(Len(calls)) - 1
            BY <2>1, Documents
          <6> QED BY <2>1, <3>1, <3>5, <6>1 DEF StackInv
        <5> QED BY <2>1, <3>1, <5>1, Documents
      <4>2. Precedes(g, f)
        BY <2>1, <4>1, LoadedPrecedes
      <4> QED BY <3>3, <4>2
    <3> QED BY <3>4, <3>5
  <2> QED BY <2>2, <2>3 DEF BasesFirst
<1> QED BY <1>1, <1>2, <1>3, LoaderInit, LoaderStep, PTL DEF Spec
=============================================================================
