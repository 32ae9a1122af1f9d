--------------------------- MODULE HierarchyProofs ---------------------------
(***************************************************************************)
(* For any set of nodes: the links agree whatever is inserted and          *)
(* extracted, every operation is the one of OrderedForest that its name    *)
(* says, and the walk of free_nodes destroys the trees it is called for.   *)
(*                                                                         *)
(* A sequence of siblings is reasoned about as a run: a sequence whose     *)
(* nodes a link leads along to its end.  Along an acyclic link every node  *)
(* begins exactly one, which is what Along passes.                         *)
(***************************************************************************)
EXTENDS FreeNodes, ArithmeticLemmas, SequenceTheorems

Links == [Node -> Node \cup {Null}]

\* No way along the link stays in a set of nodes for ever.
Acyclic(link) == \A S \in SUBSET Node : S # {} => \E n \in S : link[n] \notin S

\* The nodes of s are those passed along the link, to its end.
IsRun(link, s) == /\ s \in Seq(Node)
                  /\ s # <<>>
                  /\ link[s[Len(s)]] = Null
                  /\ \A k \in 1 .. Len(s) - 1 : s[k + 1] = link[s[k]]
-----------------------------------------------------------------------------
\* A run is given by its first node.
LEMMA RunPrefix ==
    ASSUME NEW link \in Links, NEW s, NEW t, IsRun(link, s), IsRun(link, t), s[1] = t[1]
    PROVE  Len(s) <= Len(t) /\ \A k \in 1 .. Len(s) : s[k] = t[k]
<1> DEFINE G == {k \in 0 .. Len(s) - 1 : k + 1 <= Len(t) /\ s[k + 1] = t[k + 1]}
<1>1. /\ s \in Seq(Node) /\ t \in Seq(Node)
      /\ Len(s) \in Nat \ {0} /\ Len(t) \in Nat \ {0}
  BY EmptySeq DEF IsRun
<1>2. 0 \in G
  BY <1>1
<1>3. ASSUME NEW k \in 1 .. Len(s) - 1, k - 1 \in G PROVE k \in G
  <2>1. k <= Len(t) /\ s[k] = t[k] /\ k \in 1 .. Len(s)
    BY <1>1, <1>3
  <2>2. s[k + 1] = link[s[k]] /\ s[k + 1] \in Node
    BY <1>1 DEF IsRun
  <2>3. k # Len(t)
    BY <2>1, <2>2, HierarchyAssumption DEF IsRun
  <2>4. k \in 1 .. Len(t) - 1
    BY <1>1, <2>1, <2>3
  <2>5. t[k + 1] = link[t[k]]
    BY <2>4 DEF IsRun
  <2> QED BY <1>1, <2>1, <2>2, <2>4, <2>5
<1>4. Len(s) - 1 \in Nat
  BY <1>1
<1> HIDE DEF G
<1>5. 0 .. Len(s) - 1 \subseteq G
  BY <1>2, <1>3, <1>4, UpTo
<1>6. ASSUME NEW k \in 1 .. Len(s) PROVE k <= Len(t) /\ s[k] = t[k]
  <2>1. k - 1 \in G
    BY <1>1, <1>5
  <2>2. k - 1 + 1 = k
    OBVIOUS
  <2> QED BY <2>1, <2>2 DEF G
<1> QED BY <1>1, <1>6

LEMMA RunUnique ==
    ASSUME NEW link \in Links, NEW s, NEW t, IsRun(link, s), IsRun(link, t), s[1] = t[1]
    PROVE  s = t
<1>1. s \in Seq(Node) /\ t \in Seq(Node) /\ Len(s) \in Nat /\ Len(t) \in Nat
  BY LenProperties DEF IsRun
<1>2. Len(s) <= Len(t) /\ \A k \in 1 .. Len(s) : s[k] = t[k]
  BY RunPrefix
<1>3. Len(t) <= Len(s)
  BY RunPrefix
<1> QED BY <1>1, <1>2, <1>3, SeqEqual

\* A node goes before the run of the next.
LEMMA RunPrepend ==
    ASSUME NEW link \in Links, NEW n \in Node, NEW s, IsRun(link, s), link[n] = s[1]
    PROVE  IsRun(link, <<n>> \o s) /\ (<<n>> \o s)[1] = n
<1>1. s \in Seq(Node) /\ Len(s) \in Nat \ {0} /\ <<n>> \in Seq(Node) /\ Len(<<n>>) = 1
  BY EmptySeq DEF IsRun
<1> DEFINE t == <<n>> \o s
<1>2. /\ t \in Seq(Node) /\ Len(t) = 1 + Len(s)
      /\ \A i \in 1 .. 1 + Len(s) : t[i] = IF i <= 1 THEN <<n>>[i] ELSE s[i - 1]
  BY <1>1, ConcatProperties
<1> HIDE DEF t
<1>3. t[1] = n /\ \A i \in 1 .. Len(s) : t[i + 1] = s[i]
  BY <1>1, <1>2
<1>4. t # <<>> /\ link[t[Len(t)]] = Null
  BY <1>1, <1>2, <1>3 DEF IsRun
<1>5. ASSUME NEW k \in 1 .. Len(t) - 1 PROVE t[k + 1] = link[t[k]]
  <2>1. CASE k = 1
    BY <1>1, <1>2, <1>3, <2>1
  <2>2. CASE k # 1
    <3>1. k - 1 \in 1 .. Len(s) - 1 /\ k - 1 \in 1 .. Len(s) /\ k \in 1 .. Len(s)
      BY <1>1, <1>2, <2>2
    <3>2. s[(k - 1) + 1] = link[s[k - 1]] /\ t[(k - 1) + 1] = s[k - 1] /\ t[k + 1] = s[k]
      BY <1>3, <3>1 DEF IsRun
    <3>3. (k - 1) + 1 = k
      BY <3>1
    <3> QED BY <3>2, <3>3
  <2> QED BY <2>1, <2>2
<1> QED BY <1>2, <1>3, <1>4, <1>5 DEF IsRun, t

\* A last node is a run.
LEMMA RunOfOne ==
    ASSUME NEW link \in Links, NEW n \in Node, link[n] = Null
    PROVE  IsRun(link, <<n>>) /\ <<n>>[1] = n
  BY DEF IsRun

\* Along an acyclic link there is a way to an end from everywhere.
LEMMA RunExists ==
    ASSUME NEW link \in Links, Acyclic(link), NEW n \in Node
    PROVE  \E s : IsRun(link, s) /\ s[1] = n
<1> DEFINE Bad == {m \in Node : ~ \E s : IsRun(link, s) /\ s[1] = m}
<1>1. SUFFICES ASSUME Bad # {} PROVE FALSE
  OBVIOUS
<1>2. PICK m \in Bad : link[m] \notin Bad
  BY <1>1 DEF Acyclic
<1>3. CASE link[m] = Null
  BY <1>2, <1>3, RunOfOne
<1>4. CASE link[m] # Null
  <2>1. link[m] \in Node
    BY <1>2, <1>4 DEF Links
  <2>2. PICK s : IsRun(link, s) /\ s[1] = link[m]
    BY <1>2, <2>1
  <2>3. IsRun(link, <<m>> \o s) /\ (<<m>> \o s)[1] = m
    BY <1>2, <2>2, RunPrepend
  <2> QED BY <1>2, <2>3
<1> QED BY <1>3, <1>4

\* Along passes the nodes of a run.
LEMMA AlongIsRun ==
    ASSUME NEW link \in Links, Acyclic(link), NEW n \in Node
    PROVE  IsRun(link, Along(link, n)) /\ Along(link, n)[1] = n
<1> DEFINE Step(f) == [m \in Node |-> IF link[m] = Null THEN <<m>> ELSE <<m>> \o f[link[m]]]
           g == [m \in Node |-> CHOOSE s : IsRun(link, s) /\ s[1] = m]
           way == CHOOSE f : f = Step(f)
<1>1. ASSUME NEW m \in Node PROVE IsRun(link, g[m]) /\ g[m][1] = m
  BY RunExists
<1> HIDE DEF g
<1>2. ASSUME NEW m \in Node PROVE g[m] = Step(g)[m]
  <2>1. CASE link[m] = Null
    BY <1>1, <2>1, RunOfOne, RunUnique
  <2>2. CASE link[m] # Null
    <3>1. link[m] \in Node
      BY <2>2 DEF Links
    <3>2. IsRun(link, g[link[m]]) /\ g[link[m]][1] = link[m]
      BY <1>1, <3>1
    <3>3. IsRun(link, <<m>> \o g[link[m]]) /\ (<<m>> \o g[link[m]])[1] = m
      BY <3>2, RunPrepend
    <3>4. ASSUME NEW t, IsRun(link, t), t[1] = m PROVE g[m] = t
      BY <1>1, <3>4, RunUnique
    <3>5. g[m] = <<m>> \o g[link[m]]
      BY <3>3, <3>4
    <3> QED BY <2>2, <3>5
  <2> QED BY <2>1, <2>2
<1>3. g = Step(g)
  <2>1. g = [m \in Node |-> g[m]]
    BY DEF g
  <2> QED BY <1>2, <2>1
<1>4. way = Step(way)
  <2> HIDE DEF Step
  <2> QED BY <1>3, Zenon
<1>5. Along(link, n) = way[n]
  BY Zenon DEF Along
<1> HIDE DEF way
<1> DEFINE Bad == {m \in Node : ~ (IsRun(link, way[m]) /\ way[m][1] = m)}
<1>6. SUFFICES ASSUME Bad # {} PROVE FALSE
  BY <1>5
<1>7. PICK m \in Bad : link[m] \notin Bad
  BY <1>6 DEF Acyclic
<1>8. way[m] = IF link[m] = Null THEN <<m>> ELSE <<m>> \o way[link[m]]
  BY <1>4, <1>7
<1>9. CASE link[m] = Null
  BY <1>7, <1>8, <1>9, RunOfOne
<1>10. CASE link[m] # Null
  <2>1. link[m] \in Node
    BY <1>7, <1>10 DEF Links
  <2>2. IsRun(link, way[link[m]]) /\ way[link[m]][1] = link[m]
    BY <1>7, <2>1
  <2>3. way[m] = <<m>> \o way[link[m]]
    BY <1>8, <1>10
  <2>4. m \in Node /\ link[m] = way[link[m]][1]
    BY <1>7, <2>2
  <2>5. IsRun(link, <<m>> \o way[link[m]]) /\ (<<m>> \o way[link[m]])[1] = m
    BY <2>2, <2>4, RunPrepend
  <2> QED BY <1>7, <2>3, <2>5
<1> QED BY <1>9, <1>10

\* What is passed is closed under the link, and the end is where the link ends.
LEMMA AlongCloses ==
    ASSUME NEW link \in Links, Acyclic(link), NEW n \in Node
    PROVE  /\ ToSet(Along(link, n)) \subseteq Node
           /\ n \in ToSet(Along(link, n))
           /\ EndOf(link, n) \in ToSet(Along(link, n))
           /\ link[EndOf(link, n)] = Null
           /\ \A m \in ToSet(Along(link, n)) :
                  IF link[m] = Null THEN m = EndOf(link, n) ELSE link[m] \in ToSet(Along(link, n))
<1> DEFINE s == Along(link, n)
<1>1. IsRun(link, s) /\ s[1] = n
  BY AlongIsRun
<1>2. EndOf(link, n) = s[Len(s)] /\ ToSet(Along(link, n)) = {s[k] : k \in DOMAIN s}
  BY DEF EndOf, Last, ToSet
<1> HIDE DEF s
<1>3. s \in Seq(Node) /\ Len(s) \in Nat \ {0} /\ DOMAIN s = 1 .. Len(s)
  BY <1>1, EmptySeq, LenProperties DEF IsRun
<1>4. ASSUME NEW k \in 1 .. Len(s)
      PROVE  IF link[s[k]] = Null THEN s[k] = s[Len(s)] ELSE link[s[k]] \in {s[j] : j \in DOMAIN s}
  <2>1. CASE k = Len(s)
    BY <1>1, <2>1 DEF IsRun
  <2>2. CASE k # Len(s)
    <3>1. k \in 1 .. Len(s) - 1 /\ k + 1 \in 1 .. Len(s)
      <4>1. Len(s) \in Nat
        BY <1>3
      <4> QED BY ONLY <2>2, <4>1, k \in 1 .. Len(s)
    <3>2. s[k + 1] = link[s[k]] /\ s[k + 1] \in Node
      BY <1>1, <1>3, <3>1 DEF IsRun
    <3> QED BY <1>3, <3>1, <3>2, HierarchyAssumption
  <2> QED BY <2>1, <2>2
<1>5. /\ \A k \in DOMAIN s : s[k] \in Node
      /\ 1 \in DOMAIN s /\ Len(s) \in DOMAIN s
  BY <1>3
<1>6. link[s[Len(s)]] = Null
  BY <1>1 DEF IsRun
<1> QED BY <1>1, <1>2, <1>3, <1>4, <1>5, <1>6, Zenon

\* Nothing is passed that need not be.
LEMMA AlongLeast ==
    ASSUME NEW link \in Links, Acyclic(link), NEW n \in Node,
           NEW S, n \in S, \A m \in S \cap Node : link[m] # Null => link[m] \in S
    PROVE  ToSet(Along(link, n)) \subseteq S
<1> DEFINE s == Along(link, n)
           G == {k \in 0 .. Len(s) - 1 : s[k + 1] \in S}
<1>1. IsRun(link, s) /\ s[1] = n
  BY AlongIsRun
<1>2. ToSet(Along(link, n)) = {s[k] : k \in DOMAIN s}
  BY DEF ToSet
<1> HIDE DEF s
<1>3. s \in Seq(Node) /\ Len(s) \in Nat \ {0} /\ DOMAIN s = 1 .. Len(s)
  BY <1>1, EmptySeq, LenProperties DEF IsRun
<1>4. 0 \in G
  BY <1>1, <1>3
<1>5. ASSUME NEW k \in 1 .. Len(s) - 1, k - 1 \in G PROVE k \in G
  <2>1. s[k] \in S /\ k \in 1 .. Len(s) /\ k + 1 \in 1 .. Len(s)
    BY <1>3, <1>5
  <2>2. s[k + 1] = link[s[k]] /\ s[k + 1] \in Node /\ s[k] \in Node
    BY <1>1, <1>3, <2>1 DEF IsRun
  <2> QED BY <1>3, <2>1, <2>2, HierarchyAssumption
<1>6. Len(s) - 1 \in Nat
  BY <1>3
<1> HIDE DEF G
<1>7. 0 .. Len(s) - 1 \subseteq G
  BY <1>4, <1>5, <1>6, UpTo
<1>8. ASSUME NEW k \in 1 .. Len(s) PROVE s[k] \in S
  <2>1. k - 1 \in G
    BY <1>3, <1>7
  <2>2. k - 1 + 1 = k
    OBVIOUS
  <2> QED BY <2>1, <2>2 DEF G
<1> QED BY <1>2, <1>3, <1>8

\* From a node that is passed nothing else is passed.
LEMMA AlongFromPassed ==
    ASSUME NEW link \in Links, Acyclic(link), NEW n \in Node, NEW m \in ToSet(Along(link, n))
    PROVE  ToSet(Along(link, m)) \subseteq ToSet(Along(link, n))
<1>1. m \in Node
  BY AlongCloses
<1>2. \A x \in ToSet(Along(link, n)) \cap Node : link[x] # Null => link[x] \in ToSet(Along(link, n))
  BY AlongCloses
<1> QED BY <1>1, <1>2, AlongLeast

\* The way from n is n and the way from the next node.
LEMMA AlongFirst ==
    ASSUME NEW link \in Links, Acyclic(link), NEW n \in Node
    PROVE  ToSet(Along(link, n)) =
               {n} \cup IF link[n] = Null THEN {} ELSE ToSet(Along(link, link[n]))
<1>1. CASE link[n] = Null
  <2>1. ToSet(Along(link, n)) \subseteq {n}
    BY <1>1, AlongLeast
  <2> QED BY <1>1, <2>1, AlongCloses
<1>2. CASE link[n] # Null
  <2>1. link[n] \in Node
    BY <1>2 DEF Links
  <2> DEFINE S == {n} \cup ToSet(Along(link, link[n]))
  <2>2. \A m \in S \cap Node : link[m] # Null => link[m] \in S
    BY <2>1, AlongCloses
  <2>3. ToSet(Along(link, n)) \subseteq S
    <3>1. n \in S
      OBVIOUS
    <3> HIDE DEF S
    <3> QED BY <2>2, <3>1, AlongLeast
  <2>4. link[n] \in ToSet(Along(link, n)) /\ n \in ToSet(Along(link, n))
    BY <1>2, AlongCloses
  <2>5. ToSet(Along(link, link[n])) \subseteq ToSet(Along(link, n))
    BY <2>4, AlongFromPassed
  <2> QED BY <1>2, <2>3, <2>4, <2>5
<1> QED BY <1>1, <1>2
-----------------------------------------------------------------------------
HTypeOK == /\ m_parent \in Links
           /\ m_next \in Links
           /\ m_prev \in Links
           /\ m_first_child \in Links
           /\ m_last_child \in Links

\* The way along the siblings ends in both directions, and so does the way up.
WaysEnd == Acyclic(m_next) /\ Acyclic(m_prev) /\ Acyclic(m_parent)

HInv == HTypeOK /\ SiblingsAgree /\ WaysEnd

LEMMA HInitially == HInit => HInv
<1> SUFFICES ASSUME HInit PROVE HInv
  OBVIOUS
<1>1. HTypeOK
  BY DEF HInit, HTypeOK, Links
<1>2. SiblingsAgree
  BY DEF HInit, SiblingsAgree
<1>3. WaysEnd
  BY HierarchyAssumption DEF HInit, WaysEnd, Acyclic
<1> QED BY <1>1, <1>2, <1>3 DEF HInv

\* A previous sibling has the same parent.
LEMMA PrevHasParent ==
    ASSUME HInv, NEW n \in Node, m_prev[n] # Null
    PROVE  /\ m_prev[n] \in Node
           /\ m_next[m_prev[n]] = n
           /\ m_parent[m_prev[n]] = m_parent[n]
  BY HierarchyAssumption DEF HInv, HTypeOK, SiblingsAgree, Links

\* The ends that a parent keeps are those that the ways along its children come to.
LEMMA EndsOfSiblings ==
    ASSUME HInv, NEW n \in Node
    PROVE  /\ first_of(n) = EndOf(m_prev, n)
           /\ last_of(n) = EndOf(m_next, n)
           /\ first_of(n) \in Node /\ m_parent[first_of(n)] = m_parent[n]
           /\ last_of(n) \in Node /\ m_parent[last_of(n)] = m_parent[n]
<1> DEFINE Sib == {m \in Node : m_parent[m] = m_parent[n]}
<1>1. /\ m_prev \in Links /\ Acyclic(m_prev)
      /\ m_next \in Links /\ Acyclic(m_next)
  BY DEF HInv, HTypeOK, WaysEnd
<1>2. \A m \in Sib \cap Node : m_prev[m] # Null => m_prev[m] \in Sib
  BY PrevHasParent
<1>3. \A m \in Sib \cap Node : m_next[m] # Null => m_next[m] \in Sib
  BY DEF HInv, HTypeOK, SiblingsAgree, Links
<1>4. ToSet(Along(m_prev, n)) \subseteq Sib
  <2>1. n \in Sib
    OBVIOUS
  <2> HIDE DEF Sib
  <2> QED BY <1>1, <1>2, <2>1, AlongLeast
<1>5. ToSet(Along(m_next, n)) \subseteq Sib
  <2>1. n \in Sib
    OBVIOUS
  <2> HIDE DEF Sib
  <2> QED BY <1>1, <1>3, <2>1, AlongLeast
<1>6. /\ EndOf(m_prev, n) \in Sib /\ m_prev[EndOf(m_prev, n)] = Null
      /\ EndOf(m_next, n) \in Sib /\ m_next[EndOf(m_next, n)] = Null
  <2> HIDE DEF Sib
  <2> QED BY <1>1, <1>4, <1>5, AlongCloses
<1>7. CASE m_parent[n] = Null
  BY <1>6, <1>7 DEF first_of, last_of
<1>8. CASE m_parent[n] # Null
  <2>1. /\ m_first_child[m_parent[n]] = EndOf(m_prev, n)
        /\ m_last_child[m_parent[n]] = EndOf(m_next, n)
    BY <1>6, <1>8 DEF HInv, SiblingsAgree
  <2> QED BY <1>6, <1>8, <2>1 DEF first_of, last_of
<1> QED BY <1>7, <1>8

\* A parent has no first child exactly if it has no last child.
LEMMA EndsTogether ==
    ASSUME HInv, NEW p \in Node
    PROVE  m_first_child[p] = Null <=> m_last_child[p] = Null
<1>1. ASSUME NEW q \in Node, m_parent[q] = p
      PROVE  m_first_child[p] # Null /\ m_last_child[p] # Null
  BY <1>1, EndsOfSiblings, HierarchyAssumption DEF first_of, last_of
<1> QED BY <1>1 DEF HInv, HTypeOK, Links, SiblingsAgree

\* The siblings of n stand from its first_of to its last_of, with links to one another only.
LEMMA ChainHolds ==
    ASSUME HInv, NEW n \in Node
    PROVE  /\ ToSet(Chain(n)) \subseteq Node
           /\ n \in ToSet(Chain(n))
           /\ first_of(n) \in ToSet(Chain(n))
           /\ last_of(n) \in ToSet(Chain(n))
           /\ last_of(n) = Last(Chain(n))
           /\ \A m \in ToSet(Chain(n)) :
                  /\ m_parent[m] = m_parent[n]
                  /\ IF m_next[m] = Null THEN m = last_of(n) ELSE m_next[m] \in ToSet(Chain(n))
                  /\ IF m_prev[m] = Null THEN m = first_of(n) ELSE m_prev[m] \in ToSet(Chain(n))
           /\ m_next[last_of(n)] = Null /\ m_prev[first_of(n)] = Null
<1> DEFINE f == first_of(n)
           C == ToSet(Along(m_next, f))
<1>1. /\ m_prev \in Links /\ Acyclic(m_prev)
      /\ m_next \in Links /\ Acyclic(m_next)
  BY DEF HInv, HTypeOK, WaysEnd
<1>2. Chain(n) = Along(m_next, f)
  BY DEF Chain, FromOn
<1>3. /\ f = EndOf(m_prev, n) /\ f \in Node /\ m_parent[f] = m_parent[n]
      /\ last_of(n) = EndOf(m_next, n)
  BY EndsOfSiblings
<1>4. m_prev[f] = Null /\ m_next[last_of(n)] = Null
  BY <1>1, <1>3, AlongCloses
<1> HIDE DEF f
<1>5. /\ C \subseteq Node /\ f \in C
      /\ \A m \in C : IF m_next[m] = Null THEN m = EndOf(m_next, f) ELSE m_next[m] \in C
  BY <1>1, <1>3, AlongCloses
<1>6. n \in C
  <2> DEFINE S == {m \in Node : n \in ToSet(Along(m_next, m))}
  <2>1. n \in S
    BY <1>1, AlongCloses
  <2>2. ASSUME NEW m \in S \cap Node, m_prev[m] # Null PROVE m_prev[m] \in S
    <3>1. m_prev[m] \in Node /\ m_next[m_prev[m]] = m /\ m # Null
      BY <2>2, PrevHasParent, HierarchyAssumption
    <3> QED BY <1>1, <3>1, AlongFirst
  <2> HIDE DEF S
  <2>3. ToSet(Along(m_prev, n)) \subseteq S
    BY <1>1, <2>1, <2>2, AlongLeast
  <2>4. f \in S
    BY <1>1, <1>3, <2>3, AlongCloses
  <2> QED BY <2>4 DEF S
<1>7. last_of(n) \in C /\ last_of(n) = EndOf(m_next, f)
  <2>1. last_of(n) \in C
    BY <1>1, <1>3, <1>6, AlongCloses, AlongFromPassed
  <2> QED BY <1>4, <1>5, <2>1
<1>8. ASSUME NEW m \in C
      PROVE  m_parent[m] = m_parent[n] /\ IF m_prev[m] = Null THEN m = f ELSE m_prev[m] \in C
  <2> DEFINE S == {x \in C : m_parent[x] = m_parent[n] /\ IF m_prev[x] = Null THEN x = f
                                                         ELSE m_prev[x] \in C}
  <2>1. f \in S
    BY <1>3, <1>4, <1>5
  <2>2. ASSUME NEW x \in S \cap Node, m_next[x] # Null PROVE m_next[x] \in S
    <3>1. m_next[x] \in C /\ m_prev[m_next[x]] = x /\ m_parent[m_next[x]] = m_parent[n] /\ x # Null
      BY <1>5, <2>2, HierarchyAssumption DEF HInv, SiblingsAgree
    <3> QED BY <3>1
  <2> HIDE DEF S
  <2>3. C \subseteq S
    BY <1>1, <1>3, <2>1, <2>2, AlongLeast
  <2> QED BY <2>3 DEF S
<1>9. last_of(n) = Last(Chain(n))
  BY <1>2, <1>7 DEF EndOf
<1> QED BY <1>2, <1>4, <1>5, <1>6, <1>7, <1>8, <1>9 DEF f

\* What the walks find follows from what the links of a node say.
LEMMA WalksFind ==
    ASSUME HInv PROVE WalksAgree
<1> SUFFICES ASSUME NEW n \in Node
             PROVE  /\ n \in ToSet(Chain(n))
                    /\ last_of(n) = Last(Chain(n))
                    /\ m_parent[root_of(n)] = Null /\ m_prev[root_of(n)] = Null
                    /\ \E r \in ToSet(Chain(root_of(n))) : n \in Subtree(r)
  BY DEF WalksAgree
<1> DEFINE top  == EndOf(m_parent, n)
           root == first_of(top)
<1>1. m_parent \in Links /\ Acyclic(m_parent) /\ m_prev \in Links /\ Acyclic(m_prev)
  BY DEF HInv, HTypeOK, WaysEnd
<1>2. top \in ToSet(Along(m_parent, n)) /\ top \in Node /\ m_parent[top] = Null
  BY <1>1, AlongCloses
<1> HIDE DEF top
<1>3. root_of(n) = root
  BY <1>2, EndsOfSiblings DEF root_of, top
<1>4. root \in Node /\ m_parent[root] = Null /\ m_prev[root] = Null
  BY <1>2, EndsOfSiblings, ChainHolds
<1>5. Chain(root) = Chain(top)
  <2>1. root \in ToSet(Chain(root)) /\ IF m_prev[root] = Null THEN root = first_of(root) ELSE TRUE
    BY <1>4, ChainHolds
  <2>2. first_of(root) = root
    BY <1>4, <2>1
  <2> QED BY <2>2 DEF Chain
<1>6. top \in ToSet(Chain(root)) /\ n \in Subtree(top)
  BY <1>2, <1>5, ChainHolds DEF Subtree
<1> QED BY <1>3, <1>4, <1>6, ChainHolds
-----------------------------------------------------------------------------
\* A subtree holds its node, and all children of what it holds.
LEMMA SubtreeCloses ==
    ASSUME HInv, NEW n \in Node
    PROVE  /\ n \in Subtree(n)
           /\ \A m \in Node : m_parent[m] \in Subtree(n) => m \in Subtree(n)
<1>1. m_parent \in Links /\ Acyclic(m_parent)
  BY DEF HInv, HTypeOK, WaysEnd
<1>2. ASSUME NEW m \in Node, m_parent[m] \in Subtree(n) PROVE m \in Subtree(n)
  <2>1. m_parent[m] # Null /\ m_parent[m] \in Node /\ n \in ToSet(Along(m_parent, m_parent[m]))
    BY <1>2, HierarchyAssumption DEF Subtree
  <2> QED BY <1>1, <2>1, AlongFirst DEF Subtree
<1> QED BY <1>1, <1>2, AlongCloses DEF Subtree

\* What insertion_helper is called with: a whole chain C, from first to last, and a place for
\* it between neighbours that are not of the chain, under a parent not under it.
Insertable(left, right, parent, first, last, C) ==
    /\ C \subseteq Node /\ first \in C /\ last \in C
    /\ C = ToSet(FromOn(first))
    /\ m_prev[first] = Null /\ m_next[last] = Null
    /\ \A m \in C : /\ m_parent[m] = Null
                    /\ IF m_next[m] = Null THEN m = last ELSE m_next[m] \in C
                    /\ IF m_prev[m] = Null THEN m = first ELSE m_prev[m] \in C
    /\ left \in Node \cup {Null} /\ left \notin C
    /\ right \in Node \cup {Null} /\ right \notin C
    /\ parent \in Node \cup {Null}
    /\ left # Null => m_next[left] = right /\ m_parent[left] = parent
    /\ right # Null => m_prev[right] = left /\ m_parent[right] = parent
    /\ parent # Null => /\ left = Null => m_first_child[parent] = right
                        /\ right = Null => m_last_child[parent] = left
                        /\ \A m \in C : parent \notin Subtree(m)

LEMMA MovedChain ==
    ASSUME HInv, NEW t \in Node, NEW n \in Node, MayInsert(n, t)
    PROVE  LET C == ToSet(Chain(n))
           IN  /\ C \subseteq Node /\ first_of(n) \in C /\ last_of(n) \in C
               /\ C = ToSet(FromOn(first_of(n)))
               /\ m_prev[first_of(n)] = Null /\ m_next[last_of(n)] = Null
               /\ \A m \in C : /\ m_parent[m] = Null
                               /\ IF m_next[m] = Null THEN m = last_of(n) ELSE m_next[m] \in C
                               /\ IF m_prev[m] = Null THEN m = first_of(n) ELSE m_prev[m] \in C
               /\ t \notin C
               /\ \A m \in C : t \notin Subtree(m)
<1>1. m_parent[n] = Null /\ \A m \in ToSet(Chain(n)) : t \notin Subtree(m)
  BY DEF MayInsert
<1>2. t \notin ToSet(Chain(n))
  BY <1>1, SubtreeCloses
<1>3. ToSet(Chain(n)) = ToSet(FromOn(first_of(n)))
  BY DEF Chain
<1> QED BY <1>1, <1>2, <1>3, ChainHolds

\* The callers of insertion_helper name such a place.
LEMMA InsertsUnder ==
    ASSUME HInv, NEW p \in Node, NEW n \in Node, MayInsert(n, p)
    PROVE  /\ Insertable(Null, m_first_child[p], p, first_of(n), last_of(n), ToSet(Chain(n)))
           /\ Insertable(m_last_child[p], Null, p, first_of(n), last_of(n), ToSet(Chain(n)))
<1> DEFINE C == ToSet(Chain(n))
<1>1. /\ C \subseteq Node /\ first_of(n) \in C /\ last_of(n) \in C
      /\ C = ToSet(FromOn(first_of(n)))
      /\ m_prev[first_of(n)] = Null /\ m_next[last_of(n)] = Null
      /\ \A m \in C : /\ m_parent[m] = Null
                      /\ IF m_next[m] = Null THEN m = last_of(n) ELSE m_next[m] \in C
                      /\ IF m_prev[m] = Null THEN m = first_of(n) ELSE m_prev[m] \in C
      /\ \A m \in C : p \notin Subtree(m)
  BY MovedChain
<1> HIDE DEF C
<1>2. Null \notin C /\ p # Null
  BY <1>1, HierarchyAssumption
<1>3. m_first_child[p] \in Node \cup {Null} /\ m_last_child[p] \in Node \cup {Null}
  BY DEF HInv, HTypeOK, Links
<1>4. /\ m_first_child[p] # Null => /\ m_parent[m_first_child[p]] = p
                                    /\ m_prev[m_first_child[p]] = Null
      /\ m_last_child[p] # Null => /\ m_parent[m_last_child[p]] = p
                                   /\ m_next[m_last_child[p]] = Null
  BY <1>2, <1>3 DEF HInv, SiblingsAgree
<1>5. m_first_child[p] \notin C /\ m_last_child[p] \notin C
  BY <1>1, <1>2, <1>4
<1>6. m_first_child[p] = Null <=> m_last_child[p] = Null
  BY EndsTogether
<1> QED BY <1>1, <1>2, <1>3, <1>4, <1>5, <1>6 DEF Insertable, C

LEMMA InsertsBeside ==
    ASSUME HInv, NEW t \in Node, NEW n \in Node, MayInsert(n, t)
    PROVE  /\ Insertable(m_prev[t], t, m_parent[t], first_of(n), last_of(n), ToSet(Chain(n)))
           /\ Insertable(t, m_next[t], m_parent[t], first_of(n), last_of(n), ToSet(Chain(n)))
<1> DEFINE C == ToSet(Chain(n))
<1>1. /\ C \subseteq Node /\ first_of(n) \in C /\ last_of(n) \in C
      /\ C = ToSet(FromOn(first_of(n)))
      /\ m_prev[first_of(n)] = Null /\ m_next[last_of(n)] = Null
      /\ \A m \in C : /\ m_parent[m] = Null
                      /\ IF m_next[m] = Null THEN m = last_of(n) ELSE m_next[m] \in C
                      /\ IF m_prev[m] = Null THEN m = first_of(n) ELSE m_prev[m] \in C
      /\ t \notin C
      /\ \A m \in C : t \notin Subtree(m)
  BY MovedChain
<1> HIDE DEF C
<1>2. Null \notin C /\ t # Null
  BY <1>1, HierarchyAssumption
<1>3. /\ m_prev[t] \in Node \cup {Null} /\ m_next[t] \in Node \cup {Null}
      /\ m_parent[t] \in Node \cup {Null}
  BY DEF HInv, HTypeOK, Links
<1>4. /\ m_prev[t] # Null => m_next[m_prev[t]] = t /\ m_parent[m_prev[t]] = m_parent[t]
      /\ m_next[t] # Null => m_prev[m_next[t]] = t /\ m_parent[m_next[t]] = m_parent[t]
  BY PrevHasParent DEF HInv, SiblingsAgree
<1>5. m_prev[t] \notin C /\ m_next[t] \notin C
  BY <1>1, <1>2, <1>4
<1>6. m_parent[t] # Null => /\ m_prev[t] = Null => m_first_child[m_parent[t]] = t
                            /\ m_next[t] = Null => m_last_child[m_parent[t]] = t
  BY DEF HInv, SiblingsAgree
<1>7. ASSUME NEW m \in C PROVE m_parent[t] \notin Subtree(m)
  BY <1>1, SubtreeCloses
<1> QED BY <1>1, <1>2, <1>3, <1>4, <1>5, <1>6, <1>7 DEF Insertable, C

\* A closed part of the nodes can be put into the way between a and b.
LEMMA SpliceEnds ==
    ASSUME NEW link \in Links, Acyclic(link), NEW new \in Links,
           NEW C \in SUBSET Node, NEW first \in C, NEW last \in C,
           NEW a \in Node \cup {Null}, NEW b \in Node \cup {Null}, a \notin C, b \notin C,
           \A x \in C : IF link[x] = Null THEN x = last ELSE link[x] \in C,
           \A x \in Node \ C : link[x] \notin C,
           link[last] = Null,
           a # Null => link[a] = b,
           \A x \in Node : new[x] = IF x = a THEN first
                                    ELSE IF b # Null /\ x = last THEN b ELSE link[x]
    PROVE  Acyclic(new)
<1> SUFFICES ASSUME NEW S \in SUBSET Node, S # {}, \A x \in S : new[x] \in S
             PROVE  FALSE
  BY DEF Acyclic
<1>1. Null \notin S
  BY HierarchyAssumption
<1>2. ASSUME S \cap C # {} PROVE b \in S \ C
  <2>1. PICK m \in S \cap C : link[m] \notin S \cap C
    <3>1. S \cap C \in SUBSET Node
      OBVIOUS
    <3> QED BY <1>2, <3>1 DEF Acyclic
  <2>2. new[m] \in S /\ m # a
    BY <2>1
  <2>3. CASE link[m] # Null
    <3>1. link[m] \in C /\ m # last
      BY <2>1, <2>3
    <3>2. new[m] = link[m]
      BY <2>1, <2>2, <3>1
    <3> QED BY <2>1, <2>2, <3>1, <3>2
  <2>4. CASE link[m] = Null
    <3>1. m = last
      BY <2>1, <2>4
    <3> QED BY <1>1, <2>1, <2>2, <2>4, <3>1
  <2> QED BY <2>3, <2>4
<1>3. S \ C # {}
  BY <1>2
<1>4. PICK n \in S \ C : link[n] \notin S \ C
  <2>1. S \ C \in SUBSET Node
    OBVIOUS
  <2> QED BY <1>3, <2>1 DEF Acyclic
<1>5. new[n] \in S /\ n # last /\ n \in Node
  BY <1>4
<1>6. CASE n = a
  <2>1. new[n] = first /\ link[n] = b
    BY <1>1, <1>4, <1>5, <1>6
  <2>2. b \in S \ C
    BY <1>2, <1>5, <2>1
  <2> QED BY <1>4, <2>1, <2>2
<1>7. CASE n # a
  <2>1. new[n] = link[n]
    BY <1>5, <1>7
  <2> QED BY <1>4, <1>5, <2>1
<1> QED BY <1>6, <1>7

\* A part of the nodes whose way up ends can be put under a node that is not under it.
LEMMA GraftEnds ==
    ASSUME NEW up \in Links, Acyclic(up), NEW new \in Links,
           NEW C \in SUBSET Node, NEW p \in Node,
           NEW U \in SUBSET Node, C \subseteq U, p \notin U,
           \A x \in Node : up[x] \in U => x \in U,
           \A x \in Node : new[x] = IF x \in C THEN p ELSE up[x]
    PROVE  Acyclic(new)
<1> SUFFICES ASSUME NEW S \in SUBSET Node, S # {}, \A x \in S : new[x] \in S
             PROVE  FALSE
  BY DEF Acyclic
<1>1. S \ U # {}
  <2>1. PICK x \in S : up[x] \notin S
    BY DEF Acyclic
  <2>2. x \in C /\ new[x] = p
    BY <2>1
  <2> QED BY <2>2
<1>2. PICK x \in S \ U : up[x] \notin S \ U
  <2>1. S \ U \in SUBSET Node
    OBVIOUS
  <2> QED BY <1>1, <2>1 DEF Acyclic
<1>3. new[x] = up[x] /\ new[x] \in S
  BY <1>2
<1>4. up[x] \in U
  BY <1>2, <1>3
<1> QED BY <1>2, <1>4

\* What an insertion does to the links of a node.
LEMMA InsertedLinks ==
    ASSUME HInv, NEW left, NEW right, NEW parent, NEW first, NEW last, NEW C,
           Insertable(left, right, parent, first, last, C),
           Inserted(left, right, parent, first, last), NEW x \in Node
    PROVE  /\ m_parent'[x] = IF parent # Null /\ x \in C THEN parent ELSE m_parent[x]
           /\ m_next'[x] = IF x = left THEN first
                           ELSE IF right # Null /\ x = last THEN right ELSE m_next[x]
           /\ m_prev'[x] = IF x = right THEN last
                           ELSE IF left # Null /\ x = first THEN left ELSE m_prev[x]
           /\ m_first_child'[x] = IF left = Null /\ x = parent THEN first ELSE m_first_child[x]
           /\ m_last_child'[x] = IF right = Null /\ x = parent THEN last ELSE m_last_child[x]
<1>1. /\ C \subseteq Node /\ first \in C /\ last \in C /\ C = ToSet(FromOn(first))
      /\ left \notin C /\ right \notin C /\ Null \notin Node
  BY HierarchyAssumption DEF Insertable
<1>2. /\ m_parent' = [n \in Node |-> IF parent # Null /\ n \in C THEN parent ELSE m_parent[n]]
      /\ m_next' = Point(Point(m_next, left, first), IF right = Null THEN Null ELSE last, right)
      /\ m_prev' = Point(Point(m_prev, IF left = Null THEN Null ELSE first, left), right, last)
      /\ m_first_child' = Point(m_first_child, IF left = Null THEN parent ELSE Null, first)
      /\ m_last_child' = Point(m_last_child, IF right = Null THEN parent ELSE Null, last)
  BY <1>1 DEF Inserted
<1>3. m_parent'[x] = IF parent # Null /\ x \in C THEN parent ELSE m_parent[x]
  BY <1>2
<1>4. m_next'[x] = IF x = left THEN first
                   ELSE IF right # Null /\ x = last THEN right ELSE m_next[x]
  BY <1>1, <1>2 DEF Point
<1>5. m_prev'[x] = IF x = right THEN last
                   ELSE IF left # Null /\ x = first THEN left ELSE m_prev[x]
  BY <1>1, <1>2 DEF Point
<1>6. m_first_child'[x] = IF left = Null /\ x = parent THEN first ELSE m_first_child[x]
  BY <1>1, <1>2 DEF Point
<1>7. m_last_child'[x] = IF right = Null /\ x = parent THEN last ELSE m_last_child[x]
  BY <1>1, <1>2 DEF Point
<1> QED BY <1>3, <1>4, <1>5, <1>6, <1>7

LEMMA InsertedKeeps ==
    ASSUME HInv, NEW left, NEW right, NEW parent, NEW first, NEW last, NEW C,
           Insertable(left, right, parent, first, last, C),
           Inserted(left, right, parent, first, last)
    PROVE  HInv'
<1>1. /\ C \in SUBSET Node /\ first \in C /\ last \in C
      /\ C = ToSet(FromOn(first))
      /\ m_prev[first] = Null /\ m_next[last] = Null
      /\ \A m \in C : /\ m_parent[m] = Null
                      /\ IF m_next[m] = Null THEN m = last ELSE m_next[m] \in C
                      /\ IF m_prev[m] = Null THEN m = first ELSE m_prev[m] \in C
  BY DEF Insertable
<1>2. /\ left \in Node \cup {Null} /\ left \notin C
      /\ right \in Node \cup {Null} /\ right \notin C
      /\ parent \in Node \cup {Null}
      /\ left # Null => m_next[left] = right /\ m_parent[left] = parent
      /\ right # Null => m_prev[right] = left /\ m_parent[right] = parent
      /\ parent # Null => /\ left = Null => m_first_child[parent] = right
                          /\ right = Null => m_last_child[parent] = left
                          /\ \A m \in C : parent \notin Subtree(m)
  BY DEF Insertable
<1>3. /\ HTypeOK /\ SiblingsAgree
      /\ Acyclic(m_next) /\ Acyclic(m_prev) /\ Acyclic(m_parent)
  BY DEF HInv, WaysEnd
<1>4. Null \notin Node /\ Null \notin C
  BY <1>1, HierarchyAssumption
<1>5. /\ m_parent' = [n \in Node |-> IF parent # Null /\ n \in C THEN parent ELSE m_parent[n]]
      /\ m_next' = Point(Point(m_next, left, first), IF right = Null THEN Null ELSE last, right)
      /\ m_prev' = Point(Point(m_prev, IF left = Null THEN Null ELSE first, left), right, last)
      /\ m_first_child' = Point(m_first_child, IF left = Null THEN parent ELSE Null, first)
      /\ m_last_child' = Point(m_last_child, IF right = Null THEN parent ELSE Null, last)
  BY <1>1 DEF Inserted
<1> DEFINE P == m_parent'
           N == m_next'
           V == m_prev'
           F == m_first_child'
           L == m_last_child'
<1>6. ASSUME NEW x \in Node
      PROVE  /\ P[x] = IF parent # Null /\ x \in C THEN parent ELSE m_parent[x]
             /\ N[x] = IF x = left THEN first
                       ELSE IF right # Null /\ x = last THEN right ELSE m_next[x]
             /\ V[x] = IF x = right THEN last
                       ELSE IF left # Null /\ x = first THEN left ELSE m_prev[x]
             /\ F[x] = IF left = Null /\ x = parent THEN first ELSE m_first_child[x]
             /\ L[x] = IF right = Null /\ x = parent THEN last ELSE m_last_child[x]
  BY InsertedLinks
<1>7. HTypeOK'
  <2>1. P \in Links
    BY <1>1, <1>2, <1>3, <1>5 DEF HTypeOK, Links
  <2>2. N \in Links
    BY <1>1, <1>2, <1>3, <1>5 DEF HTypeOK, Links, Point
  <2>3. V \in Links
    BY <1>1, <1>2, <1>3, <1>5 DEF HTypeOK, Links, Point
  <2>4. F \in Links
    BY <1>1, <1>2, <1>3, <1>5 DEF HTypeOK, Links, Point
  <2>5. L \in Links
    BY <1>1, <1>2, <1>3, <1>5 DEF HTypeOK, Links, Point
  <2> QED BY <2>1, <2>2, <2>3, <2>4, <2>5 DEF HTypeOK
<1>8. \A x \in Node : /\ m_next[x] \in C => x \in C
                      /\ m_prev[x] \in C => x \in C
  <2> TAKE x \in Node
  <2>1. ASSUME m_next[x] \in C PROVE x \in C
    BY <1>1, <1>3, <1>4, <2>1 DEF SiblingsAgree
  <2>2. ASSUME m_prev[x] \in C PROVE x \in C
    BY <1>1, <1>3, <1>4, <2>2 DEF SiblingsAgree
  <2> QED BY <2>1, <2>2
<1>9. Acyclic(N)
  <2>1. m_next \in Links /\ N \in Links
    BY <1>3, <1>7 DEF HTypeOK
  <2>2. \A x \in Node \ C : m_next[x] \notin C
    BY <1>8
  <2>3. \A x \in Node : N[x] = IF x = left THEN first
                               ELSE IF right # Null /\ x = last THEN right ELSE m_next[x]
    BY <1>6
  <2>4. \A m \in C : IF m_next[m] = Null THEN m = last ELSE m_next[m] \in C
    BY <1>1
  <2> HIDE DEF N
  <2> QED BY <1>1, <1>2, <1>3, <2>1, <2>2, <2>3, <2>4, SpliceEnds
<1>10. Acyclic(V)
  <2>1. m_prev \in Links /\ V \in Links
    BY <1>3, <1>7 DEF HTypeOK
  <2>2. \A x \in Node \ C : m_prev[x] \notin C
    BY <1>8
  <2>3. \A x \in Node : V[x] = IF x = right THEN last
                               ELSE IF left # Null /\ x = first THEN left ELSE m_prev[x]
    BY <1>6
  <2>4. \A m \in C : IF m_prev[m] = Null THEN m = first ELSE m_prev[m] \in C
    BY <1>1
  <2> HIDE DEF V
  <2> QED BY <1>1, <1>2, <1>3, <2>1, <2>2, <2>3, <2>4, SpliceEnds
<1>11. Acyclic(P)
  <2>1. CASE parent = Null
    <3>1. \A x \in Node : P[x] = m_parent[x]
      BY <1>6, <2>1
    <3> HIDE DEF P
    <3> QED BY <1>3, <3>1 DEF Acyclic
  <2>2. CASE parent # Null
    <3> DEFINE U == {x \in Node : \E m \in C : x \in Subtree(m)}
    <3>1. parent \in Node /\ parent \notin U
      BY <1>2, <2>2
    <3>2. C \subseteq U
      BY <1>1, SubtreeCloses
    <3>3. \A x \in Node : m_parent[x] \in U => x \in U
      BY <1>1, SubtreeCloses
    <3>4. \A x \in Node : P[x] = IF x \in C THEN parent ELSE m_parent[x]
      BY <1>6, <2>2
    <3>5. m_parent \in Links /\ P \in Links /\ U \in SUBSET Node
      BY <1>3, <1>7 DEF HTypeOK
    <3> HIDE DEF P, U
    <3> QED BY <1>1, <1>3, <3>1, <3>2, <3>3, <3>4, <3>5, GraftEnds
  <2> QED BY <2>1, <2>2
<1>12. SiblingsAgree'
  <2> SUFFICES ASSUME NEW x \in Node
               PROVE  /\ N[x] # Null => V[N[x]] = x /\ P[N[x]] = P[x]
                      /\ V[x] # Null => N[V[x]] = x
                      /\ P[x] # Null => /\ (V[x] = Null) <=> (F[P[x]] = x)
                                        /\ (N[x] = Null) <=> (L[P[x]] = x)
                      /\ F[x] # Null => P[F[x]] = x
                      /\ L[x] # Null => P[L[x]] = x
    BY DEF SiblingsAgree
  <2>1. /\ N[x] \in Node \cup {Null} /\ V[x] \in Node \cup {Null} /\ P[x] \in Node \cup {Null}
        /\ F[x] \in Node \cup {Null} /\ L[x] \in Node \cup {Null}
    BY <1>7 DEF HTypeOK, Links
  <2>2. /\ m_next[x] # Null => m_prev[m_next[x]] = x /\ m_parent[m_next[x]] = m_parent[x]
        /\ m_prev[x] # Null => m_next[m_prev[x]] = x
        /\ m_parent[x] # Null =>
              /\ (m_prev[x] = Null) <=> (m_first_child[m_parent[x]] = x)
              /\ (m_next[x] = Null) <=> (m_last_child[m_parent[x]] = x)
        /\ m_first_child[x] # Null => m_parent[m_first_child[x]] = x
        /\ m_last_child[x] # Null => m_parent[m_last_child[x]] = x
    BY <1>3 DEF SiblingsAgree
  <2> HIDE DEF P, N, V, F, L
  <2>3. N[x] # Null => V[N[x]] = x /\ P[N[x]] = P[x]
    BY <1>1, <1>2, <1>4, <1>6, <1>8, <2>1, <2>2
  <2>4. V[x] # Null => N[V[x]] = x
    BY <1>1, <1>2, <1>4, <1>6, <1>8, <2>1, <2>2
  <2>5. ASSUME P[x] # Null PROVE (V[x] = Null) <=> (F[P[x]] = x)
    <3>1. P[x] \in Node
      BY <2>1, <2>5
    <3>2. F[P[x]] = IF left = Null /\ P[x] = parent THEN first ELSE m_first_child[P[x]]
      BY <1>6, <3>1
    <3>3. CASE x \in C
      <4>1. P[x] = parent /\ m_parent[x] = Null
        BY <1>1, <1>6, <2>5, <3>3
      <4>2. m_first_child[parent] # x
        BY <1>3, <1>4, <3>1, <3>3, <4>1 DEF SiblingsAgree
      <4> QED BY <1>1, <1>2, <1>4, <1>6, <3>2, <3>3, <4>1, <4>2
    <3>4. CASE x \notin C
      <4>1. P[x] = m_parent[x] /\ x # first /\ first # Null
        BY <1>1, <1>4, <1>6, <3>4
      <4>2. (m_prev[x] = Null) <=> (m_first_child[P[x]] = x)
        BY <2>5, <2>2, <4>1
      <4> QED BY <1>1, <1>2, <1>4, <1>6, <3>1, <3>2, <3>4, <4>1, <4>2
    <3> QED BY <3>3, <3>4
  <2>6. ASSUME P[x] # Null PROVE (N[x] = Null) <=> (L[P[x]] = x)
    <3>1. P[x] \in Node
      BY <2>1, <2>6
    <3>2. L[P[x]] = IF right = Null /\ P[x] = parent THEN last ELSE m_last_child[P[x]]
      BY <1>6, <3>1
    <3>3. CASE x \in C
      <4>1. P[x] = parent /\ m_parent[x] = Null
        BY <1>1, <1>6, <2>6, <3>3
      <4>2. m_last_child[parent] # x
        BY <1>3, <1>4, <3>1, <3>3, <4>1 DEF SiblingsAgree
      <4> QED BY <1>1, <1>2, <1>4, <1>6, <3>2, <3>3, <4>1, <4>2
    <3>4. CASE x \notin C
      <4>1. P[x] = m_parent[x] /\ x # last /\ last # Null
        BY <1>1, <1>4, <1>6, <3>4
      <4>2. (m_next[x] = Null) <=> (m_last_child[P[x]] = x)
        BY <2>6, <2>2, <4>1
      <4> QED BY <1>1, <1>2, <1>4, <1>6, <3>1, <3>2, <3>4, <4>1, <4>2
    <3> QED BY <3>3, <3>4
  <2>7. F[x] # Null => P[F[x]] = x
    BY <1>1, <1>2, <1>4, <1>6, <1>8, <2>1, <2>2
  <2>8. L[x] # Null => P[L[x]] = x
    BY <1>1, <1>2, <1>4, <1>6, <1>8, <2>1, <2>2
  <2> QED BY <2>3, <2>4, <2>5, <2>6, <2>7, <2>8
<1> QED BY <1>7, <1>9, <1>10, <1>11, <1>12 DEF HInv, WaysEnd

\* A part of the nodes can be cut out of the way between a and b.
LEMMA CutEnds ==
    ASSUME NEW link \in Links, Acyclic(link), NEW new \in Links,
           NEW R \in SUBSET Node, NEW first \in R, NEW last \in R,
           NEW a \in Node \cup {Null}, NEW b \in Node \cup {Null}, a \notin R,
           \A x \in R : x = last \/ link[x] \in R,
           a # Null => link[a] = first, link[last] = b,
           \A x \in Node : new[x] = IF x = a THEN b ELSE IF x = last THEN Null ELSE link[x]
    PROVE  Acyclic(new)
<1> SUFFICES ASSUME NEW S \in SUBSET Node, S # {}, \A x \in S : new[x] \in S
             PROVE  FALSE
  BY DEF Acyclic
<1>1. Null \notin S
  BY HierarchyAssumption
<1>2. S \cap R = {}
  <2>1. SUFFICES ASSUME S \cap R # {} PROVE FALSE
    OBVIOUS
  <2>2. PICK m \in S \cap R : link[m] \notin S \cap R
    <3>1. S \cap R \in SUBSET Node
      OBVIOUS
    <3> QED BY <2>1, <3>1 DEF Acyclic
  <2>3. new[m] \in S /\ m # a /\ m \in Node
    BY <2>2
  <2>4. m # last /\ new[m] = link[m]
    BY <1>1, <2>3
  <2> QED BY <2>2, <2>3, <2>4
<1>3. \A x \in S : x # a => link[x] \in S
  BY <1>2
<1>4. CASE a \in S
  <2> DEFINE T == S \cup R
  <2>1. b \in S
    <3>1. new[a] = b
      BY <1>4
    <3> QED BY <1>4, <3>1
  <2>2. \A x \in T : link[x] \in T
    <3>1. link[a] \in R
      BY <1>1, <1>4
    <3> QED BY <1>3, <2>1, <3>1
  <2>3. T \in SUBSET Node /\ T # {}
    OBVIOUS
  <2> HIDE DEF T
  <2> QED BY <2>2, <2>3 DEF Acyclic
<1>5. CASE a \notin S
  BY <1>3, <1>5 DEF Acyclic
<1> QED BY <1>4, <1>5

\* What extraction_helper is called with: a run R of siblings, from left to right.
Extractable(left, right, R) ==
    /\ R \subseteq Node /\ left \in R /\ right \in R
    /\ R = IF left = right THEN {left} ELSE ToSet(FromOn(left))
    /\ m_prev[left] \notin R /\ m_next[right] \notin R
    /\ \A m \in R : /\ m_parent[m] = m_parent[left]
                    /\ m = right \/ m_next[m] \in R
                    /\ m = left \/ m_prev[m] \in R

LEMMA ExtractsOne ==
    ASSUME HInv, NEW n \in Node
    PROVE  Extractable(n, n, {n})
<1>1. Acyclic(m_next) /\ Acyclic(m_prev)
  BY DEF HInv, WaysEnd
<1>2. m_next[n] # n /\ m_prev[n] # n
  <2>1. {n} \in SUBSET Node /\ {n} # {}
    OBVIOUS
  <2> QED BY <1>1, <2>1 DEF Acyclic
<1> QED BY <1>2 DEF Extractable

LEMMA ExtractsChildren ==
    ASSUME HInv, NEW p \in Node, m_first_child[p] # Null
    PROVE  /\ m_first_child[p] \in Node
           /\ Extractable(m_first_child[p], m_last_child[p], ToSet(FromOn(m_first_child[p])))
           /\ ToSet(FromOn(m_first_child[p])) = {n \in Node : m_parent[n] = p}
           /\ m_prev[m_first_child[p]] = Null /\ m_next[m_last_child[p]] = Null
           /\ m_last_child[p] = last_of(m_first_child[p])
<1> DEFINE f == m_first_child[p]
           C == ToSet(Chain(f))
<1>1. f \in Node /\ m_parent[f] = p /\ p # Null
  BY HierarchyAssumption DEF HInv, HTypeOK, Links, SiblingsAgree
<1>2. first_of(f) = f /\ last_of(f) = m_last_child[p]
  BY <1>1 DEF first_of, last_of
<1>3. C = ToSet(FromOn(f))
  BY <1>2 DEF Chain
<1>4. ASSUME NEW n \in Node, m_parent[n] = p PROVE n \in C
  <2>1. first_of(n) = f
    BY <1>1, <1>4 DEF first_of
  <2>2. n \in ToSet(Chain(n))
    BY ChainHolds
  <2> QED BY <1>2, <2>1, <2>2 DEF Chain
<1>5. /\ C \subseteq Node /\ f \in C /\ m_last_child[p] \in C
      /\ \A m \in C : /\ m_parent[m] = p
                      /\ IF m_next[m] = Null THEN m = m_last_child[p] ELSE m_next[m] \in C
                      /\ IF m_prev[m] = Null THEN m = f ELSE m_prev[m] \in C
      /\ m_next[m_last_child[p]] = Null /\ m_prev[f] = Null
  BY <1>1, <1>2, ChainHolds
<1>6. Null \notin C
  BY <1>5, HierarchyAssumption
<1>7. ASSUME f = m_last_child[p] PROVE C = {f}
  <2>1. C \subseteq {f}
    <3>1. m_next \in Links /\ Acyclic(m_next) /\ m_next[f] = Null
      BY <1>5, <1>7 DEF HInv, HTypeOK, WaysEnd
    <3>2. ToSet(Along(m_next, f)) \subseteq {f}
      BY <1>1, <3>1, AlongLeast
    <3> QED BY <1>3, <3>2 DEF FromOn
  <2> QED BY <1>5, <2>1
<1> HIDE DEF f, C
<1>8. Extractable(f, m_last_child[p], C)
  BY <1>1, <1>3, <1>5, <1>6, <1>7 DEF Extractable
<1>9. C = {n \in Node : m_parent[n] = p}
  BY <1>4, <1>5
<1> QED BY <1>1, <1>2, <1>3, <1>5, <1>8, <1>9 DEF f

\* What an extraction does to the links of a node.
LEMMA ExtractedLinks ==
    ASSUME HInv, NEW left, NEW right, NEW R,
           Extractable(left, right, R), Extracted(left, right), NEW x \in Node
    PROVE  LET p      == m_parent[left]
               before == m_prev[left]
               after  == m_next[right]
           IN  /\ m_parent'[x] = IF x \in R THEN Null ELSE m_parent[x]
               /\ m_next'[x] = IF x = before THEN after ELSE IF x = right THEN Null ELSE m_next[x]
               /\ m_prev'[x] = IF x = after THEN before ELSE IF x = left THEN Null ELSE m_prev[x]
               /\ m_first_child'[x] = IF p # Null /\ left = m_first_child[p] /\ x = p THEN after
                                      ELSE m_first_child[x]
               /\ m_last_child'[x] = IF p # Null /\ right = m_last_child[p] /\ x = p THEN before
                                     ELSE m_last_child[x]
<1> DEFINE p == m_parent[left]
           before == m_prev[left]
           after == m_next[right]
<1>1. /\ left \in R /\ right \in R /\ before \notin R /\ after \notin R
      /\ R = IF left = right THEN {left} ELSE ToSet(FromOn(left))
      /\ Null \notin Node
  BY HierarchyAssumption DEF Extractable
<1>2. /\ m_next' = Point(Point(m_next, before, after), right, Null)
      /\ m_prev' = Point(Point(m_prev, after, before), left, Null)
      /\ m_first_child' = IF p # Null /\ left = m_first_child[p]
                          THEN Point(m_first_child, p, after) ELSE m_first_child
      /\ m_last_child' = IF p # Null /\ right = m_last_child[p]
                         THEN Point(m_last_child, p, before) ELSE m_last_child
      /\ m_parent' = [n \in Node |-> IF n \in R THEN Null ELSE m_parent[n]]
  BY <1>1 DEF Extracted
<1> HIDE DEF p, before, after
<1>3. m_parent'[x] = IF x \in R THEN Null ELSE m_parent[x]
  BY <1>2
<1>4. m_next'[x] = IF x = before THEN after ELSE IF x = right THEN Null ELSE m_next[x]
  BY <1>1, <1>2 DEF Point
<1>5. m_prev'[x] = IF x = after THEN before ELSE IF x = left THEN Null ELSE m_prev[x]
  BY <1>1, <1>2 DEF Point
<1>6. m_first_child'[x] = IF p # Null /\ left = m_first_child[p] /\ x = p THEN after
                          ELSE m_first_child[x]
  BY <1>2 DEF Point
<1>7. m_last_child'[x] = IF p # Null /\ right = m_last_child[p] /\ x = p THEN before
                         ELSE m_last_child[x]
  BY <1>2 DEF Point
<1> QED BY <1>3, <1>4, <1>5, <1>6, <1>7 DEF p, before, after

LEMMA ExtractedKeeps ==
    ASSUME HInv, NEW left, NEW right, NEW R,
           Extractable(left, right, R), Extracted(left, right)
    PROVE  HInv'
<1> DEFINE p == m_parent[left]
           before == m_prev[left]
           after == m_next[right]
           P == m_parent'
           N == m_next'
           V == m_prev'
           F == m_first_child'
           L == m_last_child'
<1>1. /\ R \in SUBSET Node /\ left \in R /\ right \in R /\ left \in Node /\ right \in Node
      /\ R = IF left = right THEN {left} ELSE ToSet(FromOn(left))
      /\ before \notin R /\ after \notin R
      /\ \A m \in R : /\ m_parent[m] = p
                      /\ m = right \/ m_next[m] \in R
                      /\ m = left \/ m_prev[m] \in R
      /\ Null \notin R /\ Null \notin Node
  BY HierarchyAssumption DEF Extractable
<1>2. /\ HTypeOK /\ SiblingsAgree
      /\ Acyclic(m_next) /\ Acyclic(m_prev) /\ Acyclic(m_parent)
      /\ p \in Node \cup {Null} /\ before \in Node \cup {Null} /\ after \in Node \cup {Null}
      /\ m_parent[right] = p
  BY <1>1 DEF HInv, WaysEnd, HTypeOK, Links
<1>3. /\ before # Null => m_next[before] = left /\ m_parent[before] = p
      /\ after # Null => m_prev[after] = right /\ m_parent[after] = p
  BY <1>1, <1>2, PrevHasParent DEF SiblingsAgree
<1>4. /\ m_next' = Point(Point(m_next, before, after), right, Null)
      /\ m_prev' = Point(Point(m_prev, after, before), left, Null)
      /\ m_first_child' = IF p # Null /\ left = m_first_child[p]
                          THEN Point(m_first_child, p, after) ELSE m_first_child
      /\ m_last_child' = IF p # Null /\ right = m_last_child[p]
                         THEN Point(m_last_child, p, before) ELSE m_last_child
      /\ m_parent' = [n \in Node |-> IF n \in R THEN Null ELSE m_parent[n]]
  BY <1>1 DEF Extracted
<1> HIDE DEF p, before, after
<1>5. ASSUME NEW x \in Node
      PROVE  /\ P[x] = IF x \in R THEN Null ELSE m_parent[x]
             /\ N[x] = IF x = before THEN after ELSE IF x = right THEN Null ELSE m_next[x]
             /\ V[x] = IF x = after THEN before ELSE IF x = left THEN Null ELSE m_prev[x]
             /\ F[x] = IF p # Null /\ left = m_first_child[p] /\ x = p THEN after
                       ELSE m_first_child[x]
             /\ L[x] = IF p # Null /\ right = m_last_child[p] /\ x = p THEN before
                       ELSE m_last_child[x]
  BY ExtractedLinks DEF p, before, after
<1>6. HTypeOK'
  <2>1. P \in Links
    BY <1>2, <1>4 DEF HTypeOK, Links
  <2>2. N \in Links
    BY <1>2, <1>4 DEF HTypeOK, Links, Point
  <2>3. V \in Links
    BY <1>2, <1>4 DEF HTypeOK, Links, Point
  <2>4. F \in Links
    BY <1>2, <1>4 DEF HTypeOK, Links, Point
  <2>5. L \in Links
    BY <1>2, <1>4 DEF HTypeOK, Links, Point
  <2> QED BY <2>1, <2>2, <2>3, <2>4, <2>5 DEF HTypeOK
<1>7. Acyclic(N)
  <2>1. m_next \in Links /\ N \in Links
    BY <1>2, <1>6 DEF HTypeOK
  <2>2. \A x \in R : x = right \/ m_next[x] \in R
    BY <1>1
  <2>3. \A x \in Node : N[x] = IF x = before THEN after ELSE IF x = right THEN Null ELSE m_next[x]
    BY <1>5
  <2>4. before # Null => m_next[before] = left
    BY <1>3
  <2>5. m_next[right] = after
    BY DEF after
  <2> HIDE DEF N
  <2> QED BY <1>1, <1>2, <2>1, <2>2, <2>3, <2>4, <2>5, CutEnds
<1>8. Acyclic(V)
  <2>1. m_prev \in Links /\ V \in Links
    BY <1>2, <1>6 DEF HTypeOK
  <2>2. \A x \in R : x = left \/ m_prev[x] \in R
    BY <1>1
  <2>3. \A x \in Node : V[x] = IF x = after THEN before ELSE IF x = left THEN Null ELSE m_prev[x]
    BY <1>5
  <2>4. after # Null => m_prev[after] = right
    BY <1>3
  <2>5. m_prev[left] = before
    BY DEF before
  <2>6. /\ R \in SUBSET Node /\ right \in R /\ left \in R
        /\ after \in Node \cup {Null} /\ before \in Node \cup {Null} /\ after \notin R
        /\ Acyclic(m_prev)
    BY <1>1, <1>2
  <2> HIDE DEF V
  <2> QED BY ONLY <2>1, <2>2, <2>3, <2>4, <2>5, <2>6, CutEnds
<1>9. Acyclic(P)
  <2> SUFFICES ASSUME NEW S \in SUBSET Node, S # {}, \A x \in S : P[x] \in S
               PROVE  FALSE
    BY DEF Acyclic
  <2>1. \A x \in S : m_parent[x] \in S
    BY <1>1, <1>5
  <2> QED BY <1>2, <2>1 DEF Acyclic
<1>10. SiblingsAgree'
  <2> SUFFICES ASSUME NEW x \in Node
               PROVE  /\ N[x] # Null => V[N[x]] = x /\ P[N[x]] = P[x]
                      /\ V[x] # Null => N[V[x]] = x
                      /\ P[x] # Null => /\ (V[x] = Null) <=> (F[P[x]] = x)
                                        /\ (N[x] = Null) <=> (L[P[x]] = x)
                      /\ F[x] # Null => P[F[x]] = x
                      /\ L[x] # Null => P[L[x]] = x
    BY DEF SiblingsAgree
  <2>1. /\ N[x] \in Node \cup {Null} /\ V[x] \in Node \cup {Null} /\ P[x] \in Node \cup {Null}
        /\ F[x] \in Node \cup {Null} /\ L[x] \in Node \cup {Null}
    BY <1>6 DEF HTypeOK, Links
  <2>2. /\ m_next[x] # Null => m_prev[m_next[x]] = x /\ m_parent[m_next[x]] = m_parent[x]
        /\ m_prev[x] # Null => m_next[m_prev[x]] = x
        /\ m_parent[x] # Null =>
              /\ (m_prev[x] = Null) <=> (m_first_child[m_parent[x]] = x)
              /\ (m_next[x] = Null) <=> (m_last_child[m_parent[x]] = x)
        /\ m_first_child[x] # Null => m_parent[m_first_child[x]] = x
        /\ m_last_child[x] # Null => m_parent[m_last_child[x]] = x
    BY <1>2 DEF SiblingsAgree
  <2>3. m_next[right] = after /\ m_prev[left] = before
    BY DEF before, after
  <2> HIDE DEF P, N, V, F, L
  <2>4. N[x] # Null => V[N[x]] = x /\ P[N[x]] = P[x]
    BY <1>1, <1>2, <1>3, <1>5, <2>1, <2>2, <2>3
  <2>5. V[x] # Null => N[V[x]] = x
    BY <1>1, <1>2, <1>3, <1>5, <2>1, <2>2, <2>3
  <2>6. ASSUME P[x] # Null PROVE (V[x] = Null) <=> (F[P[x]] = x)
    <3>1. x \notin R /\ P[x] = m_parent[x] /\ P[x] \in Node /\ x # left /\ x # right
      BY <1>1, <1>5, <2>6, <2>1
    <3>2. F[P[x]] = IF p # Null /\ left = m_first_child[p] /\ P[x] = p THEN after ELSE m_first_child[P[x]]
      BY <1>5, <3>1
    <3>3. (m_prev[x] = Null) <=> (m_first_child[P[x]] = x)
      BY <2>6, <2>2, <3>1
    <3>4. CASE x = after
      <4>1. P[x] = p /\ m_prev[x] = right /\ right # Null /\ V[x] = before
        BY <1>1, <1>3, <1>5, <3>1, <3>4
      <4>2. (before = Null) <=> (m_first_child[p] = left)
        BY <1>1, <1>2, <2>6, <2>3, <4>1 DEF SiblingsAgree
      <4> QED BY <2>6, <3>2, <3>3, <3>4, <4>1, <4>2
    <3>5. CASE x # after
      <4>1. V[x] = m_prev[x]
        BY <1>5, <3>1, <3>5
      <4> QED BY <3>1, <3>2, <3>3, <3>5, <4>1
    <3> QED BY <3>4, <3>5
  <2>7. ASSUME P[x] # Null PROVE (N[x] = Null) <=> (L[P[x]] = x)
    <3>1. x \notin R /\ P[x] = m_parent[x] /\ P[x] \in Node /\ x # left /\ x # right
      BY <1>1, <1>5, <2>7, <2>1
    <3>2. L[P[x]] = IF p # Null /\ right = m_last_child[p] /\ P[x] = p THEN before ELSE m_last_child[P[x]]
      BY <1>5, <3>1
    <3>3. (m_next[x] = Null) <=> (m_last_child[P[x]] = x)
      BY <2>7, <2>2, <3>1
    <3>4. CASE x = before
      <4>1. P[x] = p /\ m_next[x] = left /\ left # Null /\ N[x] = after
        BY <1>1, <1>3, <1>5, <3>1, <3>4
      <4>2. (after = Null) <=> (m_last_child[p] = right)
        BY <1>1, <1>2, <2>7, <2>3, <4>1 DEF SiblingsAgree
      <4> QED BY <2>7, <3>2, <3>3, <3>4, <4>1, <4>2
    <3>5. CASE x # before
      <4>1. N[x] = m_next[x]
        BY <1>5, <3>1, <3>5
      <4> QED BY <3>1, <3>2, <3>3, <3>5, <4>1
    <3> QED BY <3>4, <3>5
  <2>8. ASSUME F[x] # Null PROVE P[F[x]] = x
    <3>1. F[x] = IF p # Null /\ left = m_first_child[p] /\ x = p THEN after ELSE m_first_child[x]
      BY <1>5
    <3>2. CASE p # Null /\ left = m_first_child[p] /\ x = p
      <4>1. after \in Node /\ F[x] = after
        BY <1>2, <2>8, <3>1, <3>2
      <4> QED BY <1>1, <1>3, <1>5, <2>8, <3>2, <4>1
    <3>3. CASE ~ (p # Null /\ left = m_first_child[p] /\ x = p)
      <4>1. F[x] = m_first_child[x] /\ m_first_child[x] \in Node /\ m_parent[m_first_child[x]] = x
        BY <2>1, <2>2, <2>8, <3>1, <3>3
      <4>2. m_prev[m_first_child[x]] = Null
        BY <1>1, <1>2, <4>1 DEF SiblingsAgree
      <4>3. m_first_child[x] \notin R
        BY <1>1, <3>3, <4>1, <4>2
      <4> QED BY <1>5, <4>1, <4>3
    <3> QED BY <3>2, <3>3
  <2>9. ASSUME L[x] # Null PROVE P[L[x]] = x
    <3>1. L[x] = IF p # Null /\ right = m_last_child[p] /\ x = p THEN before ELSE m_last_child[x]
      BY <1>5
    <3>2. CASE p # Null /\ right = m_last_child[p] /\ x = p
      <4>1. before \in Node /\ L[x] = before
        BY <1>2, <2>9, <3>1, <3>2
      <4> QED BY <1>1, <1>3, <1>5, <2>9, <3>2, <4>1
    <3>3. CASE ~ (p # Null /\ right = m_last_child[p] /\ x = p)
      <4>1. L[x] = m_last_child[x] /\ m_last_child[x] \in Node /\ m_parent[m_last_child[x]] = x
        BY <2>1, <2>2, <2>9, <3>1, <3>3
      <4>2. m_next[m_last_child[x]] = Null
        BY <1>1, <1>2, <4>1 DEF SiblingsAgree
      <4>3. m_last_child[x] \notin R
        BY <1>1, <3>3, <4>1, <4>2
      <4> QED BY <1>5, <4>1, <4>3
    <3> QED BY <3>2, <3>3
  <2> QED BY <2>4, <2>5, <2>6, <2>7, <2>8, <2>9
<1> QED BY <1>6, <1>7, <1>8, <1>9, <1>10 DEF HInv, WaysEnd

-----------------------------------------------------------------------------
LEMMA HStep == HInv /\ [HNext]_links => HInv'
<1> SUFFICES ASSUME HInv, [HNext]_links PROVE HInv'
  OBVIOUS
<1>1. ASSUME NEW p \in Node, NEW n \in Node, insert_first_child(p, n) PROVE HInv'
  BY <1>1, InsertsUnder, InsertedKeeps DEF insert_first_child
<1>2. ASSUME NEW p \in Node, NEW n \in Node, insert_last_child(p, n) PROVE HInv'
  BY <1>2, InsertsUnder, InsertedKeeps DEF insert_last_child
<1>3. ASSUME NEW t \in Node, NEW n \in Node, insert_before(t, n) PROVE HInv'
  BY <1>3, InsertsBeside, InsertedKeeps DEF insert_before
<1>4. ASSUME NEW t \in Node, NEW n \in Node, insert_after(t, n) PROVE HInv'
  BY <1>4, InsertsBeside, InsertedKeeps DEF insert_after
<1>5. ASSUME NEW n \in Node, extract(n) PROVE HInv'
  BY <1>5, ExtractsOne, ExtractedKeeps DEF extract
<1>6. ASSUME NEW p \in Node, extract_children(p) PROVE HInv'
  BY <1>6, ExtractsChildren, ExtractedKeeps DEF extract_children
<1>7. CASE UNCHANGED links
  BY <1>7 DEF links, HInv, HTypeOK, SiblingsAgree, WaysEnd
<1> QED BY <1>1, <1>2, <1>3, <1>4, <1>5, <1>6, <1>7 DEF HNext

\* The links keep their types, agree, and ways along them end.
THEOREM LinksInvariant == HSpec => []HInv
<1>1. HInit => HInv
  BY HInitially
<1>2. HInv /\ [HNext]_links => HInv'
  BY HStep
<1> QED BY <1>1, <1>2, PTL DEF HSpec

\* Whatever is inserted and extracted, the five links of every node agree with those of its
\* relatives, and first_of, last_of and root_of find what they are to find.
THEOREM LinksAlwaysAgree == HSpec => []LinksAgree
<1>1. HInv => LinksAgree
  BY WalksFind DEF HInv, LinksAgree
<1> QED BY <1>1, LinksInvariant, PTL

-----------------------------------------------------------------------------
\* No node is passed twice.
LEMMA RunInjective ==
    ASSUME NEW link \in Links, Acyclic(link), NEW s, IsRun(link, s),
           NEW i \in DOMAIN s, NEW j \in DOMAIN s, s[i] = s[j]
    PROVE  i = j
<1>1. s \in Seq(Node) /\ Len(s) \in Nat /\ DOMAIN s = 1 .. Len(s)
  BY LenProperties DEF IsRun
<1>2. ASSUME NEW a \in 1 .. Len(s), NEW b \in 1 .. Len(s), a < b, s[a] = s[b]
      PROVE  FALSE
  <2> DEFINE S == {s[k] : k \in a .. b - 1}
  <2>1. \A k \in a .. b - 1 : k \in 1 .. Len(s) - 1 /\ k \in 1 .. Len(s)
    BY <1>1, <1>2
  <2>2. S \in SUBSET Node /\ s[a] \in S
    <3>1. a \in a .. b - 1
      BY <1>1, <1>2
    <3> QED BY <1>1, <2>1, <3>1
  <2>3. ASSUME NEW k \in a .. b - 1 PROVE link[s[k]] \in S
    <3>1. link[s[k]] = s[k + 1]
      BY <2>1 DEF IsRun
    <3>2. CASE k = b - 1
      BY <1>1, <1>2, <2>2, <3>1, <3>2
    <3>3. CASE k # b - 1
      <4>1. k + 1 \in a .. b - 1
        BY <1>1, <3>3
      <4> QED BY <3>1, <4>1
    <3> QED BY <3>2, <3>3
  <2>4. \A x \in S : link[x] \in S
    BY <2>3
  <2> HIDE DEF S
  <2> QED BY <2>2, <2>4 DEF Acyclic
<1>3. i \in 1 .. Len(s) /\ j \in 1 .. Len(s)
  BY <1>1
<1>4. i < j \/ j < i \/ i = j
  BY <1>1, <1>3
<1> QED BY <1>2, <1>3, <1>4

\* A run stays one if the links of its nodes stay.
LEMMA RunUnchanged ==
    ASSUME NEW link \in Links, NEW new \in Links, NEW s, IsRun(link, s),
           \A x \in ToSet(s) : new[x] = link[x]
    PROVE  IsRun(new, s)
<1>1. s \in Seq(Node) /\ Len(s) \in Nat \ {0} /\ DOMAIN s = 1 .. Len(s)
  BY EmptySeq, LenProperties DEF IsRun
<1>2. \A k \in 1 .. Len(s) : new[s[k]] = link[s[k]]
  BY <1>1 DEF ToSet
<1> QED BY <1>1, <1>2 DEF IsRun

\* The link with the run c put between left and right.
LinkedIn(new, link, left, right, c) ==
    \A x \in Node : new[x] = IF x = left THEN c[1]
                             ELSE IF right # Null /\ x = c[Len(c)] THEN right ELSE link[x]

\* u is s with c behind its first a nodes, or without its k-th.
IsSpliced(u, s, a, c) ==
    /\ u \in Seq(Node)
    /\ Len(u) = Len(s) + Len(c)
    /\ \A k \in 1 .. Len(s) + Len(c) :
           u[k] = IF k <= a THEN s[k] ELSE IF k <= a + Len(c) THEN c[k - a] ELSE s[k - Len(c)]
IsWithout(u, s, k) ==
    /\ u \in Seq(Node)
    /\ Len(u) = Len(s) - 1
    /\ \A i \in 1 .. Len(s) - 1 : u[i] = IF i < k THEN s[i] ELSE s[i + 1]

\* The neighbours of what goes behind the first a nodes of s.
LeftAt(s, a)  == IF a = 0 THEN Null ELSE s[a]
RightAt(s, a) == IF a = Len(s) THEN Null ELSE s[a + 1]

\* Linking c in behind the first a nodes of s makes the spliced sequence a run.
LEMMA SplicedRun ==
    ASSUME NEW link \in Links, Acyclic(link), NEW new \in Links,
           NEW s \in Seq(Node), s = <<>> \/ IsRun(link, s), NEW c, IsRun(link, c),
           NEW a \in 0 .. Len(s), NEW left, NEW right,
           left = LeftAt(s, a), right = RightAt(s, a), ToSet(s) \cap ToSet(c) = {},
           LinkedIn(new, link, left, right, c), NEW u, IsSpliced(u, s, a, c)
    PROVE  IsRun(new, u)
<1> DEFINE m == Len(c)
           l == Len(s)
<1>1. /\ c \in Seq(Node) /\ m \in Nat \ {0} /\ DOMAIN c = 1 .. m
      /\ l \in Nat /\ DOMAIN s = 1 .. l /\ a \in Nat /\ a <= l
      /\ \A k \in 1 .. l : s[k] \in Node
      /\ \A k \in 1 .. m : c[k] \in Node
  BY EmptySeq, LenProperties DEF IsRun
<1>s. s = <<>> \/ IsRun(link, s)
  OBVIOUS
<1>l. /\ left = IF a = 0 THEN Null ELSE s[a]
      /\ right = IF a = l THEN Null ELSE s[a + 1]
  BY DEF LeftAt, RightAt
<1>3. l > 0 => IsRun(link, s)
  BY <1>1, <1>s, EmptySeq
<1>6. Null \notin Node /\ link[c[m]] = Null
  BY HierarchyAssumption DEF IsRun
<1>7. /\ l > 0 => /\ \A k \in 1 .. l - 1 : s[k + 1] = link[s[k]]
                  /\ link[s[l]] = Null
      /\ \A k \in 1 .. m - 1 : c[k + 1] = link[c[k]]
  <2>1. l > 0 => /\ \A k \in 1 .. l - 1 : s[k + 1] = link[s[k]]
                 /\ link[s[l]] = Null
    BY ONLY <1>3 DEF IsRun
  <2>2. \A k \in 1 .. m - 1 : c[k + 1] = link[c[k]]
    BY ONLY IsRun(link, c) DEF IsRun
  <2> QED BY <2>1, <2>2
<1> HIDE DEF m, l
<1>2. ASSUME NEW i \in 1 .. l, NEW j \in 1 .. m PROVE s[i] # c[j]
  <2>1. s[i] \in ToSet(s) /\ c[j] \in ToSet(c)
    BY <1>1 DEF ToSet
  <2> QED BY <2>1
<1>4. ASSUME NEW i \in 1 .. l, NEW j \in 1 .. l, s[i] = s[j] PROVE i = j
  <2>1. IsRun(link, s) /\ i \in DOMAIN s /\ j \in DOMAIN s
    BY ONLY <1>1, <1>3, i \in 1 .. l, j \in 1 .. l
  <2> QED BY <1>4, <2>1, RunInjective
<1>5. ASSUME NEW j \in 1 .. m, c[j] = c[m] PROVE j = m
  <2>1. IsRun(link, c) /\ j \in DOMAIN c /\ m \in DOMAIN c
    BY ONLY <1>1, IsRun(link, c), j \in 1 .. m
  <2> QED BY <1>5, <2>1, RunInjective
<1>8. ASSUME NEW k \in 1 .. l PROVE new[s[k]] = IF k = a THEN c[1] ELSE link[s[k]]
  <2>1. s[k] # c[m] /\ s[k] \in Node
    BY <1>1, <1>2
  <2>2. s[k] = left <=> k = a
    <3>1. CASE a = 0
      BY <1>1, <1>l, <1>6, <2>1, <3>1
    <3>2. CASE a # 0
      <4>1. a \in 1 .. l /\ left = s[a]
        BY <1>1, <1>l, <3>2
      <4> QED BY <1>4, <4>1
    <3> QED BY <3>1, <3>2
  <2> QED BY <2>1, <2>2 DEF m, LinkedIn
<1>9. ASSUME NEW k \in 1 .. m PROVE new[c[k]] = IF k = m THEN right ELSE link[c[k]]
  <2>1. c[k] # left /\ c[k] \in Node
    BY <1>1, <1>l, <1>2, <1>6
  <2>2. c[k] = c[m] <=> k = m
    BY <1>5
  <2> QED BY <1>6, <2>1, <2>2 DEF m, LinkedIn
<1>10. /\ u \in Seq(Node) /\ Len(u) = l + m
       /\ \A k \in 1 .. l + m :
              u[k] = IF k <= a THEN s[k] ELSE IF k <= a + m THEN c[k - a] ELSE s[k - m]
  BY DEF IsSpliced, l, m
<1>11. u # <<>> /\ Len(u) = l + m
  <2>1. l + m # 0
    BY <1>1
  <2> QED BY <1>10, <2>1, EmptySeq
<1>12. new[u[Len(u)]] = Null
  <2>1. CASE a = l
    <3>1. u[l + m] = c[m]
      BY <1>1, <1>10, <2>1
    <3>2. right = Null
      BY <2>1, <1>l
    <3>3. m \in 1 .. m
      BY <1>1
    <3>4. new[c[m]] = Null
      BY <1>9, <3>2, <3>3
    <3> QED BY <1>10, <3>1, <3>4
  <2>2. CASE a # l
    <3>1. u[l + m] = s[l] /\ l \in 1 .. l /\ l > 0
      BY <1>1, <1>10, <2>2
    <3> QED BY <1>7, <1>8, <1>10, <2>2, <3>1
  <2> QED BY <2>1, <2>2
<1>13. ASSUME NEW k \in 1 .. l + m - 1 PROVE u[k + 1] = new[u[k]]
  <2>1. CASE k < a
    <3>1. u[k] = s[k] /\ u[k + 1] = s[k + 1] /\ k \in 1 .. l /\ k # a /\ k \in 1 .. l - 1
          /\ l > 0
      BY <1>1, <1>10, <2>1
    <3> QED BY <1>7, <1>8, <3>1
  <2>2. CASE k = a
    <3>1. u[k] = s[k] /\ u[k + 1] = c[1] /\ k \in 1 .. l
      BY <1>1, <1>10, <2>2
    <3> QED BY <1>8, <2>2, <3>1
  <2>3. CASE a < k /\ k < a + m
    <3>1. k - a \in 1 .. m - 1 /\ k - a \in 1 .. m /\ k - a # m /\ (k + 1) - a = (k - a) + 1
      BY <1>1, <2>3
    <3>2. u[k] = c[k - a] /\ u[k + 1] = c[(k + 1) - a]
      <4>1. k \in 1 .. l + m /\ k + 1 \in 1 .. l + m /\ ~ (k <= a) /\ k <= a + m
            /\ ~ (k + 1 <= a) /\ k + 1 <= a + m
        BY ONLY <1>1, <2>3, k \in 1 .. l + m - 1
      <4> QED BY ONLY <1>10, <4>1
    <3> QED BY <1>7, <1>9, <3>1, <3>2
  <2>4. CASE k = a + m
    <3>1. u[k] = c[m] /\ u[k + 1] = s[a + 1] /\ m \in 1 .. m /\ a # l
      BY <1>1, <1>10, <2>4
    <3>2. right = s[a + 1]
      BY <3>1, <1>l
    <3> QED BY <1>9, <3>1, <3>2
  <2>5. CASE k > a + m
    <3>1. u[k] = s[k - m] /\ u[k + 1] = s[(k - m) + 1] /\ k - m \in 1 .. l - 1 /\ k - m \in 1 .. l
          /\ k - m # a /\ l > 0
      BY <1>1, <1>10, <2>5
    <3> QED BY <1>7, <1>8, <3>1
  <2> QED BY <1>1, <2>1, <2>2, <2>3, <2>4, <2>5
<1>14. ASSUME NEW k \in 1 .. Len(u) - 1 PROVE u[k + 1] = new[u[k]]
  <2>1. k \in 1 .. l + m - 1
    BY <1>1, <1>11
  <2> QED BY <1>13, <2>1
<1> QED BY <1>10, <1>11, <1>12, <1>14, Zenon DEF IsRun

\* Linking the neighbours of the k-th node of s past it leaves a run of the others.
LEMMA CutRun ==
    ASSUME NEW link \in Links, Acyclic(link), NEW new \in Links,
           NEW s, IsRun(link, s), NEW k \in DOMAIN s, NEW before, NEW after,
           before = IF k = 1 THEN Null ELSE s[k - 1],
           after = IF k = Len(s) THEN Null ELSE s[k + 1],
           \A x \in Node : new[x] = IF x = before THEN after
                                    ELSE IF x = s[k] THEN Null ELSE link[x],
           NEW u, IsWithout(u, s, k)
    PROVE  u = <<>> \/ IsRun(new, u)
<1> DEFINE l == Len(s)
<1>1. /\ l \in Nat \ {0} /\ DOMAIN s = 1 .. l /\ k \in 1 .. l
      /\ \A i \in 1 .. l : s[i] \in Node
  BY EmptySeq, LenProperties DEF IsRun
<1>2. ASSUME NEW i \in 1 .. l, NEW j \in 1 .. l, s[i] = s[j] PROVE i = j
  BY <1>1, <1>2, RunInjective
<1>3. (\A i \in 1 .. l - 1 : s[i + 1] = link[s[i]]) /\ link[s[l]] = Null /\ Null \notin Node
  BY HierarchyAssumption DEF IsRun
<1> HIDE DEF l
<1>4. ASSUME NEW i \in 1 .. l, i # k
      PROVE  new[s[i]] = IF i = k - 1 THEN after ELSE link[s[i]]
  <2>1. s[i] \in Node /\ s[i] # s[k]
    BY <1>1, <1>2, <1>4
  <2>2. s[i] = before <=> i = k - 1
    <3>1. CASE k = 1
      BY <1>1, <1>3, <2>1, <3>1
    <3>2. CASE k # 1
      <4>1. k - 1 \in 1 .. l /\ before = s[k - 1]
        BY <1>1, <3>2
      <4> QED BY <1>2, <4>1
    <3> QED BY <3>1, <3>2
  <2> QED BY <2>1, <2>2
<1>5. /\ u \in Seq(Node) /\ Len(u) = l - 1
      /\ \A i \in 1 .. l - 1 : u[i] = IF i < k THEN s[i] ELSE s[i + 1]
  BY DEF l, IsWithout
<1>6. CASE l = 1
  BY <1>5, <1>6, EmptySeq
<1>7. CASE l # 1
  <2>1. u # <<>> /\ l - 1 \in Nat \ {0}
    BY <1>1, <1>5, <1>7, EmptySeq
  <2>2. new[u[l - 1]] = Null
    <3>1. CASE k = l
      <4>1. u[l - 1] = s[l - 1] /\ l - 1 \in 1 .. l /\ l - 1 # k
        BY <1>1, <1>5, <2>1, <3>1
      <4>2. after = Null
        BY <3>1 DEF l
      <4> QED BY <1>4, <3>1, <4>1, <4>2
    <3>2. CASE k # l
      <4>1. u[l - 1] = s[l] /\ l \in 1 .. l /\ l # k - 1
        BY <1>1, <1>5, <2>1, <3>2
      <4> QED BY <1>3, <1>4, <3>2, <4>1
    <3> QED BY <3>1, <3>2
  <2>3. ASSUME NEW i \in 1 .. l - 2 PROVE u[i + 1] = new[u[i]]
    <3>1. CASE i < k - 1
      <4>1. u[i] = s[i] /\ u[i + 1] = s[i + 1] /\ i \in 1 .. l /\ i \in 1 .. l - 1 /\ i # k
        BY <1>1, <1>5, <3>1
      <4> QED BY <1>3, <1>4, <3>1, <4>1
    <3>2. CASE i = k - 1
      <4>1. u[i] = s[i] /\ u[i + 1] = s[k + 1] /\ i \in 1 .. l /\ i # k /\ k # l
        BY <1>1, <1>5, <3>2
      <4>2. after = s[k + 1]
        BY <4>1 DEF l
      <4> QED BY <1>4, <3>2, <4>1, <4>2
    <3>3. CASE i > k - 1
      <4>1. u[i] = s[i + 1] /\ u[i + 1] = s[(i + 1) + 1] /\ i + 1 \in 1 .. l /\ i + 1 \in 1 .. l - 1
            /\ i + 1 # k /\ i + 1 # k - 1
        BY <1>1, <1>5, <3>3
      <4> QED BY <1>3, <1>4, <4>1
    <3> QED BY <1>1, <3>1, <3>2, <3>3
  <2>4. (l - 1) - 1 = l - 2
    BY <1>1
  <2> QED BY <1>5, <2>1, <2>2, <2>3, <2>4 DEF IsRun
<1> QED BY <1>6, <1>7

-----------------------------------------------------------------------------
\* What Kids and Chains are of the links of a state.
KidsOf(next, child)         == [n \in Node |-> IF child[n] = Null THEN <<>> ELSE Along(next, child[n])]
ChainsOf(next, prev, parent) ==
    {Along(next, n) : n \in {m \in Node : parent[m] = Null /\ prev[m] = Null}}

\* A run is what Along passes from its first node.
LEMMA RunIsAlong ==
    ASSUME NEW link \in Links, Acyclic(link), NEW s, IsRun(link, s)
    PROVE  s[1] \in Node /\ Along(link, s[1]) = s
<1>1. s[1] \in Node
  BY EmptySeq DEF IsRun
<1>2. IsRun(link, Along(link, s[1])) /\ Along(link, s[1])[1] = s[1]
  BY <1>1, AlongIsRun
<1>3. ASSUME NEW t, IsRun(link, t), t[1] = s[1] PROVE t = s
  BY <1>3, RunUnique
<1> QED BY <1>1, <1>2, <1>3

LEMMA KidsOfAre ==
    ASSUME NEW next \in Links, Acyclic(next), NEW child \in Links, NEW p \in Node, NEW s,
           \/ child[p] = Null /\ s = <<>>
           \/ child[p] # Null /\ IsRun(next, s) /\ s[1] = child[p]
    PROVE  KidsOf(next, child)[p] = s
<1>1. CASE child[p] = Null
  BY <1>1 DEF KidsOf
<1>2. CASE child[p] # Null
  <2>1. Along(next, child[p]) = s
    BY <1>2, RunIsAlong
  <2> QED BY <1>2, <2>1 DEF KidsOf
<1> QED BY <1>1, <1>2

LEMMA ChainsOfAre ==
    ASSUME NEW next \in Links, Acyclic(next), NEW prev, NEW parent, NEW s
    PROVE  s \in ChainsOf(next, prev, parent)
               <=> IsRun(next, s) /\ parent[s[1]] = Null /\ prev[s[1]] = Null
<1>1. ASSUME s \in ChainsOf(next, prev, parent)
      PROVE  IsRun(next, s) /\ parent[s[1]] = Null /\ prev[s[1]] = Null
  <2>1. PICK n \in Node : parent[n] = Null /\ prev[n] = Null /\ s = Along(next, n)
    BY <1>1 DEF ChainsOf
  <2>2. IsRun(next, Along(next, n)) /\ Along(next, n)[1] = n
    BY AlongIsRun
  <2> QED BY <2>1, <2>2
<1>2. ASSUME IsRun(next, s), parent[s[1]] = Null, prev[s[1]] = Null
      PROVE  s \in ChainsOf(next, prev, parent)
  <2>1. s[1] \in Node /\ Along(next, s[1]) = s
    BY <1>2, RunIsAlong
  <2> QED BY <1>2, <2>1 DEF ChainsOf
<1> QED BY <1>1, <1>2

LEMMA OfTheState ==
    /\ Kids = KidsOf(m_next, m_first_child)
    /\ Chains = ChainsOf(m_next, m_prev, m_parent)
    /\ Kids' = KidsOf(m_next', m_first_child')
    /\ Chains' = ChainsOf(m_next', m_prev', m_parent')
  BY DEF Kids, Chains, KidsOf, ChainsOf, FromOn

\* The children of p: those nodes whose parent it is, from its first child to its last.
LEMMA KidsHold ==
    ASSUME HInv, NEW p \in Node
    PROVE  /\ Kids[p] \in Seq(Node)
           /\ ToSet(Kids[p]) = {n \in Node : m_parent[n] = p}
           /\ m_first_child[p] = Null => Kids[p] = <<>> /\ m_last_child[p] = Null
           /\ m_first_child[p] # Null => /\ IsRun(m_next, Kids[p])
                                         /\ Kids[p][1] = m_first_child[p]
                                         /\ Kids[p][Len(Kids[p])] = m_last_child[p]
<1>1. m_next \in Links /\ Acyclic(m_next) /\ m_first_child \in Links
  BY DEF HInv, HTypeOK, WaysEnd
<1>2. CASE m_first_child[p] = Null
  <2>1. Kids[p] = <<>> /\ m_last_child[p] = Null
    BY <1>2, EndsTogether DEF Kids
  <2>2. ASSUME NEW n \in Node, m_parent[n] = p PROVE FALSE
    BY <1>2, <2>2, EndsOfSiblings, HierarchyAssumption DEF first_of
  <2>3. ToSet(<<>>) = {} /\ <<>> \in Seq(Node)
    BY DEF ToSet
  <2> QED BY <1>2, <2>1, <2>2, <2>3
<1>3. CASE m_first_child[p] # Null
  <2> DEFINE f == m_first_child[p]
  <2>1. f \in Node /\ Kids[p] = FromOn(f) /\ FromOn(f) = Along(m_next, f)
    BY <1>1, <1>3 DEF Kids, Links, FromOn
  <2>2. IsRun(m_next, Along(m_next, f)) /\ Along(m_next, f)[1] = f
    BY <1>1, <2>1, AlongIsRun
  <2>3. /\ ToSet(FromOn(f)) = {n \in Node : m_parent[n] = p}
        /\ m_last_child[p] = last_of(f)
    BY <1>3, ExtractsChildren
  <2>4. FromOn(f) = Chain(f)
    <3>1. m_parent[f] = p /\ p # Null
      BY <1>3, HierarchyAssumption DEF HInv, SiblingsAgree
    <3> QED BY <3>1 DEF Chain, first_of
  <2>5. last_of(f) = Chain(f)[Len(Chain(f))]
    BY <2>1, ChainHolds DEF Last
  <2> QED BY <1>3, <2>1, <2>2, <2>3, <2>4, <2>5 DEF IsRun
<1> QED BY <1>2, <1>3

\* The chain of a node is a run, and that of all its members.
LEMMA ChainIsRun ==
    ASSUME HInv, NEW n \in Node
    PROVE  IsRun(m_next, Chain(n)) /\ Chain(n)[1] = first_of(n)
<1>1. m_next \in Links /\ Acyclic(m_next)
  BY DEF HInv, HTypeOK, WaysEnd
<1> QED BY <1>1, EndsOfSiblings, AlongIsRun DEF Chain, FromOn

LEMMA ChainOfMember ==
    ASSUME HInv, NEW n \in Node, NEW t \in ToSet(Chain(n))
    PROVE  Chain(t) = Chain(n)
<1>1. t \in Node /\ m_parent[t] = m_parent[n]
  BY ChainHolds
<1>2. CASE m_parent[n] # Null
  BY <1>1, <1>2 DEF Chain, first_of
<1>3. CASE m_parent[n] = Null
  <2>1. m_prev \in Links /\ Acyclic(m_prev)
    BY DEF HInv, HTypeOK, WaysEnd
  <2>2. ToSet(Along(m_prev, t)) \subseteq ToSet(Chain(n))
    <3>1. \A m \in ToSet(Chain(n)) \cap Node : m_prev[m] # Null => m_prev[m] \in ToSet(Chain(n))
      BY ChainHolds
    <3> QED BY <1>1, <2>1, <3>1, AlongLeast
  <2>3. first_of(t) \in ToSet(Chain(n)) /\ m_prev[first_of(t)] = Null
    BY <1>1, <2>1, <2>2, AlongCloses, EndsOfSiblings
  <2>4. first_of(t) = first_of(n)
    BY <2>3, ChainHolds
  <2> QED BY <2>4 DEF Chain
<1> QED BY <1>2, <1>3

\* The chains without a parent are those of the nodes without one.
LEMMA ChainsHold ==
    ASSUME HInv
    PROVE  /\ \A n \in Node : m_parent[n] = Null => Chain(n) \in Chains
           /\ \A s \in Chains : \A x \in ToSet(s) : x \in Node /\ m_parent[x] = Null /\ Chain(x) = s
           /\ \A s \in Chains : IsRun(m_next, s)
<1>1. m_next \in Links /\ Acyclic(m_next)
  BY DEF HInv, HTypeOK, WaysEnd
<1>2. ASSUME NEW n \in Node, m_parent[n] = Null PROVE Chain(n) \in Chains
  <2>1. m_parent[first_of(n)] = Null /\ m_prev[first_of(n)] = Null
    BY <1>2, EndsOfSiblings, ChainHolds
  <2> QED BY <1>1, <2>1, ChainIsRun, ChainsOfAre, OfTheState
<1>3. ASSUME NEW s \in Chains
      PROVE  IsRun(m_next, s) /\ \A x \in ToSet(s) : x \in Node /\ m_parent[x] = Null /\ Chain(x) = s
  <2>1. IsRun(m_next, s) /\ m_parent[s[1]] = Null /\ m_prev[s[1]] = Null
    BY <1>1, ChainsOfAre, OfTheState
  <2>2. s[1] \in Node /\ s = Along(m_next, s[1])
    BY <1>1, <2>1, RunIsAlong
  <2>3. first_of(s[1]) = s[1]
    BY <2>1, <2>2, ChainHolds
  <2>4. s = Chain(s[1])
    BY <2>2, <2>3 DEF Chain, FromOn
  <2>5. ASSUME NEW x \in ToSet(Chain(s[1]))
        PROVE  x \in Node /\ m_parent[x] = Null /\ Chain(x) = Chain(s[1])
    BY <2>1, <2>2, ChainHolds, ChainOfMember
  <2> QED BY <2>1, <2>4, <2>5
<1> QED BY <1>2, <1>3

-----------------------------------------------------------------------------
\* A run that an insertion keeps away from stays a run.
LEMMA KeptByInsertion ==
    ASSUME HInv, HInv', NEW left, NEW right, NEW parent, NEW first, NEW last, NEW C,
           Insertable(left, right, parent, first, last, C),
           Inserted(left, right, parent, first, last),
           NEW s, IsRun(m_next, s), left \notin ToSet(s), ToSet(s) \cap C = {}
    PROVE  IsRun(m_next', s)
<1>1. m_next \in Links /\ m_next' \in Links
  BY DEF HInv, HTypeOK
<1>2. ToSet(s) \subseteq Node /\ last \in C
  BY LenProperties DEF IsRun, ToSet, Insertable
<1>3. ASSUME NEW x \in ToSet(s) PROVE m_next'[x] = m_next[x]
  <2>1. x \in Node /\ x # left /\ x # last
    BY <1>2
  <2> QED BY <2>1, InsertedLinks
<1> DEFINE N == m_next'
<1>4. N \in Links /\ \A x \in ToSet(s) : N[x] = m_next[x]
  BY <1>1, <1>3
<1> HIDE DEF N
<1>5. IsRun(N, s)
  BY <1>1, <1>4, RunUnchanged
<1> QED BY <1>5 DEF N

\* The sequence around the place of an insertion, with the chain put in.
LEMMA SplicedByInsertion ==
    ASSUME HInv, HInv', NEW left, NEW right, NEW parent, NEW first, NEW last, NEW C,
           Insertable(left, right, parent, first, last, C),
           Inserted(left, right, parent, first, last),
           NEW c, c = FromOn(first),
           NEW s \in Seq(Node), s = <<>> \/ IsRun(m_next, s), ToSet(s) \cap C = {},
           NEW a \in 0 .. Len(s), left = LeftAt(s, a), right = RightAt(s, a),
           NEW u, IsSpliced(u, s, a, c)
    PROVE  IsRun(m_next', u) /\ IsRun(m_next, c) /\ c[1] = first /\ C = ToSet(c)
<1> DEFINE N == m_next'
<1>1. m_next \in Links /\ N \in Links /\ Acyclic(m_next)
  BY DEF HInv, HTypeOK, WaysEnd
<1>2. /\ first \in Node /\ first \in C /\ last \in C /\ C = ToSet(c)
      /\ \A m \in C : m_next[m] = Null => m = last
  BY DEF Insertable
<1>3. IsRun(m_next, c) /\ c[1] = first
  BY <1>1, <1>2, AlongIsRun DEF FromOn
<1>4. c[Len(c)] = last
  <2>1. c \in Seq(Node) /\ Len(c) \in Nat \ {0} /\ DOMAIN c = 1 .. Len(c) /\ m_next[c[Len(c)]] = Null
    BY <1>3, EmptySeq, LenProperties DEF IsRun
  <2>2. c[Len(c)] \in ToSet(c)
    BY <2>1 DEF ToSet
  <2> QED BY <1>2, <2>1, <2>2
<1>5. LinkedIn(N, m_next, left, right, c)
  <2>1. \A x \in Node : m_next'[x] = IF x = left THEN first
                                     ELSE IF right # Null /\ x = last THEN right ELSE m_next[x]
    BY InsertedLinks
  <2> QED BY <1>3, <1>4, <2>1 DEF LinkedIn
<1>6. ToSet(s) \cap ToSet(c) = {}
  BY <1>2
<1> HIDE DEF N
<1>7. IsRun(N, u)
  BY <1>1, <1>3, <1>5, <1>6, SplicedRun
<1> QED BY <1>2, <1>3, <1>7 DEF N

\* The children of p become the sequence u.
KidsBecome(p, u) == Kids' = [Kids EXCEPT ![p] = u]

\* Under a parent: its children are the spliced sequence, the others' stay, and the chain
\* is no longer one without a parent.
LEMMA InsertedUnder ==
    ASSUME HInv, HInv', NEW left, NEW right, NEW p \in Node, NEW first, NEW last, NEW C,
           Insertable(left, right, p, first, last, C),
           Inserted(left, right, p, first, last),
           NEW c, c = FromOn(first),
           NEW a \in 0 .. Len(Kids[p]), left = LeftAt(Kids[p], a), right = RightAt(Kids[p], a),
           NEW u, IsSpliced(u, Kids[p], a, c)
    PROVE  /\ KidsBecome(p, u)
           /\ Chains' = Chains \ {c}
<1> DEFINE N == m_next'
           V == m_prev'
           P == m_parent'
           F == m_first_child'
           s == Kids[p]
<1>1. /\ m_next \in Links /\ Acyclic(m_next) /\ m_first_child \in Links
      /\ N \in Links /\ Acyclic(N) /\ F \in Links
  BY DEF HInv, HTypeOK, WaysEnd
<1>2. /\ C \subseteq Node /\ first \in C /\ last \in C /\ p # Null /\ Null \notin Node
      /\ m_prev[first] = Null
      /\ \A m \in C : m_parent[m] = Null /\ (m_prev[m] = Null => m = first)
      /\ left # Null => m_parent[left] = p
      /\ right # Null => m_parent[right] = p
      /\ left \in Node \cup {Null}
  BY HierarchyAssumption DEF Insertable
<1>3. ASSUME NEW x \in Node
      PROVE  /\ P[x] = IF x \in C THEN p ELSE m_parent[x]
             /\ V[x] = IF x = right THEN last ELSE IF left # Null /\ x = first THEN left ELSE m_prev[x]
             /\ F[x] = IF left = Null /\ x = p THEN first ELSE m_first_child[x]
  BY <1>2, InsertedLinks
<1>4. /\ s \in Seq(Node) /\ (s = <<>> \/ IsRun(m_next, s))
      /\ ToSet(s) \cap C = {}
      /\ m_first_child[p] # Null => s[1] = m_first_child[p]
      /\ m_first_child[p] = Null => s = <<>>
  BY <1>2, KidsHold
<1>5. IsRun(N, u) /\ IsRun(m_next, c) /\ c[1] = first /\ C = ToSet(c)
  <2>1. s \in Seq(Node) /\ (s = <<>> \/ IsRun(m_next, s)) /\ ToSet(s) \cap C = {}
    BY <1>4
  <2> QED BY <2>1, SplicedByInsertion
<1>6. F[p] # Null /\ u[1] = F[p]
  <2>1. /\ Len(s) \in Nat /\ Len(c) \in Nat \ {0} /\ DOMAIN s = 1 .. Len(s)
    BY <1>4, <1>5, EmptySeq, LenProperties DEF IsRun
  <2>2. u[1] = IF 1 <= a THEN s[1] ELSE IF 1 <= a + Len(c) THEN c[1 - a] ELSE s[1 - Len(c)]
    <3>1. 1 \in 1 .. Len(s) + Len(c)
      BY <2>1
    <3> QED BY <3>1 DEF IsSpliced
  <2>3. CASE a = 0
    <3>1. left = Null /\ u[1] = c[1]
      BY <2>1, <2>2, <2>3 DEF LeftAt
    <3> QED BY <1>2, <1>3, <1>5, <3>1
  <2>4. CASE a # 0
    <3>1. a \in 1 .. Len(s) /\ 1 \in 1 .. Len(s) /\ left = s[a] /\ u[1] = s[1]
      BY <2>1, <2>2, <2>4 DEF LeftAt
    <3>2. left \in Node /\ s # <<>>
      BY <1>4, <2>1, <3>1, EmptySeq
    <3> QED BY <1>2, <1>3, <1>4, <3>1, <3>2
  <2> QED BY <2>3, <2>4
<1>7. ASSUME NEW q \in Node
      PROVE  KidsOf(N, F)[q] = IF q = p THEN u ELSE Kids[q]
  <2>1. CASE q = p
    <3> HIDE DEF N, F
    <3> QED BY <1>1, <1>5, <1>6, <2>1, KidsOfAre
  <2>2. CASE q # p
    <3>1. F[q] = m_first_child[q]
      BY <1>3, <2>2
    <3>2. /\ m_first_child[q] = Null => Kids[q] = <<>>
          /\ m_first_child[q] # Null => IsRun(m_next, Kids[q]) /\ Kids[q][1] = m_first_child[q]
          /\ ToSet(Kids[q]) = {n \in Node : m_parent[n] = q}
      BY KidsHold
    <3>3. left \notin ToSet(Kids[q]) /\ ToSet(Kids[q]) \cap C = {}
      BY <1>2, <2>2, <3>2
    <3>4. m_first_child[q] # Null => IsRun(N, Kids[q])
      BY <3>2, <3>3, KeptByInsertion
    <3>5. \/ F[q] = Null /\ Kids[q] = <<>>
          \/ F[q] # Null /\ IsRun(N, Kids[q]) /\ Kids[q][1] = F[q]
      BY <3>1, <3>2, <3>4
    <3>6. KidsOf(N, F)[q] = Kids[q]
      <4> DEFINE t == Kids[q]
      <4>1. \/ F[q] = Null /\ t = <<>>
            \/ F[q] # Null /\ IsRun(N, t) /\ t[1] = F[q]
        BY <3>5
      <4> HIDE DEF N, F, t
      <4>2. KidsOf(N, F)[q] = t
        BY <1>1, <4>1, KidsOfAre
      <4> QED BY <4>2 DEF t
    <3> QED BY <2>2, <3>6
  <2> QED BY <2>1, <2>2
<1>8. Kids' = [Kids EXCEPT ![p] = u]
  <2>1. Kids' = [q \in Node |-> KidsOf(N, F)[q]] /\ Kids = [q \in Node |-> Kids[q]]
    BY OfTheState DEF KidsOf
  <2> HIDE DEF N, F
  <2> QED BY <1>7, <2>1
<1>9. ASSUME NEW t, IsRun(m_next, t), m_parent[t[1]] = Null, m_prev[t[1]] = Null, t[1] # first
      PROVE  /\ IsRun(N, t) /\ P[t[1]] = Null /\ V[t[1]] = Null
  <2>1. t \in Chains /\ t[1] \in Node /\ t[1] \in ToSet(t)
    <3>1. t \in Chains
      BY <1>1, <1>9, ChainsOfAre, OfTheState
    <3>2. 1 \in DOMAIN t
      BY <1>9, EmptySeq, LenProperties DEF IsRun
    <3> QED BY <1>1, <1>9, <3>1, <3>2, RunIsAlong DEF ToSet
  <2>2. \A x \in ToSet(t) : x \in Node /\ m_parent[x] = Null /\ Chain(x) = t
    BY <2>1, ChainsHold
  <2>3. t[1] \notin C
    BY <1>2, <1>9
  <2>4. ToSet(t) \cap C = {}
    <3>1. SUFFICES ASSUME NEW x \in ToSet(t), x \in C PROVE FALSE
      OBVIOUS
    <3>2. Chain(x) = t /\ x \in Node /\ m_parent[x] = Null
      BY <2>2
    <3>3. c \in Chains
      <4>1. m_parent[c[1]] = Null /\ m_prev[c[1]] = Null
        BY <1>2, <1>5
      <4> QED BY <1>1, <1>5, <4>1, ChainsOfAre, OfTheState
    <3>4. Chain(x) = c
      BY <1>5, <3>1, <3>3, ChainsHold
    <3> QED BY <1>5, <1>9, <3>2, <3>4
  <2>5. left \notin ToSet(t)
    BY <1>2, <2>2
  <2>6. IsRun(N, t)
    BY <1>9, <2>4, <2>5, KeptByInsertion
  <2>7. P[t[1]] = Null /\ V[t[1]] = Null
    BY <1>2, <1>3, <1>9, <2>1, <2>3
  <2> QED BY <2>6, <2>7
<1>10. ASSUME NEW t, IsRun(N, t), P[t[1]] = Null, V[t[1]] = Null
       PROVE  /\ IsRun(m_next, t) /\ m_parent[t[1]] = Null /\ m_prev[t[1]] = Null /\ t[1] # first
  <2> DEFINE x == t[1]
             r == Along(m_next, x)
  <2>1. x \in Node /\ Along(N, x) = t
    <3> HIDE DEF N
    <3> QED BY <1>1, <1>10, RunIsAlong
  <2>2. x \notin C /\ m_parent[x] = Null
    BY <1>2, <1>3, <1>10, <2>1
  <2>3. x # right /\ x # first
    BY <1>2, <2>1, <2>2
  <2>4. m_prev[x] = Null
    BY <1>3, <1>10, <2>1, <2>3
  <2>5. IsRun(m_next, r) /\ r[1] = x
    BY <1>1, <2>1, AlongIsRun
  <2> HIDE DEF x, r
  <2>6. IsRun(N, r)
    BY <1>9, <2>2, <2>3, <2>4, <2>5
  <2>7. r = t
    <3> HIDE DEF N
    <3> QED BY <1>1, <1>10, <2>5, <2>6, RunUnique DEF x
  <2> QED BY <2>2, <2>3, <2>4, <2>5, <2>7 DEF x
<1>11. Chains' = Chains \ {c}
  <2>1. ASSUME NEW t
        PROVE  t \in ChainsOf(N, V, P) <=> t \in Chains /\ t # c
    <3>1. t \in ChainsOf(N, V, P) <=> IsRun(N, t) /\ P[t[1]] = Null /\ V[t[1]] = Null
      <4> HIDE DEF N, V, P
      <4> QED BY <1>1, ChainsOfAre
    <3>2. t \in Chains <=> IsRun(m_next, t) /\ m_parent[t[1]] = Null /\ m_prev[t[1]] = Null
      BY <1>1, ChainsOfAre, OfTheState
    <3>3. IsRun(m_next, t) => (t[1] = first <=> t = c)
      BY <1>1, <1>5, RunUnique
    <3> QED BY <1>9, <1>10, <3>1, <3>2, <3>3
  <2>2. Chains' = ChainsOf(N, V, P)
    BY OfTheState
  <2> HIDE DEF N, V, P
  <2> QED BY <2>1, <2>2
<1> QED BY <1>8, <1>11 DEF KidsBecome

\* Where a spliced sequence begins.
LEMMA SplicedFirst ==
    ASSUME NEW s \in Seq(Node), NEW c \in Seq(Node), c # <<>>, NEW a \in 0 .. Len(s),
           NEW u, IsSpliced(u, s, a, c)
    PROVE  u[1] = IF a = 0 THEN c[1] ELSE s[1]
<1>1. Len(s) \in Nat /\ Len(c) \in Nat \ {0}
  BY EmptySeq
<1>2. u[1] = IF 1 <= a THEN s[1] ELSE IF 1 <= a + Len(c) THEN c[1 - a] ELSE s[1 - Len(c)]
  <2>1. 1 \in 1 .. Len(s) + Len(c)
    BY <1>1
  <2> QED BY <2>1 DEF IsSpliced
<1>3. CASE a = 0
  BY <1>1, <1>2, <1>3
<1>4. CASE a # 0
  BY <1>1, <1>2, <1>4
<1> QED BY <1>3, <1>4

\* Beside a node without a parent: the spliced sequence takes the place of the two.
LEMMA InsertedBesideRoot ==
    ASSUME HInv, HInv', NEW left, NEW right, NEW first, NEW last, NEW C,
           Insertable(left, right, Null, first, last, C),
           Inserted(left, right, Null, first, last),
           NEW c, c = FromOn(first),
           NEW s \in Chains, ToSet(s) \cap C = {},
           NEW a \in 0 .. Len(s), left = LeftAt(s, a), right = RightAt(s, a),
           NEW u, IsSpliced(u, s, a, c)
    PROVE  /\ Kids' = Kids
           /\ Chains' = (Chains \ {c, s}) \cup {u}
<1> DEFINE N == m_next'
           V == m_prev'
           P == m_parent'
           F == m_first_child'
<1>1. /\ m_next \in Links /\ Acyclic(m_next) /\ m_first_child \in Links
      /\ N \in Links /\ Acyclic(N) /\ F \in Links
  BY DEF HInv, HTypeOK, WaysEnd
<1>2. /\ C \subseteq Node /\ first \in C /\ last \in C /\ Null \notin Node /\ Null \notin C
      /\ m_prev[first] = Null
      /\ \A m \in C : m_parent[m] = Null /\ (m_prev[m] = Null => m = first)
                      /\ (m_prev[m] # Null => m_prev[m] \in C)
      /\ left # Null => m_parent[left] = Null
      /\ left \in Node \cup {Null} /\ left \notin C /\ right \notin C
  BY HierarchyAssumption DEF Insertable
<1>3. ASSUME NEW x \in Node
      PROVE  /\ P[x] = m_parent[x]
             /\ V[x] = IF x = right THEN last ELSE IF left # Null /\ x = first THEN left ELSE m_prev[x]
             /\ F[x] = m_first_child[x]
  BY <1>2, InsertedLinks
<1>4. /\ IsRun(m_next, s) /\ s \in Seq(Node) /\ Len(s) \in Nat \ {0} /\ DOMAIN s = 1 .. Len(s)
      /\ s[1] \in Node /\ s[1] \in ToSet(s)
      /\ \A x \in ToSet(s) : x \in Node /\ m_parent[x] = Null /\ Chain(x) = s
  <2>1. IsRun(m_next, s)
    BY ChainsHold
  <2>2. s \in Seq(Node) /\ Len(s) \in Nat \ {0} /\ DOMAIN s = 1 .. Len(s)
    BY <2>1, EmptySeq, LenProperties DEF IsRun
  <2>3. s[1] \in Node /\ s[1] \in ToSet(s)
    BY <2>2 DEF ToSet
  <2> QED BY <2>1, <2>2, <2>3, ChainsHold
<1>5. /\ IsRun(N, u) /\ IsRun(m_next, c) /\ c[1] = first /\ C = ToSet(c)
      /\ c \in Seq(Node) /\ c # <<>>
  <2>1. IsRun(N, u) /\ IsRun(m_next, c) /\ c[1] = first /\ C = ToSet(c)
    BY <1>4, SplicedByInsertion
  <2> QED BY <2>1 DEF IsRun
<1>6. c \in Chains
  <2>1. m_parent[c[1]] = Null /\ m_prev[c[1]] = Null
    BY <1>2, <1>5
  <2> QED BY <1>1, <1>5, <2>1, ChainsOfAre, OfTheState
<1>7. u[1] = IF a = 0 THEN first ELSE s[1]
  BY <1>4, <1>5, SplicedFirst
<1>8. /\ left # Null => left \in ToSet(s)
      /\ right # Null => right \in ToSet(s)
      /\ left = Null <=> a = 0
      /\ right = s[1] <=> a = 0
  <2>1. ASSUME NEW i \in 1 .. Len(s) PROVE s[i] \in ToSet(s) /\ s[i] \in Node
    BY <1>4 DEF ToSet
  <2>2. a # 0 => a \in 1 .. Len(s)
    BY <1>4
  <2>3. a # Len(s) => a + 1 \in 1 .. Len(s)
    <3>1. Len(s) \in Nat
      BY <1>4
    <3> QED BY ONLY <3>1, a \in 0 .. Len(s)
  <2>4. right = s[1] => a = 0
    <3>1. SUFFICES ASSUME right = s[1], a # 0 PROVE FALSE
      OBVIOUS
    <3>2. a # Len(s) /\ right = s[a + 1] /\ right # Null
      BY <1>2, <1>4, <3>1 DEF RightAt
    <3>3. a + 1 \in DOMAIN s /\ 1 \in DOMAIN s /\ s[a + 1] = s[1]
      <4>1. a + 1 \in DOMAIN s
        BY <1>4, <2>3, <3>2
      <4>2. 1 \in DOMAIN s
        BY <1>4
      <4> QED BY <3>1, <3>2, <4>1, <4>2
    <3>4. a + 1 = 1
      BY <1>1, <1>4, <3>3, RunInjective
    <3> QED BY <1>4, <3>1, <3>4
  <2>5. a = 0 => right = s[1]
    BY <1>4 DEF RightAt
  <2> QED BY <1>2, <2>1, <2>2, <2>3, <2>4, <2>5 DEF LeftAt, RightAt
<1>9. ASSUME NEW t \in Chains, t # c, t # s
      PROVE  IsRun(N, t) /\ P[t[1]] = Null /\ V[t[1]] = Null
  <2>1. /\ IsRun(m_next, t) /\ m_parent[t[1]] = Null /\ m_prev[t[1]] = Null
        /\ t[1] \in Node
    BY <1>1, ChainsOfAre, OfTheState, RunIsAlong
  <2>2. t[1] \in ToSet(t)
    BY <2>1, EmptySeq, LenProperties DEF IsRun, ToSet
  <2>3. ToSet(t) \cap C = {} /\ ToSet(t) \cap ToSet(s) = {}
    BY <1>5, <1>6, <1>9, ChainsHold
  <2>4. left \notin ToSet(t) /\ right \notin ToSet(t) /\ first \notin ToSet(t)
    <3>1. Null \notin ToSet(t)
      BY <1>2, ChainsHold
    <3> QED BY <1>2, <1>8, <2>3, <3>1
  <2>5. IsRun(N, t)
    BY <2>1, <2>3, <2>4, KeptByInsertion
  <2>6. P[t[1]] = Null /\ V[t[1]] = Null
    BY <1>3, <2>1, <2>2, <2>4
  <2> QED BY <2>5, <2>6
<1>10. P[u[1]] = Null /\ V[u[1]] = Null
  <2>1. CASE a = 0
    BY <1>2, <1>3, <1>7, <1>8, <2>1
  <2>2. CASE a # 0
    <3>1. u[1] = s[1] /\ s[1] # right /\ s[1] # first
      BY <1>2, <1>4, <1>7, <1>8, <2>2
    <3>2. m_prev[s[1]] = Null
      BY <1>1, ChainsOfAre, OfTheState
    <3> QED BY <1>3, <1>4, <3>1, <3>2
  <2> QED BY <2>1, <2>2
<1>11. ASSUME NEW t, IsRun(N, t), P[t[1]] = Null, V[t[1]] = Null, t # u
       PROVE  t \in Chains /\ t # c /\ t # s
  <2> DEFINE x == t[1]
             r == Along(m_next, x)
  <2>1. x \in Node
    <3> HIDE DEF N
    <3> QED BY <1>1, <1>11, RunIsAlong
  <2>2. x # u[1]
    <3> HIDE DEF N
    <3> QED BY <1>1, <1>5, <1>11, RunUnique
  <2>3. m_parent[x] = Null /\ x # right /\ (left # Null => x # first) /\ m_prev[x] = Null
    BY <1>2, <1>3, <1>11, <2>1
  <2>4. x \notin C
    BY <1>2, <1>7, <1>8, <2>2, <2>3
  <2>5. x \notin ToSet(s)
    <3>1. SUFFICES ASSUME x \in ToSet(s) PROVE FALSE
      OBVIOUS
    <3>2. Chain(x) = s /\ Chain(x)[1] = first_of(x)
      BY <1>4, <2>1, <3>1, ChainIsRun
    <3>3. x = first_of(x)
      BY <2>1, <2>3, ChainHolds
    <3>4. x = s[1]
      BY <3>2, <3>3
    <3> QED BY <1>7, <1>8, <2>2, <2>3, <3>4
  <2>6. IsRun(m_next, r) /\ r[1] = x
    BY <1>1, <2>1, AlongIsRun
  <2>7. r \in Chains
    BY <1>1, <2>3, <2>6, ChainsOfAre, OfTheState
  <2>8. r # c /\ r # s
    BY <1>2, <1>4, <1>5, <2>4, <2>5, <2>6
  <2>9. IsRun(N, r)
    BY <1>9, <2>7, <2>8
  <2>10. r = t
    <3>1. r[1] = t[1]
      BY <2>6
    <3> HIDE DEF N, r, x
    <3> QED BY <1>1, <1>11, <2>9, <3>1, RunUnique
  <2> QED BY <2>7, <2>8, <2>10
<1>12. Chains' = (Chains \ {c, s}) \cup {u}
  <2>1. ASSUME NEW t
        PROVE  t \in ChainsOf(N, V, P) <=> t \in (Chains \ {c, s}) \cup {u}
    <3>1. t \in ChainsOf(N, V, P) <=> IsRun(N, t) /\ P[t[1]] = Null /\ V[t[1]] = Null
      <4> HIDE DEF N, V, P
      <4> QED BY <1>1, ChainsOfAre
    <3> QED BY <1>5, <1>9, <1>10, <1>11, <3>1
  <2>2. Chains' = ChainsOf(N, V, P)
    BY OfTheState
  <2> HIDE DEF N, V, P
  <2> QED BY <2>1, <2>2
<1>13. ASSUME NEW q \in Node PROVE KidsOf(N, F)[q] = Kids[q]
  <2>1. F[q] = m_first_child[q]
    BY <1>3
  <2>2. /\ m_first_child[q] = Null => Kids[q] = <<>>
        /\ m_first_child[q] # Null => IsRun(m_next, Kids[q]) /\ Kids[q][1] = m_first_child[q]
        /\ ToSet(Kids[q]) = {n \in Node : m_parent[n] = q}
    BY KidsHold
  <2>3. left \notin ToSet(Kids[q]) /\ ToSet(Kids[q]) \cap C = {}
    BY <1>2, <2>2
  <2>4. m_first_child[q] # Null => IsRun(N, Kids[q])
    BY <2>2, <2>3, KeptByInsertion
  <2> DEFINE t == Kids[q]
  <2>5. \/ F[q] = Null /\ t = <<>>
        \/ F[q] # Null /\ IsRun(N, t) /\ t[1] = F[q]
    BY <2>1, <2>2, <2>4
  <2> HIDE DEF N, F, t
  <2>6. KidsOf(N, F)[q] = t
    BY <1>1, <2>5, KidsOfAre
  <2> QED BY <2>6 DEF t
<1>14. Kids' = Kids
  <2>1. Kids' = [q \in Node |-> KidsOf(N, F)[q]] /\ Kids = [q \in Node |-> Kids[q]]
    BY OfTheState DEF KidsOf
  <2> HIDE DEF N, F
  <2> QED BY <1>13, <2>1
<1> QED BY <1>12, <1>14

-----------------------------------------------------------------------------
\* The sequences that the operations of the forest make.
LEMMA SplicedIs ==
    ASSUME NEW s \in Seq(Node), NEW c \in Seq(Node), NEW a \in 0 .. Len(s)
    PROVE  IsSpliced(Forest!Spliced(s, a, c), s, a, c)
<1> DEFINE l == Len(s)
           m == Len(c)
           x == SubSeq(s, 1, a)
           y == SubSeq(s, a + 1, l)
<1>1. l \in Nat /\ m \in Nat /\ a \in Nat /\ a <= l /\ \A i \in 1 .. l : s[i] \in Node
  OBVIOUS
<1>2. x \in Seq(Node) /\ Len(x) = a /\ \A i \in 1 .. a : x[i] = s[i]
  BY <1>1
<1>3. y \in Seq(Node) /\ Len(y) = l - a /\ \A i \in 1 .. l - a : y[i] = s[a + i]
  BY <1>1
<1> HIDE DEF x, y
<1> DEFINE xc == x \o c
           u == xc \o y
<1>4. /\ xc \in Seq(Node) /\ Len(xc) = a + m
      /\ \A i \in 1 .. a + m : xc[i] = IF i <= a THEN x[i] ELSE c[i - a]
  <2>1. /\ xc \in Seq(Node) /\ Len(xc) = Len(x) + Len(c)
        /\ \A i \in 1 .. Len(x) + Len(c) : xc[i] = IF i <= Len(x) THEN x[i] ELSE c[i - Len(x)]
    BY <1>2, ConcatProperties
  <2> QED BY ONLY <2>1, <1>2 DEF m
<1> HIDE DEF xc
<1>5. /\ u \in Seq(Node) /\ Len(u) = (a + m) + (l - a)
      /\ \A i \in 1 .. (a + m) + (l - a) : u[i] = IF i <= a + m THEN xc[i] ELSE y[i - (a + m)]
  <2>1. xc \in Seq(Node) /\ y \in Seq(Node) /\ Len(xc) = a + m /\ Len(y) = l - a
    BY <1>3, <1>4
  <2>2. /\ u \in Seq(Node) /\ Len(u) = Len(xc) + Len(y)
        /\ \A i \in 1 .. Len(xc) + Len(y) : u[i] = IF i <= Len(xc) THEN xc[i] ELSE y[i - Len(xc)]
    BY ONLY <2>1, ConcatProperties
  <2> QED BY ONLY <2>1, <2>2
<1>6. Forest!Spliced(s, a, c) = u
  <2>1. Forest!Spliced(s, a, c) = (x \o c) \o y
    BY DEF Forest!Spliced, x, y
  <2> QED BY <2>1 DEF xc
<1> HIDE DEF u, l, m
<1>7. (a + m) + (l - a) = l + m
  BY <1>1
<1>8. ASSUME NEW k \in 1 .. l + m
      PROVE  u[k] = IF k <= a THEN s[k] ELSE IF k <= a + m THEN c[k - a] ELSE s[k - m]
  <2>1. u[k] = IF k <= a + m THEN xc[k] ELSE y[k - (a + m)]
    BY <1>5, <1>7
  <2>2. CASE k <= a
    <3>1. k \in 1 .. a /\ k \in 1 .. a + m /\ k <= a + m
      BY <1>1, <2>2
    <3> QED BY <1>2, <1>4, <2>1, <2>2, <3>1
  <2>3. CASE ~ (k <= a) /\ k <= a + m
    <3>1. k \in 1 .. a + m
      BY <1>1, <2>3
    <3> QED BY <1>4, <2>1, <2>3, <3>1
  <2>4. CASE ~ (k <= a + m)
    <3>1. k - (a + m) \in 1 .. l - a /\ a + (k - (a + m)) = k - m /\ ~ (k <= a)
      BY <1>1, <2>4
    <3> QED BY <1>3, <2>1, <2>4, <3>1
  <2> QED BY <2>2, <2>3, <2>4
<1> QED BY <1>5, <1>6, <1>7, <1>8 DEF IsSpliced, l, m

LEMMA ConcatIsSpliced ==
    ASSUME NEW s \in Seq(Node), NEW c \in Seq(Node)
    PROVE  IsSpliced(c \o s, s, 0, c) /\ IsSpliced(s \o c, s, Len(s), c)
<1>1. Len(s) \in Nat /\ Len(c) \in Nat
  OBVIOUS
<1>2. IsSpliced(c \o s, s, 0, c)
  <2> DEFINE u == c \o s
  <2>1. /\ u \in Seq(Node) /\ Len(u) = Len(c) + Len(s)
        /\ \A i \in 1 .. Len(c) + Len(s) : u[i] = IF i <= Len(c) THEN c[i] ELSE s[i - Len(c)]
    BY ConcatProperties
  <2> HIDE DEF u
  <2>2. \A k \in 1 .. Len(s) + Len(c) :
            u[k] = IF k <= 0 THEN s[k] ELSE IF k <= 0 + Len(c) THEN c[k - 0] ELSE s[k - Len(c)]
    BY <1>1, <2>1
  <2>3. Len(u) = Len(s) + Len(c)
    BY <1>1, <2>1
  <2> QED BY <2>1, <2>2, <2>3 DEF IsSpliced, u
<1>3. IsSpliced(s \o c, s, Len(s), c)
  <2> DEFINE u == s \o c
  <2>1. /\ u \in Seq(Node) /\ Len(u) = Len(s) + Len(c)
        /\ \A i \in 1 .. Len(s) + Len(c) : u[i] = IF i <= Len(s) THEN s[i] ELSE c[i - Len(s)]
    BY ConcatProperties
  <2> HIDE DEF u
  <2>2. \A k \in 1 .. Len(s) + Len(c) :
            u[k] = IF k <= Len(s) THEN s[k]
                   ELSE IF k <= Len(s) + Len(c) THEN c[k - Len(s)] ELSE s[k - Len(c)]
    BY <1>1, <2>1
  <2> QED BY <2>1, <2>2 DEF IsSpliced, u
<1> QED BY <1>2, <1>3

LEMMA WithoutIs ==
    ASSUME NEW s \in Seq(Node), NEW n, NEW k \in DOMAIN s, Forest!Position(s, n) = k
    PROVE  IsWithout(Forest!Without(s, n), s, k)
<1> DEFINE l == Len(s)
           x == SubSeq(s, 1, k - 1)
           y == SubSeq(s, k + 1, l)
<1>1. l \in Nat /\ k \in 1 .. l /\ \A i \in 1 .. l : s[i] \in Node
  OBVIOUS
<1>2. x \in Seq(Node) /\ Len(x) = k - 1 /\ \A i \in 1 .. k - 1 : x[i] = s[i]
  BY <1>1
<1>3. y \in Seq(Node) /\ Len(y) = l - k /\ \A i \in 1 .. l - k : y[i] = s[k + i]
  BY <1>1
<1> HIDE DEF x, y
<1> DEFINE u == x \o y
<1>4. /\ u \in Seq(Node) /\ Len(u) = (k - 1) + (l - k)
      /\ \A i \in 1 .. (k - 1) + (l - k) : u[i] = IF i <= k - 1 THEN x[i] ELSE y[i - (k - 1)]
  <2>1. x \in Seq(Node) /\ y \in Seq(Node) /\ Len(x) = k - 1 /\ Len(y) = l - k
    BY <1>2, <1>3
  <2>2. /\ u \in Seq(Node) /\ Len(u) = Len(x) + Len(y)
        /\ \A i \in 1 .. Len(x) + Len(y) : u[i] = IF i <= Len(x) THEN x[i] ELSE y[i - Len(x)]
    BY ONLY <2>1, ConcatProperties
  <2> QED BY ONLY <2>1, <2>2
<1>5. Forest!Without(s, n) = u
  BY DEF Forest!Without, x, y
<1> HIDE DEF u, l
<1>6. (k - 1) + (l - k) = l - 1
  BY <1>1
<1>7. ASSUME NEW i \in 1 .. l - 1 PROVE u[i] = IF i < k THEN s[i] ELSE s[i + 1]
  <2>1. u[i] = IF i <= k - 1 THEN x[i] ELSE y[i - (k - 1)]
    BY <1>4, <1>6
  <2>2. CASE i < k
    <3>1. i \in 1 .. k - 1 /\ i <= k - 1
      BY <1>1, <2>2
    <3> QED BY <1>2, <2>1, <2>2, <3>1
  <2>3. CASE ~ (i < k)
    <3>1. i - (k - 1) \in 1 .. l - k /\ k + (i - (k - 1)) = i + 1 /\ ~ (i <= k - 1)
      BY <1>1, <2>3
    <3> QED BY <1>3, <2>1, <2>3, <3>1
  <2> QED BY <2>2, <2>3
<1> QED BY <1>4, <1>5, <1>6, <1>7 DEF IsWithout, l

\* What stands beside a node of a run from a first sibling on.
LEMMA Neighbours ==
    ASSUME HInv, NEW s, IsRun(m_next, s), m_prev[s[1]] = Null, NEW t \in ToSet(s)
    PROVE  LET k == Forest!Position(s, t)
           IN  /\ s \in Seq(Node) /\ k \in DOMAIN s /\ s[k] = t /\ k \in 1 .. Len(s)
               /\ k - 1 \in 0 .. Len(s) /\ k \in 0 .. Len(s)
               /\ LeftAt(s, k - 1) = m_prev[t] /\ RightAt(s, k - 1) = t
               /\ LeftAt(s, k) = t /\ RightAt(s, k) = m_next[t]
<1> DEFINE k == Forest!Position(s, t)
<1>1. s \in Seq(Node) /\ Len(s) \in Nat \ {0} /\ DOMAIN s = 1 .. Len(s)
  BY EmptySeq, LenProperties DEF IsRun
<1>2. k \in DOMAIN s /\ s[k] = t
  <2>1. \E j \in DOMAIN s : s[j] = t
    BY DEF ToSet
  <2> QED BY <2>1 DEF Forest!Position
<1> HIDE DEF k
<1>3. k \in 1 .. Len(s) /\ k - 1 \in 0 .. Len(s) /\ k \in 0 .. Len(s) /\ k # 0 /\ k - 1 # Len(s)
      /\ (k - 1) + 1 = k
  BY <1>1, <1>2
<1>4. RightAt(s, k - 1) = t /\ LeftAt(s, k) = t
  BY <1>2, <1>3 DEF RightAt, LeftAt
<1>5. RightAt(s, k) = m_next[t]
  <2>1. CASE k = Len(s)
    BY <1>2, <2>1 DEF RightAt, IsRun
  <2>2. CASE k # Len(s)
    <3>1. k \in 1 .. Len(s) - 1
      <4>1. Len(s) \in Nat /\ k \in 1 .. Len(s)
        BY <1>1, <1>3
      <4> QED BY ONLY <4>1, <2>2
    <3> QED BY <1>2, <2>2, <3>1 DEF RightAt, IsRun
  <2> QED BY <2>1, <2>2
<1>6. LeftAt(s, k - 1) = m_prev[t]
  <2>1. CASE k = 1
    BY <1>2, <2>1 DEF LeftAt
  <2>2. CASE k # 1
    <3>1. k - 1 \in 1 .. Len(s) - 1 /\ k - 1 \in 1 .. Len(s) /\ k - 1 # 0
      BY <1>1, <1>3, <2>2
    <3>2. s[k] = m_next[s[k - 1]] /\ s[k - 1] \in Node /\ s[k] \in Node
      BY <1>1, <1>3, <3>1 DEF IsRun
    <3>3. m_prev[s[k]] = s[k - 1]
      BY <3>2, HierarchyAssumption DEF HInv, SiblingsAgree
    <3> QED BY <1>2, <3>1, <3>3 DEF LeftAt
  <2> QED BY <2>1, <2>2
<1> QED BY <1>1, <1>2, <1>3, <1>4, <1>5, <1>6 DEF k

\* The sequence a node stands in, as the forest names it.
LEMMA StandsIn ==
    ASSUME HInv, NEW t \in Node
    PROVE  /\ m_parent[t] # Null => /\ m_parent[t] \in Node
                                    /\ Forest!IsChild(t) /\ Forest!Parent(t) = m_parent[t]
                                    /\ t \in ToSet(Kids[m_parent[t]])
                                    /\ IsRun(m_next, Kids[m_parent[t]])
                                    /\ m_prev[Kids[m_parent[t]][1]] = Null
           /\ m_parent[t] = Null => /\ ~ Forest!IsChild(t) /\ Forest!ChainOf(t) = Chain(t)
                                    /\ Chain(t) \in Chains
                                    /\ t \in ToSet(Chain(t))
                                    /\ IsRun(m_next, Chain(t))
                                    /\ m_prev[Chain(t)[1]] = Null
<1>1. \A p \in Node : t \in ToSet(Kids[p]) <=> m_parent[t] = p
  BY KidsHold
<1>2. ASSUME m_parent[t] # Null
      PROVE  /\ m_parent[t] \in Node
             /\ Forest!IsChild(t) /\ Forest!Parent(t) = m_parent[t]
             /\ t \in ToSet(Kids[m_parent[t]])
             /\ IsRun(m_next, Kids[m_parent[t]])
             /\ m_prev[Kids[m_parent[t]][1]] = Null
  <2>1. m_parent[t] \in Node
    BY <1>2 DEF HInv, HTypeOK, Links
  <2>2. Forest!IsChild(t) /\ Forest!Parent(t) = m_parent[t]
    BY <1>1, <2>1 DEF Forest!IsChild, Forest!Parent, Forest!ToSet, ToSet
  <2>3. m_first_child[m_parent[t]] # Null
    BY <1>2, EndsOfSiblings, HierarchyAssumption DEF first_of
  <2>4. m_prev[m_first_child[m_parent[t]]] = Null
    BY <2>1, <2>3, ExtractsChildren
  <2> QED BY <1>1, <2>1, <2>2, <2>3, <2>4, KidsHold
<1>3. ASSUME m_parent[t] = Null
      PROVE  /\ ~ Forest!IsChild(t) /\ Forest!ChainOf(t) = Chain(t)
             /\ Chain(t) \in Chains
             /\ t \in ToSet(Chain(t))
             /\ IsRun(m_next, Chain(t))
             /\ m_prev[Chain(t)[1]] = Null
  <2>1. ~ Forest!IsChild(t)
    BY <1>1, <1>3, HierarchyAssumption DEF Forest!IsChild, Forest!ToSet, ToSet
  <2>2. t \in ToSet(Chain(t)) /\ Chain(t) \in Chains /\ IsRun(m_next, Chain(t))
        /\ m_prev[Chain(t)[1]] = Null
    BY <1>3, ChainHolds, ChainsHold, ChainIsRun
  <2>3. \A c \in Chains : t \in ToSet(c) => c = Chain(t)
    BY ChainsHold
  <2>4. Forest!ChainOf(t) = Chain(t)
    BY <2>2, <2>3 DEF Forest!ChainOf, Forest!ToSet, ToSet
  <2> QED BY <2>1, <2>2, <2>4
<1> QED BY <1>2, <1>3

\* The sequence that insertion moves is one of those without a parent.
LEMMA MovesChain ==
    ASSUME HInv, NEW t \in Node, NEW n \in Node, MayInsert(n, t)
    PROVE  /\ Chain(n) \in Chains /\ Chain(n) \in Seq(Node)
           /\ Chain(n) = FromOn(first_of(n))
           /\ t \notin ToSet(Chain(n))
           /\ \A m \in ToSet(Chain(n)) : m_parent[m] = Null
<1>1. m_parent[n] = Null
  BY DEF MayInsert
<1>2. Chain(n) \in Chains /\ IsRun(m_next, Chain(n))
  BY <1>1, ChainsHold, ChainIsRun
<1>3. Chain(n) \in Seq(Node) /\ Chain(n) = FromOn(first_of(n))
  BY <1>2 DEF IsRun, Chain
<1> QED BY <1>2, <1>3, MovedChain

LEMMA InsertsFirstChild ==
    ASSUME HInv, HInv', NEW p \in Node, NEW n \in Node, insert_first_child(p, n)
    PROVE  Forest!InsertFirstChild(p, Chain(n))
<1> DEFINE c == Chain(n)
           s == Kids[p]
<1>1. MayInsert(n, p) /\ Inserted(Null, m_first_child[p], p, first_of(n), last_of(n))
  BY DEF insert_first_child
<1>2. Insertable(Null, m_first_child[p], p, first_of(n), last_of(n), ToSet(Chain(n)))
  BY <1>1, InsertsUnder
<1>3. c \in Seq(Node) /\ c = FromOn(first_of(n))
  BY <1>1, MovesChain
<1>4. s \in Seq(Node) /\ Len(s) \in Nat
  BY KidsHold
<1>5. Null = LeftAt(s, 0) /\ m_first_child[p] = RightAt(s, 0) /\ 0 \in 0 .. Len(s)
  <2>1. CASE m_first_child[p] = Null
    <3>1. s = <<>>
      BY <2>1, KidsHold
    <3>2. Len(s) = 0
      BY <3>1
    <3> QED BY <2>1, <3>2 DEF LeftAt, RightAt
  <2>2. CASE m_first_child[p] # Null
    <3>1. s # <<>> /\ s[1] = m_first_child[p]
      BY <2>2, KidsHold DEF IsRun
    <3>2. Len(s) # 0
      BY <1>4, <3>1, EmptySeq
    <3> QED BY <1>4, <3>1, <3>2 DEF LeftAt, RightAt
  <2> QED BY <2>1, <2>2
<1>6. IsSpliced(c \o s, s, 0, c)
  BY <1>3, <1>4, ConcatIsSpliced
<1>7. Kids' = [Kids EXCEPT ![p] = c \o s] /\ Chains' = Chains \ {c}
  BY <1>1, <1>2, <1>3, <1>5, <1>6, InsertedUnder DEF KidsBecome
<1> QED BY <1>7 DEF Forest!InsertFirstChild

LEMMA InsertsLastChild ==
    ASSUME HInv, HInv', NEW p \in Node, NEW n \in Node, insert_last_child(p, n)
    PROVE  Forest!InsertLastChild(p, Chain(n))
<1> DEFINE c == Chain(n)
           s == Kids[p]
<1>1. MayInsert(n, p) /\ Inserted(m_last_child[p], Null, p, first_of(n), last_of(n))
  BY DEF insert_last_child
<1>2. Insertable(m_last_child[p], Null, p, first_of(n), last_of(n), ToSet(Chain(n)))
  BY <1>1, InsertsUnder
<1>3. c \in Seq(Node) /\ c = FromOn(first_of(n))
  BY <1>1, MovesChain
<1>4. s \in Seq(Node) /\ Len(s) \in Nat
  BY KidsHold
<1>5. m_last_child[p] = LeftAt(s, Len(s)) /\ Null = RightAt(s, Len(s)) /\ Len(s) \in 0 .. Len(s)
  <2>1. CASE m_first_child[p] = Null
    <3>1. s = <<>> /\ m_last_child[p] = Null
      BY <2>1, KidsHold
    <3>2. Len(s) = 0
      BY <3>1
    <3> QED BY <3>1, <3>2 DEF LeftAt, RightAt
  <2>2. CASE m_first_child[p] # Null
    <3>1. s # <<>> /\ s[Len(s)] = m_last_child[p]
      BY <2>2, KidsHold DEF IsRun
    <3>2. Len(s) # 0
      BY <1>4, <3>1, EmptySeq
    <3> QED BY <1>4, <3>1, <3>2 DEF LeftAt, RightAt
  <2> QED BY <2>1, <2>2
<1>6. IsSpliced(s \o c, s, Len(s), c)
  BY <1>3, <1>4, ConcatIsSpliced
<1>7. Kids' = [Kids EXCEPT ![p] = s \o c] /\ Chains' = Chains \ {c}
  BY <1>1, <1>2, <1>3, <1>5, <1>6, InsertedUnder DEF KidsBecome
<1> QED BY <1>7 DEF Forest!InsertLastChild

\* Beside t: in its parent's children, or in a sequence without a parent.
LEMMA InsertsAt ==
    ASSUME HInv, HInv', NEW t \in Node, NEW n \in Node, MayInsert(n, t),
           NEW after \in 0 .. 1,
           NEW left, left = IF after = 0 THEN m_prev[t] ELSE t,
           NEW right, right = IF after = 0 THEN t ELSE m_next[t],
           Insertable(left, right, m_parent[t], first_of(n), last_of(n), ToSet(Chain(n))),
           Inserted(left, right, m_parent[t], first_of(n), last_of(n))
    PROVE  Forest!InsertBeside(t, Chain(n), after)
<1> DEFINE c == Chain(n)
           p == m_parent[t]
<1>1. /\ c \in Chains /\ c \in Seq(Node) /\ c = FromOn(first_of(n)) /\ t \notin ToSet(c)
      /\ \A m \in ToSet(c) : m_parent[m] = Null
  BY MovesChain
<1>2. ASSUME NEW s, IsRun(m_next, s), m_prev[s[1]] = Null, t \in ToSet(s)
      PROVE  LET a == Forest!Position(s, t) - 1 + after
             IN  /\ a \in 0 .. Len(s) /\ left = LeftAt(s, a) /\ right = RightAt(s, a)
                 /\ IsSpliced(Forest!Spliced(s, a, c), s, a, c)
  <2> DEFINE k == Forest!Position(s, t)
             a == k - 1 + after
  <2>1. /\ s \in Seq(Node) /\ k \in 1 .. Len(s) /\ k - 1 \in 0 .. Len(s) /\ k \in 0 .. Len(s)
        /\ LeftAt(s, k - 1) = m_prev[t] /\ RightAt(s, k - 1) = t
        /\ LeftAt(s, k) = t /\ RightAt(s, k) = m_next[t]
    BY <1>2, Neighbours
  <2> HIDE DEF k
  <2>2. after = 0 \/ after = 1
    OBVIOUS
  <2>3. after = 0 => a = k - 1
    BY <2>1
  <2>4. after = 1 => a = k
    BY <2>1
  <2> HIDE DEF a
  <2>5. a \in 0 .. Len(s) /\ left = LeftAt(s, a) /\ right = RightAt(s, a)
    BY <2>1, <2>2, <2>3, <2>4
  <2>6. IsSpliced(Forest!Spliced(s, a, c), s, a, c)
    BY <1>1, <2>1, <2>5, SplicedIs
  <2> QED BY <2>5, <2>6 DEF a, k
<1>3. CASE p # Null
  <2> DEFINE s == Kids[p]
             a == Forest!Position(s, t) - 1 + after
             u == Forest!Spliced(s, a, c)
  <2>1. /\ p \in Node /\ Forest!IsChild(t) /\ Forest!Parent(t) = p /\ t \in ToSet(s)
        /\ IsRun(m_next, s) /\ m_prev[s[1]] = Null
    BY <1>3, StandsIn
  <2>2. /\ a \in 0 .. Len(s) /\ left = LeftAt(s, a) /\ right = RightAt(s, a)
        /\ IsSpliced(u, s, a, c)
    BY <1>2, <2>1
  <2>3. Kids' = [Kids EXCEPT ![p] = u] /\ Chains' = Chains \ {c}
    <3>1. KidsBecome(p, u) /\ Chains' = Chains \ {c}
      <4> DEFINE C == ToSet(Chain(n))
      <4>1. /\ Insertable(left, right, p, first_of(n), last_of(n), C)
            /\ Inserted(left, right, p, first_of(n), last_of(n))
        OBVIOUS
      <4> HIDE DEF u, a, p, c, C
      <4>2. /\ a \in 0 .. Len(Kids[p]) /\ left = LeftAt(Kids[p], a) /\ right = RightAt(Kids[p], a)
            /\ IsSpliced(u, Kids[p], a, c) /\ c = FromOn(first_of(n)) /\ p \in Node
        BY <1>1, <2>1, <2>2
      <4> QED BY ONLY HInv, HInv', <4>1, <4>2, InsertedUnder
    <3> QED BY <3>1 DEF KidsBecome
  <2> QED BY <2>1, <2>3 DEF Forest!InsertBeside
<1>4. CASE p = Null
  <2> DEFINE s == Chain(t)
             a == Forest!Position(s, t) - 1 + after
             u == Forest!Spliced(s, a, c)
  <2>1. /\ ~ Forest!IsChild(t) /\ Forest!ChainOf(t) = s /\ s \in Chains /\ t \in ToSet(s)
        /\ IsRun(m_next, s) /\ m_prev[s[1]] = Null
    BY <1>4, StandsIn
  <2>2. /\ a \in 0 .. Len(s) /\ left = LeftAt(s, a) /\ right = RightAt(s, a)
        /\ IsSpliced(u, s, a, c)
    BY <1>2, <2>1
  <2>3. ToSet(s) \cap ToSet(c) = {}
    <3>1. ASSUME NEW x \in ToSet(s), x \in ToSet(c) PROVE FALSE
      <4>1. Chain(x) = s /\ Chain(x) = c
        BY <1>1, <2>1, <3>1, ChainsHold
      <4> QED BY <1>1, <2>1, <4>1
    <3> QED BY <3>1
  <2>4. Kids' = Kids /\ Chains' = (Chains \ {c, s}) \cup {u}
    <3> HIDE DEF u, a
    <3> QED BY <1>1, <1>4, <2>1, <2>2, <2>3, InsertedBesideRoot
  <2> QED BY <2>1, <2>4 DEF Forest!InsertBeside
<1> QED BY <1>3, <1>4

LEMMA InsertsBefore ==
    ASSUME HInv, HInv', NEW t \in Node, NEW n \in Node, insert_before(t, n)
    PROVE  Forest!InsertBeside(t, Chain(n), 0)
<1>1. MayInsert(n, t) /\ Inserted(m_prev[t], t, m_parent[t], first_of(n), last_of(n))
  BY DEF insert_before
<1> QED BY <1>1, InsertsBeside, InsertsAt

LEMMA InsertsAfter ==
    ASSUME HInv, HInv', NEW t \in Node, NEW n \in Node, insert_after(t, n)
    PROVE  Forest!InsertBeside(t, Chain(n), 1)
<1>1. MayInsert(n, t) /\ Inserted(t, m_next[t], m_parent[t], first_of(n), last_of(n))
  BY DEF insert_after
<1> QED BY <1>1, InsertsBeside, InsertsAt

-----------------------------------------------------------------------------
\* A run from a first sibling on is the chain of all its nodes.
LEMMA RunIsChain ==
    ASSUME HInv, NEW s, IsRun(m_next, s), m_prev[s[1]] = Null, NEW y \in ToSet(s)
    PROVE  Chain(y) = s /\ y \in Node
<1>1. m_next \in Links /\ Acyclic(m_next)
  BY DEF HInv, HTypeOK, WaysEnd
<1>2. s[1] \in Node /\ Along(m_next, s[1]) = s
  BY <1>1, RunIsAlong
<1>3. first_of(s[1]) = s[1]
  BY <1>2, ChainHolds
<1>4. Chain(s[1]) = s
  BY <1>2, <1>3 DEF Chain, FromOn
<1>5. y \in ToSet(Chain(s[1]))
  BY <1>4
<1> QED BY <1>2, <1>4, <1>5, ChainOfMember, ChainHolds

\* The chain of n and the links beside n.
LEMMA BesideIn ==
    ASSUME HInv, NEW n \in Node
    PROVE  /\ IsRun(m_next, Chain(n)) /\ m_prev[Chain(n)[1]] = Null
           /\ n \in ToSet(Chain(n)) /\ ToSet(Chain(n)) \subseteq Node
           /\ m_next[n] # Null => m_next[n] \in ToSet(Chain(n))
           /\ m_prev[n] # Null => m_prev[n] \in ToSet(Chain(n))
           /\ m_next[n] # n /\ m_prev[n] # n
           /\ \A y \in ToSet(Chain(n)) : /\ m_prev[y] = Null => y = Chain(n)[1]
                                         /\ m_parent[y] = m_parent[n]
<1>1. m_next[n] # n /\ m_prev[n] # n
  <2>1. Acyclic(m_next) /\ Acyclic(m_prev)
    BY DEF HInv, WaysEnd
  <2>2. {n} \in SUBSET Node /\ {n} # {}
    OBVIOUS
  <2> QED BY <2>1, <2>2 DEF Acyclic
<1> QED BY <1>1, ChainHolds, ChainIsRun

\* What extract does to the links.
LEMMA ExtractLinks ==
    ASSUME HInv, NEW n \in Node, extract(n), NEW x \in Node
    PROVE  /\ m_parent'[x] = IF x = n THEN Null ELSE m_parent[x]
           /\ m_next'[x] = IF x = m_prev[n] THEN m_next[n] ELSE IF x = n THEN Null ELSE m_next[x]
           /\ m_prev'[x] = IF x = m_next[n] THEN m_prev[n] ELSE IF x = n THEN Null ELSE m_prev[x]
           /\ m_first_child'[x] = IF m_parent[n] # Null /\ n = m_first_child[m_parent[n]]
                                     /\ x = m_parent[n] THEN m_next[n]
                                  ELSE m_first_child[x]
<1>1. Extractable(n, n, {n}) /\ Extracted(n, n)
  BY ExtractsOne DEF extract
<1>2. x \in {n} <=> x = n
  OBVIOUS
<1> QED BY <1>1, <1>2, ExtractedLinks

\* A run away from what is extracted stays one.
LEMMA KeptByExtraction ==
    ASSUME HInv, HInv', NEW n \in Node, extract(n),
           NEW t, IsRun(m_next, t), ToSet(t) \cap ToSet(Chain(n)) = {}
    PROVE  IsRun(m_next', t)
<1>1. t \in Seq(Node) /\ DOMAIN t = 1 .. Len(t)
  BY LenProperties DEF IsRun
<1>2. m_next \in Links /\ m_next' \in Links
  BY DEF HInv, HTypeOK
<1>3. ASSUME NEW x \in ToSet(t) PROVE m_next'[x] = m_next[x]
  <2>1. x \in Node /\ x # Null
    BY <1>1, HierarchyAssumption DEF ToSet
  <2>2. x # n /\ x # m_prev[n]
    BY <2>1, BesideIn
  <2> QED BY <2>1, <2>2, ExtractLinks
<1> DEFINE N == m_next'
<1>4. N \in Links /\ \A x \in ToSet(t) : N[x] = m_next[x]
  BY <1>2, <1>3
<1> HIDE DEF N
<1>5. IsRun(N, t)
  BY <1>2, <1>4, RunUnchanged
<1> QED BY <1>5 DEF N

\* The node that is extracted is a run of its own, and so is what it leaves.
LEMMA CutByExtraction ==
    ASSUME HInv, HInv', NEW n \in Node, extract(n)
    PROVE  LET s == Chain(n)
               u == Forest!Without(s, n)
           IN  /\ IsRun(m_next', <<n>>)
               /\ u = <<>> <=> m_prev[n] = Null /\ m_next[n] = Null
               /\ u # <<>> => /\ IsRun(m_next', u)
                              /\ u[1] = IF m_prev[n] = Null THEN m_next[n] ELSE s[1]
<1> DEFINE s == Chain(n)
           u == Forest!Without(s, n)
           k == Forest!Position(s, n)
           N == m_next'
<1>1. m_next \in Links /\ Acyclic(m_next) /\ N \in Links
  BY DEF HInv, HTypeOK, WaysEnd
<1>2. IsRun(m_next, s) /\ m_prev[s[1]] = Null /\ n \in ToSet(s) /\ m_prev[n] # n
  BY BesideIn
<1> HIDE DEF s
<1>3. /\ s \in Seq(Node) /\ k \in DOMAIN s /\ s[k] = n /\ k \in 1 .. Len(s)
      /\ LeftAt(s, k - 1) = m_prev[n] /\ RightAt(s, k) = m_next[n]
  BY <1>2, Neighbours
<1>4. IsWithout(u, s, k)
  BY <1>3, WithoutIs
<1>5. \A x \in Node : N[x] = IF x = m_prev[n] THEN m_next[n] ELSE IF x = n THEN Null ELSE m_next[x]
  BY ExtractLinks
<1> HIDE DEF u, k, N
<1>6. Len(s) \in Nat /\ DOMAIN s = 1 .. Len(s) /\ \A i \in 1 .. Len(s) : s[i] \in Node
  BY <1>3
<1>7. m_prev[n] = IF k = 1 THEN Null ELSE s[k - 1]
  <2>1. k - 1 = 0 <=> k = 1
    BY ONLY <1>3, <1>6
  <2> QED BY <1>3, <2>1 DEF LeftAt
<1>8. m_next[n] = IF k = Len(s) THEN Null ELSE s[k + 1]
  BY <1>3 DEF RightAt
<1>9. m_prev[n] = Null <=> k = 1
  <2>1. ASSUME k # 1 PROVE s[k - 1] \in Node
    <3>1. k - 1 \in 1 .. Len(s)
      BY ONLY <1>3, <1>6, <2>1
    <3> QED BY <1>6, <3>1
  <2> QED BY <1>7, <2>1, HierarchyAssumption
<1>10. m_next[n] = Null <=> k = Len(s)
  <2>1. ASSUME k # Len(s) PROVE s[k + 1] \in Node
    <3>1. k + 1 \in 1 .. Len(s)
      BY ONLY <1>3, <1>6, <2>1
    <3> QED BY <1>6, <3>1
  <2> QED BY <1>8, <2>1, HierarchyAssumption
<1>11. u = <<>> \/ IsRun(N, u)
  <2>1. \A x \in Node : N[x] = IF x = m_prev[n] THEN m_next[n] ELSE IF x = s[k] THEN Null ELSE m_next[x]
    BY <1>3, <1>5
  <2> QED BY <1>1, <1>2, <1>3, <1>4, <1>7, <1>8, <2>1, CutRun
<1>12. u \in Seq(Node) /\ Len(u) = Len(s) - 1
  BY <1>4 DEF IsWithout
<1>13. u = <<>> <=> k = 1 /\ k = Len(s)
  <2>1. u = <<>> <=> Len(u) = 0
    BY <1>12, EmptySeq
  <2>2. Len(u) = 0 <=> Len(s) = 1
    BY ONLY <1>6, <1>12
  <2>3. Len(s) = 1 <=> k = 1 /\ k = Len(s)
    BY ONLY <1>3, <1>6
  <2> QED BY <2>1, <2>2, <2>3
<1>14. ASSUME u # <<>> PROVE u[1] = IF m_prev[n] = Null THEN m_next[n] ELSE s[1]
  <2>1. 1 \in 1 .. Len(s) - 1
    <3>1. Len(u) # 0
      BY <1>12, <1>14, EmptySeq
    <3> QED BY ONLY <1>6, <1>12, <3>1
  <2>2. u[1] = IF 1 < k THEN s[1] ELSE s[1 + 1]
    BY <1>4, <2>1 DEF IsWithout
  <2>3. CASE k = 1
    <3>1. k # Len(s)
      BY <1>13, <1>14, <2>3
    <3>2. m_next[n] = s[1 + 1]
      BY <1>8, <2>3, <3>1
    <3> QED BY <1>9, <2>2, <2>3, <3>2
  <2>4. CASE k # 1
    <3>1. 1 < k
      BY ONLY <1>3, <1>6, <2>4
    <3> QED BY <1>9, <2>2, <2>4, <3>1
  <2> QED BY <2>3, <2>4
<1>15. IsRun(N, <<n>>)
  BY <1>1, <1>2, <1>5, RunOfOne
<1> QED BY <1>9, <1>10, <1>11, <1>13, <1>14, <1>15 DEF u, N, s

\* A sequence without a parent is left alone when a node outside it is extracted.
LEMMA ChainKept ==
    ASSUME HInv, HInv', NEW n \in Node, extract(n),
           NEW t \in Chains, ToSet(t) \cap ToSet(Chain(n)) = {}
    PROVE  t \in Chains'
<1> DEFINE N == m_next'
           V == m_prev'
           P == m_parent'
<1>1. N \in Links /\ Acyclic(N) /\ m_next \in Links /\ Acyclic(m_next)
  BY DEF HInv, HTypeOK, WaysEnd
<1>2. IsRun(m_next, t) /\ m_parent[t[1]] = Null /\ m_prev[t[1]] = Null
  BY <1>1, ChainsOfAre, OfTheState
<1>3. t[1] \in ToSet(t) /\ t[1] \in Node
  <2>1. t \in Seq(Node) /\ 1 \in DOMAIN t
    BY <1>2, EmptySeq, LenProperties DEF IsRun
  <2> QED BY <2>1 DEF ToSet
<1>4. t[1] # n /\ t[1] # m_next[n]
  BY <1>3, HierarchyAssumption, BesideIn
<1>5. IsRun(N, t)
  BY <1>2, KeptByExtraction
<1>6. P[t[1]] = Null /\ V[t[1]] = Null
  BY <1>2, <1>3, <1>4, ExtractLinks
<1>7. Chains' = ChainsOf(N, V, P)
  BY OfTheState
<1> HIDE DEF N, V, P
<1> QED BY <1>1, <1>5, <1>6, <1>7, ChainsOfAre

\* A sequence without a parent after the extraction: the node itself, one it did not stand
\* in, or the rest of its own.
LEMMA ChainLeft ==
    ASSUME HInv, HInv', NEW n \in Node, extract(n), NEW t, t \in Chains', t # <<n>>
    PROVE  \/ t \in Chains /\ t # Chain(n)
           \/ m_parent[n] = Null /\ t = Forest!Without(Chain(n), n)
<1> DEFINE N == m_next'
           V == m_prev'
           P == m_parent'
           x == t[1]
           s == Chain(n)
           u == Forest!Without(s, n)
<1>1. N \in Links /\ Acyclic(N) /\ m_next \in Links /\ Acyclic(m_next)
  BY DEF HInv, HTypeOK, WaysEnd
<1>2. IsRun(N, t) /\ P[x] = Null /\ V[x] = Null /\ x \in Node
  <2>1. Chains' = ChainsOf(N, V, P)
    BY OfTheState
  <2> HIDE DEF N, V, P
  <2> QED BY <1>1, <2>1, ChainsOfAre, RunIsAlong
<1>3. /\ IsRun(N, <<n>>)
      /\ u = <<>> <=> m_prev[n] = Null /\ m_next[n] = Null
      /\ u # <<>> => IsRun(N, u) /\ u[1] = IF m_prev[n] = Null THEN m_next[n] ELSE s[1]
  BY CutByExtraction
<1>4. x # n
  <2>1. <<n>>[1] = n
    OBVIOUS
  <2> HIDE DEF N
  <2>2. x = n => t = <<n>>
    BY <1>1, <1>2, <1>3, <2>1, RunUnique
  <2> QED BY <2>2
<1>5. m_parent[x] = Null /\ V[x] = IF x = m_next[n] THEN m_prev[n] ELSE m_prev[x]
  BY <1>2, <1>4, ExtractLinks
<1>6. CASE x \in ToSet(s)
  <2>1. m_parent[n] = Null
    BY <1>5, <1>6, BesideIn
  <2>2. u # <<>> /\ u[1] = x
    <3>1. CASE x = m_next[n]
      BY <1>2, <1>3, <1>5, <3>1, HierarchyAssumption
    <3>2. CASE x # m_next[n]
      <4>1. x = s[1]
        BY <1>2, <1>5, <1>6, <3>2, BesideIn
      <4>2. m_prev[n] # Null
        BY <1>4, <4>1, BesideIn
      <4> QED BY <1>3, <4>1, <4>2
    <3> QED BY <3>1, <3>2
  <2>3. t = u
    <3> HIDE DEF N, u
    <3> QED BY <1>1, <1>2, <1>3, <2>2, RunUnique
  <2> QED BY <2>1, <2>3
<1>7. CASE x \notin ToSet(s)
  <2> DEFINE r == Along(m_next, x)
  <2>1. m_prev[x] = Null
    BY <1>2, <1>5, <1>7, HierarchyAssumption, BesideIn
  <2>2. IsRun(m_next, r) /\ r[1] = x
    BY <1>1, <1>2, AlongIsRun
  <2>3. r \in Chains
    BY <1>1, <1>5, <2>1, <2>2, ChainsOfAre, OfTheState
  <2> HIDE DEF r
  <2>4. x \in ToSet(r)
    <3>1. r \in Seq(Node) /\ 1 \in DOMAIN r
      BY <2>2, EmptySeq, LenProperties DEF IsRun
    <3> QED BY <2>2, <3>1 DEF ToSet
  <2>5. ToSet(r) \cap ToSet(s) = {}
    <3>1. ASSUME NEW y \in ToSet(r), y \in ToSet(s) PROVE FALSE
      <4>1. Chain(y) = s
        BY <3>1, BesideIn, RunIsChain
      <4>2. Chain(y) = r
        BY <2>1, <2>2, <3>1, RunIsChain
      <4> QED BY <1>7, <2>4, <4>1, <4>2
    <3> QED BY <3>1
  <2>6. IsRun(N, r)
    BY <2>2, <2>5, KeptByExtraction
  <2>7. r = t
    <3> HIDE DEF N
    <3> QED BY <1>1, <1>2, <2>2, <2>6, RunUnique
  <2> QED BY <1>7, <2>3, <2>4, <2>7
<1> QED BY <1>6, <1>7

\* The extracted node becomes a sequence of its own.
LEMMA OneIsChain ==
    ASSUME HInv, HInv', NEW n \in Node, extract(n)
    PROVE  <<n>> \in Chains'
<1> DEFINE N == m_next'
           V == m_prev'
           P == m_parent'
<1>1. N \in Links /\ Acyclic(N)
  BY DEF HInv, HTypeOK, WaysEnd
<1>2. IsRun(N, <<n>>) /\ <<n>>[1] = n
  BY CutByExtraction
<1>3. P[n] = Null /\ V[n] = Null
  BY BesideIn, ExtractLinks
<1>4. Chains' = ChainsOf(N, V, P)
  BY OfTheState
<1> HIDE DEF N, V, P
<1> QED BY <1>1, <1>2, <1>3, <1>4, ChainsOfAre

\* The children of the others stay what they are.
LEMMA KidsKept ==
    ASSUME HInv, HInv', NEW n \in Node, extract(n), NEW q \in Node, q # m_parent[n]
    PROVE  KidsOf(m_next', m_first_child')[q] = Kids[q]
<1> DEFINE N == m_next'
           F == m_first_child'
           t == Kids[q]
<1>1. N \in Links /\ Acyclic(N) /\ F \in Links
  BY DEF HInv, HTypeOK, WaysEnd
<1>2. F[q] = m_first_child[q]
  BY ExtractLinks
<1>3. /\ m_first_child[q] = Null => t = <<>>
      /\ m_first_child[q] # Null => IsRun(m_next, t) /\ t[1] = m_first_child[q]
      /\ ToSet(t) = {m \in Node : m_parent[m] = q}
  BY KidsHold
<1>4. ToSet(t) \cap ToSet(Chain(n)) = {}
  BY <1>3, BesideIn
<1>5. m_first_child[q] # Null => IsRun(N, t)
  BY <1>3, <1>4, KeptByExtraction
<1>6. \/ F[q] = Null /\ t = <<>>
      \/ F[q] # Null /\ IsRun(N, t) /\ t[1] = F[q]
  BY <1>2, <1>3, <1>5
<1> HIDE DEF N, F, t
<1>7. KidsOf(N, F)[q] = t
  BY <1>1, <1>6, KidsOfAre
<1> QED BY <1>7 DEF N, F, t

LEMMA ExtractsChild ==
    ASSUME HInv, HInv', NEW n \in Node, extract(n), m_parent[n] # Null
    PROVE  Forest!Extract(n)
<1> DEFINE N == m_next'
           V == m_prev'
           P == m_parent'
           F == m_first_child'
           p == m_parent[n]
           s == Chain(n)
           u == Forest!Without(s, n)
<1>1. N \in Links /\ Acyclic(N) /\ F \in Links
  BY DEF HInv, HTypeOK, WaysEnd
<1>2. p \in Node /\ Forest!IsChild(n) /\ Forest!Parent(n) = p /\ Kids[p] = s
  BY StandsIn, RunIsChain
<1>3. /\ IsRun(N, <<n>>)
      /\ u = <<>> <=> m_prev[n] = Null /\ m_next[n] = Null
      /\ u # <<>> => IsRun(N, u) /\ u[1] = IF m_prev[n] = Null THEN m_next[n] ELSE s[1]
  BY CutByExtraction
<1>4. /\ m_first_child[p] # Null /\ s[1] = m_first_child[p]
      /\ m_prev[n] = Null <=> m_first_child[p] = n
  <2>1. m_first_child[p] = first_of(n)
    BY DEF first_of
  <2> QED BY <2>1, ChainIsRun, EndsOfSiblings, HierarchyAssumption DEF HInv, SiblingsAgree
<1>5. F[p] = IF n = m_first_child[p] THEN m_next[n] ELSE m_first_child[p]
  BY <1>2, ExtractLinks
<1>6. Kids' = [Kids EXCEPT ![p] = u]
  <2>1. \/ F[p] = Null /\ u = <<>>
        \/ F[p] # Null /\ IsRun(N, u) /\ u[1] = F[p]
    <3>1. CASE u = <<>>
      BY <1>3, <1>4, <1>5, <3>1
    <3>2. CASE u # <<>>
      BY <1>3, <1>4, <1>5, <3>2
    <3> QED BY <3>1, <3>2
  <2>2. KidsOf(N, F)[p] = u
    <3> HIDE DEF N, F, u, p
    <3> QED BY <1>1, <1>2, <2>1, KidsOfAre
  <2>3. \A q \in Node : q # p => KidsOf(N, F)[q] = Kids[q]
    BY KidsKept
  <2>4. Kids' = KidsOf(N, F) /\ KidsOf(N, F) = [q \in Node |-> KidsOf(N, F)[q]]
        /\ Kids = [q \in Node |-> Kids[q]]
    BY OfTheState DEF KidsOf
  <2> HIDE DEF N, F, u, p
  <2> QED BY <1>2, <2>2, <2>3, <2>4
<1>7. ASSUME NEW t \in Chains PROVE t \in Chains'
  <2>1. ToSet(t) \cap ToSet(s) = {}
    BY BesideIn, ChainsHold
  <2> QED BY <2>1, ChainKept
<1>8. <<n>> \in Chains'
  BY <1>3, OneIsChain
<1>9. Chains' = Chains \cup {<<n>>}
  BY <1>7, <1>8, ChainLeft
<1> QED BY <1>2, <1>6, <1>9 DEF Forest!Extract

LEMMA ExtractsRoot ==
    ASSUME HInv, HInv', NEW n \in Node, extract(n), m_parent[n] = Null
    PROVE  Forest!Extract(n)
<1> DEFINE N == m_next'
           V == m_prev'
           P == m_parent'
           F == m_first_child'
           s == Chain(n)
           u == Forest!Without(s, n)
<1>1. N \in Links /\ Acyclic(N) /\ F \in Links
  BY DEF HInv, HTypeOK, WaysEnd
<1>2. /\ ~ Forest!IsChild(n) /\ Forest!ChainOf(n) = s /\ s \in Chains
      /\ n \in ToSet(s) /\ m_prev[s[1]] = Null
  BY StandsIn
<1>3. /\ u = <<>> <=> m_prev[n] = Null /\ m_next[n] = Null
      /\ u # <<>> => IsRun(N, u) /\ u[1] = IF m_prev[n] = Null THEN m_next[n] ELSE s[1]
  BY CutByExtraction
<1>4. Kids' = Kids
  <2>1. \A q \in Node : KidsOf(N, F)[q] = Kids[q]
    BY KidsKept, HierarchyAssumption
  <2>2. Kids' = KidsOf(N, F) /\ KidsOf(N, F) = [q \in Node |-> KidsOf(N, F)[q]]
        /\ Kids = [q \in Node |-> Kids[q]]
    BY OfTheState DEF KidsOf
  <2> HIDE DEF N, F
  <2> QED BY <2>1, <2>2
<1>5. ASSUME NEW t \in Chains, t # s PROVE t \in Chains'
  <2>1. ToSet(t) \cap ToSet(s) = {}
    BY <1>2, <1>5, ChainsHold
  <2> QED BY <2>1, ChainKept
<1>6. ASSUME u # <<>> PROVE u \in Chains'
  <2> DEFINE x == u[1]
  <2>1. IsRun(N, u)
    BY <1>3, <1>6
  <2>2. x \in Node
    <3> HIDE DEF N, u
    <3> QED BY <1>1, <2>1, RunIsAlong
  <2>3. x \in ToSet(s) /\ x # n
    <3>1. CASE m_prev[n] = Null
      BY <1>3, <1>6, <2>2, <3>1, BesideIn, HierarchyAssumption
    <3>2. CASE m_prev[n] # Null
      <4>1. s[1] \in ToSet(s)
        <5>1. IsRun(m_next, s)
          BY BesideIn
        <5>2. s \in Seq(Node) /\ 1 \in DOMAIN s
          BY <5>1, EmptySeq, LenProperties DEF IsRun
        <5> QED BY <5>2 DEF ToSet
      <4> QED BY <1>2, <1>3, <1>6, <3>2, <4>1
    <3> QED BY <3>1, <3>2
  <2>4. P[x] = Null
    BY <2>2, <2>3, BesideIn, ExtractLinks
  <2>5. V[x] = Null
    <3>1. V[x] = IF x = m_next[n] THEN m_prev[n] ELSE m_prev[x]
      BY <2>2, <2>3, ExtractLinks
    <3>2. CASE m_prev[n] = Null
      BY <1>3, <1>6, <3>1, <3>2
    <3>3. CASE m_prev[n] # Null
      <4>1. m_prev[x] = Null
        BY <1>2, <1>3, <1>6, <3>3
      <4>2. x # m_next[n]
        BY <2>2, <4>1, HierarchyAssumption DEF HInv, SiblingsAgree
      <4> QED BY <3>1, <4>1, <4>2
    <3> QED BY <3>2, <3>3
  <2>6. Chains' = ChainsOf(N, V, P)
    BY OfTheState
  <2> HIDE DEF N, V, P, u
  <2> QED BY <1>1, <2>1, <2>4, <2>5, <2>6, ChainsOfAre
<1>7. <<n>> \in Chains'
  BY OneIsChain
<1>8. <<>> \notin Chains' /\ <<n>> # <<>>
  <2>1. \A t \in Chains' : IsRun(N, t)
    <3>1. Chains' = ChainsOf(N, V, P)
      BY OfTheState
    <3> HIDE DEF N, V, P
    <3> QED BY <1>1, <3>1, ChainsOfAre
  <2> QED BY <2>1 DEF IsRun
<1>9. \A t \in Chains' : t = <<n>> \/ t = u \/ (t \in Chains /\ t # s)
  BY ChainLeft
<1>10. Chains' = ((Chains \ {s}) \cup {<<n>>, u}) \ {<<>>}
  <2>1. <<>> \notin Chains
    BY ChainsHold DEF IsRun
  <2> HIDE DEF u, s
  <2> QED BY <1>5, <1>6, <1>7, <1>8, <1>9, <2>1
<1> QED BY <1>2, <1>4, <1>10 DEF Forest!Extract

LEMMA ExtractsAll ==
    ASSUME HInv, HInv', NEW p \in Node, extract_children(p)
    PROVE  Forest!ExtractChildren(p)
<1> DEFINE V == m_prev'
           P == m_parent'
           F == m_first_child'
           f == m_first_child[p]
           s == Kids[p]
           R == ToSet(FromOn(f))
<1>1. m_next \in Links /\ Acyclic(m_next) /\ F \in Links
  BY DEF HInv, HTypeOK, WaysEnd
<1>2. f # Null /\ Extracted(f, m_last_child[p])
  BY DEF extract_children
<1>3. /\ f \in Node /\ Extractable(f, m_last_child[p], R)
      /\ R = {n \in Node : m_parent[n] = p}
      /\ m_prev[f] = Null /\ m_next[m_last_child[p]] = Null
  BY <1>2, ExtractsChildren
<1>4. m_parent[f] = p /\ p # Null
  BY <1>2, HierarchyAssumption DEF HInv, SiblingsAgree
<1>5. ASSUME NEW x \in Node
      PROVE  /\ P[x] = IF m_parent[x] = p THEN Null ELSE m_parent[x]
             /\ m_next'[x] = m_next[x] /\ V[x] = m_prev[x]
             /\ F[x] = IF x = p THEN Null ELSE m_first_child[x]
  <2>1. x # Null
    BY HierarchyAssumption
  <2> HIDE DEF R
  <2>2. x \in R <=> m_parent[x] = p
    BY <1>3
  <2> QED BY <1>2, <1>3, <1>4, <2>1, <2>2, ExtractedLinks
<1>6. m_next' = m_next
  <2>1. m_next' \in Links
    BY DEF HInv, HTypeOK
  <2> QED BY <1>1, <1>5, <2>1 DEF Links
<1>7. IsRun(m_next, s) /\ s[1] = f /\ s # <<>>
  BY <1>2, KidsHold DEF IsRun
<1>8. Kids' = [Kids EXCEPT ![p] = <<>>]
  <2>1. Kids' = KidsOf(m_next, F) /\ Kids = KidsOf(m_next, m_first_child)
    BY <1>6, OfTheState
  <2>2. KidsOf(m_next, F)[p] = <<>>
    BY <1>5 DEF KidsOf
  <2>3. ASSUME NEW q \in Node, q # p PROVE KidsOf(m_next, F)[q] = KidsOf(m_next, m_first_child)[q]
    BY <1>5, <2>3 DEF KidsOf
  <2>4. KidsOf(m_next, F) = [q \in Node |-> KidsOf(m_next, F)[q]]
        /\ Kids = [q \in Node |-> Kids[q]]
    BY OfTheState DEF KidsOf
  <2> HIDE DEF F
  <2> QED BY <2>1, <2>2, <2>3, <2>4
<1>9. Chains' = Chains \cup {s}
  <2>1. Chains' = ChainsOf(m_next, V, P) /\ Chains = ChainsOf(m_next, m_prev, m_parent)
    BY <1>6, OfTheState
  <2>2. ASSUME NEW t PROVE t \in Chains' <=> t \in Chains \/ t = s
    <3>1. t \in Chains' <=> IsRun(m_next, t) /\ P[t[1]] = Null /\ V[t[1]] = Null
      <4> HIDE DEF V, P
      <4> QED BY <1>1, <2>1, ChainsOfAre
    <3>2. t \in Chains <=> IsRun(m_next, t) /\ m_parent[t[1]] = Null /\ m_prev[t[1]] = Null
      BY <1>1, <2>1, ChainsOfAre
    <3>3. ASSUME t \in Chains PROVE t \in Chains'
      <4>1. t[1] \in Node
        BY <1>1, <3>2, <3>3, RunIsAlong
      <4> QED BY <1>5, <3>1, <3>2, <3>3, <4>1
    <3>4. s \in Chains'
      <4>1. P[f] = Null /\ V[f] = Null
        BY <1>3, <1>4, <1>5
      <4> HIDE DEF V, P, f, s
      <4> QED BY <1>1, <1>7, <2>1, <4>1, ChainsOfAre
    <3>5. ASSUME t \in Chains', t \notin Chains PROVE t = s
      <4>1. IsRun(m_next, t) /\ t[1] \in Node
        BY <1>1, <3>1, <3>5, RunIsAlong
      <4>2. m_prev[t[1]] = Null /\ m_parent[t[1]] = p
        BY <1>5, <3>1, <3>2, <3>5, <4>1
      <4>3. t[1] = f
        BY <1>4, <4>1, <4>2 DEF HInv, SiblingsAgree
      <4> QED BY <1>1, <1>7, <4>1, <4>3, RunUnique
    <3> QED BY <3>3, <3>4, <3>5
  <2> HIDE DEF s
  <2> QED BY <2>2
<1> QED BY <1>7, <1>8, <1>9 DEF Forest!ExtractChildren

\* The links start as a forest of single nodes.
LEMMA ForestInitially == HInit => Forest!Init
<1> SUFFICES ASSUME HInit PROVE Forest!Init
  OBVIOUS
<1>1. m_next \in Links /\ Acyclic(m_next)
  BY HInitially DEF HInv, HTypeOK, WaysEnd
<1>2. ASSUME NEW n \in Node PROVE FromOn(n) = <<n>>
  <2>1. IsRun(m_next, <<n>>) /\ <<n>>[1] = n
    BY <1>1, RunOfOne DEF HInit
  <2> QED BY <1>1, <2>1, RunIsAlong DEF FromOn
<1>3. Kids = [n \in Node |-> <<>>]
  BY DEF Kids, HInit
<1>4. Chains = {<<n>> : n \in Node}
  BY <1>2 DEF Chains, HInit
<1> QED BY <1>3, <1>4 DEF Forest!Init

\* Every operation on the links is an operation of the forest.
LEMMA ForestStep == HInv /\ HInv' /\ [HNext]_links => [Forest!Next]_<<Kids, Chains>>
<1> SUFFICES ASSUME HInv, HInv', [HNext]_links PROVE [Forest!Next]_<<Kids, Chains>>
  OBVIOUS
<1>1. ASSUME NEW t \in Node, NEW n \in Node, MayInsert(n, t) PROVE Chain(n) \in Chains
  BY <1>1, MovesChain
<1>2. ASSUME NEW p \in Node, NEW n \in Node,
             insert_first_child(p, n) \/ insert_last_child(p, n)
      PROVE  Forest!Next
  <2>1. Chain(n) \in Chains
    BY <1>1, <1>2 DEF insert_first_child, insert_last_child
  <2>2. Forest!InsertFirstChild(p, Chain(n)) \/ Forest!InsertLastChild(p, Chain(n))
    BY <1>2, InsertsFirstChild, InsertsLastChild
  <2> QED BY <2>1, <2>2 DEF Forest!Next
<1>3. ASSUME NEW t \in Node, NEW n \in Node, insert_before(t, n) \/ insert_after(t, n)
      PROVE  Forest!Next
  <2>1. Chain(n) \in Chains
    BY <1>1, <1>3 DEF insert_before, insert_after
  <2>2. PICK after \in 0 .. 1 : Forest!InsertBeside(t, Chain(n), after)
    BY <1>3, InsertsBefore, InsertsAfter
  <2> QED BY <2>1, <2>2 DEF Forest!Next
<1>4. ASSUME NEW n \in Node, extract(n) \/ extract_children(n) PROVE Forest!Next
  <2>1. Forest!Extract(n) \/ Forest!ExtractChildren(n)
    BY <1>4, ExtractsChild, ExtractsRoot, ExtractsAll
  <2> QED BY <2>1 DEF Forest!Next
<1>5. CASE UNCHANGED links
  <2>1. Kids' = Kids /\ Chains' = Chains
    BY <1>5, OfTheState DEF links
  <2> QED BY <2>1
<1> QED BY <1>2, <1>3, <1>4, <1>5 DEF HNext

\* And the one that its name says.
LEMMA StepsAsNamed == HInv /\ HInv' => AsNamed
<1> SUFFICES ASSUME HInv, HInv' PROVE AsNamed
  OBVIOUS
<1>1. ASSUME NEW p \in Node, NEW n \in Node
      PROVE  /\ insert_first_child(p, n) => Forest!InsertFirstChild(p, Chain(n))
             /\ insert_last_child(p, n) => Forest!InsertLastChild(p, Chain(n))
  BY InsertsFirstChild, InsertsLastChild
<1>2. ASSUME NEW t \in Node, NEW n \in Node
      PROVE  /\ insert_before(t, n) => Forest!InsertBeside(t, Chain(n), 0)
             /\ insert_after(t, n) => Forest!InsertBeside(t, Chain(n), 1)
  BY InsertsBefore, InsertsAfter
<1>3. ASSUME NEW n \in Node
      PROVE  /\ extract(n) => Forest!Extract(n)
             /\ extract_children(n) => Forest!ExtractChildren(n)
  BY ExtractsChild, ExtractsRoot, ExtractsAll
<1> QED BY <1>1, <1>2, <1>3 DEF AsNamed

\* The links implement the forest of ordered sequences: whatever is inserted and extracted,
\* each operation moves whole sequences to the place its name says and changes the order of
\* nothing else.
THEOREM HierarchyIsForest == HSpec => IsOrderedForest
<1>1. HInit => Forest!Init
  BY ForestInitially
<1>2. HInv /\ HInv' /\ [HNext]_links => [Forest!Next]_<<Kids, Chains>>
  BY ForestStep
<1>3. HInv /\ HInv' /\ [HNext]_links => [Forest!Next]_(Forest!vars)
  BY <1>2 DEF Forest!vars
<1>4. HInv /\ HInv' /\ [HNext]_links => [AsNamed]_links
  BY StepsAsNamed
<1> QED BY <1>1, <1>3, <1>4, LinksInvariant, PTL DEF HSpec, IsOrderedForest, Forest!Spec

-----------------------------------------------------------------------------
\* The walk of free_nodes.

\* No link leads into D or out of it.
ApartOf(parent, next, prev, first, last, D) ==
    \A x \in Node : /\ parent[x] # Null => (parent[x] \in D <=> x \in D)
                    /\ next[x] # Null => (next[x] \in D <=> x \in D)
                    /\ prev[x] # Null => (prev[x] \in D <=> x \in D)
                    /\ first[x] # Null => (first[x] \in D <=> x \in D)
                    /\ last[x] # Null => (last[x] \in D <=> x \in D)
Apart(D) == ApartOf(m_parent, m_next, m_prev, m_first_child, m_last_child, D)

\* What a node hangs under, and the sequence that stands in.
Top(x)  == EndOf(m_parent, x)
Home(x) == Chain(Top(x))

\* A sequence of nodes, each the parent of the next, does not come to its last node's child.
LEMMA DownNotBack ==
    ASSUME NEW link \in Links, Acyclic(link), NEW s \in Seq(Node), s # <<>>,
           \A i \in 1 .. Len(s) : link[s[i]] = IF i = 1 THEN Null ELSE s[i - 1],
           NEW f, link[f] = s[Len(s)]
    PROVE  f \notin ToSet(s)
<1> SUFFICES ASSUME f \in ToSet(s) PROVE FALSE
  OBVIOUS
<1>1. Len(s) \in Nat /\ DOMAIN s = 1 .. Len(s) /\ \A i \in 1 .. Len(s) : s[i] \in Node
  BY LenProperties
<1>2. PICK i \in 1 .. Len(s) : s[i] = f
  BY <1>1 DEF ToSet
<1> DEFINE S == {s[j] : j \in i .. Len(s)}
<1>3. i \in i .. Len(s) /\ Len(s) \in i .. Len(s) /\ \A j \in i .. Len(s) : j \in 1 .. Len(s)
  BY ONLY <1>1, i \in 1 .. Len(s)
<1>4. S \in SUBSET Node /\ S # {}
  BY <1>1, <1>3
<1>5. ASSUME NEW j \in i .. Len(s) PROVE link[s[j]] \in S
  <2>1. CASE j = i
    BY <1>2, <1>3, <2>1
  <2>2. CASE j # i
    <3>1. j # 1 /\ j - 1 \in i .. Len(s) /\ j \in 1 .. Len(s)
      BY ONLY <1>1, i \in 1 .. Len(s), j \in i .. Len(s), <2>2
    <3> QED BY <3>1
  <2> QED BY <2>1, <2>2
<1>6. \A x \in S : link[x] \in S
  BY <1>5
<1> HIDE DEF S
<1> QED BY <1>4, <1>6 DEF Acyclic

LEMMA TopIs ==
    ASSUME HInv, NEW x \in Node
    PROVE  /\ Top(x) \in Node /\ m_parent[Top(x)] = Null
           /\ Top(x) \in ToSet(Along(m_parent, x))
           /\ \A r \in ToSet(Along(m_parent, x)) : m_parent[r] = Null => r = Top(x)
           /\ m_parent[x] = Null => Top(x) = x
           /\ m_parent[x] # Null => Top(x) = Top(m_parent[x])
<1>1. m_parent \in Links /\ Acyclic(m_parent)
  BY DEF HInv, HTypeOK, WaysEnd
<1>2. /\ ToSet(Along(m_parent, x)) \subseteq Node
      /\ Top(x) \in ToSet(Along(m_parent, x)) /\ m_parent[Top(x)] = Null
      /\ \A r \in ToSet(Along(m_parent, x)) : m_parent[r] = Null => r = Top(x)
      /\ x \in ToSet(Along(m_parent, x))
  BY <1>1, AlongCloses DEF Top
<1>3. ASSUME m_parent[x] # Null PROVE Top(x) = Top(m_parent[x])
  <2>1. m_parent[x] \in Node
    BY <1>1, <1>3 DEF Links
  <2>2. ToSet(Along(m_parent, m_parent[x])) \subseteq ToSet(Along(m_parent, x))
    BY <1>1, <1>3, AlongFirst
  <2>3. /\ Top(m_parent[x]) \in ToSet(Along(m_parent, m_parent[x]))
        /\ m_parent[Top(m_parent[x])] = Null
    BY <1>1, <2>1, AlongCloses DEF Top
  <2> QED BY <1>2, <2>2, <2>3
<1> QED BY <1>2, <1>3

\* The relatives of a node have one home.
LEMMA HomeKept ==
    ASSUME HInv, NEW x \in Node, NEW y \in Node,
           y \in {m_parent[x], m_next[x], m_prev[x], m_first_child[x]}
    PROVE  Home(y) = Home(x)
<1>1. ASSUME NEW u \in Node, NEW p \in Node, m_parent[u] = p PROVE Home(u) = Home(p)
  BY <1>1, TopIs, HierarchyAssumption DEF Home
<1>2. ASSUME NEW u \in Node, NEW w \in ToSet(Chain(u)), w \in Node PROVE Home(u) = Home(w)
  <2>1. m_parent[w] = m_parent[u] /\ Chain(w) = Chain(u)
    BY <1>2, ChainHolds, ChainOfMember
  <2>2. CASE m_parent[u] = Null
    BY <1>2, <2>1, <2>2, TopIs DEF Home
  <2>3. CASE m_parent[u] # Null
    BY <1>2, <2>1, <2>3, TopIs DEF Home
  <2> QED BY <2>2, <2>3
<1>3. CASE y = m_parent[x]
  BY <1>1, <1>3
<1>4. CASE y = m_next[x] \/ y = m_prev[x]
  <2>1. y \in ToSet(Chain(x))
    BY <1>4, HierarchyAssumption, BesideIn
  <2> QED BY <1>2, <2>1
<1>5. CASE y = m_first_child[x]
  <2>1. m_parent[y] = x
    BY <1>5, HierarchyAssumption DEF HInv, SiblingsAgree
  <2> QED BY <1>1, <2>1
<1> QED BY <1>3, <1>4, <1>5

\* The nodes that hang together are those of one home.
LEMMA TreeIsHome ==
    ASSUME HInv, NEW n \in Node
    PROVE  /\ Tree(n) = {y \in Node : Home(y) = Home(n)}
           /\ root_of(n) \in Node /\ Home(root_of(n)) = Home(n)
           /\ m_parent[root_of(n)] = Null /\ m_prev[root_of(n)] = Null
<1> DEFINE t == Top(n)
           r == root_of(n)
<1>1. t \in Node /\ m_parent[t] = Null
  BY TopIs
<1>2. r = first_of(t) /\ r \in ToSet(Chain(t)) /\ r \in Node
      /\ m_parent[r] = Null /\ m_prev[r] = Null
  <2>1. r = EndOf(m_prev, t)
    BY DEF root_of, Top
  <2> HIDE DEF t, r
  <2> QED BY <1>1, <2>1, EndsOfSiblings, ChainHolds
<1>3. Chain(r) = Chain(t)
  BY <1>1, <1>2, ChainOfMember
<1>4. Top(r) = r
  BY <1>2, TopIs
<1>5. Home(r) = Home(n)
  BY <1>3, <1>4 DEF Home
<1>6. ASSUME NEW y \in Node PROVE y \in Tree(n) <=> Home(y) = Home(n)
  <2>1. y \in Tree(n) <=> \E q \in ToSet(Chain(r)) : q \in ToSet(Along(m_parent, y))
    BY DEF Tree, Subtree
  <2>2. Top(y) \in Node /\ m_parent[Top(y)] = Null
        /\ Top(y) \in ToSet(Along(m_parent, y))
        /\ \A q \in ToSet(Along(m_parent, y)) : m_parent[q] = Null => q = Top(y)
    BY TopIs
  <2>3. \A q \in ToSet(Chain(r)) : m_parent[q] = Null /\ q \in Node
    BY <1>2, ChainHolds
  <2>4. y \in Tree(n) <=> Top(y) \in ToSet(Chain(r))
    BY <2>1, <2>2, <2>3
  <2>5. Top(y) \in ToSet(Chain(r)) <=> Chain(Top(y)) = Chain(r)
    BY <1>2, <2>2, ChainHolds, ChainOfMember
  <2> QED BY <1>3, <2>4, <2>5 DEF Home
<1>7. Tree(n) \subseteq Node
  BY DEF Tree, Subtree
<1> QED BY <1>2, <1>5, <1>6, <1>7

LEMMA AlongApart ==
    ASSUME NEW link \in Links, Acyclic(link), NEW D,
           \A x \in Node : link[x] # Null => (link[x] \in D <=> x \in D),
           NEW n \in Node, NEW m \in ToSet(Along(link, n))
    PROVE  m \in D <=> n \in D
<1>1. CASE n \in D
  <2>1. ToSet(Along(link, n)) \subseteq D
    BY <1>1, AlongLeast
  <2> QED BY <1>1, <2>1
<1>2. CASE n \notin D
  <2> DEFINE S == Node \ D
  <2>1. n \in S /\ \A x \in S \cap Node : link[x] # Null => link[x] \in S
    BY <1>2 DEF Links
  <2> HIDE DEF S
  <2>2. ToSet(Along(link, n)) \subseteq S
    BY <2>1, AlongLeast
  <2> QED BY <1>2, <2>2 DEF S
<1> QED BY <1>1, <1>2

\* A set that no link leads into or out of has a chain as a whole, and a home.
LEMMA ApartKeeps ==
    ASSUME HInv, NEW D, Apart(D), NEW x \in Node
    PROVE  /\ \A y \in ToSet(Chain(x)) : y \in D <=> x \in D
           /\ \A y \in Node : Home(y) = Home(x) => (y \in D <=> x \in D)
<1>1. /\ m_next \in Links /\ Acyclic(m_next) /\ m_prev \in Links /\ Acyclic(m_prev)
      /\ m_parent \in Links /\ Acyclic(m_parent)
  BY DEF HInv, HTypeOK, WaysEnd
<1>2. \A u \in Node : /\ m_parent[u] # Null => (m_parent[u] \in D <=> u \in D)
                      /\ m_next[u] # Null => (m_next[u] \in D <=> u \in D)
                      /\ m_prev[u] # Null => (m_prev[u] \in D <=> u \in D)
  BY DEF Apart, ApartOf
<1>3. ASSUME NEW u \in Node, NEW y \in ToSet(Chain(u)) PROVE y \in D <=> u \in D
  <2>1. first_of(u) = EndOf(m_prev, u) /\ first_of(u) \in Node
    BY EndsOfSiblings
  <2>2. first_of(u) \in ToSet(Along(m_prev, u))
    BY <1>1, <2>1, AlongCloses
  <2>3. first_of(u) \in D <=> u \in D
    BY <1>1, <1>2, <2>2, AlongApart
  <2>4. y \in ToSet(Along(m_next, first_of(u)))
    BY DEF Chain, FromOn
  <2>5. y \in D <=> first_of(u) \in D
    BY <1>1, <1>2, <2>1, <2>4, AlongApart
  <2> QED BY <2>3, <2>5
<1>4. ASSUME NEW u \in Node PROVE Top(u) \in Node /\ (Top(u) \in D <=> u \in D)
  BY <1>1, <1>2, TopIs, AlongApart
<1>5. ASSUME NEW y \in Node, Home(y) = Home(x) PROVE y \in D <=> x \in D
  <2>1. Top(y) \in ToSet(Chain(Top(y)))
    BY <1>4, ChainHolds
  <2>2. Top(y) \in ToSet(Chain(Top(x)))
    BY <1>5, <2>1 DEF Home
  <2>3. Top(y) \in D <=> Top(x) \in D
    BY <1>3, <1>4, <2>2
  <2> QED BY <1>4, <2>3
<1> QED BY <1>3, <1>5

\* Insertions and extractions of nodes outside D make no link into D.
LEMMA InsertedApart ==
    ASSUME HInv, NEW left, NEW right, NEW parent, NEW first, NEW last, NEW C,
           Insertable(left, right, parent, first, last, C),
           Inserted(left, right, parent, first, last),
           NEW D, D \subseteq Node, Apart(D), C \cap D = {}, {left, right, parent} \cap D = {}
    PROVE  ApartOf(m_parent', m_next', m_prev', m_first_child', m_last_child', D)
<1>1. first \in C /\ last \in C /\ first \notin D /\ last \notin D
  BY DEF Insertable
<1>2. ASSUME NEW x \in Node
      PROVE  /\ m_parent'[x] # Null => (m_parent'[x] \in D <=> x \in D)
             /\ m_next'[x] # Null => (m_next'[x] \in D <=> x \in D)
             /\ m_prev'[x] # Null => (m_prev'[x] \in D <=> x \in D)
             /\ m_first_child'[x] # Null => (m_first_child'[x] \in D <=> x \in D)
             /\ m_last_child'[x] # Null => (m_last_child'[x] \in D <=> x \in D)
  <2>1. /\ m_parent'[x] = IF parent # Null /\ x \in C THEN parent ELSE m_parent[x]
        /\ m_next'[x] = IF x = left THEN first ELSE IF right # Null /\ x = last THEN right ELSE m_next[x]
        /\ m_prev'[x] = IF x = right THEN last ELSE IF left # Null /\ x = first THEN left ELSE m_prev[x]
        /\ m_first_child'[x] = IF left = Null /\ x = parent THEN first ELSE m_first_child[x]
        /\ m_last_child'[x] = IF right = Null /\ x = parent THEN last ELSE m_last_child[x]
    BY InsertedLinks
  <2>2. /\ m_parent[x] # Null => (m_parent[x] \in D <=> x \in D)
        /\ m_next[x] # Null => (m_next[x] \in D <=> x \in D)
        /\ m_prev[x] # Null => (m_prev[x] \in D <=> x \in D)
        /\ m_first_child[x] # Null => (m_first_child[x] \in D <=> x \in D)
        /\ m_last_child[x] # Null => (m_last_child[x] \in D <=> x \in D)
    BY DEF Apart, ApartOf
  <2>3. x \in C => x \notin D
    OBVIOUS
  <2> QED BY <1>1, <2>1, <2>2, <2>3
<1> QED BY <1>2 DEF ApartOf

LEMMA ExtractedApart ==
    ASSUME HInv, NEW left \in Node, NEW right \in Node, NEW R,
           Extractable(left, right, R), Extracted(left, right),
           NEW D, D \subseteq Node, Apart(D), left \notin D, right \notin D
    PROVE  ApartOf(m_parent', m_next', m_prev', m_first_child', m_last_child', D)
<1> DEFINE p == m_parent[left]
           before == m_prev[left]
           after == m_next[right]
<1>1. p \notin D /\ before \notin D /\ after \notin D
  BY HierarchyAssumption DEF Apart, ApartOf
<1>2. ASSUME NEW x \in Node
      PROVE  /\ m_parent'[x] # Null => (m_parent'[x] \in D <=> x \in D)
             /\ m_next'[x] # Null => (m_next'[x] \in D <=> x \in D)
             /\ m_prev'[x] # Null => (m_prev'[x] \in D <=> x \in D)
             /\ m_first_child'[x] # Null => (m_first_child'[x] \in D <=> x \in D)
             /\ m_last_child'[x] # Null => (m_last_child'[x] \in D <=> x \in D)
  <2>1. /\ m_parent'[x] = IF x \in R THEN Null ELSE m_parent[x]
        /\ m_next'[x] = IF x = before THEN after ELSE IF x = right THEN Null ELSE m_next[x]
        /\ m_prev'[x] = IF x = after THEN before ELSE IF x = left THEN Null ELSE m_prev[x]
        /\ m_first_child'[x] = IF p # Null /\ left = m_first_child[p] /\ x = p THEN after
                               ELSE m_first_child[x]
        /\ m_last_child'[x] = IF p # Null /\ right = m_last_child[p] /\ x = p THEN before
                              ELSE m_last_child[x]
    BY ExtractedLinks
  <2>2. /\ m_parent[x] # Null => (m_parent[x] \in D <=> x \in D)
        /\ m_next[x] # Null => (m_next[x] \in D <=> x \in D)
        /\ m_prev[x] # Null => (m_prev[x] \in D <=> x \in D)
        /\ m_first_child[x] # Null => (m_first_child[x] \in D <=> x \in D)
        /\ m_last_child[x] # Null => (m_last_child[x] \in D <=> x \in D)
    BY DEF Apart, ApartOf
  <2> HIDE DEF p, before, after
  <2> QED BY <1>1, <2>1, <2>2
<1> QED BY <1>2 DEF ApartOf

LEMMA MovedApart ==
    ASSUME HInv, NEW D, D \subseteq Node, Apart(D), NEW t \in Node \ D, NEW n \in Node \ D,
           \/ insert_first_child(t, n) \/ insert_last_child(t, n)
           \/ insert_before(t, n) \/ insert_after(t, n)
           \/ extract(n) \/ extract_children(n)
    PROVE  ApartOf(m_parent', m_next', m_prev', m_first_child', m_last_child', D)
<1> DEFINE C == ToSet(Chain(n))
           P == ApartOf(m_parent', m_next', m_prev', m_first_child', m_last_child', D)
<1>1. C \cap D = {}
  BY ApartKeeps
<1>2. Null \notin D
  BY HierarchyAssumption
<1>3. \A u \in Node \ D : {m_parent[u], m_next[u], m_prev[u], m_first_child[u], m_last_child[u]} \cap D = {}
  BY <1>2 DEF Apart, ApartOf
<1>4. CASE insert_first_child(t, n)
  <2>1. Insertable(Null, m_first_child[t], t, first_of(n), last_of(n), C)
        /\ Inserted(Null, m_first_child[t], t, first_of(n), last_of(n))
    BY <1>4, InsertsUnder DEF insert_first_child
  <2>2. {Null, m_first_child[t], t} \cap D = {}
    BY <1>2, <1>3
  <2> HIDE DEF C
  <2> QED BY <1>1, <2>1, <2>2, InsertedApart
<1>5. CASE insert_last_child(t, n)
  <2>1. Insertable(m_last_child[t], Null, t, first_of(n), last_of(n), C)
        /\ Inserted(m_last_child[t], Null, t, first_of(n), last_of(n))
    BY <1>5, InsertsUnder DEF insert_last_child
  <2>2. {m_last_child[t], Null, t} \cap D = {}
    BY <1>2, <1>3
  <2> HIDE DEF C
  <2> QED BY <1>1, <2>1, <2>2, InsertedApart
<1>6. CASE insert_before(t, n)
  <2>1. Insertable(m_prev[t], t, m_parent[t], first_of(n), last_of(n), C)
        /\ Inserted(m_prev[t], t, m_parent[t], first_of(n), last_of(n))
    BY <1>6, InsertsBeside DEF insert_before
  <2>2. {m_prev[t], t, m_parent[t]} \cap D = {}
    BY <1>3
  <2> HIDE DEF C
  <2> QED BY <1>1, <2>1, <2>2, InsertedApart
<1>7. CASE insert_after(t, n)
  <2>1. Insertable(t, m_next[t], m_parent[t], first_of(n), last_of(n), C)
        /\ Inserted(t, m_next[t], m_parent[t], first_of(n), last_of(n))
    BY <1>7, InsertsBeside DEF insert_after
  <2>2. {t, m_next[t], m_parent[t]} \cap D = {}
    BY <1>3
  <2> HIDE DEF C
  <2> QED BY <1>1, <2>1, <2>2, InsertedApart
<1>8. CASE extract(n)
  BY <1>8, ExtractsOne, ExtractedApart DEF extract
<1>9. CASE extract_children(n)
  <2> DEFINE f == m_first_child[n]
             l == m_last_child[n]
  <2>1. f # Null /\ Extracted(f, l)
    BY <1>9 DEF extract_children
  <2>2. f \in Node /\ Extractable(f, l, ToSet(FromOn(f))) /\ f \notin D /\ l \notin D
    BY <1>3, <2>1, ExtractsChildren
  <2>3. l \in Node
    BY <2>2 DEF Extractable
  <2> HIDE DEF f, l
  <2> QED BY <2>1, <2>2, <2>3, ExtractedApart
<1> QED BY <1>4, <1>5, <1>6, <1>7, <1>8, <1>9

\* Where a walk starts, and what it is to destroy.
StartsWell ==
    \A D \in SUBSET Node, n \in Node :
        Apart(D) /\ n \notin D =>
            LET r == root_of(n)
            IN  /\ r \in Tree(n) /\ Tree(n) \subseteq Node /\ Tree(n) \cap D = {}
                /\ m_parent[r] = Null /\ m_prev[r] = Null
                /\ Apart(D \cup Tree(n))
                /\ \A x \in Tree(n) : Home(x) = Home(r)

LEMMA WalkStarts == HInv => StartsWell
<1> SUFFICES ASSUME HInv, NEW D \in SUBSET Node, NEW n \in Node, Apart(D), n \notin D
             PROVE  LET r == root_of(n)
                    IN  /\ r \in Tree(n) /\ Tree(n) \subseteq Node /\ Tree(n) \cap D = {}
                        /\ m_parent[r] = Null /\ m_prev[r] = Null
                        /\ Apart(D \cup Tree(n))
                        /\ \A x \in Tree(n) : Home(x) = Home(r)
  BY DEF StartsWell
<1>1. /\ Tree(n) = {y \in Node : Home(y) = Home(n)}
      /\ root_of(n) \in Node /\ Home(root_of(n)) = Home(n)
      /\ m_parent[root_of(n)] = Null /\ m_prev[root_of(n)] = Null
  BY TreeIsHome
<1>2. Tree(n) \cap D = {}
  BY <1>1, ApartKeeps
<1>3. ASSUME NEW x \in Node, NEW y \in Node,
             y \in {m_parent[x], m_next[x], m_prev[x], m_first_child[x], m_last_child[x]}
      PROVE  Home(y) = Home(x)
  <2>1. CASE y \in {m_parent[x], m_next[x], m_prev[x], m_first_child[x]}
    BY <2>1, HomeKept
  <2>2. CASE y = m_last_child[x]
    <3>1. m_parent[y] = x
      BY <2>2, HierarchyAssumption DEF HInv, SiblingsAgree
    <3> QED BY <3>1, HomeKept
  <2> QED BY <1>3, <2>1, <2>2
<1>4. ASSUME NEW x \in Node, NEW y \in Node,
             y \in {m_parent[x], m_next[x], m_prev[x], m_first_child[x], m_last_child[x]}
      PROVE  y \in D \cup Tree(n) <=> x \in D \cup Tree(n)
  <2>1. y \in Tree(n) <=> x \in Tree(n)
    BY <1>1, <1>3, <1>4
  <2>2. y \in D <=> x \in D
    BY <1>4, HierarchyAssumption DEF Apart, ApartOf
  <2> QED BY <2>1, <2>2
<1>5. Apart(D \cup Tree(n))
  <2>1. \A x \in Node : {m_parent[x], m_next[x], m_prev[x], m_first_child[x], m_last_child[x]}
                            \subseteq Node \cup {Null}
    BY DEF HInv, HTypeOK, Links
  <2> DEFINE E == D \cup Tree(n)
  <2>2. \A x, y \in Node :
            y \in {m_parent[x], m_next[x], m_prev[x], m_first_child[x], m_last_child[x]}
                => (y \in E <=> x \in E)
    BY <1>4
  <2> HIDE DEF E
  <2>3. Apart(E)
    BY <2>1, <2>2 DEF Apart, ApartOf
  <2> QED BY <2>3 DEF E
<1> QED BY <1>1, <1>2, <1>5

LEMMA WalkStartsAfter == HInv' => StartsWell'
  BY WalkStarts, PTL

-----------------------------------------------------------------------------
\* What was destroyed has no previous sibling and no children left.
Settled == \A x \in freed : /\ m_prev[x] # Null => m_prev[x] \in freed
                            /\ \A c \in Node : m_parent[c] = x => c \in freed

\* During the walk: the stack leads down to current; what is destroyed lies to the left of
\* that path or under it, and is linked to no other node that is left than those of the
\* path; and whatever is left hangs together with current.
Walking ==
    /\ current \in doomed \ freed
    /\ ToSet(stack) \subseteq doomed \ freed
    /\ m_parent[current] = IF stack = <<>> THEN Null ELSE stack[Len(stack)]
    /\ \A i \in 1 .. Len(stack) : m_parent[stack[i]] = IF i = 1 THEN Null ELSE stack[i - 1]
    /\ \A y \in ToSet(stack) \cup {current} : m_prev[y] # Null => m_prev[y] \in freed
    /\ \A x \in freed :
           /\ m_next[x] # Null => m_next[x] \in freed \cup ToSet(stack) \cup {current}
           /\ m_parent[x] # Null => m_parent[x] \in freed \cup ToSet(stack)
                                                        \cup IF from_stack THEN {current} ELSE {}
    /\ from_stack => \A c \in Node : m_parent[c] = current => c \in freed
    /\ \A x \in doomed \ freed : Home(x) = Home(current)

WInv == /\ stack \in Seq(Node) /\ current \in Node \cup {Null} /\ from_stack \in BOOLEAN
        /\ freed \subseteq doomed /\ doomed \subseteq Node
        /\ Apart(doomed)
        /\ Settled
        /\ current = Null => freed = doomed
        /\ current # Null => Walking

LEMMA WalkInitially == FInit => WInv
<1> SUFFICES ASSUME FInit PROVE WInv
  OBVIOUS
<1>1. Apart({})
  BY DEF FInit, HInit, Apart, ApartOf
<1>2. <<>> \in Seq(Node) /\ FALSE \in BOOLEAN
  OBVIOUS
<1>3. Apart(doomed)
  BY <1>1 DEF FInit
<1> QED BY <1>2, <1>3 DEF FInit, WInv, Settled

\* The walk alone leaves homes as they are.
LEMMA SameLinks ==
    ASSUME UNCHANGED links
    PROVE  /\ \A x : Home(x)' = Home(x)
           /\ doomed' = doomed /\ Apart(doomed) => Apart(doomed)'
  BY DEF links, Home, Top, Chain, FromOn, first_of, EndOf, Apart

\* A walk starts on links that what was destroyed before is apart from.
LEMMA StartKeeps ==
    ASSUME HInv', freed \subseteq Node, freed = doomed,
           ApartOf(m_parent', m_next', m_prev', m_first_child', m_last_child', freed),
           NEW n \in Node, n \notin freed,
           current' = root_of(n)', from_stack' = FALSE, stack' = <<>>,
           doomed' = doomed \cup Tree(n)', UNCHANGED freed
    PROVE  WInv'
<1> DEFINE r == root_of(n)'
           T == Tree(n)'
<1>1. StartsWell'
  BY WalkStartsAfter
<1>2. /\ r \in T /\ T \subseteq Node /\ T \cap freed = {}
      /\ m_parent'[r] = Null /\ m_prev'[r] = Null
      /\ ApartOf(m_parent', m_next', m_prev', m_first_child', m_last_child', freed \cup T)
      /\ \A x \in T : Home(x)' = Home(current)'
  BY <1>1 DEF StartsWell, Apart
<1>3. Apart(doomed)'
  BY <1>2 DEF Apart
<1>4. Settled'
  BY HierarchyAssumption DEF ApartOf, Settled, HInv, HTypeOK, Links
<1>5. Walking'
  <2>1. current' \in doomed' \ freed' /\ stack' = <<>> /\ ToSet(stack') = {} /\ Len(stack') = 0
    BY <1>2 DEF ToSet
  <2>2. m_parent'[current'] = Null /\ m_prev'[current'] = Null
    BY <1>2
  <2>3. \A x \in freed' : /\ m_next'[x] # Null => m_next'[x] \in freed'
                          /\ m_parent'[x] # Null => m_parent'[x] \in freed'
    BY DEF ApartOf
  <2>4. \A x \in doomed' \ freed' : Home(x)' = Home(current)'
    BY <1>2
  <2>5. \A i \in 1 .. Len(stack') :
            m_parent'[stack'[i]] = IF i = 1 THEN Null ELSE stack'[i - 1]
    BY <2>1
  <2> QED BY <2>1, <2>2, <2>3, <2>4, <2>5 DEF Walking
<1>6. current' \in Node /\ current' # Null /\ doomed' \subseteq Node /\ freed' \subseteq doomed'
  BY <1>2, HierarchyAssumption
<1>7. stack' \in Seq(Node)
  <2>1. <<>> \in Seq(Node)
    OBVIOUS
  <2> QED BY ONLY stack' = <<>>, <2>1
<1>8. from_stack' \in BOOLEAN
  BY ONLY from_stack' = FALSE
<1> HIDE DEF r, T
<1> QED BY <1>3, <1>4, <1>5, <1>6, <1>7, <1>8 DEF WInv

\* Stopping nowhere: a node of the path has no child there but the next.
LEMMA PathApart ==
    ASSUME HInv, WInv, current # Null, NEW f, m_parent[f] = m_parent[current]
    PROVE  f \notin ToSet(stack)
<1>1. m_parent \in Links /\ Acyclic(m_parent) /\ stack \in Seq(Node)
  BY DEF HInv, HTypeOK, WaysEnd, WInv
<1>2. CASE stack = <<>>
  BY <1>2 DEF ToSet
<1>3. CASE stack # <<>>
  <2>1. /\ m_parent[f] = stack[Len(stack)]
        /\ \A i \in 1 .. Len(stack) : m_parent[stack[i]] = IF i = 1 THEN Null ELSE stack[i - 1]
    BY <1>3 DEF WInv, Walking
  <2> QED BY <1>1, <1>3, <2>1, DownNotBack
<1> QED BY <1>2, <1>3

LEMMA GoDeeperKeeps ==
    ASSUME HInv, WInv, GoDeeper
    PROVE  WInv'
<1> DEFINE y == current
           f == m_first_child[current]
<1>1. /\ y # Null /\ from_stack = FALSE /\ f # Null
      /\ stack' = Append(stack, y) /\ current' = f
      /\ UNCHANGED <<from_stack, freed, doomed, links>>
  BY DEF GoDeeper, WInv
<1>2. /\ stack \in Seq(Node) /\ y \in Node /\ Walking /\ Settled /\ Apart(doomed)
      /\ freed \subseteq doomed /\ doomed \subseteq Node
  BY <1>1 DEF WInv
<1>3. f \in Node /\ m_parent[f] = y /\ m_prev[f] = Null
  BY <1>1, <1>2, ExtractsChildren DEF HInv, SiblingsAgree
<1>4. y \notin ToSet(stack)
  BY <1>1, PathApart
<1>5. f \in doomed
  BY <1>1, <1>2 DEF Apart, ApartOf, Walking
<1>6. f \notin freed
  BY <1>1, <1>2, <1>3, <1>4, HierarchyAssumption DEF Walking
<1>7. Home(f) = Home(y)
  BY <1>2, <1>3, HomeKept
<1>8. /\ Len(stack) \in Nat /\ stack' \in Seq(Node) /\ Len(stack') = Len(stack) + 1
      /\ stack'[Len(stack) + 1] = y /\ \A i \in 1 .. Len(stack) : stack'[i] = stack[i]
      /\ stack' # <<>> /\ ToSet(stack') = ToSet(stack) \cup {y}
  <2> DEFINE s == Append(stack, y)
  <2>1. /\ s \in Seq(Node) /\ Len(s) = Len(stack) + 1 /\ s[Len(stack) + 1] = y
        /\ \A i \in 1 .. Len(stack) : s[i] = stack[i]
        /\ Len(stack) \in Nat /\ DOMAIN stack = 1 .. Len(stack)
    BY <1>2, AppendProperties, LenProperties
  <2> HIDE DEF s
  <2>2. DOMAIN s = 1 .. Len(stack) + 1 /\ s # <<>>
    BY <2>1, LenProperties, EmptySeq
  <2>3. \A i \in 1 .. Len(stack) + 1 : i \in 1 .. Len(stack) \/ i = Len(stack) + 1
    BY ONLY <2>1
  <2>4. \A i \in 1 .. Len(stack) : i \in 1 .. Len(stack) + 1
    BY ONLY <2>1
  <2>5. Len(stack) + 1 \in 1 .. Len(stack) + 1
    BY ONLY <2>1
  <2>6. ToSet(s) = ToSet(stack) \cup {y}
    BY <2>1, <2>2, <2>3, <2>4, <2>5 DEF ToSet
  <2> QED BY <1>1, <2>1, <2>2, <2>6 DEF s
<1>9. Walking'
  <2>1. \A i \in 1 .. Len(stack') : m_parent'[stack'[i]] = IF i = 1 THEN Null ELSE stack'[i - 1]
    <3> SUFFICES ASSUME NEW i \in 1 .. Len(stack')
                 PROVE  m_parent[stack'[i]] = IF i = 1 THEN Null ELSE stack'[i - 1]
      BY <1>1 DEF links
    <3>1. i \in 1 .. Len(stack) + 1 /\ Len(stack) \in Nat
      BY <1>8
    <3>2. CASE i \in 1 .. Len(stack)
      <4>1. stack'[i] = stack[i]
        BY <1>8, <3>2
      <4>2. i # 1 => i - 1 \in 1 .. Len(stack)
        BY ONLY <3>1, <3>2
      <4>3. i # 1 => stack'[i - 1] = stack[i - 1]
        BY <1>8, <4>2
      <4> QED BY <1>2, <3>2, <4>1, <4>3 DEF Walking
    <3>3. CASE i = Len(stack) + 1
      <4>1. stack'[i] = y
        BY <1>8, <3>3
      <4>2. stack = <<>> <=> i = 1
        <5>1. stack = <<>> <=> Len(stack) = 0
          BY <1>2, EmptySeq
        <5> QED BY ONLY <3>1, <3>3, <5>1
      <4>3. stack # <<>> => stack'[i - 1] = stack[Len(stack)]
        <5>1. i - 1 = Len(stack) /\ (i # 1 => Len(stack) \in 1 .. Len(stack))
          BY ONLY <3>1, <3>3
        <5> QED BY <1>8, <4>2, <5>1
      <4> QED BY <1>2, <4>1, <4>2, <4>3 DEF Walking
    <3> QED BY ONLY <3>1, <3>2, <3>3
  <2>2. m_parent'[current'] = IF stack' = <<>> THEN Null ELSE stack'[Len(stack')]
    BY <1>1, <1>3, <1>8 DEF links
  <2>3. current' \in doomed' \ freed' /\ ToSet(stack') \subseteq doomed' \ freed'
    BY <1>1, <1>2, <1>5, <1>6, <1>8 DEF Walking
  <2>4. \A z \in ToSet(stack') \cup {current'} : m_prev'[z] # Null => m_prev'[z] \in freed'
    BY <1>1, <1>2, <1>3, <1>8 DEF Walking, links
  <2>5. \A x \in freed' :
           /\ m_next'[x] # Null => m_next'[x] \in freed' \cup ToSet(stack') \cup {current'}
           /\ m_parent'[x] # Null => m_parent'[x] \in freed' \cup ToSet(stack')
                                                        \cup IF from_stack' THEN {current'} ELSE {}
    BY <1>1, <1>2, <1>8 DEF Walking, links
  <2>6. \A x \in doomed' \ freed' : Home(x)' = Home(current)'
    <3>1. Home(current)' = Home(f)
      BY <1>1, SameLinks DEF Home, Top
    <3> QED BY <1>1, <1>2, <1>7, <3>1, SameLinks DEF Walking
  <2> QED BY <1>1, <2>1, <2>2, <2>3, <2>4, <2>5, <2>6 DEF Walking
<1>10. Settled' /\ Apart(doomed)'
  BY <1>1, <1>2, SameLinks DEF Settled, links
<1> QED BY <1>1, <1>2, <1>3, <1>8, <1>9, <1>10, HierarchyAssumption DEF WInv

\* The last of its siblings is destroyed after all of them.
LEMMA SiblingsFreed ==
    ASSUME HInv, WInv, current # Null, m_next[current] = Null
    PROVE  ToSet(Chain(current)) \subseteq freed \cup {current}
<1> DEFINE y == current
           S == freed \cup {y}
           T == {x \in S : x \in Node /\ m_parent[x] = m_parent[y]}
<1>1. /\ m_next \in Links /\ Acyclic(m_next) /\ m_prev \in Links /\ Acyclic(m_prev)
  BY DEF HInv, HTypeOK, WaysEnd
<1>2. y \in Node /\ Walking /\ Settled /\ freed \subseteq Node
  BY DEF WInv
<1>3. \A x \in S \cap Node : m_prev[x] # Null => m_prev[x] \in S
  BY <1>2 DEF Walking, Settled
<1>4. first_of(y) \in S
  <2>1. first_of(y) = EndOf(m_prev, y)
    BY <1>2, EndsOfSiblings
  <2>2. EndOf(m_prev, y) \in ToSet(Along(m_prev, y))
    BY <1>1, <1>2, AlongCloses
  <2>3. y \in S
    OBVIOUS
  <2> HIDE DEF S, y
  <2>4. ToSet(Along(m_prev, y)) \subseteq S
    BY <1>1, <1>2, <1>3, <2>3, AlongLeast
  <2> QED BY <2>1, <2>2, <2>4
<1>5. first_of(y) \in T
  BY <1>2, <1>4, EndsOfSiblings
<1>6. ASSUME NEW x \in T, m_next[x] # Null PROVE m_next[x] \in T
  <2>1. m_next[x] \in Node /\ m_parent[m_next[x]] = m_parent[y]
    BY <1>1, <1>6 DEF Links, HInv, SiblingsAgree
  <2>2. m_next[x] \notin ToSet(stack)
    BY <1>2, <2>1, HierarchyAssumption, PathApart
  <2>3. x # y /\ x \in freed
    BY <1>6
  <2>4. m_next[x] \in S
    BY <1>2, <1>6, <2>2, <2>3 DEF Walking
  <2> QED BY <2>1, <2>4
<1>7. ToSet(Along(m_next, first_of(y))) \subseteq T
  <2>1. first_of(y) \in Node
    BY <1>2, EndsOfSiblings
  <2>2. \A x \in T \cap Node : m_next[x] # Null => m_next[x] \in T
    BY <1>6
  <2> HIDE DEF T
  <2> QED BY <1>1, <1>5, <2>1, <2>2, AlongLeast
<1>8. Chain(y) = Along(m_next, first_of(y))
  BY DEF Chain, FromOn
<1> QED BY <1>7, <1>8

\* What is common to the three ways to go on from a node that is destroyed.
LEMMA DestroyLeaves ==
    ASSUME HInv, WInv, Destroy
    PROVE  /\ current \in Node /\ current \notin ToSet(stack)
           /\ Settled' /\ Apart(doomed)' /\ freed' \subseteq doomed'
           /\ \A x \in doomed \ freed' : Home(x) = Home(current)
<1> DEFINE y == current
<1>1. /\ y # Null /\ (from_stack \/ m_first_child[y] = Null) /\ freed' = freed \cup {y}
      /\ UNCHANGED <<doomed, links>>
  BY DEF Destroy
<1>2. /\ y \in Node /\ Walking /\ Settled /\ Apart(doomed)
      /\ freed \subseteq doomed /\ doomed \subseteq Node
  BY <1>1 DEF WInv
<1>3. y \notin ToSet(stack)
  BY <1>1, PathApart
<1>4. \A c \in Node : m_parent[c] = y => c \in freed
  <2>1. CASE from_stack
    BY <1>2, <2>1 DEF Walking
  <2>2. CASE m_first_child[y] = Null
    <3>1. Kids[y] = <<>> /\ ToSet(Kids[y]) = {c \in Node : m_parent[c] = y}
      BY <1>2, <2>2, KidsHold
    <3>2. ToSet(Kids[y]) = {}
      BY <3>1 DEF ToSet
    <3> QED BY <3>1, <3>2
  <2> QED BY <1>1, <2>1, <2>2
<1>5. m_prev[y] # Null => m_prev[y] \in freed
  BY <1>2 DEF Walking
<1>6. Settled'
  BY <1>1, <1>2, <1>4, <1>5 DEF Settled, links
<1>7. Apart(doomed)'
  BY <1>1, <1>2, SameLinks
<1> QED BY <1>1, <1>2, <1>3, <1>6, <1>7 DEF Walking

LEMMA NextKeeps ==
    ASSUME HInv, WInv, Destroy, m_next[current] # Null
    PROVE  WInv'
<1> DEFINE y == current
           z == m_next[current]
<1>1. /\ freed' = freed \cup {y} /\ from_stack' = FALSE /\ current' = z /\ stack' = stack
      /\ UNCHANGED <<doomed, links>> /\ y # Null
  BY DEF Destroy
<1>2. /\ y \in Node /\ Walking /\ Settled /\ Apart(doomed) /\ stack \in Seq(Node)
      /\ freed \subseteq doomed /\ doomed \subseteq Node
  BY <1>1 DEF WInv
<1>3. /\ y \notin ToSet(stack) /\ Settled' /\ Apart(doomed)' /\ freed' \subseteq doomed'
      /\ \A x \in doomed \ freed' : Home(x) = Home(y)
  BY DestroyLeaves
<1>4. z \in Node /\ m_prev[z] = y /\ m_parent[z] = m_parent[y] /\ z # y
  BY <1>2, BesideIn DEF HInv, HTypeOK, Links, SiblingsAgree
<1>5. z \in doomed
  BY <1>2, <1>4, HierarchyAssumption DEF Apart, ApartOf, Walking
<1>6. z \notin freed
  BY <1>1, <1>2, <1>4 DEF Settled, Walking
<1>7. z \notin ToSet(stack)
  BY <1>1, <1>4, PathApart
<1>8. Home(z) = Home(y)
  BY <1>2, <1>4, HomeKept
<1>9. Walking'
  <2>1. current' \in doomed' \ freed' /\ ToSet(stack') \subseteq doomed' \ freed'
    BY <1>1, <1>2, <1>3, <1>4, <1>5, <1>6 DEF Walking
  <2>2. m_parent'[current'] = IF stack' = <<>> THEN Null ELSE stack'[Len(stack')]
    BY <1>1, <1>2, <1>4 DEF Walking, links
  <2>3. \A i \in 1 .. Len(stack') : m_parent'[stack'[i]] = IF i = 1 THEN Null ELSE stack'[i - 1]
    BY <1>1, <1>2 DEF Walking, links
  <2>4. \A w \in ToSet(stack') \cup {current'} : m_prev'[w] # Null => m_prev'[w] \in freed'
    BY <1>1, <1>2, <1>4 DEF Walking, links
  <2>5. m_parent[y] # Null => m_parent[y] \in ToSet(stack)
    <3>1. stack # <<>> => Len(stack) \in DOMAIN stack
      BY <1>2, EmptySeq, LenProperties
    <3> QED BY <1>2, <3>1 DEF Walking, ToSet
  <2>6. \A x \in freed' :
           /\ m_next'[x] # Null => m_next'[x] \in freed' \cup ToSet(stack') \cup {current'}
           /\ m_parent'[x] # Null => m_parent'[x] \in freed' \cup ToSet(stack')
    BY <1>1, <1>2, <2>5 DEF Walking, links
  <2>7. \A x \in doomed' \ freed' : Home(x)' = Home(current)'
    <3>1. Home(current)' = Home(z)
      BY <1>1, SameLinks DEF Home, Top
    <3> QED BY <1>1, <1>3, <1>8, <3>1, SameLinks
  <2> QED BY <1>1, <2>1, <2>2, <2>3, <2>4, <2>6, <2>7 DEF Walking
<1> QED BY <1>1, <1>2, <1>3, <1>4, <1>9, HierarchyAssumption DEF WInv

LEMMA BackKeeps ==
    ASSUME HInv, WInv, Destroy, m_next[current] = Null, stack # <<>>
    PROVE  WInv'
<1> DEFINE y == current
           l == Len(stack)
           p == stack[l]
           s == Front(stack)
<1>1. /\ freed' = freed \cup {y} /\ from_stack' = TRUE /\ current' = p /\ stack' = s
      /\ UNCHANGED <<doomed, links>> /\ y # Null
  BY DEF Destroy, Last
<1>2. /\ y \in Node /\ Walking /\ Settled /\ Apart(doomed) /\ stack \in Seq(Node)
      /\ freed \subseteq doomed /\ doomed \subseteq Node
  BY <1>1 DEF WInv
<1>3. /\ y \notin ToSet(stack) /\ Settled' /\ Apart(doomed)' /\ freed' \subseteq doomed'
      /\ \A x \in doomed \ freed' : Home(x) = Home(y)
  BY DestroyLeaves
<1>4. /\ l \in Nat \ {0} /\ DOMAIN stack = 1 .. l /\ l \in 1 .. l
      /\ s \in Seq(Node) /\ Len(s) = l - 1 /\ DOMAIN s = 1 .. l - 1
      /\ \A i \in 1 .. l - 1 : s[i] = stack[i]
  <2>1. l \in Nat \ {0} /\ DOMAIN stack = 1 .. l
    BY <1>2, EmptySeq, LenProperties
  <2>2. /\ s \in Seq(Node) /\ Len(s) = l - 1 /\ \A i \in 1 .. l - 1 : s[i] = stack[i]
    BY <1>2, <2>1 DEF Front
  <2>3. DOMAIN s = 1 .. l - 1
    <3> HIDE DEF s
    <3> QED BY <2>2, LenProperties
  <2> QED BY <2>1, <2>2, <2>3
<1> HIDE DEF s, l
<1>5. ToSet(stack) = ToSet(s) \cup {p} /\ p \in ToSet(stack)
  <2>1. \A i \in 1 .. l : i = l \/ i \in 1 .. l - 1
    BY ONLY <1>4
  <2>2. \A i \in 1 .. l - 1 : i \in 1 .. l
    BY ONLY <1>4
  <2> QED BY <1>4, <2>1, <2>2 DEF ToSet
<1>6. p \in Node /\ m_parent[y] = p
  BY <1>2, <1>5 DEF Walking, l
<1>7. p \notin ToSet(s)
  <2>1. m_parent \in Links /\ Acyclic(m_parent)
    BY DEF HInv, HTypeOK, WaysEnd
  <2>2. CASE s = <<>>
    BY <2>2 DEF ToSet
  <2>3. CASE s # <<>>
    <3>1. Len(s) = l - 1 /\ l - 1 \in 1 .. l - 1 /\ l # 1
      <4>1. Len(s) # 0
        BY <1>4, <2>3, EmptySeq
      <4> QED BY ONLY <1>4, <4>1
    <3>2. m_parent[p] = s[Len(s)]
      BY <1>2, <1>4, <3>1 DEF Walking, l
    <3>3. \A i \in 1 .. Len(s) : m_parent[s[i]] = IF i = 1 THEN Null ELSE s[i - 1]
      <4> SUFFICES ASSUME NEW i \in 1 .. l - 1
                   PROVE  m_parent[s[i]] = IF i = 1 THEN Null ELSE s[i - 1]
        BY <1>4
      <4>1. i \in 1 .. l /\ (i # 1 => i - 1 \in 1 .. l - 1)
        BY ONLY <1>4, i \in 1 .. l - 1
      <4> QED BY <1>2, <1>4, <4>1 DEF Walking, l
    <3> QED BY <1>4, <2>1, <2>3, <3>2, <3>3, DownNotBack
  <2> QED BY <2>2, <2>3
<1>8. \A c \in Node : m_parent[c] = p => c \in freed'
  <2> SUFFICES ASSUME NEW c \in Node, m_parent[c] = p PROVE c \in freed \cup {y}
    BY <1>1
  <2>1. first_of(c) = first_of(y)
    BY <1>6, HierarchyAssumption DEF first_of
  <2>2. c \in ToSet(Chain(y))
    BY <2>1, ChainHolds DEF Chain
  <2> QED BY <1>1, <2>2, SiblingsFreed
<1>9. Home(p) = Home(y)
  BY <1>2, <1>6, HomeKept
<1>10. Walking'
  <2>1. current' \in doomed' \ freed' /\ ToSet(stack') \subseteq doomed' \ freed'
    BY <1>1, <1>2, <1>3, <1>5 DEF Walking
  <2>2. m_parent'[current'] = IF stack' = <<>> THEN Null ELSE stack'[Len(stack')]
    <3>1. m_parent[p] = IF l = 1 THEN Null ELSE stack[l - 1]
      BY <1>2, <1>4 DEF Walking, l
    <3>2. s = <<>> <=> l = 1
      <4>1. s = <<>> <=> Len(s) = 0
        BY <1>4, EmptySeq
      <4> QED BY ONLY <1>4, <4>1
    <3>3. l # 1 => s[Len(s)] = stack[l - 1]
      <4>1. l # 1 => l - 1 \in 1 .. l - 1
        BY ONLY <1>4
      <4> QED BY <1>4, <4>1
    <3> QED BY <1>1, <3>1, <3>2, <3>3 DEF links
  <2>3. \A i \in 1 .. Len(stack') : m_parent'[stack'[i]] = IF i = 1 THEN Null ELSE stack'[i - 1]
    <3> SUFFICES ASSUME NEW i \in 1 .. l - 1
                 PROVE  m_parent[s[i]] = IF i = 1 THEN Null ELSE s[i - 1]
      BY <1>1, <1>4 DEF links
    <3>1. i \in 1 .. l /\ (i # 1 => i - 1 \in 1 .. l - 1)
      BY ONLY <1>4, i \in 1 .. l - 1
    <3> QED BY <1>2, <1>4, <3>1 DEF Walking, l
  <2>4. \A w \in ToSet(stack') \cup {current'} : m_prev'[w] # Null => m_prev'[w] \in freed'
    BY <1>1, <1>2, <1>5 DEF Walking, links
  <2>5. \A x \in freed' :
           /\ m_next'[x] # Null => m_next'[x] \in freed' \cup ToSet(stack') \cup {current'}
           /\ m_parent'[x] # Null => m_parent'[x] \in freed' \cup ToSet(stack') \cup {current'}
    BY <1>1, <1>2, <1>5, <1>6 DEF Walking, links
  <2>6. \A x \in doomed' \ freed' : Home(x)' = Home(current)'
    <3>1. Home(current)' = Home(p)
      BY <1>1, SameLinks DEF Home, Top
    <3> QED BY <1>1, <1>3, <1>9, <3>1, SameLinks
  <2>7. \A c \in Node : m_parent'[c] = current' => c \in freed'
    BY <1>1, <1>8 DEF links
  <2> QED BY <1>1, <2>1, <2>2, <2>3, <2>4, <2>5, <2>6, <2>7 DEF Walking
<1>11. stack' \in Seq(Node) /\ from_stack' \in BOOLEAN /\ current' \in Node /\ current' # Null
  BY <1>1, <1>4, <1>6, HierarchyAssumption
<1>12. doomed' \subseteq Node
  BY <1>1, <1>2
<1> QED BY <1>3, <1>10, <1>11, <1>12 DEF WInv

\* The last node of a walk is the last of all that it was to destroy.
LEMMA EndKeeps ==
    ASSUME HInv, WInv, Destroy, m_next[current] = Null, stack = <<>>
    PROVE  WInv'
<1> DEFINE y == current
<1>1. /\ freed' = freed \cup {y} /\ from_stack' = TRUE /\ current' = Null /\ stack' = stack
      /\ UNCHANGED <<doomed, links>> /\ y # Null
  BY DEF Destroy
<1>2. /\ y \in Node /\ Walking /\ Settled /\ Apart(doomed) /\ stack \in Seq(Node)
      /\ freed \subseteq doomed /\ doomed \subseteq Node
  BY <1>1 DEF WInv
<1>3. /\ Settled' /\ Apart(doomed)' /\ freed' \subseteq doomed'
      /\ \A x \in doomed \ freed' : Home(x) = Home(y)
  BY DestroyLeaves
<1>4. m_parent[y] = Null
  BY <1>2 DEF Walking
<1>5. Home(y) = Chain(y)
  BY <1>2, <1>4, TopIs DEF Home
<1>6. ToSet(Chain(y)) \subseteq freed'
  BY <1>1, SiblingsFreed
<1>7. ASSUME NEW x \in doomed, x \notin freed' PROVE FALSE
  <2>1. m_parent \in Links /\ Acyclic(m_parent) /\ x \in Node
    BY <1>2 DEF HInv, HTypeOK, WaysEnd
  <2> DEFINE S == Node \ freed'
  <2>2. x \in S /\ \A u \in S \cap Node : m_parent[u] # Null => m_parent[u] \in S
    BY <1>1, <1>3, <1>7, <2>1 DEF Links, Settled, links
  <2> HIDE DEF S
  <2>3. ToSet(Along(m_parent, x)) \subseteq S
    BY <2>1, <2>2, AlongLeast
  <2>4. Top(x) \in S /\ Top(x) \in Node
    BY <2>1, <2>3, TopIs
  <2>5. Top(x) \in ToSet(Chain(Top(x)))
    BY <2>4, ChainHolds
  <2>6. Chain(Top(x)) = Chain(y)
    BY <1>3, <1>5, <1>7 DEF Home
  <2> QED BY <1>6, <2>4, <2>5, <2>6 DEF S
<1>8. freed' = doomed'
  BY <1>1, <1>3, <1>7
<1> QED BY <1>1, <1>2, <1>3, <1>8 DEF WInv

\* The steps of the walk leave the links alone; those that move the nodes move them as the
\* hierarchy does.
LEMMA FStepIsHStep == [FNext]_fvars => [HNext]_links
<1> SUFFICES ASSUME FNext PROVE [HNext]_links
  BY DEF fvars, links
<1>1. CASE Moved
  BY <1>1 DEF Moved, HNext
<1>2. ASSUME NEW n \in Node, free_nodes(n) PROVE [HNext]_links
  BY <1>2 DEF free_nodes
<1>3. ASSUME NEW p \in Node, clear_children(p) PROVE [HNext]_links
  BY <1>3 DEF clear_children, HNext
<1>4. CASE GoDeeper \/ Destroy
  BY <1>4 DEF GoDeeper, Destroy
<1> QED BY <1>1, <1>2, <1>3, <1>4 DEF FNext

LEMMA WStep == HInv /\ WInv /\ HInv' /\ [FNext]_fvars => WInv'
<1> SUFFICES ASSUME HInv, WInv, HInv', [FNext]_fvars PROVE WInv'
  OBVIOUS
<1>1. current = Null => freed = doomed /\ freed \subseteq Node /\ Apart(freed)
  BY DEF WInv
<1>2. CASE Moved
  <2>1. current = Null /\ UNCHANGED walk
    BY <1>2 DEF Moved
  <2>2. freed' = freed /\ doomed' = doomed /\ stack' = stack /\ from_stack' = from_stack
        /\ current' = Null
    BY <2>1 DEF walk
  <2>3. PICK t \in Node \ freed, n \in Node \ freed :
           \/ insert_first_child(t, n) \/ insert_last_child(t, n)
           \/ insert_before(t, n) \/ insert_after(t, n)
           \/ extract(n) \/ extract_children(n)
    BY <1>2 DEF Moved
  <2>4. ApartOf(m_parent', m_next', m_prev', m_first_child', m_last_child', freed)
    BY <1>1, <2>1, <2>3, MovedApart
  <2>5. Apart(doomed)'
    BY <1>1, <2>1, <2>2, <2>4 DEF Apart
  <2>6. Settled'
    BY <1>1, <2>1, <2>2, <2>4, HierarchyAssumption DEF ApartOf, Settled
  <2> QED BY <1>1, <2>1, <2>2, <2>5, <2>6 DEF WInv
<1>3. ASSUME NEW n \in Node, free_nodes(n) PROVE WInv'
  <2>1. /\ current = Null /\ n \notin freed /\ UNCHANGED links /\ UNCHANGED freed
        /\ current' = root_of(n) /\ from_stack' = FALSE /\ stack' = <<>>
        /\ doomed' = doomed \cup Tree(n)
    BY <1>3 DEF free_nodes, Start
  <2>2. root_of(n)' = root_of(n)
    BY <2>1 DEF links, root_of, EndOf
  <2>3. Tree(n)' = Tree(n)
    BY <2>1 DEF links, Tree, Subtree, root_of, EndOf, Chain, FromOn, first_of
  <2>4. ApartOf(m_parent', m_next', m_prev', m_first_child', m_last_child', freed)
    BY <1>1, <2>1 DEF links, Apart
  <2>5. current' = root_of(n)' /\ doomed' = doomed \cup Tree(n)'
    BY <2>1, <2>2, <2>3
  <2> QED BY <1>1, <2>1, <2>4, <2>5, StartKeeps
<1>4. ASSUME NEW p \in Node, clear_children(p) PROVE WInv'
  <2>1. /\ current = Null /\ p \notin freed /\ extract_children(p) /\ UNCHANGED freed
        /\ from_stack' = FALSE /\ stack' = <<>>
    BY <1>4 DEF clear_children
  <2>2. PICK n \in {m_first_child[p]} : current' = root_of(n)' /\ doomed' = doomed \cup Tree(n)'
    BY <1>4 DEF clear_children
  <2>3. n = m_first_child[p] /\ n \in Node
    BY <2>1, ExtractsChildren DEF extract_children
  <2>4. n \notin freed
    BY <1>1, <2>1, <2>3, HierarchyAssumption DEF Apart, ApartOf
  <2>5. ApartOf(m_parent', m_next', m_prev', m_first_child', m_last_child', freed)
    BY <1>1, <2>1, MovedApart
  <2> QED BY <1>1, <2>1, <2>2, <2>3, <2>4, <2>5, StartKeeps
<1>5. CASE GoDeeper
  BY <1>5, GoDeeperKeeps
<1>6. CASE Destroy
  BY <1>6, NextKeeps, BackKeeps, EndKeeps
<1>7. CASE UNCHANGED fvars
  BY <1>7, SameLinks DEF fvars, links, walk, WInv, Settled, Walking, Apart
<1> QED BY <1>2, <1>3, <1>4, <1>5, <1>6, <1>7 DEF FNext

\* The trees that are destroyed are those that the walk was called for, as the hierarchy
\* holds them: the links keep its invariant, and the walk its own.
THEOREM WalkInvariant == FSpec => [](HInv /\ WInv)
<1>1. FInit => HInv /\ WInv
  BY HInitially, WalkInitially DEF FInit
<1>2. HInv /\ WInv /\ [FNext]_fvars => (HInv /\ WInv)'
  BY FStepIsHStep, HStep, WStep
<1> QED BY <1>1, <1>2, PTL DEF FSpec

\* For any nodes and whatever is moved between the calls: free_nodes destroys the trees it
\* is called for and nothing else, each node after those under it, never comes back to one
\* it destroyed, and leaves no link to one.
THEOREM WholeTreesFreed == FSpec => []FreesWholeTree
<1>1. ASSUME HInv, WInv PROVE FreesWholeTree
  <2>1. /\ freed \subseteq doomed /\ doomed \subseteq Node /\ Apart(doomed) /\ Settled
        /\ current = Null => freed = doomed
        /\ current # Null => Walking
    BY <1>1 DEF WInv
  <2>2. current # Null => current \notin freed /\ ToSet(stack) \cap freed = {}
    BY <2>1 DEF Walking
  <2>3. ASSUME NEW m \in freed PROVE Subtree(m) \subseteq freed
    <3>1. m_parent \in Links /\ Acyclic(m_parent)
      BY <1>1 DEF HInv, HTypeOK, WaysEnd
    <3> SUFFICES ASSUME NEW x \in Node, m \in ToSet(Along(m_parent, x)), x \notin freed
                 PROVE  FALSE
      BY DEF Subtree
    <3> DEFINE S == Node \ freed
    <3>2. x \in S /\ \A u \in S \cap Node : m_parent[u] # Null => m_parent[u] \in S
      BY <2>1, <3>1 DEF Links, Settled
    <3> HIDE DEF S
    <3>3. ToSet(Along(m_parent, x)) \subseteq S
      BY <3>1, <3>2, AlongLeast
    <3> QED BY <3>3 DEF S
  <2>4. ASSUME current = Null, NEW n \in Node \ freed
        PROVE  {m_parent[n], m_next[n], m_prev[n], m_first_child[n], m_last_child[n]} \cap freed = {}
    <3>1. Null \notin freed
      BY <2>1, HierarchyAssumption
    <3> QED BY <2>1, <2>4, <3>1 DEF Apart, ApartOf
  <2> QED BY <2>1, <2>2, <2>3, <2>4 DEF FreesWholeTree
<1> QED BY <1>1, WalkInvariant, PTL

\* The walk and its callers do to the links what the hierarchy does, so that all that holds
\* of it holds of the trees that are walked.
THEOREM WalkIsHierarchy == FSpec => HSpec
<1>1. FInit => HInit
  BY DEF FInit
<1> QED BY <1>1, FStepIsHStep, PTL DEF FSpec, HSpec
=============================================================================
