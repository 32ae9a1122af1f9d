------------------------------ MODULE Hierarchy ------------------------------
(***************************************************************************)
(* core/containers/hierarchy: a tree of intrusive links, five per node.    *)
(* Insertion splices the whole sibling sequence of a parentless node into  *)
(* another sequence; extraction cuts a run of siblings out.                *)
(*                                                                         *)
(* Nodes are never inserted beside or under themselves: the assertions of  *)
(* insertion_helper refuse the nearest cases, the rest is left to callers. *)
(***************************************************************************)
EXTENDS Naturals, Sequences, SequencesExt

CONSTANTS Node, Null

ASSUME HierarchyAssumption == Null \notin Node

VARIABLES m_parent, m_next, m_prev, m_first_child, m_last_child

links == <<m_parent, m_next, m_prev, m_first_child, m_last_child>>

HInit == /\ m_parent = [n \in Node |-> Null]
         /\ m_next = [n \in Node |-> Null]
         /\ m_prev = [n \in Node |-> Null]
         /\ m_first_child = [n \in Node |-> Null]
         /\ m_last_child = [n \in Node |-> Null]
-----------------------------------------------------------------------------
\* The nodes passed on the way from n along a link, n included, and the last of them.
Along(link, n) == LET walk[m \in Node] == IF link[m] = Null THEN <<m>>
                                          ELSE <<m>> \o walk[link[m]]
                  IN  walk[n]
EndOf(link, n) == Last(Along(link, n))
FromOn(n)      == Along(m_next, n)

first_of(n) == IF m_parent[n] # Null THEN m_first_child[m_parent[n]] ELSE EndOf(m_prev, n)
last_of(n)  == IF m_parent[n] # Null THEN m_last_child[m_parent[n]]  ELSE EndOf(m_next, n)
root_of(n)  == EndOf(m_prev, EndOf(m_parent, n))

Chain(n) == FromOn(first_of(n))

\* The link with n's end pointed at m, if there is an n.
Point(link, n, m) == [x \in Node |-> IF x = n THEN m ELSE link[x]]

\* Mutant: one side is linked in one direction only.
InsertedOneWay(left, right, parent, first, last) ==
    /\ m_parent' = [n \in Node |-> IF parent # Null /\ n \in ToSet(FromOn(first))
                                   THEN parent ELSE m_parent[n]]
    /\ m_next' = Point(Point(m_next, left, first), IF right = Null THEN Null ELSE last, right)
    /\ m_prev' = Point(m_prev, IF left = Null THEN Null ELSE first, left)
    /\ m_first_child' = Point(m_first_child, IF left = Null THEN parent ELSE Null, first)
    /\ m_last_child' = Point(m_last_child, IF right = Null THEN parent ELSE Null, last)

\* insertion_helper: the siblings first .. last go between left and right under parent.
Inserted(left, right, parent, first, last) ==
    /\ m_parent' = [n \in Node |-> IF parent # Null /\ n \in ToSet(FromOn(first))
                                   THEN parent ELSE m_parent[n]]
    /\ m_next' = Point(Point(m_next, left, first), IF right = Null THEN Null ELSE last, right)
    /\ m_prev' = Point(Point(m_prev, IF left = Null THEN Null ELSE first, left), right, last)
    /\ m_first_child' = Point(m_first_child, IF left = Null THEN parent ELSE Null, first)
    /\ m_last_child' = Point(m_last_child, IF right = Null THEN parent ELSE Null, last)

\* n and everything under it.
Subtree(n) == {m \in Node : n \in ToSet(Along(m_parent, m))}

\* A caller inserts parentless siblings, and not beside or under themselves.
MayInsert(insert, target) ==
    /\ m_parent[insert] = Null
    /\ \A m \in ToSet(Chain(insert)) : target \notin Subtree(m)

insert_first_child(p, n) ==
    MayInsert(n, p) /\ Inserted(Null, m_first_child[p], p, first_of(n), last_of(n))

\* add_child calls it.
insert_last_child(p, n) ==
    MayInsert(n, p) /\ Inserted(m_last_child[p], Null, p, first_of(n), last_of(n))

\* Mutant: behind the sibling.
InsertBeforeBehind(t, n) ==
    MayInsert(n, t) /\ Inserted(t, m_next[t], m_parent[t], first_of(n), last_of(n))

insert_before(t, n) ==
    MayInsert(n, t) /\ Inserted(m_prev[t], t, m_parent[t], first_of(n), last_of(n))

insert_after(t, n) ==
    MayInsert(n, t) /\ Inserted(t, m_next[t], m_parent[t], first_of(n), last_of(n))

\* Mutant: the parent keeps an end that has left it.
ExtractedKeepingEnds(left, right) ==
    LET parent == m_parent[left]
        before == m_prev[left]
        after  == m_next[right]
        all    == parent # Null /\ left = m_first_child[parent] /\ right = m_last_child[parent]
    IN  /\ m_next' = Point(Point(m_next, before, after), right, Null)
        /\ m_prev' = Point(Point(m_prev, after, before), left, Null)
        /\ m_first_child' = Point(m_first_child, IF all THEN parent ELSE Null, Null)
        /\ m_last_child' = Point(m_last_child, IF all THEN parent ELSE Null, Null)
        /\ m_parent' = [n \in Node |-> IF n = left THEN Null ELSE m_parent[n]]

\* extraction_helper: the siblings left .. right become a sequence without a parent.
Extracted(left, right) ==
    LET parent == m_parent[left]
        before == m_prev[left]
        after  == m_next[right]
        run    == IF left = right THEN {left} ELSE ToSet(FromOn(left))
    IN  /\ m_next' = Point(Point(m_next, before, after), right, Null)
        /\ m_prev' = Point(Point(m_prev, after, before), left, Null)
        /\ m_first_child' = IF parent # Null /\ left = m_first_child[parent]
                            THEN Point(m_first_child, parent, after) ELSE m_first_child
        /\ m_last_child' = IF parent # Null /\ right = m_last_child[parent]
                           THEN Point(m_last_child, parent, before) ELSE m_last_child
        /\ m_parent' = [n \in Node |-> IF n \in run THEN Null ELSE m_parent[n]]

extract(n) == Extracted(n, n)

extract_children(p) == /\ m_first_child[p] # Null
                       /\ Extracted(m_first_child[p], m_last_child[p])

HNext == \/ \E p, n \in Node : insert_first_child(p, n) \/ insert_last_child(p, n)
         \/ \E t, n \in Node : insert_before(t, n) \/ insert_after(t, n)
         \/ \E n \in Node : extract(n) \/ extract_children(n)

HSpec == HInit /\ [][HNext]_links
-----------------------------------------------------------------------------
\* Siblings point at each other and have one parent, whose ends are the sibling without a
\* previous and the one without a next.
SiblingsAgree ==
    \A n \in Node :
        /\ m_next[n] # Null => m_prev[m_next[n]] = n /\ m_parent[m_next[n]] = m_parent[n]
        /\ m_prev[n] # Null => m_next[m_prev[n]] = n
        /\ m_parent[n] # Null =>
              /\ (m_prev[n] = Null) <=> (m_first_child[m_parent[n]] = n)
              /\ (m_next[n] = Null) <=> (m_last_child[m_parent[n]] = n)
        /\ m_first_child[n] # Null => m_parent[m_first_child[n]] = n
        /\ m_last_child[n] # Null => m_parent[m_last_child[n]] = n

\* first_of, last_of and root_of find the ends and the root from every node of a tree.
WalksAgree ==
    \A n \in Node :
        /\ n \in ToSet(Chain(n))
        /\ last_of(n) = Last(Chain(n))
        /\ m_parent[root_of(n)] = Null /\ m_prev[root_of(n)] = Null
        /\ \E r \in ToSet(Chain(root_of(n))) : n \in Subtree(r)

\* The five links of every node agree with those of its relatives, after whatever was
\* inserted and extracted.
LinksAgree == SiblingsAgree /\ WalksAgree

\* The sequences that the links stand for.
Kids   == [n \in Node |-> IF m_first_child[n] = Null THEN <<>> ELSE FromOn(m_first_child[n])]
Chains == {FromOn(n) : n \in {m \in Node : m_parent[m] = Null /\ m_prev[m] = Null}}

Forest == INSTANCE OrderedForest WITH kids <- Kids, chains <- Chains

\* Each operation on the links is the one on the forest that its name says, of the same nodes.
AsNamed ==
    /\ \A p, n \in Node :
          /\ insert_first_child(p, n) => Forest!InsertFirstChild(p, Chain(n))
          /\ insert_last_child(p, n) => Forest!InsertLastChild(p, Chain(n))
    /\ \A t, n \in Node :
          /\ insert_before(t, n) => Forest!InsertBeside(t, Chain(n), 0)
          /\ insert_after(t, n) => Forest!InsertBeside(t, Chain(n), 1)
    /\ \A n \in Node :
          /\ extract(n) => Forest!Extract(n)
          /\ extract_children(n) => Forest!ExtractChildren(n)

\* The links represent the forest: each operation moves whole sequences to the place its
\* name says and changes the order of nothing else.
IsOrderedForest == Forest!Spec /\ [][AsNamed]_links

=============================================================================
