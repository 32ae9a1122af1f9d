---------------------------- MODULE OrderedForest ----------------------------
(***************************************************************************)
(* What core/containers/hierarchy is a representation of: every node has a *)
(* sequence of children, and the nodes without a parent form sequences of  *)
(* siblings.  Insertion moves a whole sequence of parentless siblings.     *)
(***************************************************************************)
EXTENDS Naturals, Sequences, SequencesExt

CONSTANT Node

VARIABLES kids,   \* the children of each node, in order
          chains  \* the sequences of nodes without a parent

vars == <<kids, chains>>

Init == /\ kids = [n \in Node |-> <<>>]
        /\ chains = {<<n>> : n \in Node}

\* The sequence s with c put after its first k elements.
Spliced(s, k, c) == SubSeq(s, 1, k) \o c \o SubSeq(s, k + 1, Len(s))

Position(s, n) == CHOOSE k \in DOMAIN s : s[k] = n

Without(s, n) == SubSeq(s, 1, Position(s, n) - 1) \o SubSeq(s, Position(s, n) + 1, Len(s))

\* The sequences there are: children of some node, or without a parent.
IsChild(n) == \E p \in Node : n \in ToSet(kids[p])
Parent(n)  == CHOOSE p \in Node : n \in ToSet(kids[p])
ChainOf(n) == CHOOSE c \in chains : n \in ToSet(c)

InsertFirstChild(p, c) == /\ kids' = [kids EXCEPT ![p] = c \o @]
                          /\ chains' = chains \ {c}

InsertLastChild(p, c) == /\ kids' = [kids EXCEPT ![p] = @ \o c]
                         /\ chains' = chains \ {c}

\* c goes in front of n (after = 0) or behind it (after = 1).
InsertBeside(n, c, after) ==
    \/ /\ IsChild(n)
       /\ kids' = [kids EXCEPT ![Parent(n)] = Spliced(@, Position(@, n) - 1 + after, c)]
       /\ chains' = chains \ {c}
    \/ /\ ~ IsChild(n)
       /\ chains' = (chains \ {c, ChainOf(n)})
                        \cup {Spliced(ChainOf(n), Position(ChainOf(n), n) - 1 + after, c)}
       /\ UNCHANGED kids

Extract(n) ==
    \/ /\ IsChild(n)
       /\ kids' = [kids EXCEPT ![Parent(n)] = Without(@, n)]
       /\ chains' = chains \cup {<<n>>}
    \/ /\ ~ IsChild(n)
       /\ chains' = ((chains \ {ChainOf(n)})
                        \cup {<<n>>, Without(ChainOf(n), n)}) \ {<<>>}
       /\ UNCHANGED kids

ExtractChildren(p) == /\ kids[p] # <<>>
                      /\ kids' = [kids EXCEPT ![p] = <<>>]
                      /\ chains' = chains \cup {kids[p]}

Next == \/ \E p \in Node, c \in chains : InsertFirstChild(p, c) \/ InsertLastChild(p, c)
        \/ \E n \in Node, c \in chains, after \in 0 .. 1 : InsertBeside(n, c, after)
        \/ \E n \in Node : Extract(n) \/ ExtractChildren(n)

Spec == Init /\ [][Next]_vars
=============================================================================
