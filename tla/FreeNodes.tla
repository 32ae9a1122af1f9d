----------------------------- MODULE FreeNodes -----------------------------
(***************************************************************************)
(* tef/workspace::free_nodes on the links of core/containers/hierarchy:    *)
(* one walk, down to the children first, that destroys the nodes it leaves *)
(* and reads the links of those it comes to.                               *)
(*                                                                         *)
(* What was destroyed stays so: the pool that hands the memory out again   *)
(* is FixedPoolAllocator's.  How deep the stack may get is the parser's    *)
(* to limit (k_max_nesting_level).                                         *)
(***************************************************************************)
EXTENDS Hierarchy

VARIABLES current,     \* where the walk is, or Null when there is none
          from_stack,  \* it came back to current from its children
          stack,       \* the parents it has to come back to
          freed,       \* the nodes destroyed so far
          doomed       \* history: the trees free_nodes was called for

walk == <<current, from_stack, stack, freed, doomed>>

FInit == /\ HInit
         /\ current = Null
         /\ from_stack = FALSE
         /\ stack = <<>>
         /\ freed = {}
         /\ doomed = {}

\* Everything that hangs together with n.
Tree(n) == UNION {Subtree(r) : r \in ToSet(Chain(root_of(n)))}

\* Mutant: the walk starts where it was called.
StartHere(n) == /\ current' = n
                /\ from_stack' = FALSE
                /\ stack' = <<>>
                /\ doomed' = doomed \cup Tree(n)
                /\ UNCHANGED freed

Start(n) == /\ current' = root_of(n)
            /\ from_stack' = FALSE
            /\ stack' = <<>>
            /\ doomed' = doomed \cup Tree(n)
            /\ UNCHANGED freed

free_nodes(n) == /\ current = Null
                 /\ n \notin freed
                 /\ Start(n)
                 /\ UNCHANGED links

\* node::clear_children: the children are cut out and destroyed, their parent stays.
clear_children(p) == /\ current = Null
                     /\ p \notin freed
                     /\ extract_children(p)
                     /\ \E n \in {m_first_child[p]} : /\ current' = root_of(n)'
                                                     /\ doomed' = doomed \cup Tree(n)'
                     /\ from_stack' = FALSE
                     /\ stack' = <<>>
                     /\ UNCHANGED freed

GoDeeper == /\ current # Null
            /\ ~ from_stack
            /\ m_first_child[current] # Null
            /\ stack' = Append(stack, current)
            /\ current' = m_first_child[current]
            /\ UNCHANGED <<from_stack, freed, doomed, links>>

\* Mutant: the walk goes down again from the parents it comes back to.
DestroyForgetting ==
    /\ current # Null
    /\ from_stack \/ m_first_child[current] = Null
    /\ freed' = freed \cup {current}
    /\ from_stack' = FALSE
    /\ \/ m_next[current] # Null /\ current' = m_next[current] /\ UNCHANGED stack
       \/ m_next[current] = Null /\ stack # <<>> /\ current' = Last(stack) /\ stack' = Front(stack)
       \/ m_next[current] = Null /\ stack = <<>> /\ current' = Null /\ UNCHANGED stack
    /\ UNCHANGED <<doomed, links>>

\* The next node to look at is found before the current one is destroyed.
Destroy ==
    /\ current # Null
    /\ from_stack \/ m_first_child[current] = Null
    /\ freed' = freed \cup {current}
    /\ from_stack' = (m_next[current] = Null)
    /\ \/ m_next[current] # Null /\ current' = m_next[current] /\ UNCHANGED stack
       \/ m_next[current] = Null /\ stack # <<>> /\ current' = Last(stack) /\ stack' = Front(stack)
       \/ m_next[current] = Null /\ stack = <<>> /\ current' = Null /\ UNCHANGED stack
    /\ UNCHANGED <<doomed, links>>

\* Callers move the nodes they still have, and not while the walk is on.
Moved == /\ current = Null
         /\ \/ \E p, n \in Node \ freed : insert_first_child(p, n) \/ insert_last_child(p, n)
            \/ \E t, n \in Node \ freed : insert_before(t, n) \/ insert_after(t, n)
            \/ \E n \in Node \ freed : extract(n) \/ extract_children(n)
         /\ UNCHANGED walk

FNext == \/ Moved
         \/ \E n \in Node : free_nodes(n) \/ clear_children(n)
         \/ GoDeeper \/ Destroy

fvars == <<links, walk>>

\* free_nodes is a loop: once called it runs.
FSpec == FInit /\ [][FNext]_fvars /\ WF_fvars(GoDeeper \/ Destroy)
-----------------------------------------------------------------------------
\* free_nodes destroys the trees it is called for and nothing else, each node after those
\* under it, and neither comes back to a node it destroyed nor leaves a link to one.
FreesWholeTree ==
    /\ freed \subseteq doomed
    /\ current = Null => freed = doomed
    /\ current # Null => current \notin freed /\ ToSet(stack) \cap freed = {}
    /\ \A m \in freed : Subtree(m) \subseteq freed
    /\ current = Null => \A n \in Node \ freed :
           {m_parent[n], m_next[n], m_prev[n], m_first_child[n], m_last_child[n]} \cap freed = {}

\* The walk comes to an end.
WalkEnds == current # Null ~> current = Null
=============================================================================
