------------------------------ MODULE TefLoader ------------------------------
(***************************************************************************)
(* libs/tef: loading a file with everything it includes into a workspace,  *)
(* and linking the nodes to their prototypes.                              *)
(*                                                                         *)
(* A node is the pair of its document and its path, a sequence of keys.    *)
(* What the parser makes of a text is its nodes and, in their order, what  *)
(* they include and the prototypes they ask for; keys do not repeat within *)
(* a node (an error, E-01), so a node asks once.  The reading of a file    *)
(* may fail, or give an empty text, at any time.                           *)
(***************************************************************************)
EXTENDS Naturals, Sequences, FiniteSets, SequencesExt

CONSTANTS File, Root, Path,
          Texts,             \* the texts each file may have
          k_max_proto_depth, \* 32
          Null

Node == File \X Path

Text == [nodes : SUBSET [path : Path, scalar : BOOLEAN],
         includes : Seq(File), inheritance : Seq([n : Path, path : Path])]

ASSUME TefAssumption ==
    /\ Root \in File
    /\ k_max_proto_depth \in Nat \ {0}
    /\ Null \notin Node \cup File \cup Text
    /\ \A f \in File : \A t \in Texts[f] :
          /\ t \in Text
          /\ \A j, k \in DOMAIN t.inheritance :
                t.inheritance[j].n = t.inheritance[k].n => j = k

VARIABLES text,        \* what was parsed from each file, Null before
          docs,        \* the documents of the workspace, in order
          calls,       \* the calls of load in progress: the document, and the includes left
          loaded,
          inheritance, \* the prototypes asked for, in the order they were parsed
          resolved,    \* how many of them resolve_inheritance is done with
          m_prototype,
          reported,    \* the codes reported for a file or a node
          unread       \* history: the including document and the file, where no text was read

vars == <<text, docs, calls, loaded, inheritance, resolved, m_prototype, reported, unread>>

Init == /\ text = [f \in File |-> Null]
        /\ docs = <<>>
        /\ calls = <<[doc |-> Null, left |-> <<Root>>]>>  \* loader::load
        /\ loaded = {}
        /\ inheritance = <<>>
        /\ resolved = 0
        /\ m_prototype = [n \in Node |-> Null]
        /\ reported = {}
        /\ unread = {}
-----------------------------------------------------------------------------
Caller == Last(calls)
Requested == Head(Caller.left)
Visited == {calls[k].doc : k \in DOMAIN calls}

Position(f) == CHOOSE k \in DOMAIN docs : docs[k] = f

\* Mutant: every document goes to the end.
NewDocumentAtEnd(path, pos) == docs' = Append(docs, path)

\* The document goes before pos, or to the end.
NewDocument(path, pos) ==
    docs' = IF pos = Null THEN Append(docs, path) ELSE InsertAt(docs, Position(pos), path)

\* The caller goes on with its next include.
CallerGoesOn == [calls EXCEPT ![Len(calls)].left = Tail(@)]

LoadNothing == /\ Caller.left # <<>>
               /\ calls' = CallerGoesOn
               /\ UNCHANGED <<text, docs, loaded, inheritance, resolved, m_prototype>>

AlreadyLoaded == /\ LoadNothing
                 /\ Requested \in loaded
                 /\ UNCHANGED <<reported, unread>>

CycleDetected == /\ LoadNothing
                 /\ Requested \in Visited \ loaded
                 /\ reported' = reported \cup {<<"E-15", Requested>>}
                 /\ UNCHANGED unread

NoText == /\ LoadNothing
          /\ Requested \notin Visited \cup loaded
          /\ unread' = unread \cup {<<Caller.doc, Requested>>}

\* The provider throws, which is reported.
SourceUnreadable == NoText /\ reported' = reported \cup {<<"E-14", Requested>>}

\* The file is read and is empty, which is not.
SourceEmpty == NoText /\ UNCHANGED reported

\* The prototypes that a text asks for, with the nodes that ask.
Asked(f, t) == [k \in DOMAIN t.inheritance |->
                   [n |-> <<f, t.inheritance[k].n>>, path |-> t.inheritance[k].path]]

LoadSource ==
    /\ Caller.left # <<>>
    /\ Requested \notin Visited \cup loaded
    /\ \E t \in Texts[Requested] :
          /\ text' = [text EXCEPT ![Requested] = t]
          /\ inheritance' = inheritance \o Asked(Requested, t)
          /\ calls' = Append(CallerGoesOn, [doc |-> Requested, left |-> t.includes])
    /\ NewDocument(Requested, Caller.doc)
    /\ UNCHANGED <<loaded, resolved, m_prototype, reported, unread>>

FileLoaded == /\ Caller.left = <<>> /\ Caller.doc # Null
              /\ loaded' = loaded \cup {Caller.doc}
              /\ calls' = Front(calls)
              /\ UNCHANGED <<text, docs, inheritance, resolved, m_prototype, reported, unread>>
-----------------------------------------------------------------------------
\* The nodes parsed, and lookups that do not follow prototypes.
Parsed(f) == IF text[f] = Null THEN {} ELSE text[f].nodes
Exists(f, path) == \E n \in Parsed(f) : n.path = path
IsScalar(n) == \E x \in Parsed(n[1]) : x.path = n[2] /\ x.scalar

\* workspace::at_path: the first document that has the path.
AtPath(path) ==
    LET found == {k \in DOMAIN docs : Exists(docs[k], path)}
    IN  IF found = {} THEN Null ELSE <<docs[Min(found)], path>>

\* n is check, or lies under it.
HasDirectParent(n, check) == n[1] = check[1] /\ IsPrefix(check[2], n[2])

\* The nodes from start along so many links, Null past the last.
Walk(link, start, links) ==
    LET walk[k \in 0 .. links] ==
            IF k = 0 THEN start
            ELSE IF walk[k - 1] = Null THEN Null ELSE link[walk[k - 1]]
    IN  walk

\* Mutant: only a link from the node to itself is a cycle.
CheckCycleDirect(link, start) == IF link[start] = start THEN "E-13" ELSE "none"

\* Its buffer holds k_max_proto_depth nodes.
CheckCycle(link, start) ==
    LET walk  == Walk(link, start, k_max_proto_depth)
        again == {k \in DOMAIN walk : walk[k] # Null /\ \E j \in 0 .. k - 1 : walk[j] = walk[k]}
    IN  IF again # {} THEN "E-13"
        ELSE IF walk[k_max_proto_depth] # Null THEN "E-19"
        ELSE "none"

\* Mutant: a prototype must not lie under the node, instead of the node under it.
VerdictSwapped(n, proto) ==
    IF proto = Null THEN "E-12"
    ELSE IF IsScalar(proto) THEN "E-10"
    ELSE IF HasDirectParent(proto, n) THEN "E-20"
    ELSE CheckCycle([m_prototype EXCEPT ![n] = proto], n)

\* What resolve_inheritance finds wrong with the prototype; a link that fails is undone.
Verdict(n, proto) ==
    IF proto = Null THEN "E-12"
    ELSE IF IsScalar(proto) THEN "E-10"
    ELSE IF HasDirectParent(n, proto) THEN "E-20"
    ELSE CheckCycle([m_prototype EXCEPT ![n] = proto], n)

Resolving == Len(calls) = 1 /\ Caller.left = <<>>

ResolveNext ==
    /\ Resolving
    /\ resolved < Len(inheritance)
    /\ resolved' = resolved + 1
    /\ LET inh     == inheritance[resolved']
           proto   == AtPath(inh.path)
           verdict == Verdict(inh.n, proto)
       IN  IF verdict = "none"
           THEN m_prototype' = [m_prototype EXCEPT ![inh.n] = proto] /\ UNCHANGED reported
           ELSE reported' = reported \cup {<<verdict, inh.n>>} /\ UNCHANGED m_prototype
    /\ UNCHANGED <<text, docs, calls, loaded, inheritance, unread>>

Next == \/ AlreadyLoaded \/ CycleDetected \/ SourceUnreadable \/ SourceEmpty
        \/ LoadSource \/ FileLoaded \/ ResolveNext

Spec == Init /\ [][Next]_vars
-----------------------------------------------------------------------------
\* node::resolve_path: a key that a node does not have is looked for in its prototype.
Child(n, key) == LET path == n[2] \o <<key>>
                 IN  IF Exists(n[1], path) THEN <<n[1], path>> ELSE Null

ChildOrPrototypes(n, key) ==
    LET own == IF n = Null THEN Null ELSE Child(n, key)
    IN  IF own = Null /\ n # Null /\ m_prototype[n] # Null
        THEN Child(m_prototype[n], key) ELSE own

ResolvePath(n, path) == FoldLeft(ChildOrPrototypes, n, path)

Done == Resolving /\ resolved = Len(inheritance)
-----------------------------------------------------------------------------
\* f includes g, directly or through other files.
Includes(f) == IF text[f] = Null THEN {} ELSE ToSet(text[f].includes)
Reaches(f, g) == \A S \in SUBSET File :
                     Includes(f) \subseteq S /\ (\A h \in S : Includes(h) \subseteq S) => g \in S

\* A file is loaded once however often it is included, and its document stands before the
\* documents of all files that include it, so that base definitions are found before the ones
\* built on them.  Only two things put it behind one: a cycle of includes, which is reported
\* (E-15), and a reading for that very file that gave no text, which is reported when it
\* failed (E-14) and not when the file was empty, so that a later reading adds the document.
BasesFirst ==
    /\ IsInjective(docs)
    /\ \A f \in ToSet(docs) : \A g \in Includes(f) \cap loaded :
          \/ Position(g) < Position(f)
          \/ Reaches(g, f) /\ <<"E-15", g>> \in reported
          \/ <<f, g>> \in unread

\* Prototype links never form a cycle, whatever the order they are made in.
Descends(n) == LET walk == Walk(m_prototype, n, Len(inheritance) + 1)
               IN  {walk[k] : k \in 1 .. Len(inheritance) + 1} \ {Null}
PrototypesAcyclic == \A n \in Node : n \notin Descends(n)

\* The links that the texts ask for, all at once.
Written ==
    [n \in Node |-> IF \E k \in DOMAIN inheritance : inheritance[k].n = n
                    THEN AtPath(inheritance[CHOOSE k \in DOMAIN inheritance :
                                                inheritance[k].n = n].path)
                    ELSE Null]

\* A reason in the texts: the prototype does not exist, is a scalar or contains the node, the
\* node is on a cycle of the links as written, or their chain from it is too long.
Cause(n) == \/ Written[n] = Null \/ IsScalar(Written[n]) \/ HasDirectParent(n, Written[n])
            \/ LET chain == Walk(Written, n, Len(inheritance))
               IN  \E k \in 1 .. Len(inheritance) :
                      chain[k] = n \/ (k >= k_max_proto_depth /\ chain[k] # Null)

\* A node that is refused its prototype has a reason for it in the texts as written, whatever
\* links were made before its own; of the nodes of a cycle or of too long a chain, the order
\* decides which is refused.
RefusedForCause ==
    Done => \A n \in {inheritance[k].n : k \in DOMAIN inheritance} :
               \/ m_prototype[n] # Null /\ m_prototype[n] = Written[n]
               \/ m_prototype[n] = Null /\ Cause(n)

\* No chain of prototypes is longer than the limit (docs/teff_spec.txt, 5.3.1).
ChainsWithinDepth == \A n \in Node : Cardinality(Descends(n)) < k_max_proto_depth

\* A key is found in the whole prototype chain of a node (docs/teff_spec.txt, 5.3).
LookupFollowsChain ==
    Done => \A n \in Node, key \in {Last(p) : p \in Path} :
               (\E x \in {n} \cup Descends(n) : Child(x, key) # Null)
                   => ResolvePath(n, <<key>>) # Null
=============================================================================
