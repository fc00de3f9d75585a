------------------------- MODULE SnapshotTree_proof -------------------------
(***************************************************************************)
(* Proofs about SnapshotTree, for any number of snapshots and any order.   *)
(* The parents libvirt keeps have no cycle; a request that nothing has     *)
(* disturbed has copied them, so that no set of nodes can hang together    *)
(* and apart from the root.                                                *)
(***************************************************************************)
EXTENDS SnapshotTree, FiniteSetTheorems, TLAPS

(* The parents have no cycle: in every set of snapshots there is one whose *)
(* parent is outside.                                                      *)
Acyclic == \A S \in SUBSET exists : S # {} => \E s \in S : up[s] \notin S

(* What a request knows is what libvirt knows, until a change.             *)
Copied ==
    calm /\ phase # "idle" =>
        /\ nodes = exists
        /\ nodes # {}
        /\ phase # "current" /\ ~failed => cur = current
        /\ \A s \in nodes : named[s] \in {None, up[s]}

\* The nodes the pass with this name has come to.
Past(pass) == IF phase = pass THEN nodes \ todo ELSE nodes

Attached(s) ==
    \/ named[s] \in nodes \ {s} /\ par[s] = named[s]
    \/ /\ named[s] \notin nodes \ {s}
       /\ root \in nodes
       /\ s = root \/ par[s] = root

Hung == phase = "link" \/ Linked => \A s \in Past("link") : Attached(s)

(* There is a set of nodes that the search is done with, and their         *)
(* children are done with or on the stack.                                 *)
Searched ==
    phase \in {"pop", "done"} /\ root # None /\ shown = None /\ ~failed
        /\ Cardinality(nodes) <= MaxStack + 1 =>
    \E V \in SUBSET nodes :
        /\ root \in V \cup stack
        /\ cur \notin V
        /\ \A s \in nodes : par[s] \in V => s \in V \cup stack
        /\ phase = "done" => stack = {}

Shown ==
    /\ shown # None => phase = "done" /\ shown = cur
    /\ phase = "pop" => root # None
    /\ failed => shown = None /\ (phase = "done" \/ cur = None)

(* A node is not its own parent: the root is not among those to come.      *)
NotOwn ==
    /\ \A s \in Snaps : par[s] # s
    /\ phase = "link" => root \notin todo
    /\ phase \in {"idle", "current", "read"} => root = None /\ par = NoParents

(* The root hangs nowhere, and neither does a node that is to come.        *)
RootFree ==
    /\ root # None => par[root] = None
    /\ phase = "link" => \A s \in todo : par[s] = None

(* Where a request starts from.                                            *)
Idle ==
    /\ phase \notin {"pop", "done"} => stack = {}
    /\ phase \in {"idle", "current"} => named = NoParents
    /\ phase = "current" => todo = nodes

IInv ==
    /\ TypeOK
    /\ Idle
    /\ Acyclic
    /\ Copied
    /\ Hung
    /\ Searched
    /\ Shown
    /\ NotOwn
    /\ RootFree

-----------------------------------------------------------------------------
(* A new snapshot, whose parent is there already, closes no cycle.         *)
LEMMA TakeAcyclic ==
    ASSUME TypeOK, Acyclic, NEW s \in Snaps, Take(s)
    PROVE Acyclic'
  <1> SUFFICES ASSUME NEW S \in SUBSET exists', S # {}
               PROVE \E t \in S : up'[t] \notin S
    BY DEF Acyclic
  <1>1. up'[s] = current /\ current # s /\ \A t \in Snaps \ {s} : up'[t] = up[t]
    BY NoneAssumption DEF TypeOK, Take
  <1>2. CASE S = {s}
    BY <1>1, <1>2
  <1>3. CASE S # {s}
    <2>1. S \ {s} # {} /\ S \ {s} \in SUBSET exists
      BY <1>3 DEF Take
    <2>2. PICK t \in S \ {s} : up[t] \notin S \ {s}
      BY <2>1 DEF Acyclic
    <2>3. up[t] # s
      BY <2>1, <2>2, NoneAssumption DEF TypeOK, Take
    <2> QED
      BY <1>1, <2>1, <2>2, <2>3 DEF TypeOK
  <1> QED
    BY <1>2, <1>3

(* Children that move up to the parent of their parent close no cycle.     *)
LEMMA DeleteAcyclic ==
    ASSUME TypeOK, Acyclic, NEW d \in Snaps, Delete(d)
    PROVE Acyclic'
  <1> SUFFICES ASSUME NEW S \in SUBSET exists', S # {}
               PROVE \E t \in S : up'[t] \notin S
    BY DEF Acyclic
  <1>1. S \in SUBSET exists /\ d \notin S /\ d \in exists
    BY DEF Delete
  <1>2. \A t \in S : up'[t] = IF up[t] = d THEN up[d] ELSE up[t]
    BY <1>1 DEF Delete, TypeOK
  <1>3. PICK t \in S : up[t] \notin S
    BY <1>1 DEF Acyclic
  <1>4. CASE up[d] \notin S
    BY <1>2, <1>3, <1>4
  <1>5. CASE up[d] \in S
    <2>1. S \cup {d} \in SUBSET exists
      BY <1>1
    <2>2. PICK w \in S \cup {d} : up[w] \notin S \cup {d}
      BY <2>1 DEF Acyclic
    <2>3. w \in S
      BY <1>5, <2>2
    <2> QED
      BY <1>2, <2>2, <2>3
  <1> QED
    BY <1>4, <1>5

(* The tree of an undisturbed request is whole.                            *)
LEMMA HungIsReachable ==
    ASSUME TypeOK, Acyclic, Copied, Hung, Linked, calm
    PROVE Reachable
  <1>1. /\ nodes = exists
        /\ nodes # {}
        /\ \A s \in nodes : named[s] \in {None, up[s]}
        /\ \A s \in nodes : Attached(s)
    BY DEF Copied, Hung, Linked, Past
  <1>2. None \notin nodes
    BY NoneAssumption DEF TypeOK
  <1>3. root \in nodes
    <2>1. PICK s \in nodes : up[s] \notin nodes
      BY <1>1 DEF Acyclic
    <2> QED
      BY <1>1, <1>2, <2>1 DEF Attached
  <1>4. ASSUME NEW S \in SUBSET nodes, Closed(S) PROVE S = nodes
    <2> SUFFICES ASSUME nodes \ S # {} PROVE FALSE
      OBVIOUS
    <2>1. PICK t \in nodes \ S : up[t] \notin nodes \ S
      BY <1>1 DEF Acyclic
    <2>2. par[t] \notin S /\ t # root
      BY <1>4, <2>1 DEF Closed
    <2>3. CASE named[t] \in nodes \ {t}
      BY <1>1, <1>2, <2>1, <2>2, <2>3 DEF Attached
    <2>4. CASE named[t] \notin nodes \ {t}
      BY <1>1, <1>4, <2>2, <2>4 DEF Attached, Closed
    <2> QED
      BY <2>3, <2>4
  <1> QED
    BY <1>3, <1>4 DEF Reachable

(* The stack never has to refuse a node of a tree that fits.               *)
LEMMA NothingDropped ==
    ASSUME TypeOK, NEW s \in stack, Cardinality(nodes) <= MaxStack + 1,
           par[s] # s, NEW rest \in SUBSET (nodes \ {s}), NEW t,
           t \in Pushed(rest, Children(s))
    PROVE t = rest \cup Children(s)
  <1>1. IsFiniteSet(nodes)
    BY FiniteAssumption, FS_Subset DEF TypeOK
  <1>2. s \in nodes
    BY DEF TypeOK
  <1>3. rest \cup Children(s) \subseteq nodes \ {s}
    BY DEF Children
  <1>4. /\ IsFiniteSet(nodes \ {s})
        /\ Cardinality(nodes \ {s}) = Cardinality(nodes) - 1
    BY <1>1, <1>2, FS_RemoveElement
  <1>5. /\ IsFiniteSet(rest \cup Children(s))
        /\ Cardinality(rest \cup Children(s)) <= Cardinality(nodes \ {s})
    BY <1>3, <1>4, FS_Subset
  <1>6. /\ Cardinality(nodes) \in Nat
        /\ Cardinality(rest \cup Children(s)) \in Nat
    BY <1>1, <1>5, FS_CardinalityType
  <1>7. Cardinality(rest \cup Children(s)) <= MaxStack
    BY <1>4, <1>5, <1>6, StackAssumption
  <1> QED
    BY <1>7 DEF Pushed

-----------------------------------------------------------------------------
USE DEF vars, libvirtVars, requestVars

LEMMA InitIInv == Init => IInv
  <1> SUFFICES ASSUME Init PROVE IInv
    OBVIOUS
  <1>1. TypeOK
    BY DEF Init, TypeOK, NoParents, Names
  <1>2. Acyclic
    BY DEF Init, Acyclic
  <1>3. Copied /\ Hung /\ Searched /\ Shown
    BY DEF Init, Copied, Hung, Searched, Shown, Linked
  <1>4. NotOwn /\ Idle /\ RootFree
    BY NoneAssumption DEF Init, NotOwn, NoParents, Idle, RootFree
  <1> QED
    BY <1>1, <1>2, <1>3, <1>4 DEF IInv

(* A change of the snapshots ends the calm of a request, or comes between  *)
(* two requests.                                                           *)
LEMMA ChangeIInv ==
    ASSUME IInv, NEW s \in Snaps, Take(s) \/ Delete(s) \/ Revert(s)
    PROVE IInv'
  <1> USE DEF IInv
  <1>1. UNCHANGED requestVars /\ calm' = (phase = "idle")
    BY DEF Take, Delete, Revert, Change
  <1>2. /\ exists' \in SUBSET Snaps
        /\ up' \in [Snaps -> exists' \cup {None}]
        /\ current' \in exists' \cup {None}
    <2>1. CASE Take(s)
      BY <2>1 DEF Take, TypeOK
    <2>2. CASE Delete(s)
      <3>1. \A t \in exists : up[t] # t
        <4> TAKE t \in exists
        <4>1. {t} \in SUBSET exists
          OBVIOUS
        <4> QED
          BY <4>1 DEF Acyclic
      <3>2. up[s] \in exists' \cup {None}
        BY <2>2, <3>1, NoneAssumption DEF Delete, TypeOK
      <3>3. \A t \in Snaps : up'[t] \in exists' \cup {None}
        BY <2>2, <3>2 DEF Delete, TypeOK
      <3> QED
        BY <2>2, <3>2, <3>3 DEF Delete, TypeOK
    <2>3. CASE Revert(s)
      BY <2>3 DEF Revert, TypeOK
    <2> QED
      BY <2>1, <2>2, <2>3
  <1>3. TypeOK'
    BY <1>1, <1>2 DEF TypeOK
  <1>4. Acyclic'
    <2>1. CASE Revert(s)
      BY <2>1 DEF Revert, Acyclic
    <2> QED
      BY <2>1, TakeAcyclic, DeleteAcyclic
  <1>5. Copied' /\ Hung' /\ Searched' /\ Shown' /\ NotOwn'
    <2>1. Copied'
      BY <1>1 DEF Copied, Linked
    <2>2. Hung'
      BY <1>1 DEF Hung, Linked, Past, Attached
    <2>3. Searched' /\ Shown' /\ NotOwn'
      BY <1>1 DEF Searched, Shown, NotOwn
    <2> QED
      BY <2>1, <2>2, <2>3
  <1>6. Idle' /\ RootFree'
    BY <1>1 DEF Idle, RootFree
  <1> QED
    BY <1>3, <1>4, <1>5, <1>6

(* Up to the last XML the tree is not begun.                               *)
LEMMA ListIInv ==
    ASSUME IInv, List \/ ReadCurrent \/ \E s \in Snaps : ReadXml(s)
    PROVE IInv'
  <1> USE DEF IInv
  <1>1. CASE List
    <2>1. TypeOK'
      <3>1. root = None /\ par = NoParents /\ stack = {} /\ shown = None
        BY <1>1 DEF List, NotOwn, Idle, Shown
      <3> QED
        BY <1>1, <3>1 DEF List, TypeOK, NoParents
    <2>2. Acyclic'
      BY <1>1 DEF List, Acyclic
    <2>3. Copied' /\ Idle'
      <3>1. \A s \in Snaps : named[s] = None
        BY <1>1 DEF List, Idle, NoParents
      <3>2. /\ phase' = "current" /\ nodes' = exists /\ todo' = exists
            /\ exists # {} /\ exists \subseteq Snaps
            /\ UNCHANGED <<exists, up, named, cur, current, failed>>
        BY <1>1 DEF List, TypeOK
      <3>3. Copied'
        BY <3>1, <3>2 DEF Copied
      <3>4. Idle'
        <4>1. named' = NoParents
          BY <1>1 DEF List, Idle
        <4>2. stack' = {} /\ NoParents' = NoParents
          BY <1>1 DEF List, Idle, NoParents
        <4> QED
          BY <3>2, <4>1, <4>2 DEF Idle
      <3> QED
        BY <3>3, <3>4
    <2>4. Hung' /\ Searched'
      BY <1>1 DEF List, Hung, Searched, Linked
    <2>5. Shown' /\ NotOwn' /\ RootFree'
      BY <1>1 DEF List, Shown, NotOwn, RootFree
    <2> QED
      BY <2>1, <2>2, <2>3, <2>4, <2>5
  <1>2. CASE ReadCurrent
    <2>1. TypeOK'
      BY <1>2 DEF ReadCurrent, TypeOK, Names
    <2>2. Acyclic'
      BY <1>2 DEF ReadCurrent, Acyclic
    <2>3. Copied'
      BY <1>2 DEF ReadCurrent, Copied
    <2>4. todo = nodes
      BY <1>2 DEF ReadCurrent, Idle
    <2>5. Hung' /\ Searched' /\ Shown' /\ NotOwn'
      BY <1>2, <2>4 DEF ReadCurrent, Hung, Searched, Shown, NotOwn,
                        Linked, Past
    <2>6. Idle' /\ RootFree'
      BY <1>2 DEF ReadCurrent, Idle, RootFree
    <2> QED
      BY <2>1, <2>2, <2>3, <2>5, <2>6
  <1>3. ASSUME NEW s \in Snaps, ReadXml(s) PROVE IInv'
    <2>1. PICK p \in ParentRead(s) : named' = [named EXCEPT ![s] = p]
      BY <1>3 DEF ReadXml
    <2>2. /\ s \in todo /\ phase = "read"
          /\ \/ todo = {s} /\ phase' = "link" /\ todo' = nodes
             \/ todo # {s} /\ phase' = "read" /\ todo' = todo \ {s}
          /\ UNCHANGED <<libvirtVars, nodes, cur, root, par, stack, shown, failed, calm>>
      BY <1>3 DEF ReadXml, Visit
    <2>3. p \in Names
      BY DEF ParentRead, TypeOK, Names
    <2>4. TypeOK'
      BY <2>1, <2>2, <2>3 DEF TypeOK
    <2>5. Acyclic'
      BY <2>2 DEF Acyclic
    <2>6. calm => p \in {None, up[s]}
      BY <2>2 DEF Copied, TypeOK, ParentRead
    <2>7. Copied'
      BY <2>1, <2>2, <2>6 DEF Copied, TypeOK
    <2>9. Hung'
      BY <2>2 DEF Hung, Past, Linked
    <2>10. Searched' /\ Shown' /\ NotOwn'
      BY <2>2, NoneAssumption DEF Searched, Shown, NotOwn, TypeOK
    <2>11. Idle'
      BY <2>2 DEF Idle
    <2>12. RootFree'
      <3>1. root = None /\ \A t \in nodes : par[t] = None
        BY <2>2 DEF NotOwn, NoParents, TypeOK
      <3> QED
        BY <2>2, <3>1 DEF RootFree
    <2> QED
      BY <2>4, <2>5, <2>7, <2>9, <2>10, <2>11, <2>12
  <1> QED
    BY <1>1, <1>2, <1>3
(* Every link hangs a node where it belongs, and none under itself.        *)
LEMMA LinkIInv ==
    ASSUME IInv, NEW s \in Snaps, Link(s)
    PROVE IInv'
  <1> USE DEF IInv
  <1>1. /\ s \in todo /\ phase = "link"
        /\ \/ todo = {s} /\ phase' = "search" /\ todo' = nodes
           \/ todo # {s} /\ phase' = "link" /\ todo' = todo \ {s}
        /\ UNCHANGED <<libvirtVars, nodes, cur, named, stack, shown, failed, calm>>
    BY DEF Link, Visit
  <1>2. s \in nodes /\ s # None /\ None \notin nodes /\ None \notin Snaps
    BY <1>1, NoneAssumption DEF TypeOK
  <1>3. root # s
    BY <1>1 DEF NotOwn
  <1>4. \/ /\ named[s] \in nodes \ {s}
           /\ par' = [par EXCEPT ![s] = named[s]] /\ root' = root
        \/ /\ named[s] \notin nodes \ {s} /\ root = None
           /\ root' = s /\ par' = par
        \/ /\ named[s] \notin nodes \ {s} /\ root # None
           /\ par' = [par EXCEPT ![s] = root] /\ root' = root
    BY DEF Link
  <1>5. TypeOK'
    BY <1>1, <1>2, <1>4 DEF TypeOK
  <1>6. Acyclic' /\ Copied' /\ Idle'
    BY <1>1 DEF Acyclic, Copied, Idle
  <1>8. Hung'
    <2>1. \A t \in nodes \ todo : Attached(t)
      BY <1>1 DEF Hung, Past
    <2>2. ASSUME NEW t \in nodes, t \notin todo \/ t = s PROVE Attached(t)'
      <3>1. CASE t = s
        BY <1>1, <1>2, <1>3, <1>4, <3>1 DEF Attached, TypeOK
      <3>2. CASE t # s
        BY <1>1, <1>2, <1>4, <2>1, <2>2, <3>2 DEF Attached, TypeOK
      <3> QED
        BY <3>1, <3>2
    <2> QED
      BY <1>1, <2>2 DEF Hung, Past, Linked
  <1>9. Searched' /\ Shown'
    BY <1>1 DEF Searched, Shown
  <1>10. NotOwn'
    <2>1. \A t \in Snaps : par'[t] # t
      BY <1>3, <1>4 DEF NotOwn, TypeOK
    <2>2. phase' = "link" => root' \notin todo'
      BY <1>1, <1>4 DEF NotOwn
    <2> QED
      BY <1>1, <2>1, <2>2 DEF NotOwn
  <1>11. RootFree'
    <2>1. par[s] = None
      BY <1>1 DEF RootFree
    <2>2. \A t \in Snaps \ {s} : par'[t] = par[t]
      BY <1>4 DEF TypeOK
    <2>3. root' # None => par'[root'] = None
      <3>1. CASE root' = s
        BY <1>3, <1>4, <2>1, <3>1
      <3>2. CASE root' # s
        BY <1>2, <1>4, <2>2, <3>2 DEF RootFree, TypeOK
      <3> QED
        BY <3>1, <3>2
    <2>4. phase' = "link" => \A t \in todo' : par'[t] = None
      BY <1>1, <2>2 DEF RootFree, TypeOK
    <2> QED
      BY <2>3, <2>4 DEF RootFree
  <1> QED
    BY <1>5, <1>6, <1>8, <1>9, <1>10, <1>11

(* The search keeps a set of nodes it is done with.                        *)
LEMMA PopSearched ==
    ASSUME IInv, NEW s \in Snaps, Pop(s)
    PROVE Searched'
  <1> USE DEF IInv
  <1>1. /\ phase = "pop" /\ s \in stack /\ root # None
        /\ UNCHANGED <<nodes, cur, root, par, failed>>
    BY DEF Pop, Shown
  <1>2. CASE s = cur
    BY <1>2, NoneAssumption DEF Pop, Searched
  <1>3. CASE s # cur
    <2> SUFFICES ASSUME shown = None, ~failed, Cardinality(nodes) <= MaxStack + 1
                 PROVE \E V \in SUBSET nodes :
                         /\ root \in V \cup stack'
                         /\ cur \notin V
                         /\ \A t \in nodes : par[t] \in V => t \in V \cup stack'
                         /\ phase' = "done" => stack' = {}
      BY <1>1, <1>3 DEF Pop, Searched
    <2>1. PICK V \in SUBSET nodes :
            /\ root \in V \cup stack
            /\ cur \notin V
            /\ \A t \in nodes : par[t] \in V => t \in V \cup stack
      BY <1>1 DEF Searched
    <2>2. stack \ {s} \in SUBSET (nodes \ {s}) /\ s \in nodes
      BY <1>1 DEF TypeOK
    <2>3. stack' = (stack \ {s}) \cup Children(s)
      <3>1. stack' \in Pushed(stack \ {s}, Children(s))
        BY <1>3 DEF Pop
      <3> QED
        BY <1>1, <2>2, <3>1, NothingDropped DEF NotOwn
    <2>4. V \cup {s} \in SUBSET nodes
      BY <2>2
    <2>5. \A t \in nodes : par[t] \in V \cup {s} => t \in (V \cup {s}) \cup stack'
      BY <2>1, <2>3 DEF Children
    <2>6. phase' = "done" => stack' = {}
      BY <1>3 DEF Pop
    <2> QED
      BY <1>3, <2>1, <2>3, <2>4, <2>5, <2>6
  <1> QED
    BY <1>2, <1>3

LEMMA SearchIInv ==
    ASSUME IInv, Search \/ (\E s \in Snaps : Pop(s)) \/ Answer
    PROVE IInv'
  <1> USE DEF IInv
  <1>1. CASE Search
    <2>1. TypeOK'
      BY <1>1 DEF Search, TypeOK
    <2>2. /\ phase = "search" /\ phase' \in {"pop", "done"}
          /\ phase' = "pop" => root # None
          /\ \/ failed' = failed /\ (root # None => phase' = "pop" /\ stack' = {root})
             \/ failed' = TRUE /\ phase' = "done" /\ stack' = stack
          /\ shown = None
          /\ UNCHANGED <<libvirtVars, nodes, todo, cur, named, root, par, shown, calm>>
      BY <1>1 DEF Search, Shown, TypeOK
    <2>3. Acyclic' /\ Copied' /\ Idle' /\ Shown' /\ NotOwn' /\ RootFree'
      BY <2>2 DEF Acyclic, Copied, Idle, Shown, NotOwn, RootFree
    <2>4. Hung'
      BY <2>2 DEF Hung, Past, Linked, Attached
    <2>5. Searched'
      <3>1. CASE root = None \/ failed'
        BY <2>2, <3>1 DEF Searched
      <3>2. CASE root # None /\ ~failed'
        <4>1. stack' = {root} /\ phase' = "pop" /\ None \notin nodes
          BY <2>2, <3>2, NoneAssumption DEF TypeOK
        <4>2. \A t \in nodes : par[t] \notin {}
          OBVIOUS
        <4>3. {} \in SUBSET nodes
          OBVIOUS
        <4> QED
          BY <2>2, <4>1, <4>2, <4>3 DEF Searched
      <3> QED
        BY <3>1, <3>2
    <2> QED
      BY <2>1, <2>3, <2>4, <2>5
  <1>2. ASSUME NEW s \in Snaps, Pop(s) PROVE IInv'
    <2>1. /\ phase = "pop" /\ phase' \in {"pop", "done"} /\ s \in stack
          /\ UNCHANGED <<libvirtVars, nodes, todo, cur, named, root, par, failed, calm>>
      BY <1>2 DEF Pop
    <2>2. stack' \subseteq nodes
      <3>1. Pushed(stack \ {s}, Children(s)) \subseteq SUBSET nodes
        BY DEF Pushed, Children, TypeOK
      <3> QED
        BY <1>2, <3>1 DEF Pop, TypeOK
    <2>3. TypeOK'
      BY <1>2, <2>1, <2>2 DEF Pop, TypeOK
    <2>4. Acyclic' /\ Copied' /\ Idle' /\ NotOwn' /\ RootFree'
      BY <2>1 DEF Acyclic, Copied, Idle, NotOwn, RootFree
    <2>5. Shown'
      BY <1>2, <2>1 DEF Pop, Shown
    <2>6. Hung'
      BY <2>1 DEF Hung, Past, Linked, Attached
    <2> QED
      BY <1>2, <2>3, <2>4, <2>5, <2>6, PopSearched
  <1>3. CASE Answer
    <2>1. TypeOK'
      BY <1>3 DEF Answer, TypeOK, NoParents, Names
    <2>2. Acyclic' /\ Copied' /\ Idle'
      BY <1>3 DEF Answer, Acyclic, Copied, Idle
    <2>3. Hung' /\ Searched' /\ Shown'
      BY <1>3 DEF Answer, Hung, Searched, Shown, Linked
    <2>4. NotOwn' /\ RootFree'
      BY <1>3, NoneAssumption DEF Answer, NotOwn, NoParents, RootFree
    <2> QED
      BY <2>1, <2>2, <2>3, <2>4
  <1> QED
    BY <1>1, <1>2, <1>3

LEMMA NextIInv == IInv /\ [Next]_vars => IInv'
  <1> SUFFICES ASSUME IInv, [Next]_vars PROVE IInv'
    OBVIOUS
  <1>1. CASE Next
    BY <1>1, ChangeIInv, ListIInv, LinkIInv, SearchIInv DEF Next
  <1>2. CASE UNCHANGED vars
    <2>1. TypeOK' /\ Acyclic' /\ Copied' /\ Idle' /\ Shown' /\ NotOwn'
      BY <1>2 DEF IInv, TypeOK, Acyclic, Copied, Idle, Shown, NotOwn
    <2>2. Hung' /\ Searched' /\ RootFree'
      BY <1>2 DEF IInv, RootFree, Hung, Searched, Past, Linked, Attached
    <2> QED
      BY <2>1, <2>2 DEF IInv
  <1> QED
    BY <1>1, <1>2

(* The invariant holds in every behaviour.                                 *)
THEOREM IInvHolds == Spec => []IInv
  BY InitIInv, NextIInv, PTL DEF Spec

(* The variables keep their types, and the tree links listed nodes only.   *)
THEOREM TypeCorrect == Spec => []TypeOK
  BY IInvHolds, PTL DEF IInv

(* libvirt_backend.c:480: every snapshot of an undisturbed request hangs   *)
(* in the tree, in whatever order they come and whatever XML is missing.   *)
THEOREM TreeIsWhole == Spec => []AllReachable
  <1>1. IInv => AllReachable
    BY HungIsReachable DEF IInv, AllReachable
  <1> QED
    BY <1>1, IInvHolds, PTL

(* libvirt_backend.c:463-488: a snapshot whose XML gave a parent is drawn  *)
(* under the parent it has.                                                *)
THEOREM ParentsAreDrawn == Spec => []OwnParent
  <1>1. ASSUME IInv PROVE OwnParent
    <2> SUFFICES ASSUME Linked, calm, NEW s \in nodes, named[s] # None
                 PROVE par[s] = up[s]
      BY DEF OwnParent
    <2>1. named[s] = up[s] /\ nodes = exists /\ Attached(s)
      BY <1>1 DEF IInv, Copied, Hung, Past, Linked
    <2>2. up[s] \in nodes /\ s \in Snaps
      BY <1>1, <2>1 DEF IInv, TypeOK
    <2>3. up[s] # s
      <3>1. {s} \in SUBSET exists
        BY <2>1
      <3> QED
        BY <1>1, <3>1 DEF IInv, Acyclic
    <2> QED
      BY <2>1, <2>2, <2>3 DEF Attached
  <1> QED
    BY <1>1, IInvHolds, PTL

(* libvirt_backend.c:479: whatever other tools do meanwhile, no ring of    *)
(* parents hangs in the tree; a ring with the root would have its parent.  *)
THEOREM RecursionsEnd == Spec => []TreeEnds
  <1>1. ASSUME IInv PROVE TreeEnds
    <2> SUFFICES ASSUME Linked, NEW ring \in SUBSET nodes, root \in ring, par[root] \in ring
                 PROVE FALSE
      BY DEF TreeEnds
    <2>1. None \notin nodes
      BY <1>1, NoneAssumption DEF IInv, TypeOK
    <2> QED
      BY <1>1, <2>1 DEF IInv, RootFree
  <1> QED
    BY <1>1, IInvHolds, PTL

(* snapshot.h:55: the search finds the current snapshot in every tree that *)
(* is no larger than its stack and one; when libvirt does not say which it *)
(* is, or whether the machine runs, no node is taken for it.               *)
THEOREM CurrentIsFound == Spec => []CurrentShown
  <1>1. ASSUME IInv PROVE CurrentShown
    <2> SUFFICES ASSUME phase = "done", calm, Cardinality(nodes) <= MaxStack + 1
                 PROVE shown = IF failed THEN None ELSE current
      BY DEF CurrentShown
    <2>1. ~failed => cur = current
      BY <1>1 DEF IInv, Copied
    <2>2. nodes = exists /\ Reachable
      BY <1>1, HungIsReachable DEF IInv, Copied, Linked
    <2>3. CASE failed \/ shown # None
      BY <1>1, <2>1, <2>3 DEF IInv, Shown
    <2>4. CASE ~failed /\ shown = None
      <3>1. root # None
        BY <1>1, <2>2, NoneAssumption DEF IInv, Reachable, TypeOK
      <3>2. PICK V \in SUBSET nodes :
              /\ root \in V \cup stack
              /\ cur \notin V
              /\ \A t \in nodes : par[t] \in V => t \in V \cup stack
              /\ phase = "done" => stack = {}
        BY <1>1, <2>4, <3>1 DEF IInv, Searched
      <3>3. V = nodes
        BY <2>2, <3>2 DEF Reachable, Closed
      <3> QED
        BY <1>1, <2>1, <2>2, <2>4, <3>2, <3>3 DEF IInv, TypeOK
    <2> QED
      BY <2>3, <2>4
  <1> QED
    BY <1>1, IInvHolds, PTL
=============================================================================
