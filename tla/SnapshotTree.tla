---------------------------- MODULE SnapshotTree ----------------------------
(***************************************************************************)
(* The tree of snapshots that the page draws.  libvirt is asked for the    *)
(* snapshots, then for the current one, then for the XML of each; the tree *)
(* is linked from the parents the XML names (lv_list_snapshots()), and a   *)
(* search from its root finds the node to hang "Current State" under       *)
(* (snapshot_tree_add_current_state()).  Each call to libvirt is a step:   *)
(* other tools may take, delete or revert snapshots in between.            *)
(*                                                                         *)
(* libvirt lists in no particular order (flags 0), so each pass takes the  *)
(* nodes in any order, and so does the search.  Memory does not run out.   *)
(***************************************************************************)
EXTENDS Naturals, FiniteSets

CONSTANTS
    Snaps,          \* names of snapshots
    None,           \* no name
    MaxStack,       \* nodes the stack of the search holds: 255
    External,       \* other tools change the snapshots during a request
    XmlFaults,      \* virDomainSnapshotGetXMLDesc() may fail
    CallFaults      \* so may virDomainSnapshotCurrent() and list_vms()

ASSUME NoneAssumption == None \notin Snaps
ASSUME FiniteAssumption == IsFiniteSet(Snaps)
ASSUME StackAssumption == MaxStack \in Nat \ {0}
ASSUME SwitchAssumption == {External, XmlFaults, CallFaults} \subseteq BOOLEAN

VARIABLES
    exists,     \* the snapshots libvirt has
    up,         \* up[s], the parent of s
    current,    \* the current snapshot
    phase,      \* where the request is
    nodes,      \* the snapshots it was given, each a node
    todo,       \* those that the present pass has not come to
    cur,        \* current_name: the node that has is_current
    named,      \* xml_parent_names
    root,       \* the root of the tree
    par,        \* par[s], the node s is a child of
    stack,      \* the stack of the search
    shown,      \* the node "Current State" is a child of
    failed,     \* history: one of the calls of CallFaults has failed
    calm        \* history: no snapshot has changed since the list was made

libvirtVars == <<exists, up, current>>
requestVars == <<phase, nodes, todo, cur, named, root, par, stack, shown, failed>>
vars == <<libvirtVars, requestVars, calm>>

NoParents == [s \in Snaps |-> None]

Init ==
    /\ exists = {}
    /\ up = NoParents
    /\ current = None
    /\ phase = "idle"
    /\ nodes = {}
    /\ todo = {}
    /\ cur = None
    /\ named = NoParents
    /\ root = None
    /\ par = NoParents
    /\ stack = {}
    /\ shown = None
    /\ failed = FALSE
    /\ calm = TRUE

-----------------------------------------------------------------------------
(* libvirt, at the hands of other handlers (between requests) or tools.    *)

Change ==
    /\ phase = "idle" \/ External
    /\ calm' = (phase = "idle")
    /\ UNCHANGED requestVars

\* A new snapshot is a child of the current one, and becomes current.
Take(s) ==
    /\ s \notin exists
    /\ exists' = exists \cup {s}
    /\ up' = [up EXCEPT ![s] = current]
    /\ current' = s
    /\ Change

\* Its children become children of its parent.
Delete(s) ==
    /\ s \in exists
    /\ exists' = exists \ {s}
    /\ up' = [t \in Snaps |-> IF t = s THEN None
                              ELSE IF up[t] = s THEN up[s] ELSE up[t]]
    /\ current' = IF current = s THEN up[s] ELSE current
    /\ Change

Revert(s) ==
    /\ s \in exists
    /\ current' = s
    /\ UNCHANGED <<exists, up>>
    /\ Change

-----------------------------------------------------------------------------
(* lv_list_snapshots().                                                    *)

\* virDomainListAllSnapshots(); without a snapshot there is no tree.
List ==
    /\ phase = "idle"
    /\ exists # {}
    /\ phase' = "current"
    /\ nodes' = exists
    /\ todo' = exists
    /\ calm' = TRUE
    /\ UNCHANGED <<libvirtVars, cur, named, root, par, stack, shown, failed>>

\* Whether a call does what it should.
Works == IF CallFaults THEN BOOLEAN ELSE {TRUE}

\* virDomainSnapshotCurrent(); when it fails, as when there is none, no node
\* is the current one.
ReadCurrent ==
    /\ phase = "current"
    /\ phase' = "read"
    /\ \E works \in Works :
        /\ cur' = IF works THEN current ELSE None
        /\ failed' = ~works
    /\ UNCHANGED <<libvirtVars, nodes, todo, named, root, par, stack, shown, calm>>

\* The pass comes to a node, and is over after the last one.
Visit(s, next) ==
    /\ s \in todo
    /\ IF todo = {s} THEN phase' = next /\ todo' = nodes
       ELSE phase' = phase /\ todo' = todo \ {s}

\* What the XML may say of the parent.  That of a snapshot that is gone, or
\* whose XML cannot be had, is not known.
ParentRead(s) ==
    {IF s \in exists THEN up[s] ELSE None} \cup (IF XmlFaults THEN {None} ELSE {})

\* Phase 1
ReadXml(s) ==
    /\ phase = "read"
    /\ Visit(s, "link")
    /\ \E p \in ParentRead(s) : named' = [named EXCEPT ![s] = p]
    /\ UNCHANGED <<libvirtVars, nodes, cur, root, par, stack, shown, failed, calm>>

\* Mutant of Link: a parent that is not listed is linked to all the same.
LinkUnlisted(s) ==
    /\ phase = "link"
    /\ Visit(s, "search")
    /\ IF named[s] # None
       THEN par' = [par EXCEPT ![s] = named[s]] /\ UNCHANGED root
       ELSE IF root = None THEN root' = s /\ UNCHANGED par
       ELSE par' = [par EXCEPT ![s] = root] /\ UNCHANGED root
    /\ UNCHANGED <<libvirtVars, nodes, cur, named, stack, shown, failed, calm>>

\* Mutant of Link: of several roots, the last is kept.
LinkLastRoot(s) ==
    /\ phase = "link"
    /\ Visit(s, "search")
    /\ IF named[s] \in nodes \ {s}
       THEN par' = [par EXCEPT ![s] = named[s]] /\ UNCHANGED root
       ELSE root' = s /\ UNCHANGED par
    /\ UNCHANGED <<libvirtVars, nodes, cur, named, stack, shown, failed, calm>>

\* Mutant of Link: only a parent that the pass has come to is found.
LinkBackwards(s) ==
    /\ phase = "link"
    /\ Visit(s, "search")
    /\ IF named[s] \in nodes \ todo
       THEN par' = [par EXCEPT ![s] = named[s]] /\ UNCHANGED root
       ELSE IF root = None THEN root' = s /\ UNCHANGED par
       ELSE par' = [par EXCEPT ![s] = root] /\ UNCHANGED root
    /\ UNCHANGED <<libvirtVars, nodes, cur, named, stack, shown, failed, calm>>

\* Mutant of Link: the first node of the list is the root.
LinkFirst(s) ==
    /\ phase = "link"
    /\ Visit(s, "search")
    /\ root' = IF root = None THEN s ELSE root
    /\ IF named[s] \in nodes \ {s} THEN par' = [par EXCEPT ![s] = named[s]]
       ELSE IF root = None THEN UNCHANGED par
       ELSE par' = [par EXCEPT ![s] = root]
    /\ UNCHANGED <<libvirtVars, nodes, cur, named, stack, shown, failed, calm>>

\* Phase 2: a node without a parent among the others is the root, or a child
\* of the root if there is one.
Link(s) ==
    /\ phase = "link"
    /\ Visit(s, "search")
    /\ IF named[s] \in nodes \ {s}
       THEN par' = [par EXCEPT ![s] = named[s]] /\ UNCHANGED root
       ELSE IF root = None THEN root' = s /\ UNCHANGED par
       ELSE par' = [par EXCEPT ![s] = root] /\ UNCHANGED root
    /\ UNCHANGED <<libvirtVars, nodes, cur, named, stack, shown, failed, calm>>

-----------------------------------------------------------------------------
(* snapshot_tree_add_current_state().                                      *)

Children(s) == {t \in nodes : par[t] = s}

\* Without a root there is nothing to search: the page shows no snapshots.
\* When list_vms() fails, or does not name the machine, the tree is sent as
\* it is.
Search ==
    /\ phase = "search"
    /\ IF root = None THEN phase' = "done" /\ UNCHANGED <<stack, failed>>
       ELSE \E works \in Works :
            IF works THEN phase' = "pop" /\ stack' = {root} /\ UNCHANGED failed
            ELSE phase' = "done" /\ failed' = TRUE /\ UNCHANGED stack
    /\ UNCHANGED <<libvirtVars, nodes, todo, cur, named, root, par, shown, calm>>

\* Mutant of Pushed: the check is one off.
PushedOneOff(rest, kids) ==
    IF Cardinality(rest \cup kids) < MaxStack THEN {rest \cup kids}
    ELSE {s \in SUBSET (rest \cup kids) : rest \subseteq s /\ Cardinality(s) = MaxStack - 1}

\* What the stack holds after the children: no more than it has room for.
Pushed(rest, kids) ==
    IF Cardinality(rest \cup kids) <= MaxStack THEN {rest \cup kids}
    ELSE {s \in SUBSET (rest \cup kids) : rest \subseteq s /\ Cardinality(s) = MaxStack}

\* A node is taken from the stack: the search ends at the current one.
Pop(s) ==
    /\ phase = "pop"
    /\ s \in stack
    /\ IF s = cur
       THEN /\ phase' = "done"
            /\ shown' = s
            /\ UNCHANGED stack
       ELSE /\ stack' \in Pushed(stack \ {s}, Children(s))
            /\ phase' = IF stack' = {} THEN "done" ELSE "pop"
            /\ UNCHANGED shown
    /\ UNCHANGED <<libvirtVars, nodes, todo, cur, named, root, par, failed, calm>>

\* The answer is sent and the tree freed.
Answer ==
    /\ phase = "done"
    /\ phase' = "idle"
    /\ nodes' = {}
    /\ todo' = {}
    /\ cur' = None
    /\ named' = NoParents
    /\ root' = None
    /\ par' = NoParents
    /\ stack' = {}
    /\ shown' = None
    /\ failed' = FALSE
    /\ calm' = TRUE
    /\ UNCHANGED libvirtVars

Next ==
    \/ \E s \in Snaps : Take(s) \/ Delete(s) \/ Revert(s)
    \/ List
    \/ ReadCurrent
    \/ \E s \in Snaps : ReadXml(s) \/ Link(s) \/ Pop(s)
    \/ Search
    \/ Answer

Spec == Init /\ [][Next]_vars

-----------------------------------------------------------------------------
Names == Snaps \cup {None}

(* The types of the variables; the tree links nodes of this list only.     *)
TypeOK ==
    /\ exists \in SUBSET Snaps
    /\ up \in [Snaps -> exists \cup {None}]
    /\ current \in exists \cup {None}
    /\ phase \in {"idle", "current", "read", "link", "search", "pop", "done"}
    /\ nodes \in SUBSET Snaps
    /\ todo \in SUBSET nodes
    /\ cur \in Names
    /\ named \in [Snaps -> Names]
    /\ root \in nodes \cup {None}
    /\ par \in [Snaps -> nodes \cup {None}]
    /\ stack \in SUBSET nodes
    /\ shown \in nodes \cup {None}
    /\ failed \in BOOLEAN
    /\ calm \in BOOLEAN

Linked == phase \in {"search", "pop", "done"}

\* A set that has the root, and with a node its children.
Closed(S) == root \in S /\ \A s \in nodes : par[s] \in S => s \in S

Reachable == root \in nodes /\ \A S \in SUBSET nodes : Closed(S) => S = nodes

(* libvirt_backend.c:480: "keep the node reachable".  Whatever order the   *)
(* snapshots come in, and whatever XML cannot be read, every snapshot of   *)
(* the list hangs in the tree, as long as no other tool interferes.        *)
AllReachable == Linked /\ calm => Reachable

(* Under the same condition a snapshot whose XML gave a parent is drawn     *)
(* under the parent it has (libvirt_backend.c:463-488).                    *)
OwnParent ==
    Linked /\ calm => \A s \in nodes : named[s] # None => par[s] = up[s]

(* snapshot.c:46-59, libvirt_backend.c:479: what other tools do while the  *)
(* XML is read can make a ring of parents, each read at its own time.  No  *)
(* ring hangs in the tree, so that the recursions over it end.             *)
TreeEnds ==
    Linked => \A ring \in SUBSET nodes : (\A s \in ring : par[s] \in ring) => root \notin ring

(* snapshot.h:55: "Current State" is a child of the current snapshot, in a *)
(* tree with no more nodes than the stack of the search has room for.      *)
(* When virDomainSnapshotCurrent() or list_vms() fails the tree has no     *)
(* "Current State", and nothing says so (libvirt_backend.c:406-412,        *)
(* routes.c:392): it is never drawn under another snapshot.                *)
CurrentShown ==
    phase = "done" /\ calm /\ Cardinality(nodes) <= MaxStack + 1 =>
        shown = IF failed THEN None ELSE current
=============================================================================
