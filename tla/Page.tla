---------------------------------- MODULE Page ----------------------------------
(***************************************************************************)
(* One window of the page (static/index.html, static/tree.js) with the     *)
(* handlers it polls: the list of the machines and their power             *)
(* (routes.c:177-286) and the tree of the snapshots of the selected one.   *)
(* The daemon answers one request at a time, but the answers reach the     *)
(* script in any order, after the machines and the selection have changed. *)
(*                                                                         *)
(* What a tree says is its text: whose it is, the snapshots, the current   *)
(* one, and the node "Current State" with the power and the mark.  Other   *)
(* tools, other windows and the guests change machines at any time.        *)
(***************************************************************************)
EXTENDS Naturals, FiniteSets

CONSTANTS
    Machines,
    Powers,         \* vm_state_t: "running", "paused", "shutoff", "other"
    Trees,          \* records [ids, cur, dirty]: what the snapshots may be
    Starts,         \* records [power, trees, user]: the machines at the start,
                    \* and what the user does: [may, most], the kinds and the
                    \* number of clicks
    Nothing,        \* null, "", the empty list, nothing shown yet
    Loading, Failed,    \* shown instead of a tree or of the rows
    Idle, Asked,    \* instead of an answer
    Slots,          \* bound: requests for the tree in flight
    MaxChanges      \* bound: changes and failures around the page

\* What the constants are.
ASSUME PageAssumption ==
    /\ MaxChanges \in Nat
    /\ {"running", "paused", "shutoff"} \subseteq Powers
    /\ \A t \in Trees : t.dirty \in BOOLEAN
    /\ \A s \in Starts :
          /\ s.power \in [Machines -> Powers] /\ s.trees \in [Machines -> Trees]
          /\ s.user.most \in Nat

VARIABLES
    power, trees,   \* of each machine, as libvirt and the marks have it
    page,           \* vm: currentVm; shown: what is in #snapshot-tree; last:
                    \* _lastTreeJson; sel, selCur: the selected snapshot, and
                    \* whether it is the current one; createOff: "+ New
                    \* Snapshot" is disabled
    fetches,        \* of each slot: [of, force, answer], or Nothing
    list,           \* #vm-list: rows (Nothing, Failed, or the power of each
                    \* machine), active, off (disabled Start buttons)
    lastList,       \* _lastVmListHtml
    asks,           \* the requests of #vm-list and of the button above it:
                    \* Idle, Asked, or the answer
    again,          \* another request of #vm-list waits for the one in flight
    post,           \* the request of a power button: [of, op, done], Nothing
    changes, acts,  \* bounded
    user            \* see Starts

pageVars == <<power, trees, page, fetches, list, lastList, asks, again, post, changes, acts, user>>
world == <<power, trees, changes, user>>

-----------------------------------------------------------------------------
(* The answers of the server.                                              *)

\* The answers without a tree: the second has a node "Error", here Failed.
Empty == [of |-> Nothing, ids |-> {}, cur |-> Nothing, dirty |-> FALSE, power |-> Nothing]
Error == [Empty EXCEPT !.ids = {Failed}]

\* The same tree without "Current State".
Stateless(text) == [text EXCEPT !.dirty = FALSE, !.power = Nothing]

\* Mutant of Text: what has no snapshot gets a tree without nodes.
TextBare(m) ==
    [of |-> m, ids |-> trees[m].ids, cur |-> trees[m].cur,
     dirty |-> trees[m].dirty, power |-> power[m]]

\* handle_snapshot_tree(): "Current State" hangs below the current snapshot.
Text(m) ==
    LET tree == [of |-> m, ids |-> trees[m].ids, cur |-> trees[m].cur,
                 dirty |-> trees[m].dirty, power |-> power[m]]
    IN  CASE trees[m].ids = {} -> Empty
          [] trees[m].ids # {} /\ trees[m].cur = Nothing -> Stateless(tree)
          [] OTHER -> tree

Nodes == {Failed} \cup UNION {t.ids : t \in Trees}

\* The buttons of a row in render_vm_list().
Buttons(p) ==
    CASE p = "running" -> {"stop", "pause", "force-stop"}
      [] p = "paused"  -> {"resume", "force-stop"}
      [] p = "shutoff" -> {"start"}
      [] OTHER         -> {"start", "force-stop"}

\* What the one libvirt call of a power handler does; stop asks the guest, which
\* shuts down later or never.
Taken(op, p) ==
    CASE op = "start"      /\ p \notin {"running", "paused"} -> "running"
      [] op = "pause"      /\ p = "running"                  -> "paused"
      [] op = "resume"     /\ p = "paused"                   -> "running"
      [] op = "force-stop" /\ p # "shutoff"                  -> "shutoff"
      [] OTHER -> p

-----------------------------------------------------------------------------
(* The script.                                                             *)

HasRow(l, m) == l.rows \notin {Nothing, Failed} /\ m \in Machines
HasStart(l, m) == HasRow(l, m) /\ "start" \in Buttons(l.rows[m])

\* updateStartButton(), for the row of the selected machine
StartSet(l, m, current) ==
    IF ~HasStart(l, m) THEN l
    ELSE [l EXCEPT !.off = IF current THEN @ \ {m} ELSE @ \cup {m}]

Free == {k \in Slots : fetches[k] = Nothing}

\* The first half of loadSnapshotTree(): what it does to the page.
Loaded(p, m, force) ==
    LET switched == m # p.vm
        q == IF switched THEN [p EXCEPT !.vm = m, !.last = Nothing,
                                        !.sel = Nothing, !.selCur = TRUE]
                         ELSE p
    IN  IF q.last = Nothing \/ force \/ switched
        THEN [q EXCEPT !.shown = Loading] ELSE q

\* The same: the request it makes.
Fetch(p, m, force) ==
    \E k \in Free :
        /\ \A j \in Free : k <= j
        /\ fetches' = [fetches EXCEPT ![k] =
               [of |-> m, force |-> force \/ m # p.vm, answer |-> Asked]]

\* The listeners of vmStateChanged: the tree, by force, and #vm-list (which
\* cannot ask while it waits for an answer, but remembers).  a and w are the
\* requests of the list and whether one waits.
VmStateChanged(a, w) ==
    /\ IF page.vm = Nothing THEN UNCHANGED <<page, fetches>>
       ELSE /\ Fetch(page, page.vm, TRUE)
            /\ page' = Loaded([page EXCEPT !.last = Nothing], page.vm, TRUE)
    /\ asks' = IF a["list"] = Idle THEN [a EXCEPT !["list"] = Asked] ELSE a
    /\ again' = (w \/ a["list"] # Idle)

\* renderTree() and showEmptyState(): the button "+ New Snapshot" follows the
\* "Current State" of a tree, and a selection that is still there is restored.
Rendered(p, text) ==
    [p EXCEPT !.last = text, !.shown = text,
              !.createOff = IF text.power = Nothing THEN @ ELSE ~text.dirty,
              !.selCur = IF p.sel \in text.ids THEN text.cur = p.sel ELSE @]

\* Mutant of Same: a poll never draws over what is there.
SameCached(p, f) == p.last # Nothing /\ ~f.force

\* The smart diff of loadSnapshotTree().
Same(p, f) == f.answer = p.last /\ ~f.force

-----------------------------------------------------------------------------
PageInit ==
    /\ \E s \in Starts : power = s.power /\ trees = s.trees /\ user = s.user
    /\ page = [vm |-> Nothing, shown |-> Nothing, last |-> Nothing,
               sel |-> Nothing, selCur |-> TRUE, createOff |-> FALSE]
    /\ fetches = [k \in Slots |-> Nothing]
    /\ list = [rows |-> Nothing, active |-> Nothing, off |-> {}]
    /\ lastList = Nothing
    /\ asks = [by \in {"list", "button"} |-> IF by = "list" THEN Asked ELSE Idle]
    /\ again = FALSE
    /\ post = Nothing
    /\ changes = 0 /\ acts = 0

\* Somebody else changes a machine or its snapshots; what runs counts as dirty.
Change(m) ==
    /\ changes < MaxChanges
    /\ changes' = changes + 1
    /\ \/ /\ power' \in {[power EXCEPT ![m] = p] : p \in Powers \ {power[m]}}
          /\ UNCHANGED trees
       \/ /\ trees' \in {[trees EXCEPT ![m] = t] : t \in Trees \ {trees[m]}}
          /\ UNCHANGED power
    /\ UNCHANGED <<user, page, fetches, list, lastList, asks, again, post, acts>>

Act(kind) == kind \in user.may /\ acts < user.most /\ acts' = acts + 1

\* selectVm()
SelectVm(m) ==
    /\ Act("select")
    /\ HasRow(list, m)
    /\ list' = [list EXCEPT !.active = m]
    /\ Fetch(page, m, FALSE)
    /\ page' = Loaded(page, m, FALSE)
    /\ UNCHANGED <<world, lastList, asks, again, post>>

\* onNodeClick()
Click(s) ==
    /\ Act("click")
    /\ page.shown \notin {Nothing, Loading, Failed}
    /\ s \in page.shown.ids
    /\ page' = [page EXCEPT !.sel = s, !.selCur = (page.shown.cur = s)]
    /\ list' = StartSet(list, page.vm, page.shown.cur = s)
    /\ UNCHANGED <<world, fetches, lastList, asks, again, post>>

\* The button above the list.
Refresh ==
    /\ Act("refresh")
    /\ asks["button"] = Idle
    /\ asks' = [asks EXCEPT !["button"] = Asked]
    /\ UNCHANGED <<world, page, fetches, list, lastList, again, post>>

\* A power button.
Press(m, op) ==
    /\ Act("press")
    /\ post = Nothing
    /\ HasRow(list, m)
    /\ op \in Buttons(list.rows[m])
    /\ op = "start" => m \notin list.off
    /\ post' = [of |-> m, op |-> op, done |-> FALSE]
    /\ UNCHANGED <<world, page, fetches, list, lastList, asks, again>>

-----------------------------------------------------------------------------
\* The timers: setInterval() of tree.js, "every 10s" of #vm-list.
PollTree ==
    /\ page.vm # Nothing
    /\ Cardinality(Free) > 1
    /\ Fetch(page, page.vm, FALSE)
    /\ page' = Loaded(page, page.vm, FALSE)
    /\ UNCHANGED <<world, list, lastList, asks, again, post, acts>>

PollList ==
    /\ asks' = IF asks["list"] = Idle THEN [asks EXCEPT !["list"] = Asked] ELSE asks
    /\ again' = (again \/ asks["list"] # Idle)
    /\ UNCHANGED <<world, page, fetches, list, lastList, post, acts>>

-----------------------------------------------------------------------------
\* handle_snapshot_tree()
AnswerTree(k) ==
    /\ fetches[k] # Nothing
    /\ fetches[k].answer = Asked
    /\ fetches' = [fetches EXCEPT ![k].answer = Text(fetches[k].of)]
    /\ UNCHANGED <<world, page, list, lastList, asks, again, post, acts>>

\* The same, when list_snapshots() fails, or list_vms(), or the latter does not
\* name the machine: an answer with status 200 in any case.
TreeFails(k) ==
    /\ fetches[k] # Nothing
    /\ fetches[k].answer = Asked
    /\ changes < MaxChanges
    /\ changes' = changes + 1
    /\ \E answer \in {Error, Stateless(Text(fetches[k].of))} :
          fetches' = [fetches EXCEPT ![k].answer = answer]
    /\ UNCHANGED <<power, trees, user, page, list, lastList, asks, again, post, acts>>

\* handle_list_vms()
AnswerList(by) ==
    /\ asks[by] = Asked
    /\ asks' = [asks EXCEPT ![by] = power]
    /\ UNCHANGED <<world, page, fetches, list, lastList, again, post, acts>>

\* The same, when list_vms() fails.
ListFails(by) ==
    /\ asks[by] = Asked
    /\ changes < MaxChanges
    /\ changes' = changes + 1
    /\ asks' = [asks EXCEPT ![by] = Failed]
    /\ UNCHANGED <<power, trees, user, page, fetches, list, lastList, again, post, acts>>

\* A power handler: its call is accepted or refused, or fails.
AnswerPost ==
    /\ post # Nothing
    /\ ~post.done
    /\ post' = [post EXCEPT !.done = TRUE]
    /\ power' \in {power, [power EXCEPT ![post.of] = Taken(post.op, @)]}
    /\ UNCHANGED <<trees, changes, user, page, fetches, list, lastList, asks, again, acts>>

\* No answer comes, or one that is no tree.
FetchFails(k) ==
    /\ fetches[k] # Nothing
    /\ changes < MaxChanges
    /\ changes' = changes + 1
    /\ fetches' = [fetches EXCEPT ![k] = Nothing]
    /\ page' = [page EXCEPT !.shown = Failed]
    /\ UNCHANGED <<power, trees, user, list, lastList, asks, again, post, acts>>

TreeArrives(k) ==
    /\ fetches[k] # Nothing
    /\ fetches[k].answer # Asked
    /\ fetches' = [fetches EXCEPT ![k] = Nothing]
    /\ IF Same(page, fetches[k]) THEN UNCHANGED <<page, list>>
       ELSE /\ page' = Rendered(page, fetches[k].answer)
            /\ list' = IF page.sel \in fetches[k].answer.ids
                       THEN StartSet(list, page.vm, page'.selCur) ELSE list
    /\ UNCHANGED <<world, lastList, asks, again, post, acts>>

\* Mutant of Swapped: Start is as the server rendered it.
SwappedBare(rows) ==
    [rows |-> rows, off |-> {}, active |-> IF rows = Failed THEN Nothing ELSE page.vm]

\* What the listener of htmx:afterSwap makes of new rows.
Swapped(rows) ==
    LET fresh == [rows |-> rows, off |-> {},
                  active |-> IF rows = Failed THEN Nothing ELSE page.vm]
    IN  IF page.sel = Nothing THEN fresh ELSE StartSet(fresh, page.vm, page.selCur)

\* Whether it sends vmStateChanged.
Announces(rows) == lastList # Nothing /\ lastList # Swapped(rows)

ListArrives(by) ==
    LET left == [asks EXCEPT ![by] = IF by = "list" /\ again THEN Asked ELSE Idle]
        wait == again /\ by # "list"
    IN  /\ asks[by] \notin {Idle, Asked}
        /\ list' = Swapped(asks[by])
        /\ lastList' = list'
        /\ IF Announces(asks[by])
           THEN VmStateChanged([left EXCEPT ![by] = Idle], wait)
           ELSE asks' = left /\ again' = wait /\ UNCHANGED <<page, fetches>>
        /\ UNCHANGED <<world, post, acts>>

PostArrives ==
    /\ post # Nothing
    /\ post.done
    /\ post' = Nothing
    /\ VmStateChanged(asks, again)
    /\ UNCHANGED <<world, list, lastList, acts>>

-----------------------------------------------------------------------------
PageNext ==
    \/ \E m \in Machines :
          \/ Change(m) \/ SelectVm(m)
          \/ \E op \in {"start", "stop", "pause", "resume", "force-stop"} : Press(m, op)
    \/ \E s \in Nodes : Click(s)
    \/ Refresh \/ PollTree \/ PollList
    \/ \E k \in Slots : AnswerTree(k) \/ TreeFails(k) \/ FetchFails(k) \/ TreeArrives(k)
    \/ \E by \in {"list", "button"} : AnswerList(by) \/ ListFails(by) \/ ListArrives(by)
    \/ AnswerPost \/ PostArrives

PageSpec == PageInit /\ [][PageNext]_pageVars

\* The timers tick, the daemon's thread answers, and answers arrive.  What
\* needs a free slot for its own request gets one some time.
PageFairness ==
    /\ SF_pageVars(PollTree) /\ WF_pageVars(PollList)
    /\ \A k \in Slots : WF_pageVars(AnswerTree(k)) /\ WF_pageVars(TreeArrives(k))
    /\ \A by \in {"list", "button"} : WF_pageVars(AnswerList(by)) /\ SF_pageVars(ListArrives(by))
    /\ WF_pageVars(AnswerPost) /\ SF_pageVars(PostArrives)

PageFairSpec == PageSpec /\ PageFairness

-----------------------------------------------------------------------------
(* The types of the variables.                                             *)
Texts == {Empty, Error}
            \cup [of : Machines, ids : {t.ids : t \in Trees} \ {{}},
                  cur : {t.cur : t \in Trees}, dirty : BOOLEAN, power : Powers \cup {Nothing}]
Rows == {Nothing, Failed} \cup [Machines -> Powers]
Lists == [rows : Rows, active : Machines \cup {Nothing}, off : SUBSET Machines]

PageTypeOK ==
    /\ power \in [Machines -> Powers]
    /\ trees \in [Machines -> Trees]
    /\ page \in [vm : Machines \cup {Nothing}, sel : Nodes \cup {Nothing},
                 shown : Texts \cup {Nothing, Loading, Failed},
                 last : Texts \cup {Nothing}, selCur : BOOLEAN, createOff : BOOLEAN]
    /\ fetches \in [Slots -> {Nothing} \cup
                     [of : Machines, force : BOOLEAN, answer : Texts \cup {Asked}]]
    /\ list \in Lists /\ lastList \in Lists \cup {Nothing}
    /\ asks \in [{"list", "button"} -> {Idle, Asked, Failed} \cup [Machines -> Powers]]
    /\ again \in BOOLEAN
    /\ post = Nothing \/ post \in [of : Machines, done : BOOLEAN,
                    op : {"start", "stop", "pause", "resume", "force-stop"}]
    /\ changes \in 0 .. MaxChanges /\ acts \in 0 .. user.most

(* index.html:203-207, tree.js:425: while a snapshot is selected that is   *)
(* not the current one, the machine cannot be started, whatever lists and  *)
(* trees arrive and in whatever order.                                     *)
StartGuarded ==
    page.sel # Nothing /\ ~page.selCur /\ HasStart(list, page.vm)
        => page.vm \in list.off

ListRight == list.rows = power

TreeRight ==
    /\ page.shown \in {Text(page.vm), Failed}
    /\ \/ page.shown = Failed \/ page.shown.power = Nothing
       \/ page.createOff <=> ~trees[page.vm].dirty

StartRight ==
    page.shown # Failed /\ HasStart(list, page.vm) /\ page.sel \in trees[page.vm].ids
        => (page.vm \in list.off <=> page.sel # trees[page.vm].cur)

(* No request that draws over the page by force. *)
Settled == \A k \in Slots : fetches[k] # Nothing => ~fetches[k].force

(* tree.js:51, 388, 481-488, index.html:60: once machines and user are     *)
(* quiet, the list is that of libvirt, the tree that of the selected       *)
(* machine, "+ New Snapshot" follows that tree, and Start is disabled      *)
(* exactly if the selected snapshot is not the one the machine is in,      *)
(* whatever answers were late or failed.  But a tree that failed to arrive *)
(* stays an error, and one without "Current State" leaves the button as it *)
(* was (README, 6).  And the requests settle: a new list announces a       *)
(* change (index.html:209-213), for which the list is asked again.         *)
CatchesUp ==
    <>[](ListRight /\ Settled /\ (page.vm # Nothing => TreeRight /\ StartRight))
=============================================================================
