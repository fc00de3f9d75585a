------------------------------- MODULE Requests -------------------------------
(***************************************************************************)
(* What the HTTP server does with a request between the socket and its     *)
(* handler: libmicrohttpd calls request_handler() once when it has the     *)
(* header, once for each piece of the body, once at the end, and           *)
(* route_request_completed() when the request is over, for whatever        *)
(* reason.  One thread makes the calls of all connections.  What a call    *)
(* leaves for the next one is in con_cls, here for each connection.        *)
(*                                                                         *)
(* The requests are those the page makes.  A URL is what is written after  *)
(* /api/, the sequence of the texts between the "/", empty for a static    *)
(* file; a word may be one character of such a text.  A body is its size.  *)
(***************************************************************************)
EXTENDS Text

CONSTANTS
    Conns,          \* connections
    Vms, Snaps, Tags,      \* names of machines, snapshots and shared folders
    Operations,     \* the operations the page is used for
    Pieces,         \* sizes of the pieces in which a body arrives
    MaxBody         \* bound: the size of a body

ASSUME NameAssumption == Vms \cup Snaps \cup Tags \subseteq Seq(STRING)
ASSUME PieceAssumption == Pieces \subseteq Nat \ {0}
ASSUME BodyAssumption == MaxBody \in Nat

Ask(op, method, url) == [op |-> op, method |-> method, url |-> url]

\* What is written of a machine, and of a snapshot or folder of it.
Of(v, what) == <<<<"vms">>, v, <<what>>>>
OfOne(v, what, name) == <<<<"vms">>, v, <<what>>, name>>
Do(v, what, name, action) == <<<<"vms">>, v, <<what>>, name, <<action>>>>

MachineRequests(v) ==
    {Ask(op, "POST", Of(v, op)) :
        op \in {"start", "stop", "pause", "resume", "force-stop",
                "convert-nvram", "orphan-cleanup"}}
    \cup {Ask("orphan-check", "GET", Of(v, "orphan-check"))}

SnapshotRequests(v) ==
    (UNION {{Ask("detail", "GET", OfOne(v, "snapshots", s)),
             Ask("edit", "PUT", OfOne(v, "snapshots", s)),
             Ask("delete", "DELETE", OfOne(v, "snapshots", s)),
             Ask("edit form", "GET", Do(v, "snapshots", s, "edit")),
             Ask("revert-confirm", "GET", Do(v, "snapshots", s, "revert-confirm")),
             Ask("revert", "POST", Do(v, "snapshots", s, "revert")),
             Ask("merge", "POST", Do(v, "snapshots", s, "merge"))} : s \in Snaps})
    \cup {Ask("tree", "GET", Of(v, "snapshots")),
          Ask("create", "POST", Of(v, "snapshots")),
          Ask("form", "GET", OfOne(v, "snapshots", <<"form">>))}

FolderRequests(v) ==
    (UNION {{Ask("remove", "DELETE", OfOne(v, "shared-folders", t)),
             Ask("mount", "POST", Do(v, "shared-folders", t, "mount")),
             Ask("unmount", "POST", Do(v, "shared-folders", t, "unmount"))} : t \in Tags})
    \cup {Ask("folders", "GET", Of(v, "shared-folders")),
          Ask("add", "POST", Of(v, "shared-folders")),
          Ask("folder form", "GET", OfOne(v, "shared-folders", <<"form">>)),
          Ask("automount", "POST", OfOne(v, "shared-folders", <<"automount">>))}

PageRequests ==
    {Ask("static", "GET", <<>>),
     Ask("ping", "GET", <<<<"ping">>>>),
     Ask("idle-check", "GET", <<<<"idle-check">>>>),
     Ask("browse", "GET", <<<<"browse">>>>),
     Ask("list", "GET", <<<<"vms">>>>)}

AllRequests ==
    PageRequests \cup UNION {MachineRequests(v) \cup SnapshotRequests(v)
                                 \cup FolderRequests(v) : v \in Vms}
Requested == {r \in AllRequests : r.op \in Operations}

ASSUME NullAssumption == \A r \in AllRequests : \A k \in DOMAIN r.url : r.url[k] # TextNull

-----------------------------------------------------------------------------
(* On the way.  The page writes names into a URL as they are (it escapes   *)
(* them for HTML only).                                                    *)

\* The browser takes a "?" or "#" for the end of the path.
Ends == {"?", "#"}

\* A backslash is a "/" to the browser.  libmicrohttpd decodes escapes: two
\* of them, here one character each, stand for all.
Arrives(c) == CASE c \in {"backslash", "%2F"} -> "/" [] c = "%41" -> "A" [] OTHER -> c

\* The path that route_dispatch() gets.
OnWire(text) ==
    [i \in 1 .. First({e \in DOMAIN text : text[e] \in Ends}, Len(text) + 1) - 1
        |-> Arrives(text[i])]

\* The five segments it cuts off; none is looked at behind one that is NULL.
Segments(path) ==
    LET null == First({k \in 1 .. 5 : PathSegment(path, k - 1) = TextNull}, 6)
    IN  [k \in 1 .. null - 1 |-> PathSegment(path, k - 1)]

Received == [url \in {r.url : r \in Requested} |-> Segments(OnWire(Joined(url)))]

\* They are compared with words only.
AsWord(text) == IF Len(text) = 1 THEN text[1] ELSE "other"
Words(url) == [k \in DOMAIN url |-> AsWord(url[k])]

\* A text that arrives as it was written.  What a URL loses, names "." and
\* ".." and a blank at the end, is not modelled above.
Plain(text) ==
    /\ text \notin {<<>>, <<".">>, <<"..">>}
    /\ text[Len(text)] # " "
    /\ \A i \in DOMAIN text :
          text[i] \notin Ends \cup {"/"} /\ Arrives(text[i]) = text[i]

\* The form for a new snapshot hides a snapshot of that name.
Hidden(r) ==
    r.op # "form" /\ Len(r.url) > 3 /\ r.url[3] = <<"snapshots">> /\ r.url[4] = <<"form">>

-----------------------------------------------------------------------------
(* The dispatch of route_dispatch(): the operation whose handler is        *)
(* called, "404" or "405".                                                 *)

Listed(table, method) == IF method \in DOMAIN table THEN table[method] ELSE "405"

SnapshotRoute(method, url) ==
    LET actions == {<<"edit", "GET", "edit form">>,
                    <<"revert", "POST", "revert">>,
                    <<"revert-confirm", "GET", "revert-confirm">>,
                    <<"merge", "POST", "merge">>}
        fitting == {a \in actions : Len(url) > 4 /\ a[1] = url[5] /\ a[2] = method}
    IN  CASE Len(url) = 3 -> Listed([GET |-> "tree", POST |-> "create"], method)
          [] Len(url) > 3 /\ url[4] = "form" -> Listed([GET |-> "form"], method)
          [] Len(url) = 4 /\ url[4] # "form" ->
               Listed([GET |-> "detail", PUT |-> "edit", DELETE |-> "delete"], method)
          [] OTHER -> IF fitting = {} THEN "404" ELSE (CHOOSE a \in fitting : TRUE)[3]

\* Mutant of FolderRoute: "automount" is looked for before what is done to a
\* folder of that name.
FolderRouteEarly(method, url) ==
    IF Len(url) = 3 THEN Listed([GET |-> "folders", POST |-> "add"], method)
    ELSE IF url[4] = "automount" /\ method = "POST" THEN "automount"
    ELSE IF Len(url) > 4 /\ method = "POST" /\ url[5] \in {"mount", "unmount"} THEN url[5]
    ELSE Listed([GET |-> IF url[4] = "form" THEN "folder form" ELSE "405",
                 DELETE |-> "remove"], method)

FolderRoute(method, url) ==
    IF Len(url) = 3 THEN Listed([GET |-> "folders", POST |-> "add"], method)
    ELSE IF Len(url) > 4 /\ method = "POST" /\ url[5] \in {"mount", "unmount"} THEN url[5]
    ELSE Listed([GET |-> IF url[4] = "form" THEN "folder form" ELSE "405",
                 POST |-> IF url[4] = "automount" THEN "automount" ELSE "405",
                 DELETE |-> "remove"], method)

MachineRoute(method, url) ==
    LET posts == {"start", "stop", "pause", "resume", "force-stop",
                  "convert-nvram", "orphan-cleanup"}
    IN  IF \/ method = "POST" /\ url[3] \in posts
           \/ method = "GET" /\ url[3] = "orphan-check"
        THEN url[3] ELSE "404"

Route(method, url) ==
    IF url[1] = "browse" /\ method = "GET" THEN "browse"
    ELSE IF url[1] # "vms" \/ Len(url) = 2 THEN "404"
    ELSE IF Len(url) = 1 THEN Listed([GET |-> "list"], method)
    ELSE IF url[3] = "snapshots" THEN SnapshotRoute(method, url)
    ELSE IF url[3] = "shared-folders" THEN FolderRoute(method, url)
    ELSE MachineRoute(method, url)

-----------------------------------------------------------------------------
VARIABLES
    phase,          \* of a connection: "idle", "new", "open", "answered", "closed"
    request,        \* the request it makes
    conCls,         \* con_cls: "NULL", "1", or a "context"
    contexts,       \* the connections whose context is allocated
    bodySize, bodyAlloc,    \* of the context
    sent,           \* history: the size of the body that has arrived
    handled, body   \* history: the handler that was called, the body it got

vars == <<phase, request, conCls, contexts, bodySize, bodyAlloc, sent, handled, body>>

HasBody(r) == r.method \in {"POST", "PUT", "DELETE"}

Init ==
    /\ phase = [c \in Conns |-> "idle"]
    /\ request \in [Conns -> Requested]
    /\ conCls = [c \in Conns |-> "NULL"]
    /\ contexts = {}
    /\ bodySize = [c \in Conns |-> 0] /\ bodyAlloc = [c \in Conns |-> 0]
    /\ sent = [c \in Conns |-> 0]
    /\ handled = [c \in Conns |-> "none"] /\ body = [c \in Conns |-> 0]

\* The header has arrived.
Arrive(c) ==
    /\ phase[c] = "idle"
    /\ phase' = [phase EXCEPT ![c] = "new"]
    /\ request' \in {[request EXCEPT ![c] = r] : r \in Requested}
    /\ UNCHANGED <<conCls, contexts, bodySize, bodyAlloc, sent, handled, body>>

Serve(c, handler) ==
    /\ phase' = [phase EXCEPT ![c] = "answered"]
    /\ handled' = [handled EXCEPT ![c] = handler]
    /\ body' = [body EXCEPT ![c] = bodySize[c]]
    /\ UNCHANGED <<request, conCls, contexts, bodySize, bodyAlloc, sent>>

\* The first call: request_handler() answers the two short questions itself,
\* and route_dispatch() what has no body.
FirstServes(c) ==
    /\ phase[c] = "new"
    /\ request[c].url # <<>>
    /\ ~HasBody(request[c])
    /\ LET words == Words(Received[request[c].url])
       IN  Serve(c, IF words[1] \in {"ping", "idle-check"} THEN words[1]
                    ELSE Route(request[c].method, words))

\* The first call for a static file.
FirstMarks(c) ==
    /\ phase[c] = "new"
    /\ request[c].url = <<>>
    /\ phase' = [phase EXCEPT ![c] = "open"]
    /\ conCls' = [conCls EXCEPT ![c] = "1"]
    /\ UNCHANGED <<request, contexts, bodySize, bodyAlloc, sent, handled, body>>

\* request_context_new(), with an empty body
FirstAllocates(c) ==
    /\ phase[c] = "new"
    /\ HasBody(request[c])
    /\ phase' = [phase EXCEPT ![c] = "open"]
    /\ conCls' = [conCls EXCEPT ![c] = "context"]
    /\ contexts' = contexts \cup {c}
    /\ UNCHANGED <<request, bodySize, bodyAlloc, sent, handled, body>>

\* Mutant of Grown: no room for the 0 at the end.
GrownTight(size, n, alloc) ==
    LET needed == size + n
    IN  IF needed <= alloc THEN alloc ELSE IF needed < 1024 THEN 1024 ELSE needed * 2

\* What request_context_append() makes of the buffer.
Grown(size, n, alloc) ==
    LET needed == size + n + 1
    IN  IF needed <= alloc THEN alloc ELSE IF needed < 1024 THEN 1024 ELSE needed * 2

\* Mutant of AppendPiece: the library is not told that the piece was taken.
AppendTwice(c, n) ==
    /\ phase[c] = "open"
    /\ conCls[c] = "context"
    /\ sent[c] + n <= MaxBody
    /\ sent' = [sent EXCEPT ![c] = @ + n]
    /\ bodyAlloc' = [bodyAlloc EXCEPT ![c] = Grown(bodySize[c], n + n, @)]
    /\ bodySize' = [bodySize EXCEPT ![c] = @ + n + n]
    /\ UNCHANGED <<phase, request, conCls, contexts, handled, body>>

\* Mutant of AppendPiece: a body that fits the first buffer is thought complete.
AppendFirst(c, n) ==
    /\ phase[c] = "open"
    /\ conCls[c] = "context"
    /\ sent[c] + n <= MaxBody
    /\ sent' = [sent EXCEPT ![c] = @ + n]
    /\ bodyAlloc' = [bodyAlloc EXCEPT ![c] = Grown(bodySize[c], n, @)]
    /\ bodySize' = [bodySize EXCEPT ![c] = IF @ > 0 THEN @ ELSE n]
    /\ UNCHANGED <<phase, request, conCls, contexts, handled, body>>

\* A call with a piece of the body.
AppendPiece(c, n) ==
    /\ phase[c] = "open"
    /\ conCls[c] = "context"
    /\ sent[c] + n <= MaxBody
    /\ sent' = [sent EXCEPT ![c] = @ + n]
    /\ bodyAlloc' = [bodyAlloc EXCEPT ![c] = Grown(bodySize[c], n, @)]
    /\ bodySize' = [bodySize EXCEPT ![c] = @ + n]
    /\ UNCHANGED <<phase, request, conCls, contexts, handled, body>>

\* The call at the end.
Last(c) ==
    /\ phase[c] = "open"
    /\ Serve(c, IF request[c].url = <<>> THEN "static"
                ELSE Route(request[c].method, Words(Received[request[c].url])))

\* MHD_NO, after an allocation that failed; or the client goes away.
Close(c) ==
    /\ phase[c] \in {"new", "open"}
    /\ phase' = [phase EXCEPT ![c] = "closed"]
    /\ UNCHANGED <<request, conCls, contexts, bodySize, bodyAlloc, sent, handled, body>>

\* Whether route_request_completed() frees the context.
Freed(c) == conCls[c] = "context"

\* The library has con_cls at NULL for the next request of the connection.
Completed(c) ==
    /\ phase[c] \in {"answered", "closed"}
    /\ phase' = [phase EXCEPT ![c] = "idle"]
    /\ contexts' = IF Freed(c) THEN contexts \ {c} ELSE contexts
    /\ conCls' = [conCls EXCEPT ![c] = "NULL"]
    /\ bodySize' = [bodySize EXCEPT ![c] = 0]
    /\ bodyAlloc' = [bodyAlloc EXCEPT ![c] = 0]
    /\ sent' = [sent EXCEPT ![c] = 0]
    /\ handled' = [handled EXCEPT ![c] = "none"]
    /\ body' = [body EXCEPT ![c] = 0]
    /\ UNCHANGED request

Next ==
    \E c \in Conns :
        \/ Arrive(c) \/ FirstServes(c) \/ FirstMarks(c) \/ FirstAllocates(c)
        \/ \E n \in Pieces : AppendPiece(c, n)
        \/ Last(c) \/ Close(c) \/ Completed(c)

Spec == Init /\ [][Next]_vars

-----------------------------------------------------------------------------
(* The types of the variables.                                             *)
TypeOK ==
    /\ phase \in [Conns -> {"idle", "new", "open", "answered", "closed"}]
    /\ request \in [Conns -> Requested]
    /\ conCls \in [Conns -> {"NULL", "1", "context"}]
    /\ contexts \subseteq Conns
    /\ bodySize \in [Conns -> 0 .. MaxBody] /\ bodyAlloc \in [Conns -> Nat]
    /\ sent \in [Conns -> 0 .. MaxBody]
    /\ body \in [Conns -> 0 .. MaxBody]

\* The body and the 0 after it are in the buffer.
BodyFits ==
    \A c \in contexts : bodySize[c] > 0 => bodySize[c] < bodyAlloc[c]

(* routes.c:1363-1384: a handler gets the whole body of its own request,   *)
(* however the calls of connections are interleaved.                       *)
WholeBody ==
    \A c \in Conns :
        phase[c] = "answered" /\ HasBody(request[c]) => body[c] = sent[c]

\* The contexts that are allocated are those a connection has.
ContextsFreed == contexts = {c \in Conns : conCls[c] = "context"}

(* routes.c:48-65, 1580: however a body is cut into pieces, it never       *)
(* leaves its buffer, and whether requests are answered or break off, no   *)
(* context outlives its request or is freed before it.                     *)
ContextsSound == BodyFits /\ ContextsFreed

(* Each request of the page reaches the handler it is for, with the names  *)
(* it is about (routes.c:1386-1568), if they are plain and not hidden:     *)
(* html_render.c:286-365, 495-665 and tree.js:417 do not escape others for *)
(* a URL, and they lead elsewhere (README, 6).                             *)
ReachesHandler ==
    \A c \in Conns :
        LET r == request[c]
        IN  /\ phase[c] = "answered"
            /\ \A k \in DOMAIN r.url : Plain(r.url[k])
            /\ ~Hidden(r)
            => handled[c] = r.op /\ Received[r.url] = r.url
=============================================================================
