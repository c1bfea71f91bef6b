------------------------------ MODULE Dashboard ------------------------------
(***************************************************************************)
(* src/server: the event bus between the plugins and the browser           *)
(* (events.py), the web application's list and WebSocket endpoints         *)
(* (web/app.py), and the page (web/static/dashboard.html).                 *)
(*                                                                         *)
(* The connections of IngestServer appear here as what their StatsPlugin   *)
(* makes of them: sessions that start, count frames and end.  The server   *)
(* is one asyncio loop, a step runs to the next await that suspends.  A    *)
(* session is the snapshot to_dict gives, cut down to is_live and          *)
(* frame_count.                                                            *)
(***************************************************************************)
EXTENDS Integers, Sequences, FiniteSets

CONSTANTS
    Sessions,
    Tabs,
    QueueSize,      \* maxsize of a subscriber's queue
    PublishEvery,   \* _PUBLISH_EVERY_N_FRAMES
    SocketSize,     \* events send_text takes before it suspends
    MaxFrames,      \* bound: frames per session
    MaxConnects     \* bound: WebSocket connections per tab

ASSUME DashboardAssumption ==
    /\ QueueSize \in Nat \ {0} /\ PublishEvery \in Nat \ {0}
    /\ SocketSize \in Nat \ {0} /\ MaxFrames \in Nat /\ MaxConnects \in Nat

Connections == Tabs \X (1 .. MaxConnects)

VARIABLES
    sessions,   \* ctx.sessions
    queue,      \* the subscriber's queue of each connection
    handler,    \* ws_live of each connection: "none", "running", "ended"
    link,       \* "none", "up", "closed", or "lost": dead, and the server
                \* does not know
    socket,     \* events sent and not yet received
    load,       \* loadInitial: "requested", "answered", "done", "failed"
    response,   \* the answer of /api/sessions
    ws,         \* the tab's WebSocket: "none", "connecting", "open", "retry"
    connects,   \* connections the tab has opened
    view,       \* liveSessions and pastSessions of the tab
    newest,     \* history: the event published last
    owed        \* history: tabs that were subscribed then and still are

serverVars == <<sessions, newest>>
linkVars == <<queue, handler, link, socket>>
tabVars == <<load, response, ws, connects, view>>
vars == <<serverVars, linkVars, tabVars, owed>>

Absent == [is_live |-> FALSE, frame_count |-> -1]
Snapshot == [is_live : BOOLEAN, frame_count : Nat]
Event == [id : Sessions, session : Snapshot]

Current(t) == <<t, connects[t]>>

Init ==
    /\ sessions = [s \in Sessions |-> Absent]
    /\ queue = [c \in Connections |-> <<>>]
    /\ handler = [c \in Connections |-> "none"]
    /\ link = [c \in Connections |-> "none"]
    /\ socket = [c \in Connections |-> <<>>]
    /\ load = [t \in Tabs |-> "requested"]
    /\ response = [t \in Tabs |-> [s \in Sessions |-> Absent]]
    /\ ws = [t \in Tabs |-> "none"] /\ connects = [t \in Tabs |-> 0]
    /\ view = [t \in Tabs |-> [s \in Sessions |-> Absent]]
    /\ newest = <<>> /\ owed = {}

-----------------------------------------------------------------------------
(* EventBus.                                                               *)

(* Faulty variant: the new event is the one dropped.                       *)
PutUnlessFull(q, e) == IF Len(q) = QueueSize THEN q ELSE Append(q, e)
(* Faulty variant: nothing is dropped.                                     *)
PutAlways(q, e) == Append(q, e)
(* put_nowait; a full queue loses its oldest event first.                  *)
Put(q, e) == Append(IF Len(q) = QueueSize THEN Tail(q) ELSE q, e)

Subscribed == {c \in Connections : handler[c] = "running"}

Publish(e) ==
    /\ queue' = [c \in Connections |->
                    IF c \in Subscribed THEN Put(queue[c], e) ELSE queue[c]]
    /\ newest' = <<e>>
    /\ owed' = {t \in Tabs : Current(t) \in Subscribed /\ link[Current(t)] = "up"}

-----------------------------------------------------------------------------
(* What the ingest side does to a session; see IngestServer.               *)

Becomes(s, snapshot) == sessions' = [sessions EXCEPT ![s] = snapshot]

SessionStart(s) ==
    /\ sessions[s] = Absent
    /\ Becomes(s, [is_live |-> TRUE, frame_count |-> 0])
    /\ Publish([id |-> s, session |-> sessions'[s]])
    /\ UNCHANGED <<handler, link, socket, tabVars>>

VideoChunk(s) ==
    /\ sessions[s].is_live /\ sessions[s].frame_count < MaxFrames
    /\ Becomes(s, [sessions[s] EXCEPT !.frame_count = @ + 1])
    /\ IF sessions'[s].frame_count % PublishEvery = 0
       THEN Publish([id |-> s, session |-> sessions'[s]])
       ELSE UNCHANGED <<queue, newest, owed>>
    /\ UNCHANGED <<handler, link, socket, tabVars>>

(* ended_at is set and session_end published without suspending between.   *)
SessionEnd(s) ==
    /\ sessions[s].is_live
    /\ Becomes(s, [sessions[s] EXCEPT !.is_live = FALSE])
    /\ Publish([id |-> s, session |-> sessions'[s]])
    /\ UNCHANGED <<handler, link, socket, tabVars>>

-----------------------------------------------------------------------------
(* The web application.                                                    *)

ListSessions(t) ==
    /\ load[t] = "requested"
    /\ response' = [response EXCEPT ![t] = sessions]
    /\ load' = [load EXCEPT ![t] = "answered"]
    /\ UNCHANGED <<serverVars, linkVars, ws, connects, view, owed>>

(* ws_live: accept, subscribe.                                             *)
Accept(t) ==
    /\ ws[t] = "connecting" /\ handler[Current(t)] = "none"
    /\ handler' = [handler EXCEPT ![Current(t)] = "running"]
    /\ link' = [link EXCEPT ![Current(t)] = "up"]
    /\ ws' = [ws EXCEPT ![t] = "open"]
    /\ UNCHANGED <<serverVars, queue, socket, load, response, connects, view, owed>>

(* One turn of ws_live's loop.  What is sent on a lost link is gone.       *)
SendEvent(c) ==
    /\ handler[c] = "running" /\ queue[c] # <<>>
    /\ link[c] \in {"up", "lost"}
    /\ Len(socket[c]) < SocketSize
    /\ queue' = [queue EXCEPT ![c] = Tail(@)]
    /\ socket' = IF link[c] = "up"
                 THEN [socket EXCEPT ![c] = Append(@, Head(queue[c]))]
                 ELSE socket
    /\ UNCHANGED <<serverVars, handler, link, tabVars, owed>>

(* Faulty variant: no finally clause.                                      *)
StillSubscribed(c) == "running"
AfterDisconnect(c) == "ended"

(* send_text raises: the finally clause unsubscribes.  Nothing else tells  *)
(* the handler that its client has gone.                                   *)
SendFails(c) ==
    /\ handler[c] = "running" /\ queue[c] # <<>>
    /\ link[c] = "closed"
    /\ handler' = [handler EXCEPT ![c] = AfterDisconnect(c)]
    /\ queue' = [queue EXCEPT ![c] = IF AfterDisconnect(c) = "ended" THEN <<>> ELSE Tail(@)]
    /\ UNCHANGED <<serverVars, link, socket, tabVars, owed>>

(* Keepalive pings find a lost link closed.                                *)
NoticeLost(c) ==
    /\ link[c] = "lost"
    /\ link' = [link EXCEPT ![c] = "closed"]
    /\ UNCHANGED <<serverVars, queue, handler, socket, tabVars, owed>>

-----------------------------------------------------------------------------
(* The page.                                                               *)

(* loadInitial: upsert every session of the answer.                        *)
LoadInitial(t) ==
    /\ load[t] = "answered"
    /\ view' = [view EXCEPT ![t] = [s \in Sessions |->
                    IF response[t][s] = Absent THEN view[t][s] ELSE response[t][s]]]
    /\ load' = [load EXCEPT ![t] = "done"]
    /\ UNCHANGED <<serverVars, linkVars, response, ws, connects, owed>>

(* The promise is rejected: connectWs is never called.                     *)
FetchFails(t) ==
    /\ load[t] \in {"requested", "answered"}
    /\ load' = [load EXCEPT ![t] = "failed"]
    /\ UNCHANGED <<serverVars, linkVars, response, ws, connects, view, owed>>

(* Faulty variant: does not wait for loadInitial.                          *)
MayConnectAtOnce(t) == ws[t] \in {"none", "retry"}
MayConnect(t) == load[t] = "done" /\ ws[t] \in {"none", "retry"}

(* connectWs, at first or two seconds after onclose.                       *)
ConnectWs(t) ==
    /\ MayConnect(t)
    /\ connects[t] < MaxConnects
    /\ connects' = [connects EXCEPT ![t] = @ + 1]
    /\ ws' = [ws EXCEPT ![t] = "connecting"]
    /\ UNCHANGED <<serverVars, linkVars, load, response, view, owed>>

(* onmessage: upsert.                                                      *)
Receive(t) ==
    LET c == Current(t)
        e == Head(socket[c])
    IN  /\ ws[t] = "open" /\ socket[c] # <<>>
        /\ socket' = [socket EXCEPT ![c] = Tail(@)]
        /\ view' = [view EXCEPT ![t][e.id] = e.session]
        /\ UNCHANGED <<serverVars, queue, handler, link, load, response, ws, connects, owed>>

(* onclose.  Guarded so that the bound never keeps a tab from retrying.    *)
CloseWs(t, how) ==
    /\ ws[t] = "open" /\ connects[t] < MaxConnects
    /\ ws' = [ws EXCEPT ![t] = "retry"]
    /\ link' = [link EXCEPT ![Current(t)] = how]
    /\ socket' = [socket EXCEPT ![Current(t)] = <<>>]
    /\ owed' = owed \ {t}
    /\ UNCHANGED <<serverVars, queue, handler, load, response, connects, view>>

-----------------------------------------------------------------------------
Ingest == \E s \in Sessions : SessionStart(s) \/ VideoChunk(s) \/ SessionEnd(s)

Page(t) == LoadInitial(t) \/ ConnectWs(t) \/ Receive(t)
Serve(t) == ListSessions(t) \/ Accept(t)
Handle(c) == SendEvent(c) \/ SendFails(c) \/ NoticeLost(c)

Trouble(t) == FetchFails(t) \/ \E how \in {"closed", "lost"} : CloseWs(t, how)

Next ==
    \/ Ingest
    \/ \E t \in Tabs : Page(t) \/ Serve(t) \/ Trouble(t)
    \/ \E c \in Connections : Handle(c)

(* The server's loop and the browser run what is ready.  Nothing says that *)
(* a session must go on or a connection fail.                              *)
Spec ==
    /\ Init /\ [][Next]_vars
    /\ \A t \in Tabs : WF_vars(Page(t)) /\ WF_vars(Serve(t))
    /\ \A c \in Connections : WF_vars(Handle(c))

-----------------------------------------------------------------------------
(* Types, and publish's bound on every subscriber's queue.                 *)
TypeOK ==
    /\ sessions \in [Sessions -> Snapshot \cup {Absent}]
    /\ queue \in [Connections -> Seq(Event)]
    /\ handler \in [Connections -> {"none", "running", "ended"}]
    /\ link \in [Connections -> {"none", "up", "closed", "lost"}]
    /\ socket \in [Connections -> Seq(Event)]
    /\ load \in [Tabs -> {"requested", "answered", "done", "failed"}]
    /\ response \in [Tabs -> [Sessions -> Snapshot \cup {Absent}]]
    /\ ws \in [Tabs -> {"none", "connecting", "open", "retry"}]
    /\ connects \in [Tabs -> 0 .. MaxConnects]
    /\ view \in [Tabs -> [Sessions -> Snapshot \cup {Absent}]]
    /\ newest \in Seq(Event) /\ owed \subseteq Tabs
    /\ \A c \in Connections : Len(queue[c]) <= QueueSize

(* Is b the same session as a at the same or a later time?                 *)
NotBefore(a, b) ==
    /\ a.frame_count <= b.frame_count
    /\ a.frame_count >= 0 /\ ~a.is_live => a = b

(* A tab's row of a session never goes back in time: no ended session      *)
(* comes to life again and no counter falls, whatever is dropped, lost or  *)
(* reconnected (loadInitial().then(connectWs), publish's drop-oldest).     *)
ViewsNeverGoBack ==
    [][\A t \in Tabs, s \in Sessions : NotBefore(view[t][s], view'[t][s])]_vars

(* A tab that stays connected shows the event published last, however far  *)
(* behind it is and whatever was dropped on the way (publish).             *)
FreshestIsShown ==
    \A t \in Tabs :
        <>[](t \in owed => view[t][newest[1].id] = newest[1].session)

(* A subscription whose client has gone is given up once an event reaches  *)
(* it (ws_live's finally).                                                 *)
DeadSubscriptionsGo ==
    \A c \in Connections :
        [](link[c] = "closed" /\ queue[c] # <<>> => <>(handler[c] = "ended"))

Waiting(c) == socket[c] \o queue[c]

(* README: live session monitoring, "the dashboard's live tables listen to *)
(* this".  A tab that is connected and has received all there is shows     *)
(* exactly the sessions that are live.                                     *)
LiveTableIsRight ==
    \A t \in Tabs :
        ws[t] = "open" /\ Waiting(Current(t)) = <<>> =>
            {s \in Sessions : view[t][s].is_live} = {s \in Sessions : sessions[s].is_live}
=============================================================================
