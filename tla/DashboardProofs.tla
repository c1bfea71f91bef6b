-------------------------- MODULE DashboardProofs --------------------------
(* Theorems about Dashboard: types with the bound of every subscriber's    *)
(* queue, and that no row of the page ever goes back in time, for any      *)
(* number of sessions, tabs, connections and frames and any queue size.    *)
EXTENDS Dashboard, TLAPS

Row == Snapshot \cup {Absent}

(* Of one session, a sequence holds later snapshots behind earlier ones,   *)
Rising(q) == \A i, j \in 1 .. Len(q) :
                i < j /\ q[i].id = q[j].id => NotBefore(q[i].session, q[j].session)

(* all of q comes after all of p,                                          *)
Follows(p, q) == \A i \in 1 .. Len(p), j \in 1 .. Len(q) :
                    p[i].id = q[j].id => NotBefore(p[i].session, q[j].session)

(* and a table of sessions is newer, or older, than all of it.             *)
Behind(q, rows) == \A i \in 1 .. Len(q) : NotBefore(q[i].session, rows[q[i].id])
Ahead(q, rows) == \A i \in 1 .. Len(q) : NotBefore(rows[q[i].id], q[i].session)

(* Nothing waits for a connection that is not accepted; a tab's newest     *)
(* connection is its last.                                                 *)
ConnectionsInv ==
    /\ \A c \in Connections : handler[c] = "none" => queue[c] = <<>> /\ socket[c] = <<>>
    /\ \A t \in Tabs, k \in 1 .. MaxConnects : k > connects[t] => handler[<<t, k>>] = "none"
    /\ \A t \in Tabs : ws[t] # "none" => connects[t] > 0

(* No connection is opened before the first answer is shown.               *)
LoadInv ==
    \A t \in Tabs :
        /\ load[t] # "done" => connects[t] = 0 /\ \A s \in Sessions : view[t][s] = Absent
        /\ load[t] = "answered" => \A s \in Sessions : NotBefore(response[t][s], sessions[s])

(* What waits for a client is in order, and older than the sessions.       *)
EventsInv ==
    \A c \in Connections :
        /\ Rising(queue[c]) /\ Rising(socket[c]) /\ Follows(socket[c], queue[c])
        /\ Behind(queue[c], sessions) /\ Behind(socket[c], sessions)

(* A tab is older than the sessions and than what waits for it.            *)
ViewInv ==
    \A t \in Tabs :
        /\ \A s \in Sessions : NotBefore(view[t][s], sessions[s])
        /\ connects[t] > 0 => /\ Ahead(queue[Current(t)], view[t])
                              /\ Ahead(socket[Current(t)], view[t])

IInv == TypeOK /\ ConnectionsInv /\ LoadInv /\ EventsInv /\ ViewInv

-----------------------------------------------------------------------------
(* NotBefore is an order.                                                  *)

LEMMA RowFields ==
  /\ \A a \in Row : a.frame_count \in Int
  /\ Absent \in Row /\ Absent.frame_count = -1
  /\ \A a \in Snapshot : a.frame_count \in Nat /\ a.is_live \in BOOLEAN /\ a \in Row /\ a # Absent
BY DEF Row, Snapshot, Absent

LEMMA Reflexive ==
  ASSUME NEW a \in Row PROVE NotBefore(a, a)
BY RowFields DEF NotBefore

LEMMA Transitive ==
  ASSUME NEW a \in Row, NEW b \in Row, NEW c \in Row, NotBefore(a, b), NotBefore(b, c)
  PROVE  NotBefore(a, c)
BY RowFields DEF NotBefore

LEMMA AbsentIsFirst ==
  ASSUME NEW a \in Row PROVE NotBefore(Absent, a)
<1>1. a \in Snapshot \/ a = Absent
  BY DEF Row
<1>2. a.frame_count >= -1
  BY <1>1, RowFields
<1>. QED BY <1>2, RowFields DEF NotBefore

-----------------------------------------------------------------------------
(* Sequences of events.                                                    *)

LEMMA TailShape ==
  ASSUME NEW S, NEW q \in Seq(S), q # <<>>
  PROVE  /\ Tail(q) \in Seq(S) /\ Len(q) \in Nat \ {0} /\ Len(Tail(q)) = Len(q) - 1
         /\ \A i \in 1 .. Len(q) - 1 : Tail(q)[i] = q[i + 1]
         /\ Head(q) \in S /\ Head(q) = q[1]
OBVIOUS

LEMMA AppendShape ==
  ASSUME NEW S, NEW q \in Seq(S), NEW e \in S
  PROVE  /\ Append(q, e) \in Seq(S) /\ Len(q) \in Nat /\ Len(Append(q, e)) = Len(q) + 1
         /\ \A i \in 1 .. Len(q) : Append(q, e)[i] = q[i]
         /\ Append(q, e)[Len(q) + 1] = e
OBVIOUS

LEMMA EventFields ==
  ASSUME NEW q \in Seq(Event), NEW i \in 1 .. Len(q)
  PROVE  q[i] \in Event /\ q[i].id \in Sessions /\ q[i].session \in Row
<1>1. q[i] \in Event
  OBVIOUS
<1>. QED BY <1>1, RowFields DEF Event

(* An event newer than all of q.                                           *)
Newer(q, e) == \A i \in 1 .. Len(q) : q[i].id = e.id => NotBefore(q[i].session, e.session)

LEMMA Remainder ==
  ASSUME NEW q \in Seq(Event), q # <<>>
  PROVE  /\ Tail(q) \in Seq(Event)
         /\ Rising(q) => Rising(Tail(q))
         /\ \A p \in Seq(Event) : /\ Follows(p, q) => Follows(p, Tail(q))
                                  /\ Follows(q, p) => Follows(Tail(q), p)
         /\ \A rows : /\ Behind(q, rows) => Behind(Tail(q), rows)
                      /\ Ahead(q, rows) => Ahead(Tail(q), rows)
         /\ \A e : Newer(q, e) => Newer(Tail(q), e)
<1>1. /\ Tail(q) \in Seq(Event) /\ Len(q) \in Nat \ {0} /\ Len(Tail(q)) = Len(q) - 1
      /\ \A i \in 1 .. Len(q) - 1 : Tail(q)[i] = q[i + 1]
  BY TailShape
<1>2. Rising(q) => Rising(Tail(q))
  BY <1>1 DEF Rising
<1>3. ASSUME NEW p \in Seq(Event)
      PROVE  /\ Follows(p, q) => Follows(p, Tail(q))
             /\ Follows(q, p) => Follows(Tail(q), p)
  <2>1. Len(p) \in Nat
    OBVIOUS
  <2>. QED BY <1>1, <2>1 DEF Follows
<1>4. ASSUME NEW rows
      PROVE  /\ Behind(q, rows) => Behind(Tail(q), rows)
             /\ Ahead(q, rows) => Ahead(Tail(q), rows)
  BY <1>1 DEF Behind, Ahead
<1>5. ASSUME NEW e, Newer(q, e) PROVE Newer(Tail(q), e)
  BY <1>1, <1>5 DEF Newer
<1>. QED BY <1>1, <1>2, <1>3, <1>4, <1>5

LEMMA Extension ==
  ASSUME NEW q \in Seq(Event), NEW e \in Event
  PROVE  /\ Append(q, e) \in Seq(Event)
         /\ Rising(q) /\ Newer(q, e) => Rising(Append(q, e))
         /\ \A p \in Seq(Event) :
               /\ Follows(p, q) /\ Newer(p, e) => Follows(p, Append(q, e))
               /\ Follows(q, p) /\ (\A j \in 1 .. Len(p) : e.id = p[j].id =>
                                        NotBefore(e.session, p[j].session)) =>
                     Follows(Append(q, e), p)
         /\ \A rows :
               /\ Behind(q, rows) /\ NotBefore(e.session, rows[e.id]) => Behind(Append(q, e), rows)
               /\ Ahead(q, rows) /\ NotBefore(rows[e.id], e.session) => Ahead(Append(q, e), rows)
<1>1. /\ Append(q, e) \in Seq(Event) /\ Len(q) \in Nat /\ Len(Append(q, e)) = Len(q) + 1
      /\ \A i \in 1 .. Len(q) : Append(q, e)[i] = q[i]
      /\ Append(q, e)[Len(q) + 1] = e
  BY AppendShape
<1>2. \A i \in 1 .. Len(Append(q, e)) : i \in 1 .. Len(q) \/ i = Len(q) + 1
  BY <1>1
<1>3. ASSUME Rising(q), Newer(q, e) PROVE Rising(Append(q, e))
  BY <1>1, <1>2, <1>3 DEF Rising, Newer
<1>4. ASSUME NEW p \in Seq(Event)
      PROVE  /\ Follows(p, q) /\ Newer(p, e) => Follows(p, Append(q, e))
             /\ Follows(q, p) /\ (\A j \in 1 .. Len(p) : e.id = p[j].id =>
                                      NotBefore(e.session, p[j].session)) =>
                   Follows(Append(q, e), p)
  BY <1>1, <1>2 DEF Follows, Newer
<1>5. ASSUME NEW rows
      PROVE  /\ Behind(q, rows) /\ NotBefore(e.session, rows[e.id]) => Behind(Append(q, e), rows)
             /\ Ahead(q, rows) /\ NotBefore(rows[e.id], e.session) => Ahead(Append(q, e), rows)
  BY <1>1, <1>2 DEF Behind, Ahead
<1>. QED BY <1>1, <1>3, <1>4, <1>5

(* What put_nowait does to a queue, its oldest event dropped or not.       *)
LEMMA PutShape ==
  ASSUME NEW q \in Seq(Event), NEW e \in Event, Len(q) <= QueueSize
  PROVE  /\ Put(q, e) \in Seq(Event) /\ Len(Put(q, e)) <= QueueSize
         /\ \E r \in {q, Tail(q)} :
               Put(q, e) = Append(r, e) /\ r \in Seq(Event) /\ (r = Tail(q) => q # <<>> \/ r = q)
<1>1. CASE Len(q) = QueueSize
  <2>1. q # <<>>
    BY <1>1, DashboardAssumption
  <2>2. Tail(q) \in Seq(Event) /\ Len(Tail(q)) = Len(q) - 1 /\ Len(q) \in Nat
    BY <2>1, TailShape
  <2>. QED BY <1>1, <2>1, <2>2, AppendShape, DashboardAssumption DEF Put
<1>2. CASE Len(q) # QueueSize
  BY <1>2, AppendShape, DashboardAssumption DEF Put
<1>. QED BY <1>1, <1>2

LEMMA PutKeeps ==
  ASSUME NEW q \in Seq(Event), NEW e \in Event, Len(q) <= QueueSize
  PROVE  /\ Rising(q) /\ Newer(q, e) => Rising(Put(q, e))
         /\ \A p \in Seq(Event) :
               Follows(p, q) /\ Newer(p, e) => Follows(p, Put(q, e))
         /\ \A rows :
               /\ Behind(q, rows) /\ NotBefore(e.session, rows[e.id]) => Behind(Put(q, e), rows)
               /\ Ahead(q, rows) /\ NotBefore(rows[e.id], e.session) => Ahead(Put(q, e), rows)
<1>1. PICK r \in {q, Tail(q)} :
         Put(q, e) = Append(r, e) /\ r \in Seq(Event) /\ (r = Tail(q) => q # <<>> \/ r = q)
  BY PutShape
<1>2. /\ Rising(q) => Rising(r)
      /\ Newer(q, e) => Newer(r, e)
      /\ \A p \in Seq(Event) : Follows(p, q) => Follows(p, r)
      /\ \A rows : (Behind(q, rows) => Behind(r, rows)) /\ (Ahead(q, rows) => Ahead(r, rows))
  <2>1. CASE r = q
    BY <2>1
  <2>2. CASE r = Tail(q) /\ q # <<>>
    BY <2>2, Remainder
  <2>. QED BY <1>1, <2>1, <2>2
<1>. QED BY <1>1, <1>2, Extension

-----------------------------------------------------------------------------
(* What ingest does: a session goes forward, and what is published is it.  *)
LEMMA IngestGoesForward ==
  ASSUME TypeOK, Ingest
  PROVE  /\ sessions' \in [Sessions -> Row]
         /\ \A s \in Sessions : NotBefore(sessions[s], sessions'[s])
         /\ UNCHANGED <<handler, link, socket, tabVars>>
         /\ \/ UNCHANGED <<queue, newest, owed>>
            \/ \E e \in Event : Publish(e) /\ e.session = sessions'[e.id]
<1>1. PICK s \in Sessions : SessionStart(s) \/ VideoChunk(s) \/ SessionEnd(s)
  BY DEF Ingest
<1>2. sessions \in [Sessions -> Row]
  BY DEF TypeOK, Row
<1>3. UNCHANGED <<handler, link, socket, tabVars>>
  BY <1>1 DEF SessionStart, VideoChunk, SessionEnd
<1>4. SUFFICES ASSUME NEW new \in Snapshot, sessions' = [sessions EXCEPT ![s] = new],
                      NotBefore(sessions[s], new),
                      \/ UNCHANGED <<queue, newest, owed>>
                      \/ Publish([id |-> s, session |-> sessions'[s]])
               PROVE  /\ sessions' \in [Sessions -> Row]
                      /\ \A r \in Sessions : NotBefore(sessions[r], sessions'[r])
                      /\ \/ UNCHANGED <<queue, newest, owed>>
                         \/ \E e \in Event : Publish(e) /\ e.session = sessions'[e.id]
  <2>1. CASE SessionStart(s)
    <3>1. [is_live |-> TRUE, frame_count |-> 0] \in Snapshot
      BY DEF Snapshot
    <3>. QED BY <1>1, <1>2, <1>3, <2>1, <3>1, <1>4, AbsentIsFirst, RowFields
         DEF SessionStart, Becomes
  <2>2. CASE VideoChunk(s)
    <3>. DEFINE new == [sessions[s] EXCEPT !.frame_count = @ + 1]
    <3>1. sessions[s] \in Snapshot
      BY <1>2, <2>2 DEF VideoChunk, Row, Absent
    <3>2. new \in Snapshot /\ new.frame_count = sessions[s].frame_count + 1
      BY <3>1 DEF Snapshot
    <3>3. NotBefore(sessions[s], new)
      BY <2>2, <3>1, <3>2, RowFields DEF NotBefore, VideoChunk
    <3>. QED BY <1>1, <1>3, <2>2, <3>2, <3>3, <1>4 DEF VideoChunk, Becomes
  <2>3. CASE SessionEnd(s)
    <3>. DEFINE new == [sessions[s] EXCEPT !.is_live = FALSE]
    <3>1. sessions[s] \in Snapshot
      BY <1>2, <2>3 DEF SessionEnd, Row, Absent
    <3>2. new \in Snapshot /\ new.frame_count = sessions[s].frame_count
      BY <3>1 DEF Snapshot
    <3>3. NotBefore(sessions[s], new)
      BY <2>3, <3>1, <3>2, RowFields DEF NotBefore, SessionEnd
    <3>. QED BY <1>1, <1>3, <2>3, <3>2, <3>3, <1>4 DEF SessionEnd, Becomes
  <2>. QED BY <1>1, <2>1, <2>2, <2>3
<1>5. new \in Row /\ sessions'[s] = new
  BY <1>2, <1>4, RowFields
<1>6. \A r \in Sessions : NotBefore(sessions[r], sessions'[r])
  BY <1>2, <1>4, <1>5, Reflexive
<1>7. [id |-> s, session |-> new] \in Event
  BY <1>4 DEF Event
<1>. QED BY <1>2, <1>4, <1>5, <1>6, <1>7

LEMMA CurrentIsAConnection ==
  ASSUME TypeOK, NEW t \in Tabs, connects[t] > 0
  PROVE  Current(t) \in Connections
BY DashboardAssumption DEF TypeOK, Connections, Current

(* The one step that changes a view once it is shown.                      *)
LEMMA ReceiveShape ==
  ASSUME TypeOK, ConnectionsInv, NEW t \in Tabs, Receive(t)
  PROVE  /\ connects[t] > 0 /\ Current(t) \in Connections /\ socket[Current(t)] # <<>>
         /\ socket[Current(t)] \in Seq(Event) /\ Head(socket[Current(t)]) = socket[Current(t)][1]
         /\ 1 \in 1 .. Len(socket[Current(t)])
         /\ Head(socket[Current(t)]).id \in Sessions /\ Head(socket[Current(t)]).session \in Row
<1>1. connects[t] > 0
  BY DEF Receive, ConnectionsInv
<1>2. Current(t) \in Connections
  BY <1>1, CurrentIsAConnection
<1>3. socket[Current(t)] \in Seq(Event) /\ socket[Current(t)] # <<>>
  BY <1>2 DEF TypeOK, Receive
<1>4. Head(socket[Current(t)]) = socket[Current(t)][1] /\ 1 \in 1 .. Len(socket[Current(t)])
  BY <1>3, TailShape
<1>. QED BY <1>1, <1>2, <1>3, <1>4, EventFields

LEMMA TypeStep == TypeOK /\ ConnectionsInv /\ [Next]_vars => TypeOK'
<1>. SUFFICES ASSUME TypeOK, ConnectionsInv, [Next]_vars
              PROVE  TypeOK'
  OBVIOUS
<1>. USE DEF TypeOK, serverVars, linkVars, tabVars
<1>1. CASE Ingest
  <2>1. /\ sessions' \in [Sessions -> Row]
        /\ UNCHANGED <<handler, link, socket, tabVars>>
        /\ \/ UNCHANGED <<queue, newest, owed>>
           \/ \E e \in Event : Publish(e) /\ e.session = sessions'[e.id]
    BY <1>1, IngestGoesForward
  <2>2. CASE UNCHANGED <<queue, newest, owed>>
    BY <2>1, <2>2 DEF Row
  <2>3. ASSUME NEW e \in Event, Publish(e)
        PROVE  TypeOK'
    <3>1. /\ queue' \in [Connections -> Seq(Event)]
          /\ \A c \in Connections : Len(queue'[c]) <= QueueSize
      BY <2>3, PutShape DEF Publish
    <3>2. newest' \in Seq(Event) /\ owed' \subseteq Tabs
      BY <2>3 DEF Publish
    <3>. QED BY <2>1, <3>1, <3>2 DEF Row
  <2>. QED BY <2>1, <2>2, <2>3
<1>2. ASSUME NEW t \in Tabs, Page(t) \/ Serve(t) \/ Trouble(t)
      PROVE  TypeOK'
  <2>1. CASE LoadInitial(t)
    BY <2>1 DEF LoadInitial
  <2>2. CASE ConnectWs(t)
    BY <2>2, DashboardAssumption DEF ConnectWs
  <2>3. CASE Receive(t)
    <3>. DEFINE c == Current(t)
                e == Head(socket[c])
    <3>1. c \in Connections /\ socket[c] \in Seq(Event) /\ socket[c] # <<>>
          /\ e.id \in Sessions /\ e.session \in Row
      BY <2>3, ReceiveShape
    <3>2. Tail(socket[c]) \in Seq(Event)
      BY <3>1, TailShape
    <3>3. socket' \in [Connections -> Seq(Event)]
      BY <2>3, <3>1, <3>2 DEF Receive
    <3>4. view' \in [Tabs -> [Sessions -> Snapshot \cup {Absent}]]
      BY <2>3, <3>1 DEF Receive, Row
    <3>. QED BY <2>3, <3>3, <3>4 DEF Receive
  <2>4. CASE ListSessions(t)
    BY <2>4 DEF ListSessions
  <2>5. CASE Accept(t)
    BY <2>5 DEF Accept
  <2>6. CASE FetchFails(t)
    BY <2>6 DEF FetchFails
  <2>7. ASSUME NEW how \in {"closed", "lost"}, CloseWs(t, how)
        PROVE  TypeOK'
    <3>1. socket' \in [Connections -> Seq(Event)]
      <4>1. <<>> \in Seq(Event)
        OBVIOUS
      <4>. QED BY <2>7, <4>1 DEF CloseWs
    <3>2. link' \in [Connections -> {"none", "up", "closed", "lost"}]
      BY <2>7 DEF CloseWs
    <3>. QED BY <2>7, <3>1, <3>2 DEF CloseWs
  <2>. QED BY <1>2, <2>1, <2>2, <2>3, <2>4, <2>5, <2>6, <2>7 DEF Page, Serve, Trouble
<1>3. ASSUME NEW c \in Connections, Handle(c)
      PROVE  TypeOK'
  <2>1. queue[c] # <<>> => Tail(queue[c]) \in Seq(Event) /\ Head(queue[c]) \in Event
                           /\ Len(Tail(queue[c])) <= QueueSize
    BY TailShape, DashboardAssumption
  <2>2. CASE SendEvent(c)
    <3>1. queue' \in [Connections -> Seq(Event)]
          /\ \A d \in Connections : Len(queue'[d]) <= QueueSize
      BY <2>1, <2>2 DEF SendEvent
    <3>2. socket' \in [Connections -> Seq(Event)]
      BY <2>1, <2>2, AppendShape DEF SendEvent
    <3>. QED BY <2>2, <3>1, <3>2 DEF SendEvent
  <2>3. CASE SendFails(c)
    <3>1. queue' \in [Connections -> Seq(Event)]
          /\ \A d \in Connections : Len(queue'[d]) <= QueueSize
      BY <2>1, <2>3, DashboardAssumption DEF SendFails
    <3>2. handler' \in [Connections -> {"none", "running", "ended"}]
      BY <2>3 DEF SendFails, AfterDisconnect
    <3>. QED BY <2>3, <3>1, <3>2 DEF SendFails
  <2>4. CASE NoticeLost(c)
    BY <2>4 DEF NoticeLost
  <2>. QED BY <1>3, <2>2, <2>3, <2>4 DEF Handle
<1>4. CASE UNCHANGED vars
  BY <1>4 DEF vars
<1>. QED BY <1>1, <1>2, <1>3, <1>4 DEF Next

LEMMA ConnectionsStep == TypeOK /\ ConnectionsInv /\ [Next]_vars => ConnectionsInv'
<1>. SUFFICES ASSUME TypeOK, ConnectionsInv, [Next]_vars
              PROVE  ConnectionsInv'
  OBVIOUS
<1>. USE DEF ConnectionsInv, serverVars, linkVars, tabVars
<1>1. CASE Ingest
  <2>1. /\ UNCHANGED <<handler, link, socket, tabVars>>
        /\ \/ UNCHANGED <<queue, newest, owed>>
           \/ \E e \in Event : Publish(e)
    BY <1>1, IngestGoesForward
  <2>2. \A c \in Connections : handler[c] = "none" => queue'[c] = queue[c]
    BY <2>1 DEF Publish, Subscribed, TypeOK
  <2>. QED BY <2>1, <2>2
<1>2. ASSUME NEW t \in Tabs, Page(t) \/ Serve(t) \/ Trouble(t)
      PROVE  ConnectionsInv'
  <2>1. CASE LoadInitial(t)
    BY <2>1 DEF LoadInitial
  <2>2. CASE ConnectWs(t)
    BY <2>2, DashboardAssumption DEF ConnectWs, TypeOK
  <2>3. CASE Receive(t)
    BY <2>3, ReceiveShape DEF Receive, TypeOK
  <2>4. CASE ListSessions(t)
    BY <2>4 DEF ListSessions
  <2>5. CASE Accept(t)
    <3>1. connects[t] > 0
      BY <2>5 DEF Accept
    <3>2. \A u \in Tabs, k \in 1 .. MaxConnects : k > connects[u] => <<u, k>> # Current(t)
      BY DEF Current, TypeOK
    <3>3. \A u \in Tabs, k \in 1 .. MaxConnects : <<u, k>> \in Connections
      BY DEF Connections
    <3>. QED BY <2>5, <3>1, <3>2, <3>3 DEF Accept, TypeOK
  <2>6. CASE FetchFails(t)
    BY <2>6 DEF FetchFails
  <2>7. ASSUME NEW how \in {"closed", "lost"}, CloseWs(t, how)
        PROVE  ConnectionsInv'
    BY <2>7 DEF CloseWs, TypeOK
  <2>. QED BY <1>2, <2>1, <2>2, <2>3, <2>4, <2>5, <2>6, <2>7 DEF Page, Serve, Trouble
<1>3. ASSUME NEW c \in Connections, Handle(c)
      PROVE  ConnectionsInv'
  <2>. USE DEF TypeOK
  <2>1. \A t \in Tabs, k \in 1 .. MaxConnects : <<t, k>> \in Connections
    BY DEF Connections
  <2>2. CASE SendEvent(c)
    BY <2>2 DEF SendEvent
  <2>3. CASE SendFails(c)
    BY <2>1, <2>3 DEF SendFails, AfterDisconnect
  <2>4. CASE NoticeLost(c)
    BY <2>4 DEF NoticeLost
  <2>. QED BY <1>3, <2>2, <2>3, <2>4 DEF Handle
<1>4. CASE UNCHANGED vars
  BY <1>4 DEF vars
<1>. QED BY <1>1, <1>2, <1>3, <1>4 DEF Next

LEMMA LoadStep == TypeOK /\ ConnectionsInv /\ LoadInv /\ [Next]_vars => LoadInv'
<1>. SUFFICES ASSUME TypeOK, ConnectionsInv, LoadInv, [Next]_vars
              PROVE  LoadInv'
  OBVIOUS
<1>. USE DEF LoadInv, serverVars, linkVars, tabVars
<1>1. CASE Ingest
  <2>1. /\ sessions' \in [Sessions -> Row]
        /\ \A s \in Sessions : NotBefore(sessions[s], sessions'[s])
        /\ UNCHANGED tabVars
    BY <1>1, IngestGoesForward
  <2>2. ASSUME NEW t \in Tabs, load[t] = "answered", NEW s \in Sessions
        PROVE  NotBefore(response[t][s], sessions'[s])
    <3>1. response[t][s] \in Row /\ sessions[s] \in Row /\ sessions'[s] \in Row
      BY <2>1 DEF TypeOK, Row
    <3>2. NotBefore(response[t][s], sessions[s]) /\ NotBefore(sessions[s], sessions'[s])
      BY <2>1, <2>2
    <3>. QED BY <3>1, <3>2, Transitive
  <2>. QED BY <2>1, <2>2
<1>2. ASSUME NEW t \in Tabs, Page(t) \/ Serve(t) \/ Trouble(t)
      PROVE  LoadInv'
  <2>. USE DEF TypeOK
  <2>1. CASE LoadInitial(t)
    BY <2>1 DEF LoadInitial
  <2>2. CASE ConnectWs(t)
    BY <2>2 DEF ConnectWs, MayConnect
  <2>3. CASE Receive(t)
    <3>1. load[t] = "done"
      BY <2>3, ReceiveShape
    <3>2. UNCHANGED <<sessions, load, response, connects>>
      BY <2>3 DEF Receive
    <3>3. \A u \in Tabs : u # t => view'[u] = view[u]
      BY <2>3 DEF Receive
    <3>4. ASSUME NEW u \in Tabs
          PROVE  /\ load'[u] # "done" =>
                       connects'[u] = 0 /\ \A s \in Sessions : view'[u][s] = Absent
                 /\ load'[u] = "answered" =>
                       \A s \in Sessions : NotBefore(response'[u][s], sessions'[s])
      <4>1. CASE u = t
        BY <3>1, <3>2, <4>1
      <4>2. CASE u # t
        BY <3>2, <3>3, <4>2
      <4>. QED BY <4>1, <4>2
    <3>. QED BY <3>4
  <2>4. CASE ListSessions(t)
    BY <2>4, Reflexive DEF ListSessions, Row
  <2>5. CASE Accept(t)
    BY <2>5 DEF Accept
  <2>6. CASE FetchFails(t)
    BY <2>6 DEF FetchFails
  <2>7. ASSUME NEW how \in {"closed", "lost"}, CloseWs(t, how)
        PROVE  LoadInv'
    BY <2>7 DEF CloseWs
  <2>. QED BY <1>2, <2>1, <2>2, <2>3, <2>4, <2>5, <2>6, <2>7 DEF Page, Serve, Trouble
<1>3. ASSUME NEW c \in Connections, Handle(c)
      PROVE  LoadInv'
  BY <1>3 DEF Handle, SendEvent, SendFails, NoticeLost
<1>4. CASE UNCHANGED vars
  BY <1>4 DEF vars
<1>. QED BY <1>1, <1>2, <1>3, <1>4 DEF Next

LEMMA EventsStep == TypeOK /\ ConnectionsInv /\ EventsInv /\ [Next]_vars => EventsInv'
<1>. SUFFICES ASSUME TypeOK, ConnectionsInv, EventsInv, [Next]_vars
              PROVE  EventsInv'
  OBVIOUS
<1>. USE DEF EventsInv, serverVars, linkVars, tabVars
<1>1. CASE Ingest
  <2>1. /\ sessions' \in [Sessions -> Row]
        /\ \A s \in Sessions : NotBefore(sessions[s], sessions'[s])
        /\ socket' = socket
        /\ \/ UNCHANGED <<queue, newest, owed>>
           \/ \E e \in Event : Publish(e) /\ e.session = sessions'[e.id]
    BY <1>1, IngestGoesForward
  <2>2. ASSUME NEW q \in Seq(Event), Behind(q, sessions)
        PROVE  Behind(q, sessions')
    <3>. SUFFICES ASSUME NEW i \in 1 .. Len(q)
                  PROVE  NotBefore(q[i].session, sessions'[q[i].id])
      BY DEF Behind
    <3>1. q[i].id \in Sessions /\ q[i].session \in Row
      BY EventFields
    <3>2. sessions[q[i].id] \in Row /\ sessions'[q[i].id] \in Row
      BY <2>1, <3>1 DEF TypeOK, Row
    <3>3. NotBefore(q[i].session, sessions[q[i].id])
      BY <2>2 DEF Behind
    <3>. QED BY <2>1, <3>1, <3>2, <3>3, Transitive
  <2>3. \A c \in Connections : queue[c] \in Seq(Event) /\ socket[c] \in Seq(Event)
    BY DEF TypeOK
  <2>4. \A c \in Connections : Behind(queue[c], sessions') /\ Behind(socket[c], sessions')
    BY <2>2, <2>3
  <2>5. CASE UNCHANGED queue
    BY <2>1, <2>4, <2>5
  <2>6. ASSUME NEW e \in Event, Publish(e), e.session = sessions'[e.id], NEW c \in Connections
        PROVE  /\ Rising(queue'[c]) /\ Follows(socket[c], queue'[c])
               /\ Behind(queue'[c], sessions')
    <3>1. CASE queue'[c] = queue[c]
      BY <2>4, <3>1
    <3>2. CASE queue'[c] = Put(queue[c], e)
      <4>1. Newer(queue[c], e) /\ Newer(socket[c], e)
        BY <2>4, <2>6 DEF Newer, Behind
      <4>2. NotBefore(e.session, sessions'[e.id])
        BY <2>1, <2>6, Reflexive DEF Event
      <4>3. Len(queue[c]) <= QueueSize
        BY DEF TypeOK
      <4>. QED BY <2>3, <2>4, <3>2, <4>1, <4>2, <4>3, PutKeeps
    <3>. QED BY <2>6, <3>1, <3>2 DEF Publish
  <2>. QED BY <2>1, <2>4, <2>5, <2>6
<1>2. ASSUME NEW t \in Tabs, Page(t) \/ Serve(t) \/ Trouble(t)
      PROVE  EventsInv'
  <2>. USE DEF TypeOK
  <2>1. CASE LoadInitial(t)
    BY <2>1 DEF LoadInitial
  <2>2. CASE ConnectWs(t)
    BY <2>2 DEF ConnectWs
  <2>3. CASE Receive(t)
    <3>. DEFINE c == Current(t)
    <3>1. /\ c \in Connections /\ socket[c] \in Seq(Event) /\ socket[c] # <<>>
          /\ queue[c] \in Seq(Event)
      BY <2>3, ReceiveShape
    <3>2. /\ Rising(Tail(socket[c])) /\ Follows(Tail(socket[c]), queue[c])
          /\ Behind(Tail(socket[c]), sessions)
      BY <3>1, Remainder
    <3>3. /\ UNCHANGED <<sessions, queue>>
          /\ \A d \in Connections : socket'[d] = IF d = c THEN Tail(socket[c]) ELSE socket[d]
      BY <2>3 DEF Receive
    <3>. QED BY <3>2, <3>3
  <2>4. CASE ListSessions(t)
    BY <2>4 DEF ListSessions
  <2>5. CASE Accept(t)
    BY <2>5 DEF Accept
  <2>6. CASE FetchFails(t)
    BY <2>6 DEF FetchFails
  <2>7. ASSUME NEW how \in {"closed", "lost"}, CloseWs(t, how)
        PROVE  EventsInv'
    <3>1. /\ UNCHANGED <<sessions, queue>>
          /\ \A d \in Connections : socket'[d] = socket[d] \/ socket'[d] = <<>>
      BY <2>7 DEF CloseWs
    <3>2. Rising(<<>>) /\ Behind(<<>>, sessions) /\ \A q : Follows(<<>>, q)
      BY DEF Rising, Behind, Follows
    <3>. QED BY <3>1, <3>2
  <2>. QED BY <1>2, <2>1, <2>2, <2>3, <2>4, <2>5, <2>6, <2>7 DEF Page, Serve, Trouble
<1>3. ASSUME NEW c \in Connections, Handle(c)
      PROVE  EventsInv'
  <2>1. queue[c] \in Seq(Event) /\ socket[c] \in Seq(Event)
    BY DEF TypeOK
  <2>2. CASE SendEvent(c)
    <3>. DEFINE e == Head(queue[c])
    <3>1. queue[c] # <<>> /\ e \in Event /\ e = queue[c][1] /\ Len(queue[c]) \in Nat \ {0}
      BY <2>1, <2>2, TailShape DEF SendEvent
    <3>2. /\ Rising(Tail(queue[c])) /\ Follows(socket[c], Tail(queue[c]))
          /\ Behind(Tail(queue[c]), sessions) /\ Tail(queue[c]) \in Seq(Event)
      BY <2>1, <3>1, Remainder
    <3>3. Newer(socket[c], e) /\ NotBefore(e.session, sessions[e.id])
      BY <3>1 DEF Newer, Follows, Behind
    <3>4. \A j \in 1 .. Len(Tail(queue[c])) : e.id = Tail(queue[c])[j].id =>
             NotBefore(e.session, Tail(queue[c])[j].session)
      <4>1. /\ Len(Tail(queue[c])) = Len(queue[c]) - 1
            /\ \A i \in 1 .. Len(queue[c]) - 1 : Tail(queue[c])[i] = queue[c][i + 1]
        BY <2>1, <3>1, TailShape
      <4>. QED BY <3>1, <4>1 DEF Rising
    <3>5. LET s == Append(socket[c], e)
          IN  Rising(s) /\ Behind(s, sessions) /\ Follows(s, Tail(queue[c]))
      BY <2>1, <3>1, <3>2, <3>3, <3>4, Extension
    <3>6. sessions' = sessions
      BY <2>2 DEF SendEvent
    <3>7. \A d \in Connections : queue'[d] = IF d = c THEN Tail(queue[c]) ELSE queue[d]
      BY <2>2 DEF SendEvent, TypeOK
    <3>8. \/ socket' = socket
          \/ \A d \in Connections :
                socket'[d] = IF d = c THEN Append(socket[c], e) ELSE socket[d]
      BY <2>2 DEF SendEvent, TypeOK
    <3>. QED BY <3>2, <3>5, <3>6, <3>7, <3>8
  <2>3. CASE SendFails(c)
    <3>1. /\ UNCHANGED <<sessions, socket>>
          /\ \A d \in Connections : queue'[d] = IF d = c THEN <<>> ELSE queue[d]
      BY <2>3 DEF SendFails, AfterDisconnect, TypeOK
    <3>2. Rising(<<>>) /\ Behind(<<>>, sessions) /\ \A p : Follows(p, <<>>)
      BY DEF Rising, Behind, Follows
    <3>. QED BY <3>1, <3>2
  <2>4. CASE NoticeLost(c)
    BY <2>4 DEF NoticeLost
  <2>. QED BY <1>3, <2>2, <2>3, <2>4 DEF Handle
<1>4. CASE UNCHANGED vars
  BY <1>4 DEF vars
<1>. QED BY <1>1, <1>2, <1>3, <1>4 DEF Next

LEMMA ViewStep ==
  TypeOK /\ ConnectionsInv /\ LoadInv /\ EventsInv /\ ViewInv /\ [Next]_vars => ViewInv'
<1>. SUFFICES ASSUME TypeOK, ConnectionsInv, LoadInv, EventsInv, ViewInv, [Next]_vars
              PROVE  ViewInv'
  OBVIOUS
<1>. USE DEF ViewInv, serverVars, linkVars, tabVars
<1>0. \A t \in Tabs : connects[t] > 0 =>
         /\ Current(t) \in Connections
         /\ queue[Current(t)] \in Seq(Event) /\ socket[Current(t)] \in Seq(Event)
  BY CurrentIsAConnection DEF TypeOK
<1>1. CASE Ingest
  <2>1. /\ sessions' \in [Sessions -> Row]
        /\ \A s \in Sessions : NotBefore(sessions[s], sessions'[s])
        /\ UNCHANGED <<socket, connects, view>>
        /\ \/ UNCHANGED <<queue, newest, owed>>
           \/ \E e \in Event : Publish(e) /\ e.session = sessions'[e.id]
    BY <1>1, IngestGoesForward
  <2>2. ASSUME NEW t \in Tabs, NEW s \in Sessions
        PROVE  NotBefore(view[t][s], sessions'[s])
    <3>1. view[t][s] \in Row /\ sessions[s] \in Row /\ sessions'[s] \in Row
      BY <2>1 DEF TypeOK, Row
    <3>. QED BY <2>1, <3>1, Transitive
  <2>3. ASSUME NEW t \in Tabs, connects[t] > 0
        PROVE  Ahead(queue'[Current(t)], view[t])
    <3>1. CASE queue' = queue
      BY <2>3, <3>1
    <3>2. ASSUME NEW e \in Event, Publish(e), e.session = sessions'[e.id]
          PROVE  Ahead(queue'[Current(t)], view[t])
      <4>1. NotBefore(view[t][e.id], e.session)
        BY <2>2, <3>2 DEF Event
      <4>2. Len(queue[Current(t)]) <= QueueSize
        BY <1>0, <2>3 DEF TypeOK
      <4>3. Ahead(Put(queue[Current(t)], e), view[t])
        BY <1>0, <2>3, <4>1, <4>2, PutKeeps
      <4>. QED BY <1>0, <2>3, <3>2, <4>3 DEF Publish
    <3>. QED BY <2>1, <3>1, <3>2
  <2>4. \A t \in Tabs : Current(t)' = Current(t)
    BY <2>1 DEF Current
  <2>. QED BY <2>1, <2>2, <2>3, <2>4
<1>2. ASSUME NEW t \in Tabs, Page(t) \/ Serve(t) \/ Trouble(t)
      PROVE  ViewInv'
  <2>1. CASE LoadInitial(t)
    <3>1. connects[t] = 0 /\ UNCHANGED <<sessions, queue, socket, connects>>
      BY <2>1 DEF LoadInitial, LoadInv
    <3>2. \A s \in Sessions : NotBefore(view'[t][s], sessions[s])
      BY <2>1 DEF LoadInitial, LoadInv, TypeOK
    <3>3. \A u \in Tabs : u # t => view'[u] = view[u]
      BY <2>1 DEF LoadInitial
    <3>4. \A u \in Tabs : Current(u)' = Current(u)
      BY <3>1 DEF Current
    <3>5. \A u \in Tabs : u # t /\ connects[u] > 0 => /\ Ahead(queue[Current(u)], view'[u])
                                                    /\ Ahead(socket[Current(u)], view'[u])
      BY <3>3
    <3>6. \A u \in Tabs, s \in Sessions : NotBefore(view'[u][s], sessions[s])
      BY <3>2, <3>3
    <3>. QED BY <3>1, <3>4, <3>5, <3>6
  <2>2. CASE ConnectWs(t)
    <3>1. UNCHANGED <<sessions, queue, socket, view>>
      BY <2>2 DEF ConnectWs
    <3>2. /\ connects[t] + 1 \in 1 .. MaxConnects /\ connects'[t] = connects[t] + 1
          /\ \A u \in Tabs : u # t => connects'[u] = connects[u]
      BY <2>2, DashboardAssumption DEF ConnectWs, TypeOK
    <3>3. handler[<<t, connects[t] + 1>>] = "none" /\ <<t, connects[t] + 1>> \in Connections
      BY <3>2 DEF ConnectionsInv, Connections, TypeOK
    <3>4. queue[Current(t)'] = <<>> /\ socket[Current(t)'] = <<>>
      BY <3>2, <3>3 DEF ConnectionsInv, Current
    <3>5. \A rows : Ahead(<<>>, rows)
      BY DEF Ahead
    <3>6. \A u \in Tabs : u # t => Current(u)' = Current(u)
      BY <3>2 DEF Current
    <3>. QED BY <3>1, <3>2, <3>4, <3>5, <3>6
  <2>3. CASE Receive(t)
    <3>. DEFINE c == Current(t)
                e == Head(socket[c])
    <3>1. /\ connects[t] > 0 /\ c \in Connections /\ socket[c] # <<>>
          /\ socket[c] \in Seq(Event) /\ queue[c] \in Seq(Event)
          /\ e = socket[c][1] /\ 1 \in 1 .. Len(socket[c])
          /\ e.id \in Sessions /\ e.session \in Row
      BY <1>0, <2>3, ReceiveShape
    <3>2. /\ view'[t] = [view[t] EXCEPT ![e.id] = e.session]
          /\ \A u \in Tabs : u # t => view'[u] = view[u]
          /\ \A d \in Connections : socket'[d] = IF d = c THEN Tail(socket[c]) ELSE socket[d]
          /\ UNCHANGED <<sessions, queue, connects>>
      BY <2>3 DEF Receive, TypeOK
    <3>3. /\ \A s \in Sessions : view'[t][s] = IF s = e.id THEN e.session ELSE view[t][s]
      BY <3>1, <3>2 DEF TypeOK
    <3>4. \A s \in Sessions : NotBefore(view'[t][s], sessions[s])
      BY <3>1, <3>3 DEF EventsInv, Behind
    <3>5. Ahead(queue[c], view'[t])
      <4>1. ASSUME NEW i \in 1 .. Len(queue[c])
            PROVE  NotBefore(view'[t][queue[c][i].id], queue[c][i].session)
        <5>1. queue[c][i].id \in Sessions
          BY <3>1, EventFields
        <5>2. NotBefore(view[t][queue[c][i].id], queue[c][i].session)
          BY <3>1 DEF Ahead
        <5>3. queue[c][i].id = e.id => NotBefore(e.session, queue[c][i].session)
          BY <3>1 DEF EventsInv, Follows
        <5>. QED BY <3>3, <5>1, <5>2, <5>3
      <4>. QED BY <4>1 DEF Ahead
    <3>6. Ahead(Tail(socket[c]), view'[t])
      <4>1. /\ Len(Tail(socket[c])) = Len(socket[c]) - 1 /\ Len(socket[c]) \in Nat
            /\ \A i \in 1 .. Len(socket[c]) - 1 : Tail(socket[c])[i] = socket[c][i + 1]
        BY <3>1, TailShape
      <4>2. ASSUME NEW i \in 1 .. Len(Tail(socket[c]))
            PROVE  NotBefore(view'[t][Tail(socket[c])[i].id], Tail(socket[c])[i].session)
        <5>. DEFINE f == socket[c][i + 1]
        <5>1. Tail(socket[c])[i] = f /\ i + 1 \in 1 .. Len(socket[c]) /\ 1 < i + 1
          BY <4>1
        <5>2. f.id \in Sessions
          BY <3>1, <5>1, EventFields
        <5>3. NotBefore(view[t][f.id], f.session)
          BY <3>1, <5>1 DEF Ahead
        <5>4. f.id = e.id => NotBefore(e.session, f.session)
          BY <3>1, <5>1 DEF EventsInv, Rising
        <5>. QED BY <3>3, <5>1, <5>2, <5>3, <5>4
      <4>. QED BY <4>2 DEF Ahead
    <3>7. \A u \in Tabs : Current(u)' = Current(u) /\ (u # t => Current(u) # c)
      BY <3>2 DEF Current
    <3>. QED BY <1>0, <3>1, <3>2, <3>4, <3>5, <3>6, <3>7
  <2>4. CASE ListSessions(t)
    BY <2>4 DEF ListSessions, Current
  <2>5. CASE Accept(t)
    BY <2>5 DEF Accept, Current
  <2>6. CASE FetchFails(t)
    BY <2>6 DEF FetchFails, Current
  <2>7. ASSUME NEW how \in {"closed", "lost"}, CloseWs(t, how)
        PROVE  ViewInv'
    <3>1. /\ UNCHANGED <<sessions, queue, connects, view>>
          /\ \A d \in Connections : socket'[d] = socket[d] \/ socket'[d] = <<>>
      BY <2>7 DEF CloseWs, TypeOK
    <3>2. \A rows : Ahead(<<>>, rows)
      BY DEF Ahead
    <3>3. \A u \in Tabs : Current(u)' = Current(u)
      BY <3>1 DEF Current
    <3>. QED BY <1>0, <3>1, <3>2, <3>3
  <2>. QED BY <1>2, <2>1, <2>2, <2>3, <2>4, <2>5, <2>6, <2>7 DEF Page, Serve, Trouble
<1>3. ASSUME NEW c \in Connections, Handle(c)
      PROVE  ViewInv'
  <2>0. UNCHANGED <<sessions, connects, view>> /\ \A u \in Tabs : Current(u)' = Current(u)
    BY <1>3 DEF Handle, SendEvent, SendFails, NoticeLost, Current
  <2>1. queue[c] \in Seq(Event) /\ socket[c] \in Seq(Event)
    BY DEF TypeOK
  <2>2. CASE SendEvent(c)
    <3>. DEFINE e == Head(queue[c])
    <3>1. queue[c] # <<>> /\ e \in Event /\ e = queue[c][1] /\ Len(queue[c]) \in Nat \ {0}
      BY <2>1, <2>2, TailShape DEF SendEvent
    <3>2. \A rows : Ahead(queue[c], rows) => /\ Ahead(Tail(queue[c]), rows)
                                             /\ NotBefore(rows[e.id], e.session)
      BY <2>1, <3>1, Remainder DEF Ahead
    <3>3. \A rows : Ahead(queue[c], rows) /\ Ahead(socket[c], rows) =>
             Ahead(Append(socket[c], e), rows)
      BY <2>1, <3>1, <3>2, Extension
    <3>4. \A d \in Connections : queue'[d] = IF d = c THEN Tail(queue[c]) ELSE queue[d]
      BY <2>2 DEF SendEvent, TypeOK
    <3>5. \/ socket' = socket
          \/ \A d \in Connections :
                socket'[d] = IF d = c THEN Append(socket[c], e) ELSE socket[d]
      BY <2>2 DEF SendEvent, TypeOK
    <3>. QED BY <1>0, <2>0, <3>2, <3>3, <3>4, <3>5
  <2>3. CASE SendFails(c)
    <3>1. socket' = socket /\ \A d \in Connections : queue'[d] = queue[d] \/ queue'[d] = <<>>
      BY <2>3 DEF SendFails, AfterDisconnect, TypeOK
    <3>2. \A rows : Ahead(<<>>, rows)
      BY DEF Ahead
    <3>. QED BY <1>0, <2>0, <3>1, <3>2
  <2>4. CASE NoticeLost(c)
    BY <2>0, <2>4 DEF NoticeLost
  <2>. QED BY <1>3, <2>2, <2>3, <2>4 DEF Handle
<1>4. CASE UNCHANGED vars
  BY <1>4 DEF vars, Current
<1>. QED BY <1>1, <1>2, <1>3, <1>4 DEF Next

-----------------------------------------------------------------------------
LEMMA IInvInit == Init => IInv
<1>. SUFFICES ASSUME Init PROVE IInv
  OBVIOUS
<1>. USE DEF Init
<1>1. TypeOK
  <2>1. \A c \in Connections : queue[c] = <<>> /\ socket[c] = <<>>
    OBVIOUS
  <2>. QED BY <2>1, DashboardAssumption DEF TypeOK
<1>2. ConnectionsInv
  BY DEF ConnectionsInv, Connections
<1>3. LoadInv
  BY DEF LoadInv
<1>4. EventsInv
  BY DEF EventsInv, Rising, Follows, Behind
<1>5. ViewInv
  BY AbsentIsFirst, RowFields DEF ViewInv
<1>. QED BY <1>1, <1>2, <1>3, <1>4, <1>5 DEF IInv

LEMMA Inductive == Spec => []IInv
<1>1. IInv /\ [Next]_vars => IInv'
  BY TypeStep, ConnectionsStep, LoadStep, EventsStep, ViewStep DEF IInv
<1>. QED BY <1>1, IInvInit, PTL DEF Spec

-----------------------------------------------------------------------------
(* Every part of server and page has its type, and publish keeps the queue *)
(* of every subscriber within maxsize however slow its client is.          *)
THEOREM DashboardTypeCorrect == Spec => []TypeOK
<1>1. IInv => TypeOK
  BY DEF IInv
<1>. QED BY <1>1, Inductive, PTL

(* No row of the page ever goes back in time: no ended session comes to    *)
(* life again and no counter falls, whatever publish drops from a full     *)
(* queue, whatever a lost connection takes with it and however often the   *)
(* page connects again, because it connects only after loadInitial and     *)
(* every connection's events are in the order of publication.              *)
THEOREM RowsNeverGoBack == Spec => ViewsNeverGoBack
<1>1. IInv /\ [Next]_vars =>
         [\A t \in Tabs, s \in Sessions : NotBefore(view[t][s], view'[t][s])]_vars
  <2>. SUFFICES ASSUME IInv, Next, NEW t \in Tabs, NEW s \in Sessions
                PROVE  NotBefore(view[t][s], view'[t][s])
    OBVIOUS
  <2>. USE DEF serverVars, linkVars, tabVars
  <2>0. TypeOK /\ view[t][s] \in Row
    BY DEF IInv, TypeOK, Row
  <2>1. CASE UNCHANGED view
    BY <2>0, <2>1, Reflexive
  <2>2. ASSUME NEW u \in Tabs, LoadInitial(u)
        PROVE  NotBefore(view[t][s], view'[t][s])
    <3>1. view[u][s] = Absent
      BY <2>2 DEF IInv, LoadInv, LoadInitial
    <3>2. \/ view'[t][s] = view[t][s]
          \/ t = u /\ view'[t][s] = response[u][s]
      <4>1. CASE t = u
        BY <2>0, <2>2, <4>1 DEF LoadInitial, TypeOK
      <4>2. CASE t # u
        BY <2>0, <2>2, <4>2 DEF LoadInitial, TypeOK
      <4>. QED BY <4>1, <4>2
    <3>3. response[u][s] \in Row
      BY <2>0 DEF TypeOK, Row
    <3>. QED BY <2>0, <3>1, <3>2, <3>3, Reflexive, AbsentIsFirst
  <2>3. ASSUME NEW u \in Tabs, Receive(u)
        PROVE  NotBefore(view[t][s], view'[t][s])
    <3>. DEFINE e == Head(socket[Current(u)])
    <3>1. /\ connects[u] > 0 /\ e = socket[Current(u)][1] /\ 1 \in 1 .. Len(socket[Current(u)])
          /\ e.id \in Sessions
      BY <2>0, <2>3, ReceiveShape DEF IInv
    <3>2. \/ view'[t][s] = view[t][s]
          \/ t = u /\ s = e.id /\ view'[t][s] = e.session
      <4>1. view' = [view EXCEPT ![u][e.id] = e.session] /\ view \in [Tabs -> [Sessions -> Row]]
        BY <2>0, <2>3 DEF Receive, TypeOK, Row
      <4>2. CASE t = u
        BY ONLY <2>3, <3>1, <4>1, <4>2, s \in Sessions
      <4>3. CASE t # u
        BY ONLY <2>3, <3>1, <4>1, <4>3, t \in Tabs
      <4>. QED BY <4>2, <4>3
    <3>3. NotBefore(view[u][e.id], e.session)
      BY <3>1 DEF IInv, ViewInv, Ahead
    <3>. QED BY <2>0, <3>2, <3>3, Reflexive
  <2>4. CASE Ingest
    BY <2>0, <2>1, <2>4, IngestGoesForward DEF tabVars
  <2>. QED BY <2>1, <2>2, <2>3, <2>4
       DEF Next, Page, Serve, Trouble, Handle, ListSessions, Accept, ConnectWs, FetchFails,
           CloseWs, SendEvent, SendFails, NoticeLost, tabVars
<1>. QED BY <1>1, Inductive, PTL DEF Spec, ViewsNeverGoBack
=============================================================================
