--------------------------- MODULE ShutdownTiming ---------------------------
(***************************************************************************)
(* How long things take in StreamSink::sender_loop and close()             *)
(* (src/mobile/native/src/sink/stream_sink.cpp) and in StreamClient::      *)
(* connect_to (src/mobile/native/src/net/stream_client.cpp): the timeouts, *)
(* the backoff, the shutdown deadline, and a clock.                        *)
(*                                                                         *)
(* Tick is the passing of one unit of time; every other step takes none.   *)
(* timer is what is left of the time the call that blocks the sender may   *)
(* take at most: time does not pass beyond it.  What the queue holds is a  *)
(* number here, StreamSink.tla has its messages.                           *)
(***************************************************************************)
EXTENDS Naturals

CONSTANTS
    ConnectTime,    \* connect_to: the resolver, and 3 s for each address
    SendTime,       \* external: how long a peer that reads may hold a send
    MinBackoff,     \* backoff_ms at first, and after a connection
    MaxBackoff,     \* kMaxBackoffMs
    WaitTime,       \* cv_.wait_for
    DrainTime,      \* kShutdownDrainMs
    MaxQueued       \* bound: messages in the queue

ASSUME TimesAssumption ==
    /\ ConnectTime \in Nat /\ SendTime \in Nat
    /\ MinBackoff \in Nat /\ MaxBackoff \in Nat /\ MinBackoff <= MaxBackoff
    /\ WaitTime \in Nat /\ DrainTime \in Nat
ASSUME QueuedBound == MaxQueued \in Nat

VARIABLES
    running_,
    queued,             \* messages queued
    pc,                 \* where sender_loop is
    shutting_down,      \* its locals
    connected,
    backoff_ms,
    config_sent,
    timer,              \* the most the blocking call may still take
    since_close,        \* time since close() was called
    reachable,          \* external: does the server accept connections?
    since_reachable     \* time without a connection to a reachable server

loopVars == <<shutting_down, connected, backoff_ms, config_sent>>
clockVars == <<since_close, since_reachable>>
vars == <<running_, queued, pc, loopVars, timer, clockVars, reachable>>

Blocked == {"connecting", "backing_off", "sending_config", "sending", "waiting"}

Init ==
    /\ running_ = TRUE /\ queued = 0
    /\ pc = "top" /\ shutting_down = FALSE
    /\ connected = FALSE /\ backoff_ms = MinBackoff /\ config_sent = FALSE
    /\ timer = 0
    /\ since_close = 0 /\ since_reachable = 0
    /\ reachable \in BOOLEAN

-----------------------------------------------------------------------------
(* Time and the network.                                                   *)

Tick ==
    /\ pc \in Blocked /\ timer > 0
    /\ timer' = timer - 1
    /\ since_close' = IF running_ THEN 0 ELSE since_close + 1
    /\ since_reachable' = IF reachable /\ ~connected THEN since_reachable + 1 ELSE 0
    /\ UNCHANGED <<running_, queued, pc, loopVars, reachable>>

ReachableChanges ==
    /\ reachable' = ~reachable /\ since_reachable' = 0
    /\ UNCHANGED <<running_, queued, pc, loopVars, timer, since_close>>

-----------------------------------------------------------------------------
(* The other threads.  cv_.notify_* finds the sender in wait_for or is     *)
(* lost.                                                                   *)

Notify == timer' = IF pc = "waiting" THEN 0 ELSE timer

Write ==
    /\ running_ /\ queued < MaxQueued
    /\ queued' = queued + 1
    /\ Notify
    /\ UNCHANGED <<running_, pc, loopVars, clockVars, reachable>>

Close ==
    /\ running_ /\ running_' = FALSE
    /\ Notify
    /\ UNCHANGED <<queued, pc, loopVars, clockVars, reachable>>

-----------------------------------------------------------------------------
(* The sender thread.                                                      *)

Goto(label) == pc' = label /\ timer' = 0
Block(label, time) == pc' = label /\ timer' = time

(* Faulty variant: without a connection it tries on until the deadline.    *)
GivesUpAtDeadline == queued = 0 \/ since_close >= DrainTime
(* Shutting down: all is sent, or time is up, or there is no connection.   *)
GivesUp == queued = 0 \/ since_close >= DrainTime \/ ~connected

LoopTop ==
    /\ pc = "top"
    /\ shutting_down' = ~running_
    /\ \/ ~running_ /\ GivesUp /\ Goto("done")
       \/ (running_ \/ ~GivesUp) /\ ~connected /\ Block("connecting", ConnectTime)
       \/ (running_ \/ ~GivesUp) /\ connected /\ Goto("config")
    /\ UNCHANGED <<running_, queued, connected, backoff_ms, config_sent, clockVars, reachable>>

ConnectOk ==
    /\ pc = "connecting" /\ reachable
    /\ connected' = TRUE /\ config_sent' = FALSE
    /\ backoff_ms' = MinBackoff
    /\ since_reachable' = 0
    /\ Goto("config")
    /\ UNCHANGED <<running_, queued, shutting_down, since_close, reachable>>

(* Faulty variant: the delay is doubled without a limit.                   *)
LongerUncapped(delay) == 2 * delay
(* std::min(backoff_ms * 2, kMaxBackoffMs)                                 *)
Longer(delay) == IF 2 * delay < MaxBackoff THEN 2 * delay ELSE MaxBackoff

(* A server that was reachable during the whole attempt accepts.           *)
ConnectFails ==
    /\ pc = "connecting"
    /\ ~reachable \/ since_reachable <= ConnectTime - timer
    /\ Block("backing_off", backoff_ms)
    /\ backoff_ms' = Longer(backoff_ms)
    /\ UNCHANGED <<running_, queued, shutting_down, connected, config_sent, clockVars, reachable>>

(* sleep_for ends when its time is over, whatever happens.                 *)
BackoffOver ==
    /\ pc = "backing_off" /\ timer = 0
    /\ Goto("top")
    /\ UNCHANGED <<running_, queued, loopVars, clockVars, reachable>>

(* It was sent, or none is cached yet; or it goes first.                   *)
CheckConfig ==
    /\ pc = "config"
    /\ Goto("pop") \/ (~config_sent /\ Block("sending_config", SendTime))
    /\ UNCHANGED <<running_, queued, loopVars, clockVars, reachable>>

ConfigSent ==
    /\ pc = "sending_config"
    /\ config_sent' = TRUE
    /\ Goto("pop")
    /\ UNCHANGED <<running_, queued, shutting_down, connected, backoff_ms, clockVars, reachable>>

PopNext ==
    /\ pc = "pop" /\ queued > 0
    /\ queued' = queued - 1
    /\ Block("sending", SendTime)
    /\ UNCHANGED <<running_, loopVars, clockVars, reachable>>

Sent ==
    /\ pc = "sending"
    /\ Goto("top")
    /\ UNCHANGED <<running_, queued, loopVars, clockVars, reachable>>

(* A broken connection; a message in hand goes back to the queue.          *)
SendFails ==
    /\ pc \in {"sending_config", "sending"}
    /\ connected' = FALSE
    /\ queued' = IF pc = "sending" THEN queued + 1 ELSE queued
    /\ Goto("top")
    /\ UNCHANGED <<running_, shutting_down, backoff_ms, config_sent, clockVars, reachable>>

(* Nothing to send.  Between the look at the queue and the wait the sender *)
(* holds no lock.                                                          *)
PopNothing ==
    /\ pc = "pop" /\ queued = 0
    /\ Goto(IF shutting_down THEN "done" ELSE "before_wait")
    /\ UNCHANGED <<running_, queued, loopVars, clockVars, reachable>>

WaitBegins ==
    /\ pc = "before_wait"
    /\ Block("waiting", WaitTime)
    /\ UNCHANGED <<running_, queued, loopVars, clockVars, reachable>>

(* Notified, timed out, or spuriously.                                     *)
WaitReturns ==
    /\ pc = "waiting"
    /\ Goto("top")
    /\ UNCHANGED <<running_, queued, loopVars, clockVars, reachable>>

-----------------------------------------------------------------------------
Terminated == pc = "done" /\ ~running_ /\ UNCHANGED vars

Sender ==
    \/ LoopTop \/ ConnectOk \/ ConnectFails \/ BackoffOver
    \/ CheckConfig \/ ConfigSent \/ PopNext \/ Sent \/ SendFails
    \/ PopNothing \/ WaitBegins \/ WaitReturns

Next == Tick \/ ReachableChanges \/ Write \/ Close \/ Sender \/ Terminated

Spec == Init /\ [][Next]_vars

-----------------------------------------------------------------------------
(* Properties.                                                             *)

LargerOf(x, y) == IF x > y THEN x ELSE y

(* The types of the loop's locals and of the clocks.                       *)
TypeOK ==
    /\ running_ \in BOOLEAN /\ queued \in Nat
    /\ pc \in {"top", "connecting", "backing_off", "config", "sending_config", "pop",
               "sending", "before_wait", "waiting", "done"}
    /\ shutting_down \in BOOLEAN /\ connected \in BOOLEAN /\ config_sent \in BOOLEAN
    /\ backoff_ms \in MinBackoff .. MaxBackoff
    /\ timer \in Nat /\ since_close \in Nat /\ since_reachable \in Nat
    /\ reachable \in BOOLEAN

(* close() joins the sender no later than this after it was called: either *)
(* an attempt to connect under way fails and the longest backoff follows,  *)
(* or it succeeds and the config and a message are sent first, or a send   *)
(* begun just before the deadline has to end.                              *)
LongestClose ==
    LargerOf(ConnectTime + LargerOf(MaxBackoff, 2 * SendTime + WaitTime),
             DrainTime + 2 * SendTime)
CloseIsBounded == ~running_ /\ pc # "done" => since_close <= LongestClose

(* ROADMAP.md of the join on shutdown: now capped at 5s.                   *)
CloseIsCapped == ~running_ => since_close <= DrainTime

(* A server that is back is connected to after at most an attempt that     *)
(* began too early, the longest backoff and one more attempt.              *)
ReconnectsInTime ==
    running_ /\ reachable /\ ~connected =>
        since_reachable <= ConnectTime + MaxBackoff + ConnectTime
=============================================================================
