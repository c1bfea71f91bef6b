------------------------ MODULE ShutdownTimingProofs ------------------------
(***************************************************************************)
(* Proofs about ShutdownTiming, for every value of the timeouts.  Each     *)
(* place of the sender's loop has its own bound on the time since close()  *)
(* and on the time without a connection: what the clock shows plus what    *)
(* the blocking call may still take.                                       *)
(***************************************************************************)
EXTENDS ShutdownTiming, TLAPS

(* From where the time to a place of the loop is counted: a turn that began*)
(* after close() began before the deadline, one that began before it may   *)
(* have had to connect.                                                    *)
TurnBase == IF shutting_down THEN DrainTime ELSE ConnectTime

LoopInv ==
    /\ running_ => since_close = 0 /\ ~shutting_down
    /\ pc = "done" => ~running_
    /\ pc \notin Blocked => timer = 0
    /\ pc \in {"connecting", "backing_off", "before_wait", "waiting"} => ~shutting_down
    /\ pc \in {"connecting", "backing_off"} => ~connected
    /\ pc \in {"config", "sending_config", "pop", "sending", "before_wait", "waiting"}
          => connected

CloseInv ==
    /\ pc = "top" => since_close <= LongestClose
    /\ pc = "connecting" => since_close + timer <= ConnectTime
    /\ pc = "backing_off" => since_close + timer <= ConnectTime + MaxBackoff
    /\ pc = "config" => since_close <= TurnBase
    /\ pc = "sending_config" => since_close + timer <= TurnBase + SendTime
    /\ pc = "pop" => since_close <= TurnBase + SendTime
    /\ pc = "sending" => since_close + timer <= TurnBase + 2 * SendTime
    /\ pc = "before_wait" => since_close <= TurnBase + SendTime
    /\ pc = "waiting" => since_close + timer <= TurnBase + SendTime + WaitTime

ReconnectInv ==
    /\ connected \/ ~reachable => since_reachable = 0
    /\ pc = "top" => since_reachable <= ConnectTime + MaxBackoff
    /\ pc = "connecting" =>
          /\ timer <= ConnectTime
          /\ since_reachable + timer <= ConnectTime + MaxBackoff + ConnectTime
    /\ pc = "backing_off" => since_reachable + timer <= ConnectTime + MaxBackoff

-----------------------------------------------------------------------------
(* The types hold at every step: the clocks only count, and the delay stays*)
(* between its limits.                                                     *)
LEMMA LongerType ==
    ASSUME NEW d \in MinBackoff .. MaxBackoff
    PROVE  Longer(d) \in MinBackoff .. MaxBackoff
  BY TimesAssumption DEF Longer

(* Every step keeps the types.                                             *)
LEMMA TypeStep == TypeOK /\ [Next]_vars => TypeOK'
<1> SUFFICES ASSUME TypeOK, [Next]_vars PROVE TypeOK'
    OBVIOUS
<1> USE TimesAssumption DEF TypeOK, Goto, Block, Notify, loopVars, clockVars, Blocked
<1>1. CASE Tick
      BY <1>1 DEF Tick
<1>2. CASE ReachableChanges
      BY <1>2 DEF ReachableChanges
<1>3. CASE Write
      BY <1>3 DEF Write
<1>4. CASE Close
      BY <1>4 DEF Close
<1>5. CASE LoopTop
      BY <1>5 DEF LoopTop
<1>6. CASE ConnectOk
  <2>1. connected' \in BOOLEAN /\ config_sent' \in BOOLEAN
        BY Zenon, <1>6 DEF ConnectOk
  <2>. QED BY <1>6, <2>1 DEF ConnectOk
<1>7. CASE ConnectFails
      BY <1>7, LongerType DEF ConnectFails
<1>8. CASE BackoffOver
      BY <1>8 DEF BackoffOver
<1>9. CASE CheckConfig
      BY <1>9 DEF CheckConfig
<1>10. CASE ConfigSent
      BY <1>10 DEF ConfigSent
<1>11. CASE PopNext
      BY <1>11 DEF PopNext
<1>12. CASE Sent
      BY <1>12 DEF Sent
<1>13. CASE SendFails
  <2>1. connected' \in BOOLEAN /\ config_sent' \in BOOLEAN
        BY Zenon, <1>13 DEF SendFails
  <2>. QED BY <1>13, <2>1 DEF SendFails
<1>14. CASE PopNothing
      BY <1>14 DEF PopNothing
<1>15. CASE WaitBegins
      BY <1>15 DEF WaitBegins
<1>16. CASE WaitReturns
      BY <1>16 DEF WaitReturns
<1>17. CASE UNCHANGED vars
      BY <1>17 DEF vars
<1>. QED BY <1>1, <1>2, <1>3, <1>4, <1>5, <1>6, <1>7, <1>8,
            <1>9, <1>10, <1>11, <1>12, <1>13, <1>14, <1>15, <1>16, <1>17 DEF Next, Sender, Terminated

(* TypeOK holds in every state of the sender's timing.                     *)
THEOREM TimingTypeCorrect == Spec => []TypeOK
<1>1. Init => running_ \in BOOLEAN /\ shutting_down \in BOOLEAN
                /\ connected \in BOOLEAN /\ config_sent \in BOOLEAN
      BY Zenon DEF Init
<1>2. Init => TypeOK
      BY <1>1, TimesAssumption DEF Init, TypeOK
<1>. QED BY <1>2, TypeStep, PTL DEF Spec

(* The flags go with the place in the loop, and nothing is timed between   *)
(* blocking calls.                                                         *)
LEMMA LoopStep == TypeOK /\ LoopInv /\ [Next]_vars => LoopInv'
<1> SUFFICES ASSUME TypeOK, LoopInv, [Next]_vars PROVE LoopInv'
    OBVIOUS
<1> USE TimesAssumption DEF TypeOK, LoopInv, Goto, Block, Notify, loopVars, clockVars, Blocked, GivesUp
<1>1. CASE Tick
      BY <1>1 DEF Tick
<1>2. CASE ReachableChanges
      BY <1>2 DEF ReachableChanges
<1>3. CASE Write
      BY <1>3 DEF Write
<1>4. CASE Close
      BY <1>4 DEF Close
<1>5. CASE LoopTop
      BY <1>5 DEF LoopTop
<1>6. CASE ConnectOk
      BY <1>6 DEF ConnectOk
<1>7. CASE ConnectFails
      BY <1>7 DEF ConnectFails
<1>8. CASE BackoffOver
      BY <1>8 DEF BackoffOver
<1>9. CASE CheckConfig
      BY <1>9 DEF CheckConfig
<1>10. CASE ConfigSent
      BY <1>10 DEF ConfigSent
<1>11. CASE PopNext
      BY <1>11 DEF PopNext
<1>12. CASE Sent
      BY <1>12 DEF Sent
<1>13. CASE SendFails
      BY <1>13 DEF SendFails
<1>14. CASE PopNothing
      BY <1>14 DEF PopNothing
<1>15. CASE WaitBegins
      BY <1>15 DEF WaitBegins
<1>16. CASE WaitReturns
      BY <1>16 DEF WaitReturns
<1>17. CASE UNCHANGED vars
      BY <1>17 DEF vars
<1>. QED BY <1>1, <1>2, <1>3, <1>4, <1>5, <1>6, <1>7, <1>8, <1>9, <1>10, <1>11, <1>12,
            <1>13, <1>14, <1>15, <1>16, <1>17 DEF Next, Sender, Terminated

(* The longest close() is at least every bound of CloseInv.                *)
LEMMA LongestCloseBounds ==
    /\ LongestClose \in Nat
    /\ ConnectTime + MaxBackoff <= LongestClose
    /\ ConnectTime + 2 * SendTime + WaitTime <= LongestClose
    /\ DrainTime + 2 * SendTime <= LongestClose
  BY TimesAssumption DEF LongestClose, LargerOf

(* The time since close() and what the call under way may still take.      *)
LEMMA CloseStep == TypeOK /\ LoopInv /\ CloseInv /\ [Next]_vars => CloseInv'
<1> SUFFICES ASSUME TypeOK, LoopInv, CloseInv, [Next]_vars PROVE CloseInv'
    OBVIOUS
<1> USE TimesAssumption, LongestCloseBounds DEF TypeOK, LoopInv, CloseInv, TurnBase, Goto, Block, Notify, loopVars, clockVars, Blocked, GivesUp
<1>1. CASE Tick
      BY <1>1 DEF Tick
<1>2. CASE ReachableChanges
      BY <1>2 DEF ReachableChanges
<1>3. CASE Write
      BY <1>3 DEF Write
<1>4. CASE Close
      BY <1>4 DEF Close
<1>5. CASE LoopTop
      BY <1>5 DEF LoopTop
<1>6. CASE ConnectOk
      BY <1>6 DEF ConnectOk
<1>7. CASE ConnectFails
      BY <1>7 DEF ConnectFails
<1>8. CASE BackoffOver
      BY <1>8 DEF BackoffOver
<1>9. CASE CheckConfig
      BY <1>9 DEF CheckConfig
<1>10. CASE ConfigSent
      BY <1>10 DEF ConfigSent
<1>11. CASE PopNext
      BY <1>11 DEF PopNext
<1>12. CASE Sent
      BY <1>12 DEF Sent
<1>13. CASE SendFails
      BY <1>13 DEF SendFails
<1>14. CASE PopNothing
      BY <1>14 DEF PopNothing
<1>15. CASE WaitBegins
      BY <1>15 DEF WaitBegins
<1>16. CASE WaitReturns
      BY <1>16 DEF WaitReturns
<1>17. CASE UNCHANGED vars
      BY <1>17 DEF vars
<1>. QED BY <1>1, <1>2, <1>3, <1>4, <1>5, <1>6, <1>7, <1>8, <1>9, <1>10, <1>11, <1>12,
            <1>13, <1>14, <1>15, <1>16, <1>17 DEF Next, Sender, Terminated

(* The time without a connection to a server that is there.                *)
LEMMA ReconnectStep == TypeOK /\ LoopInv /\ ReconnectInv /\ [Next]_vars => ReconnectInv'
<1> SUFFICES ASSUME TypeOK, LoopInv, ReconnectInv, [Next]_vars PROVE ReconnectInv'
    OBVIOUS
<1> USE TimesAssumption DEF TypeOK, LoopInv, ReconnectInv, Goto, Block, Notify, loopVars, clockVars, Blocked
<1>1. CASE Tick
      BY <1>1 DEF Tick
<1>2. CASE ReachableChanges
      BY <1>2 DEF ReachableChanges
<1>3. CASE Write
      BY <1>3 DEF Write
<1>4. CASE Close
      BY <1>4 DEF Close
<1>5. CASE LoopTop
      BY <1>5 DEF LoopTop
<1>6. CASE ConnectOk
      BY <1>6 DEF ConnectOk
<1>7. CASE ConnectFails
      BY <1>7 DEF ConnectFails
<1>8. CASE BackoffOver
      BY <1>8 DEF BackoffOver
<1>9. CASE CheckConfig
      BY <1>9 DEF CheckConfig
<1>10. CASE ConfigSent
      BY <1>10 DEF ConfigSent
<1>11. CASE PopNext
      BY <1>11 DEF PopNext
<1>12. CASE Sent
      BY <1>12 DEF Sent
<1>13. CASE SendFails
      BY <1>13 DEF SendFails
<1>14. CASE PopNothing
      BY <1>14 DEF PopNothing
<1>15. CASE WaitBegins
      BY <1>15 DEF WaitBegins
<1>16. CASE WaitReturns
      BY <1>16 DEF WaitReturns
<1>17. CASE UNCHANGED vars
      BY <1>17 DEF vars
<1>. QED BY <1>1, <1>2, <1>3, <1>4, <1>5, <1>6, <1>7, <1>8, <1>9, <1>10, <1>11, <1>12,
            <1>13, <1>14, <1>15, <1>16, <1>17 DEF Next, Sender, Terminated

THEOREM TimingInvariant == Spec => [](TypeOK /\ LoopInv /\ CloseInv /\ ReconnectInv)
<1>1. Init => LoopInv /\ CloseInv /\ ReconnectInv
      BY TimesAssumption, LongestCloseBounds DEF Init, LoopInv, CloseInv, ReconnectInv, Blocked
<1>. QED BY <1>1, TimingTypeCorrect, LoopStep, CloseStep, ReconnectStep, PTL DEF Spec

(* For all timeouts, close() has its sender joined LongestClose after it   *)
(* was called, if the peer takes each message within SendTime.             *)
THEOREM CloseBounded == Spec => []CloseIsBounded
<1>1. TypeOK /\ LoopInv /\ CloseInv => CloseIsBounded
      BY TimesAssumption, LongestCloseBounds
      DEF TypeOK, LoopInv, CloseInv, TurnBase, CloseIsBounded
<1>. QED BY <1>1, TimingInvariant, PTL

(* For all timeouts, a server that is back has its connection after two    *)
(* attempts and the longest backoff.                                       *)
THEOREM ReconnectsWithinBound == Spec => []ReconnectsInTime
<1>1. TypeOK /\ LoopInv /\ ReconnectInv => ReconnectsInTime
      BY TimesAssumption DEF TypeOK, LoopInv, ReconnectInv, ReconnectsInTime
<1>. QED BY <1>1, TimingInvariant, PTL
=============================================================================
