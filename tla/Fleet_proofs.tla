------------------------------ MODULE Fleet_proofs ------------------------------
(***************************************************************************)
(* Theorems about agents and coordinator for any number of nodes and of    *)
(* heartbeat threads, all intervals, timeouts and TTLs: types, that the    *)
(* count of heartbeats is honest, and how many losses the TTL forgives.    *)
(***************************************************************************)
EXTENDS Fleet, TLAPS

USE DEF Places, Old, NoRequest, Unknown

\* No thread, no request, nobody listed.
LEMMA InitTypeOK == Init => TypeOK
<1> SUFFICES ASSUME Init PROVE TypeOK
  OBVIOUS
<1>1. /\ Interval \in Nat /\ Timeout \in Nat /\ TTL \in Nat
      /\ Operations \in Nat \ {0} /\ MaxLate \in Nat
  BY TimesAssumption
<1>2. /\ running \in [Nodes -> BOOLEAN] /\ steady \in [Nodes -> BOOLEAN]
      /\ lost \in [Nodes -> BOOLEAN] /\ \A n \in Nodes : ~running[n]
  BY Zenon DEF Init
<1>3. /\ loop \in [Nodes -> [Slots -> Places]]
      /\ timer \in [Nodes -> [Slots -> 0..(Interval + Timeout)]]
      /\ late \in [Nodes -> 0..MaxLate]
      /\ count \in [Nodes -> 0..1] /\ errors \in [Nodes -> 0..1]
      /\ misses \in [Nodes -> 0..Old]
  BY <1>1 DEF Init
<1>4. request \in [Nodes -> [Slots -> [heard : BOOLEAN, left : 0..(Operations - 1)]]]
  <2>1. [heard |-> FALSE, left |-> 0] \in [heard : BOOLEAN, left : 0..(Operations - 1)]
    BY <1>1
  <2> QED
    BY <2>1 DEF Init
<1>5. registry \in [Nodes -> -1..Old]
  BY <1>1 DEF Init
<1> QED
  BY <1>2, <1>3, <1>4, <1>5 DEF TypeOK

\* What is known of a post.
Requests == [heard : BOOLEAN, left : 0..(Operations - 1)]

Running(n) == running[n] /\ ~lost[n] => \E t \in Slots : loop[n][t] # "none"
Shape ==
    /\ running \in [Nodes -> BOOLEAN] /\ lost \in [Nodes -> BOOLEAN]
    /\ loop \in [Nodes -> [Slots -> Places]]
    /\ timer \in [Nodes -> [Slots -> 0..(Interval + Timeout)]]
    /\ request \in [Nodes -> [Slots -> Requests]]
    /\ late \in [Nodes -> 0..MaxLate]
    /\ registry \in [Nodes -> -1..Old]
    /\ count \in [Nodes -> 0..1] /\ errors \in [Nodes -> 0..1]
    /\ steady \in [Nodes -> BOOLEAN]
    /\ misses \in [Nodes -> 0..Old]

\* The type invariant, one thread and one node at a time.
LEMMA TypeOKIsShape == TypeOK <=> Shape /\ \A n \in Nodes : Running(n)
<1>1. \A n \in Nodes : Alive(n) # {} <=> \E t \in Slots : loop[n][t] # "none"
  BY DEF Alive
<1> QED
  BY <1>1 DEF TypeOK, Shape, Running, Requests

\* The entry of one thread, and that of one node, changes within its type.
LEMMA SlotUpdate ==
    ASSUME NEW S, NEW f \in [Nodes -> [Slots -> S]], NEW n \in Nodes, NEW t \in Slots, NEW v \in S
    PROVE  [f EXCEPT ![n][t] = v] \in [Nodes -> [Slots -> S]]
OBVIOUS

\* Changing one node's entry keeps the type of the whole.
LEMMA NodeUpdate ==
    ASSUME NEW S, NEW f \in [Nodes -> S], NEW n \in Nodes, NEW v \in S
    PROVE  [f EXCEPT ![n] = v] \in [Nodes -> S]
OBVIOUS

\* Times are natural numbers, and silence grows up to one beyond the TTL.
LEMMA Values ==
    /\ Interval \in 0..(Interval + Timeout) /\ Timeout \in 0..(Interval + Timeout)
    /\ 0 \in 0..(Interval + Timeout)
    /\ \A time \in 0..(Interval + Timeout) : time > 0 => time - 1 \in 0..(Interval + Timeout)
    /\ NoRequest \in Requests /\ [heard |-> FALSE, left |-> Operations - 1] \in Requests
    /\ Unknown \in -1..Old /\ 0 \in -1..Old
    /\ \A silent \in -1..Old : Longer(silent) \in -1..Old
    /\ \A r \in Requests : [r EXCEPT !.heard = TRUE] \in Requests
    /\ \A r \in Requests : r.left > 0 => [r EXCEPT !.left = r.left - 1] \in Requests
    /\ \A k \in 0..MaxLate : /\ k < MaxLate => k + 1 \in 0..MaxLate
                             /\ k > 0 => k - 1 \in 0..MaxLate
    /\ \A c \in 0..1 : (c + 1) % 2 \in 0..1
    /\ 0 \in 0..Old /\ \A m \in 0..Old : ~(m > TTL) => m + 1 \in 0..Old
<1>1. /\ Interval \in Nat /\ Timeout \in Nat /\ TTL \in Nat
      /\ Operations \in Nat \ {0} /\ MaxLate \in Nat
  BY TimesAssumption
<1>2. \A silent \in -1..Old : Longer(silent) \in -1..Old
  BY <1>1 DEF Longer
<1>3. ASSUME NEW r \in Requests
      PROVE  /\ [r EXCEPT !.heard = TRUE] \in Requests
             /\ r.left > 0 => [r EXCEPT !.left = r.left - 1] \in Requests
  <2>1. r \in [heard : BOOLEAN, left : 0..(Operations - 1)] /\ r.left \in 0..(Operations - 1)
    BY DEF Requests
  <2>2. [r EXCEPT !.heard = TRUE] \in [heard : BOOLEAN, left : 0..(Operations - 1)]
    BY <2>1
  <2>3. ASSUME NEW k \in 0..(Operations - 1)
        PROVE  [r EXCEPT !.left = k] \in [heard : BOOLEAN, left : 0..(Operations - 1)]
    BY <2>1
  <2>4. r.left > 0 => r.left - 1 \in 0..(Operations - 1)
    BY <1>1, <2>1
  <2> QED
    BY <2>2, <2>3, <2>4 DEF Requests
<1>4. NoRequest \in Requests /\ [heard |-> FALSE, left |-> Operations - 1] \in Requests
  BY <1>1 DEF Requests
<1>5. /\ \A r \in Requests : [r EXCEPT !.heard = TRUE] \in Requests
      /\ \A r \in Requests : r.left > 0 => [r EXCEPT !.left = r.left - 1] \in Requests
  BY <1>3
<1>6. \A c \in 0..1 : (c + 1) % 2 \in 0..1
  OBVIOUS
<1>7. /\ \A k \in 0..MaxLate : /\ k < MaxLate => k + 1 \in 0..MaxLate
                               /\ k > 0 => k - 1 \in 0..MaxLate
      /\ Unknown \in -1..Old /\ 0 \in -1..Old
  BY <1>1
<1>8. /\ Interval \in 0..(Interval + Timeout) /\ Timeout \in 0..(Interval + Timeout)
      /\ 0 \in 0..(Interval + Timeout)
      /\ \A time \in 0..(Interval + Timeout) : time > 0 => time - 1 \in 0..(Interval + Timeout)
      /\ 0 \in 0..Old /\ \A m \in 0..Old : ~(m > TTL) => m + 1 \in 0..Old
  BY <1>1
<1> QED
  BY <1>2, <1>4, <1>5, <1>6, <1>7, <1>8

\* Every step of an agent, of the coordinator and of time keeps the shape.
LEMMA StepShape ==
    ASSUME Shape, [Next]_vars
    PROVE  Shape'
<1> USE DEF Shape, MoveTo
<1>1. CASE UNCHANGED vars
  BY <1>1 DEF vars, agentVars
<1>2. ASSUME NEW n \in Nodes, Start(n) PROVE Shape'
  BY <1>2 DEF Start
<1>3. ASSUME NEW n \in Nodes, Stop(n) PROVE Shape'
  BY <1>3 DEF Stop
<1>4. ASSUME NEW n \in Nodes, NEW t \in Slots, Check(n, t) PROVE Shape'
  <2>1. \/ loop' = [loop EXCEPT ![n][t] = "sleeping"] /\ timer' = [timer EXCEPT ![n][t] = Interval]
        \/ loop' = [loop EXCEPT ![n][t] = "none"] /\ timer' = timer
    BY <1>4, Zenon DEF Check
  <2>2. [loop EXCEPT ![n][t] = "sleeping"] \in [Nodes -> [Slots -> Places]]
    OBVIOUS
  <2>3. [loop EXCEPT ![n][t] = "none"] \in [Nodes -> [Slots -> Places]]
    OBVIOUS
  <2>4. [timer EXCEPT ![n][t] = Interval] \in [Nodes -> [Slots -> 0..(Interval + Timeout)]]
    BY Values
  <2>5. /\ loop' \in [Nodes -> [Slots -> Places]]
        /\ timer' \in [Nodes -> [Slots -> 0..(Interval + Timeout)]]
    BY <2>1, <2>2, <2>3, <2>4
  <2> QED
    BY <1>4, <2>5 DEF Check
<1>5. ASSUME NEW n \in Nodes, NEW t \in Slots, Wake(n, t) PROVE Shape'
  BY <1>5 DEF Wake, Continues
<1>6. ASSUME NEW n \in Nodes, NEW t \in Slots, Send(n, t) PROVE Shape'
  BY <1>6, Values, SlotUpdate DEF Send
<1>17. ASSUME NEW n \in Nodes, NEW t \in Slots, Proceed(n, t) PROVE Shape'
  <2>1. timer' \in [Nodes -> [Slots -> 0..(Interval + Timeout)]]
    BY <1>17, Values, SlotUpdate DEF Proceed
  <2>2. request' = [request EXCEPT ![n][t] = [request[n][t] EXCEPT !.left = request[n][t].left - 1]]
    BY <1>17 DEF Proceed
  <2>3. request[n][t] \in Requests /\ request[n][t].left > 0
    BY <1>17 DEF Proceed
  <2>4. [request[n][t] EXCEPT !.left = request[n][t].left - 1] \in Requests
    BY <2>3, Values
  <2>5. request' \in [Nodes -> [Slots -> Requests]]
    BY <2>2, <2>4, SlotUpdate
  <2> QED
    BY <1>17, <2>1, <2>5 DEF Proceed
<1>7. ASSUME NEW n \in Nodes, NEW t \in Slots, Succeed(n, t) PROVE Shape'
  <2>1. /\ loop' \in [Nodes -> [Slots -> Places]]
        /\ timer' \in [Nodes -> [Slots -> 0..(Interval + Timeout)]]
        /\ request' \in [Nodes -> [Slots -> Requests]]
    BY <1>7, Values, SlotUpdate DEF Succeed
  <2>2. count' \in [Nodes -> 0..1]
    BY <1>7, Values DEF Succeed
  <2> QED
    BY <1>7, <2>1, <2>2 DEF Succeed
<1>8. ASSUME NEW n \in Nodes, NEW t \in Slots, GiveUp(n, t)
      PROVE  /\ timer' \in [Nodes -> [Slots -> 0..(Interval + Timeout)]]
             /\ request' \in [Nodes -> [Slots -> Requests]]
             /\ late' \in [Nodes -> 0..MaxLate]
             /\ misses' \in [Nodes -> 0..Old]
  <2>1. /\ timer' \in [Nodes -> [Slots -> 0..(Interval + Timeout)]]
        /\ request' \in [Nodes -> [Slots -> Requests]]
    BY <1>8, Values, SlotUpdate DEF GiveUp
  <2>3. late' \in [Nodes -> 0..MaxLate]
    <3>1. CASE late' = late
      BY <3>1
    <3>2. CASE late' = [late EXCEPT ![n] = late[n] + 1] /\ late[n] < MaxLate
      BY <3>2, Values, NodeUpdate
    <3> QED
      BY <1>8, <3>1, <3>2 DEF GiveUp
  <2>4. misses' \in [Nodes -> 0..Old]
    BY <1>8, Values DEF GiveUp
  <2> QED
    BY <2>1, <2>3, <2>4
<1>9. ASSUME NEW n \in Nodes, NEW t \in Slots, Fail(n, t) PROVE Shape'
  <2>1. loop' \in [Nodes -> [Slots -> Places]] /\ errors' \in [Nodes -> 0..1]
    BY <1>9, Values DEF Fail, AfterError
  <2> QED
    BY <1>8, <1>9, <2>1 DEF Fail
<1>10. ASSUME NEW n \in Nodes, NEW t \in Slots, Crash(n, t) PROVE Shape'
  <2>1. /\ loop' \in [Nodes -> [Slots -> Places]]
        /\ lost' \in [Nodes -> BOOLEAN] /\ steady' \in [Nodes -> BOOLEAN]
    BY <1>10 DEF Crash
  <2> QED
    BY <1>8, <1>10, <2>1 DEF Crash
<1>11. ASSUME NEW n \in Nodes, Ingest(n)
       PROVE  registry' \in [Nodes -> -1..Old] /\ misses' \in [Nodes -> 0..Old]
  BY <1>11, Values, NodeUpdate DEF Ingest
<1>12. ASSUME NEW n \in Nodes, NEW t \in Slots, Receive(n, t) PROVE Shape'
  <2>2. request' = [request EXCEPT ![n][t] = [request[n][t] EXCEPT !.heard = TRUE]]
    BY <1>12 DEF Receive
  <2>3. request' \in [Nodes -> [Slots -> Requests]]
    <3>1. [request[n][t] EXCEPT !.heard = TRUE] \in Requests
      BY Values
    <3>2. \A v \in Requests : [request EXCEPT ![n][t] = v] \in [Nodes -> [Slots -> Requests]]
      OBVIOUS
    <3> QED
      BY <2>2, <3>1, <3>2
  <2>4. steady' \in [Nodes -> BOOLEAN]
    BY <1>12 DEF Receive
  <2>5. registry' \in [Nodes -> -1..Old] /\ misses' \in [Nodes -> 0..Old]
    BY <1>11, <1>12 DEF Receive
  <2> QED
    BY <1>12, <2>3, <2>4, <2>5 DEF Receive, agentVars
<1>13. ASSUME NEW n \in Nodes, ReceiveLate(n) PROVE Shape'
  <2>1. /\ Ingest(n) /\ late[n] > 0 /\ late' = [late EXCEPT ![n] = late[n] - 1]
        /\ UNCHANGED <<agentVars, request, steady>>
    BY <1>13 DEF ReceiveLate
  <2>2. late' \in [Nodes -> 0..MaxLate]
    BY <2>1, Values, NodeUpdate
  <2> QED
    BY <1>11, <2>1, <2>2 DEF agentVars
<1>14. CASE EvictStale
  BY <1>14, Values DEF EvictStale, agentVars
<1>15. ASSUME NEW n \in Nodes, Remove(n) PROVE Shape'
  BY <1>15, Values DEF Remove, agentVars
<1>16. CASE Tick
  <2>1. timer' \in [Nodes -> [Slots -> 0..(Interval + Timeout)]]
    <3>1. \A n \in Nodes, t \in Slots : Timed(n, t) => timer[n][t] > 0
      BY <1>16 DEF Tick, Timed
    <3> QED
      BY <1>16, <3>1, Values DEF Tick
  <2>2. registry' \in [Nodes -> -1..Old]
    BY <1>16, Values DEF Tick, Listed
  <2> QED
    BY <1>16, <2>1, <2>2 DEF Tick
<1> QED
  BY <1>1, <1>2, <1>3, <1>4, <1>5, <1>6, <1>7, <1>9, <1>10, <1>12, <1>13, <1>14, <1>15, <1>16, <1>17
  DEF Next, HeartbeatLoop

\* Of a running agent only an exception ends the thread.
LEMMA StepRunning ==
    ASSUME Shape, [Next]_vars, NEW n \in Nodes, Running(n)
    PROVE  Running(n)'
<1> USE DEF Shape, Running, MoveTo
<1>1. CASE UNCHANGED <<running, loop, lost>>
  BY <1>1
<1>2. ASSUME NEW m \in Nodes, Start(m) PROVE Running(n)'
  BY <1>2 DEF Start
<1>3. ASSUME NEW m \in Nodes, Stop(m) PROVE Running(n)'
  BY <1>3 DEF Stop
<1>4. ASSUME NEW m \in Nodes, NEW t \in Slots,
             Check(m, t) \/ Wake(m, t) \/ Send(m, t) \/ Succeed(m, t) \/ Fail(m, t)
      PROVE  Running(n)'
  <2>1. /\ UNCHANGED <<running, lost>>
        /\ \E place \in Places : /\ loop' = [loop EXCEPT ![m][t] = place]
                                 /\ running[m] => place # "none"
    BY <1>4 DEF Check, Wake, Send, Succeed, Fail, Continues, AfterError
  <2> QED
    BY <2>1
<1>5. ASSUME NEW m \in Nodes, NEW t \in Slots, Crash(m, t) PROVE Running(n)'
  <2>1. /\ UNCHANGED running /\ lost' = [lost EXCEPT ![m] = TRUE]
        /\ loop' = [loop EXCEPT ![m][t] = "none"]
    BY <1>5 DEF Crash
  <2> QED
    BY <2>1
<1>6. ASSUME NEW m \in Nodes, NEW t \in Slots, Proceed(m, t) \/ Receive(m, t)
      PROVE  UNCHANGED <<running, loop, lost>>
  BY <1>6 DEF Proceed, Receive, agentVars
<1>7. ASSUME NEW m \in Nodes, ReceiveLate(m) \/ Remove(m) PROVE UNCHANGED <<running, loop, lost>>
  BY <1>7 DEF ReceiveLate, Remove, agentVars
<1>8. EvictStale \/ Tick => UNCHANGED <<running, loop, lost>>
  BY DEF EvictStale, Tick, agentVars
<1> QED
  BY <1>1, <1>2, <1>3, <1>4, <1>5, <1>6, <1>7, <1>8 DEF Next, HeartbeatLoop, vars, agentVars

\* In every behaviour the fleet keeps its shape, and an agent that runs has a
\* heartbeat thread unless an exception ended one (TypeOK).
THEOREM TypeCorrect == Spec => []TypeOK
<1> DEFINE Sound == Shape /\ \A n \in Nodes : Running(n)
<1>1. Init => Sound
  BY InitTypeOK, TypeOKIsShape
<1>2. Sound /\ [Next]_vars => Sound'
  <2> SUFFICES ASSUME Sound, [Next]_vars PROVE Shape' /\ \A n \in Nodes : Running(n)'
    OBVIOUS
  <2> QED
    BY StepShape, StepRunning
<1>3. Sound => TypeOK
  BY TypeOKIsShape
<1> QED
  BY <1>1, <1>2, <1>3, PTL DEF Spec

-----------------------------------------------------------------------------
\* A post the coordinator has heard is one it accepted.
HeardInv == \A n \in Nodes, t \in Slots : request[n][t].heard => Accepted(n)

\* Only an accepted post is marked as heard, and the mark goes with the post.
LEMMA StepHeardInv ==
    ASSUME Shape, HeardInv, [Next]_vars
    PROVE  HeardInv'
<1> USE DEF Shape, HeardInv, Accepted
<1>1. CASE UNCHANGED request
  BY <1>1
<1>2. ASSUME NEW n \in Nodes, NEW t \in Slots,
             Send(n, t) \/ Succeed(n, t) \/ Fail(n, t) \/ Crash(n, t)
      PROVE  HeardInv'
  <2>1. \/ request' = [request EXCEPT ![n][t] = NoRequest]
        \/ request' = [request EXCEPT ![n][t] = [heard |-> FALSE, left |-> Operations - 1]]
    BY <1>2 DEF Send, Succeed, Fail, Crash, GiveUp
  <2>2. ASSUME NEW left, request' = [request EXCEPT ![n][t] = [heard |-> FALSE, left |-> left]]
        PROVE  HeardInv'
    BY <2>2
  <2> QED
    BY <2>1, <2>2
<1>3. ASSUME NEW n \in Nodes, NEW t \in Slots, Receive(n, t) PROVE HeardInv'
  <2>1. Accepted(n) /\ request' = [request EXCEPT ![n][t].heard = TRUE]
    BY <1>3 DEF Receive, Ingest
  <2> QED
    BY <2>1 DEF Requests
<1>4. ASSUME NEW n \in Nodes, NEW t \in Slots, Proceed(n, t) PROVE HeardInv'
  <2>1. request' = [request EXCEPT ![n][t].left = request[n][t].left - 1]
    BY <1>4 DEF Proceed
  <2>2. \A m \in Nodes, u \in Slots : request'[m][u].heard = request[m][u].heard
    BY <2>1 DEF Requests
  <2> QED
    BY <2>2
<1>5. ASSUME NEW n \in Nodes, NEW t \in Slots, Check(n, t) \/ Wake(n, t) PROVE UNCHANGED request
  BY <1>5 DEF Check, Wake
<1>6. ASSUME NEW n \in Nodes, Start(n) \/ Stop(n) \/ Remove(n) \/ ReceiveLate(n)
      PROVE  UNCHANGED request
  BY <1>6 DEF Start, Stop, Remove, ReceiveLate
<1>7. EvictStale \/ Tick \/ UNCHANGED vars => UNCHANGED request
  BY DEF EvictStale, Tick, vars
<1> QED
  BY <1>1, <1>2, <1>3, <1>4, <1>5, <1>6, <1>7 DEF Next, HeartbeatLoop

\* The count of heartbeats (agent.py 228-234) grows only for a post the
\* coordinator took (CountedHeartbeatsArrived), for every number of nodes, of
\* threads left over by stop() and start(), and whatever the network does.
THEOREM CountIsHonest == Spec => CountedHeartbeatsArrived
<1> DEFINE Honest == \A n \in Nodes :
             count'[n] # count[n] =>
               /\ errors'[n] = errors[n]
               /\ Accepted(n)
               /\ \E t \in Slots : request[n][t].heard /\ loop[n][t] = "waiting"
                                   /\ loop'[n][t] = "checking"
<1>1. Init => HeardInv
  BY DEF Init, HeardInv
<1>2. ASSUME TypeOK, HeardInv, [Next]_vars PROVE Honest
  <2>0. Shape
    BY <1>2, TypeOKIsShape
  <2>1. ASSUME NEW n \in Nodes, NEW t \in Slots, Succeed(n, t) PROVE Honest
    <3>1. /\ request[n][t].heard /\ loop[n][t] = "waiting" /\ UNCHANGED errors
          /\ count' = [count EXCEPT ![n] = (count[n] + 1) % 2]
          /\ loop' = [loop EXCEPT ![n][t] = "checking"]
      BY <2>1 DEF Succeed, Answered, MoveTo
    <3> QED
      BY <1>2, <2>0, <3>1 DEF HeardInv, Shape
  <2>2. ASSUME NEW n \in Nodes, NEW t \in Slots,
               \/ Check(n, t) \/ Wake(n, t) \/ Send(n, t) \/ Proceed(n, t)
               \/ Fail(n, t) \/ Crash(n, t) \/ Receive(n, t)
        PROVE  UNCHANGED count
    BY <2>2 DEF Check, Wake, Send, Proceed, Fail, Crash, Receive, agentVars
  <2>3. ASSUME NEW n \in Nodes, Start(n) \/ Stop(n) \/ Remove(n) \/ ReceiveLate(n)
        PROVE  UNCHANGED count
    BY <2>3 DEF Start, Stop, Remove, ReceiveLate, agentVars
  <2>4. EvictStale \/ Tick \/ UNCHANGED vars => UNCHANGED count
    BY DEF EvictStale, Tick, vars, agentVars
  <2> QED
    BY <1>2, <2>1, <2>2, <2>3, <2>4 DEF Next, HeartbeatLoop
<1>3. TypeOK /\ HeardInv /\ [Next]_vars => HeardInv'
  BY StepHeardInv, TypeOKIsShape
<1>4. TypeOK /\ HeardInv /\ [Next]_vars => [Honest]_vars
  BY <1>2
<1> QED
  BY <1>1, <1>3, <1>4, TypeCorrect, PTL DEF Spec, CountedHeartbeatsArrived, Honest

-----------------------------------------------------------------------------
(* How long a listed node that keeps running may have been silent: one cycle *)
(* of sleep and post for every miss, and what each of its threads has used of *)
(* the present cycle.                                                         *)
Cycle == Interval + LongestPost
Grace(m) == m * Cycle

\* The operations that a post may still block on.
Rest(left) == left * Timeout
UsedAt(place, time, r) ==
    IF place = "checking" THEN LongestPost
    ELSE IF place = "sleeping" THEN Cycle - time
    ELSE IF place = "sending" THEN Cycle
    ELSE IF place = "waiting"
         THEN (IF r.heard THEN 0 ELSE Cycle) + LongestPost - time - Rest(r.left)
    ELSE 0
Used(n, t) == UsedAt(loop[n][t], timer[n][t], request[n][t])
InTime(place, time) ==
    (place = "sleeping" => time <= Interval) /\ (place = "waiting" => time <= Timeout)

OnTime(n) ==
    /\ steady[n] => running[n] /\ ~lost[n]
    /\ \A t \in Slots : InTime(loop[n][t], timer[n][t])
Pace(n) ==
    steady[n] /\ registry[n] # Unknown =>
        \A t \in Slots : loop[n][t] # "none" =>
            registry[n] <= Grace(misses[n]) + Used(n, t)

\* A post lasts for its operations: the first and the Rest.
LEMMA PostTime ==
    /\ Interval \in Nat /\ Timeout \in Nat \ {0} /\ Operations \in Nat \ {0}
    /\ LongestPost \in Nat \ {0} /\ Timeout <= LongestPost
    /\ Rest(Operations - 1) = LongestPost - Timeout
    /\ \A k \in 0..(Operations - 1) :
         /\ Rest(k) \in Nat /\ Rest(k) + Timeout <= LongestPost
         /\ k > 0 => Rest(k - 1) = Rest(k) - Timeout
<1>1. Interval \in Nat /\ Timeout \in Nat \ {0} /\ Operations \in Nat \ {0}
  BY TimesAssumption
<1>2. \A d \in Nat : d * Timeout \in Nat
  BY <1>1
<1>3. \A d \in Nat : (d + 1) * Timeout = d * Timeout + Timeout
  BY <1>1
<1>4. LongestPost = Rest(Operations - 1) + Timeout /\ Rest(Operations - 1) \in Nat
  <2>1. Operations - 1 \in Nat /\ Operations = (Operations - 1) + 1
    BY <1>1
  <2>2. Operations * Timeout = (Operations - 1) * Timeout + Timeout
    BY <1>1, <1>3, <2>1
  <2> QED
    BY <1>2, <2>1, <2>2 DEF LongestPost, Rest
<1>5. ASSUME NEW k \in 0..(Operations - 1)
      PROVE  Rest(k) \in Nat /\ Rest(k) + Timeout <= LongestPost
  <2>1. PICK d \in Nat : Operations - 1 = k + d
    BY <1>1
  <2>2. (k + d) * Timeout = k * Timeout + d * Timeout
    BY <1>1, <2>1
  <2>3. Rest(Operations - 1) = Rest(k) + d * Timeout
    BY <2>1, <2>2 DEF Rest
  <2>4. Rest(k) \in Nat /\ d * Timeout \in Nat
    BY <1>1, <1>2, <2>1 DEF Rest
  <2> QED
    BY <1>1, <1>4, <2>3, <2>4
<1>6. ASSUME NEW k \in 0..(Operations - 1), k > 0 PROVE Rest(k - 1) = Rest(k) - Timeout
  <2>1. k - 1 \in Nat /\ k = (k - 1) + 1
    BY <1>1, <1>6
  <2>2. k * Timeout = (k - 1) * Timeout + Timeout
    BY <1>1, <1>3, <2>1
  <2>3. (k - 1) * Timeout \in Nat /\ k * Timeout \in Nat
    BY <1>2, <2>1
  <2> QED
    BY <1>1, <2>2, <2>3 DEF Rest
<1> QED
  BY <1>1, <1>4, <1>5, <1>6

\* Every miss allows one more cycle, and as many as the TTL has units allow all.
LEMMA GraceGrows ==
    /\ Cycle \in Nat \ {0} /\ LongestPost \in Nat /\ TTL \in Nat /\ Old \in Nat
    /\ Grace(0) = 0
    /\ \A m \in 0..Old : Grace(m) \in Nat /\ Grace(m + 1) = Grace(m) + Cycle
    /\ \A m \in 0..Old : m > TTL => Grace(m) >= Old
<1>1. Cycle \in Nat \ {0} /\ LongestPost \in Nat /\ TTL \in Nat /\ Old \in Nat
  BY TimesAssumption, PostTime DEF Cycle
<1> HIDE DEF Cycle
<1>2. Grace(0) = 0
  BY <1>1 DEF Grace
<1>3. ASSUME NEW m \in Nat PROVE Grace(m) \in Nat /\ Grace(m + 1) = Grace(m) + Cycle
  BY <1>1 DEF Grace
<1>4. ASSUME NEW m \in 0..Old, m > TTL PROVE Grace(m) >= Old
  <2>1. m = Old
    BY <1>1, <1>4
  <2>2. PICK c \in Nat : Cycle = c + 1
    BY <1>1
  <2>3. Grace(m) = Old * c + Old /\ Old * c \in Nat
    BY <1>1, <2>1, <2>2 DEF Grace
  <2> QED
    BY <1>1, <2>3
<1> QED
  BY <1>1, <1>2, <1>3, <1>4

\* Timers start at most at the interval or at the timeout.
LEMMA StepOnTime ==
    ASSUME Shape, [Next]_vars, NEW n \in Nodes, OnTime(n)
    PROVE  OnTime(n)'
<1> USE DEF Shape, OnTime, InTime, MoveTo
<1> USE TimesAssumption
<1>1. CASE UNCHANGED <<running, loop, timer, steady, lost>>
  BY <1>1
<1>2. ASSUME NEW m \in Nodes, Start(m) PROVE OnTime(n)'
  BY <1>2 DEF Start
<1>3. ASSUME NEW m \in Nodes, Stop(m) PROVE OnTime(n)'
  BY <1>3 DEF Stop
<1>4. ASSUME NEW m \in Nodes, NEW t \in Slots,
             \/ Check(m, t) \/ Wake(m, t) \/ Send(m, t) \/ Proceed(m, t)
             \/ Succeed(m, t) \/ Fail(m, t)
      PROVE  OnTime(n)'
  <2>1. CASE Check(m, t)
    <3>1. \/ /\ loop' = [loop EXCEPT ![m][t] = "sleeping"]
             /\ timer' = [timer EXCEPT ![m][t] = Interval]
          \/ loop' = [loop EXCEPT ![m][t] = "none"] /\ timer' = timer
      BY <2>1, Zenon DEF Check
    <3>2. UNCHANGED <<running, lost, steady>>
      BY <2>1 DEF Check
    <3>3. \A u \in Slots : InTime(loop'[n][u], timer'[n][u])
      <4>1. CASE loop' = [loop EXCEPT ![m][t] = "sleeping"] /\ timer' = [timer EXCEPT ![m][t] = Interval]
        BY <4>1
      <4>2. CASE loop' = [loop EXCEPT ![m][t] = "none"] /\ timer' = timer
        BY <4>2
      <4> QED
        BY <3>1, <4>1, <4>2
    <3> QED
      BY <3>2, <3>3
  <2>2. CASE Wake(m, t)
    <3>1. \/ loop' = [loop EXCEPT ![m][t] = "sending"]
          \/ loop' = [loop EXCEPT ![m][t] = "none"]
      BY <2>2, Zenon DEF Wake
    <3>2. UNCHANGED <<running, lost, steady, timer>>
      BY <2>2 DEF Wake
    <3>3. \A u \in Slots : InTime(loop'[n][u], timer'[n][u])
      <4>1. CASE loop' = [loop EXCEPT ![m][t] = "sending"]
        BY <3>2, <4>1
      <4>2. CASE loop' = [loop EXCEPT ![m][t] = "none"]
        BY <3>2, <4>2
      <4> QED
        BY <3>1, <4>1, <4>2
    <3> QED
      BY <3>2, <3>3
  <2>3. CASE Send(m, t)
    BY <2>3 DEF Send
  <2>5. CASE Proceed(m, t)
    <3>1. /\ timer' = [timer EXCEPT ![m][t] = Timeout] /\ loop[m][t] = "waiting"
          /\ UNCHANGED <<running, loop, lost, steady>>
      BY <2>5 DEF Proceed
    <3> QED
      BY <3>1
  <2>4. CASE Succeed(m, t) \/ Fail(m, t)
    <3>1. loop' = [loop EXCEPT ![m][t] = "checking"] /\ timer' = [timer EXCEPT ![m][t] = 0]
      BY <2>4 DEF Succeed, Fail, GiveUp, AfterError
    <3>2. UNCHANGED <<running, lost, steady>>
      BY <2>4 DEF Succeed, Fail
    <3> QED
      BY <3>1, <3>2
  <2> QED
    BY <1>4, <2>1, <2>2, <2>3, <2>4, <2>5
<1>5. ASSUME NEW m \in Nodes, NEW t \in Slots, Crash(m, t) PROVE OnTime(n)'
  <2>1. /\ UNCHANGED running /\ lost' = [lost EXCEPT ![m] = TRUE]
        /\ steady' = [steady EXCEPT ![m] = FALSE]
        /\ loop' = [loop EXCEPT ![m][t] = "none"] /\ timer' = [timer EXCEPT ![m][t] = 0]
    BY <1>5 DEF Crash, GiveUp
  <2> QED
    BY <2>1
<1>6. ASSUME NEW m \in Nodes, NEW t \in Slots, Receive(m, t) PROVE OnTime(n)'
  BY <1>6 DEF Receive, agentVars
<1>7. ASSUME NEW m \in Nodes, ReceiveLate(m) \/ Remove(m) PROVE OnTime(n)'
  BY <1>7 DEF ReceiveLate, Remove, agentVars
<1>8. CASE EvictStale
  BY <1>8 DEF EvictStale, agentVars
<1>9. CASE Tick
  BY <1>9 DEF Tick, Timed
<1> QED
  BY <1>1, <1>2, <1>3, <1>4, <1>5, <1>6, <1>7, <1>8, <1>9 DEF Next, HeartbeatLoop, vars, agentVars

\* What a thread has used of its cycle is never negative, and at most a cycle
\* and a post.
LEMMA UsedBounds ==
    \A place \in Places, time \in 0..(Interval + Timeout), r \in Requests :
        InTime(place, time) =>
            /\ UsedAt(place, time, r) \in Nat
            /\ UsedAt(place, time, r) <= LongestPost + Cycle
<1> TAKE place \in Places, time \in 0..(Interval + Timeout), r \in Requests
<1> HAVE InTime(place, time)
<1>1. /\ Interval \in Nat /\ Timeout \in Nat /\ LongestPost \in Nat
      /\ Cycle = Interval + LongestPost
  BY PostTime DEF Cycle
<1>2. /\ r.heard \in BOOLEAN
      /\ Rest(r.left) \in Nat /\ Rest(r.left) + Timeout <= LongestPost
  BY PostTime DEF Requests
<1> QED
  BY <1>1, <1>2 DEF UsedAt, InTime

\* No step lets a steady node be silent for longer than its pace.
LEMMA StepPace ==
    ASSUME Shape, [Next]_vars, NEW n \in Nodes, OnTime(n), OnTime(n)', Shape', Pace(n)
    PROVE  Pace(n)'
<1> USE TimesAssumption, PostTime, GraceGrows DEF Pace
<1>0. /\ \A t \in Slots : Used(n, t) \in Nat /\ Used(n, t)' \in Nat
      /\ \A t \in Slots : Used(n, t) <= LongestPost + Cycle
      /\ \A t \in Slots : loop[n][t] \in Places /\ timer[n][t] \in 0..(Interval + Timeout) /\ InTime(loop[n][t], timer[n][t])
      /\ misses[n] \in 0..Old /\ misses'[n] \in 0..Old
      /\ registry[n] \in -1..Old /\ registry'[n] \in -1..Old
  <2>1. \A t \in Slots : /\ loop[n][t] \in Places /\ timer[n][t] \in 0..(Interval + Timeout)
                         /\ request[n][t] \in Requests /\ InTime(loop[n][t], timer[n][t])
    BY DEF Shape, OnTime
  <2>2. \A t \in Slots : /\ loop'[n][t] \in Places /\ timer'[n][t] \in 0..(Interval + Timeout)
                         /\ request'[n][t] \in Requests /\ InTime(loop'[n][t], timer'[n][t])
    BY DEF Shape, OnTime
  <2>3. /\ \A t \in Slots : Used(n, t) \in Nat /\ Used(n, t)' \in Nat
        /\ \A t \in Slots : Used(n, t) <= LongestPost + Cycle
    BY <2>1, <2>2, UsedBounds DEF Used
  <2> QED
    BY <2>1, <2>3 DEF Shape
\* The steps that leave what n depends on alone.
<1>1. CASE /\ registry'[n] = registry[n] /\ steady'[n] = steady[n] /\ misses'[n] = misses[n]
           /\ \A t \in Slots : loop'[n][t] # "none" =>
                                 loop[n][t] # "none" /\ Used(n, t)' >= Used(n, t)
  <2>1. \A g \in Nat, s \in Int, u, v \in Nat : s <= g + u /\ v >= u => s <= g + v
    OBVIOUS
  <2> QED
    BY <1>0, <1>1, <2>1
\* A heartbeat is heard, at last.
<1>2. CASE /\ registry'[n] = 0 /\ misses'[n] = 0
  BY <1>0, <1>2
\* Nobody promises anything of n any more.
<1>3. CASE ~steady'[n] \/ registry'[n] = Unknown
  BY <1>3
<1>4. ASSUME NEW m \in Nodes, NEW t \in Slots, Check(m, t) \/ Wake(m, t) \/ Send(m, t) \/ Proceed(m, t) \/ Succeed(m, t)
      PROVE  Pace(n)'
  <2>1. UNCHANGED <<registry, steady, misses>>
    BY <1>4 DEF Check, Wake, Send, Proceed, Succeed
  <2>2. ASSUME NEW u \in Slots, m # n \/ t # u PROVE Used(n, u)' = Used(n, u) /\ loop'[n][u] = loop[n][u]
    <3>1. loop'[n][u] = loop[n][u] /\ timer'[n][u] = timer[n][u] /\ request'[n][u] = request[n][u]
      BY <1>4, <2>2 DEF Check, Wake, Send, Proceed, Succeed, MoveTo, Shape
    <3> QED
      BY <3>1 DEF Used
  <2>3. ASSUME m = n, loop'[n][t] # "none" PROVE loop[n][t] # "none" /\ Used(n, t)' >= Used(n, t)
    <3>1. CASE Check(n, t)
      <4>1. loop[n][t] = "checking" /\ loop'[n][t] = "sleeping" /\ timer'[n][t] = Interval
        BY <2>3, <3>1 DEF Check, MoveTo, Shape
      <4> QED
        BY <4>1 DEF Used, UsedAt, Cycle
    <3>2. CASE Wake(n, t)
      <4>1. loop'[n][t] = "sending" /\ loop[n][t] = "sleeping" /\ timer[n][t] = 0
        BY <2>3, <3>2 DEF Wake, MoveTo, Shape
      <4> QED
        BY <4>1 DEF Used, UsedAt, Cycle
    <3>3. CASE Send(n, t)
      <4>1. /\ loop'[n][t] = "waiting" /\ loop[n][t] = "sending" /\ timer'[n][t] = Timeout
            /\ request'[n][t].heard = FALSE /\ request'[n][t].left = Operations - 1
        BY <3>3 DEF Send, MoveTo, Shape
      <4>2. Used(n, t) = Cycle
        BY <4>1 DEF Used, UsedAt
      <4>3. Used(n, t)' = Cycle + LongestPost - Timeout - (LongestPost - Timeout)
        BY <4>1 DEF Used, UsedAt
      <4>4. \A c, l, x \in Nat : c + l - x - (l - x) >= c
        OBVIOUS
      <4>5. Used(n, t)' >= Used(n, t)
        BY <4>2, <4>3, <4>4
      <4> QED
        BY <4>1, <4>5
    <3>5. CASE Proceed(n, t)
      <4>1. /\ loop'[n][t] = "waiting" /\ loop[n][t] = "waiting" /\ timer'[n][t] = Timeout
            /\ request[n][t] \in Requests /\ request[n][t].left > 0
            /\ request'[n][t].heard = request[n][t].heard
            /\ request'[n][t].left = request[n][t].left - 1
        BY <3>5 DEF Proceed, Shape, Requests
      <4>2. /\ Rest(request'[n][t].left) = Rest(request[n][t].left) - Timeout
            /\ Rest(request[n][t].left) \in Nat /\ request[n][t].heard \in BOOLEAN
        BY <4>1 DEF Requests
      <4> DEFINE Base == IF request[n][t].heard THEN 0 ELSE Cycle
      <4>4. Used(n, t) = Base + LongestPost - timer[n][t] - Rest(request[n][t].left)
        BY <4>1 DEF Used, UsedAt
      <4>5. Used(n, t)' = Base + LongestPost - Timeout - Rest(request'[n][t].left)
        BY <4>1 DEF Used, UsedAt
      <4>6. timer[n][t] \in Nat /\ Base \in Int
        BY <1>0, <4>2
      <4> HIDE DEF Base
      <4>7. Used(n, t)' = Base + LongestPost - Rest(request[n][t].left)
        BY <4>2, <4>5, <4>6
      <4> QED
        BY <2>3, <4>1, <4>2, <4>4, <4>6, <4>7
    <3>4. CASE Succeed(n, t)
      <4>1. /\ loop'[n][t] = "checking" /\ loop[n][t] = "waiting" /\ request[n][t].heard
            /\ timer[n][t] \in 0..(Interval + Timeout) /\ request[n][t] \in Requests
        BY <1>0, <3>4 DEF Succeed, MoveTo, Shape, Answered
      <4>2. Used(n, t)' = LongestPost
        BY <4>1 DEF Used, UsedAt
      <4>4. Rest(request[n][t].left) \in Nat
        BY <4>1 DEF Requests
      <4>3. Used(n, t) = LongestPost - timer[n][t] - Rest(request[n][t].left)
        BY <4>1, <4>4 DEF Used, UsedAt
      <4>5. Used(n, t)' >= Used(n, t)
        BY <4>1, <4>2, <4>3, <4>4
      <4> QED
        BY <4>1, <4>5
    <3> QED
      BY <1>4, <2>3, <3>1, <3>2, <3>3, <3>4, <3>5
  <2> QED
    BY <1>0, <1>1, <2>1, <2>2, <2>3
<1>5. ASSUME NEW m \in Nodes, NEW t \in Slots, Fail(m, t) PROVE Pace(n)'
  <2>1. /\ UNCHANGED <<registry, steady>>
        /\ loop' = [loop EXCEPT ![m][t] = "checking"]
        /\ timer' = [timer EXCEPT ![m][t] = 0]
        /\ request' = [request EXCEPT ![m][t] = NoRequest]
        /\ loop[m][t] = "waiting"
        /\ misses' = [misses EXCEPT ![m] = IF request[m][t].heard \/ @ > TTL THEN @ ELSE @ + 1]
    BY <1>5 DEF Fail, GiveUp, MoveTo, AfterError
  <2>2. ASSUME NEW u \in Slots, m # n \/ t # u PROVE Used(n, u)' = Used(n, u) /\ loop'[n][u] = loop[n][u]
    <3>1. loop'[n][u] = loop[n][u] /\ timer'[n][u] = timer[n][u] /\ request'[n][u] = request[n][u]
      BY <2>1, <2>2 DEF Shape
    <3> QED
      BY <3>1 DEF Used
  <2>3. CASE m # n
    BY <1>0, <1>1, <2>1, <2>2, <2>3 DEF Shape
  <2>4. CASE m = n /\ request[n][t].heard
    <3>1. loop[n][t] = "waiting" /\ loop'[n][t] = "checking" /\ misses'[n] = misses[n] /\ timer[n][t] \in 0..(Interval + Timeout)
      BY <1>0, <2>1, <2>4 DEF Shape
    <3>2. Rest(request[n][t].left) \in Nat
      BY DEF Shape, Requests
    <3>3. /\ Used(n, t)' = LongestPost
          /\ Used(n, t) = LongestPost - timer[n][t] - Rest(request[n][t].left)
      BY <2>4, <3>1, <3>2 DEF Used, UsedAt
    <3>4. Used(n, t)' >= Used(n, t)
      BY <3>1, <3>2, <3>3
    <3> QED
      BY <1>0, <1>1, <2>1, <2>2, <3>1, <3>4
  <2>5. CASE m = n /\ ~request[n][t].heard
    <3>1. /\ loop[n][t] = "waiting" /\ loop'[n][t] = "checking" /\ timer[n][t] \in 0..(Interval + Timeout)
          /\ misses'[n] = IF misses[n] > TTL THEN misses[n] ELSE misses[n] + 1
      BY <1>0, <2>1, <2>5 DEF Shape
    <3>2. CASE misses[n] > TTL
      BY <1>0, <2>1, <3>1, <3>2
    <3>3. CASE ~(misses[n] > TTL)
      <4>1. Grace(misses'[n]) = Grace(misses[n]) + Cycle
        BY <1>0, <3>1, <3>3
      <4>2. Used(n, t) <= LongestPost + Cycle /\ Used(n, t)' = LongestPost
        BY <1>0, <3>1 DEF Used, UsedAt
      <4> QED
        BY <1>0, <2>1, <2>2, <3>1, <4>1, <4>2
    <3> QED
      BY <3>2, <3>3
  <2> QED
    BY <1>0, <2>3, <2>4, <2>5
<1>6. ASSUME NEW m \in Nodes, NEW t \in Slots, Crash(m, t) PROVE Pace(n)'
  <2>1. CASE m = n
    BY <1>3, <1>6, <2>1 DEF Crash, Shape
  <2>2. CASE m # n
    <3>1. /\ registry'[n] = registry[n] /\ steady'[n] = steady[n] /\ misses'[n] = misses[n]
          /\ loop'[n] = loop[n] /\ timer'[n] = timer[n] /\ request'[n] = request[n]
      <4>1. registry' = registry /\ steady' = [steady EXCEPT ![m] = FALSE] /\ loop' = [loop EXCEPT ![m][t] = "none"]
        BY <1>6 DEF Crash, MoveTo
      <4>2. timer' = [timer EXCEPT ![m][t] = 0] /\ request' = [request EXCEPT ![m][t] = NoRequest]
        BY <1>6 DEF Crash, GiveUp
      <4>3. misses' = [misses EXCEPT ![m] = IF request[m][t].heard \/ @ > TTL THEN @ ELSE @ + 1]
        BY <1>6 DEF Crash, GiveUp
      <4> QED
        BY <2>2, <4>1, <4>2, <4>3 DEF Shape
    <3> QED
      BY <1>0, <1>1, <3>1 DEF Used
  <2> QED
    BY <2>1, <2>2
<1>7. ASSUME NEW m \in Nodes, NEW t \in Slots, Receive(m, t) PROVE Pace(n)'
  <2>1. CASE m = n
    BY <1>2, <1>7, <2>1 DEF Receive, Ingest, Shape
  <2>2. CASE m # n
    <3>1. /\ registry'[n] = registry[n] /\ steady'[n] = steady[n] /\ misses'[n] = misses[n]
          /\ loop'[n] = loop[n] /\ timer'[n] = timer[n] /\ request'[n] = request[n]
      BY <1>7, <2>2 DEF Receive, Ingest, agentVars, Shape
    <3> QED
      BY <1>0, <1>1, <3>1 DEF Used
  <2> QED
    BY <2>1, <2>2
<1>8. ASSUME NEW m \in Nodes, ReceiveLate(m) PROVE Pace(n)'
  <2>1. CASE m = n
    BY <1>2, <1>8, <2>1 DEF ReceiveLate, Ingest, Shape
  <2>2. CASE m # n
    <3>1. /\ registry'[n] = registry[n] /\ steady'[n] = steady[n] /\ misses'[n] = misses[n]
          /\ loop'[n] = loop[n] /\ timer'[n] = timer[n] /\ request'[n] = request[n]
      BY <1>8, <2>2 DEF ReceiveLate, Ingest, agentVars, Shape
    <3> QED
      BY <1>0, <1>1, <3>1 DEF Used
  <2> QED
    BY <2>1, <2>2
<1>9. ASSUME NEW m \in Nodes, Start(m) \/ Stop(m) \/ Remove(m) PROVE Pace(n)'
  <2>1. CASE m = n
    BY <1>3, <1>9, <2>1 DEF Start, Stop, Remove, Shape, OnTime
  <2>2. CASE m # n
    <3>1. /\ registry'[n] = registry[n] /\ steady'[n] = steady[n] /\ misses'[n] = misses[n]
          /\ loop'[n] = loop[n] /\ timer'[n] = timer[n] /\ request'[n] = request[n]
      BY <1>9, <2>2 DEF Start, Stop, Remove, MoveTo, agentVars, Shape
    <3> QED
      BY <1>0, <1>1, <3>1 DEF Used
  <2> QED
    BY <2>1, <2>2
<1>10. CASE EvictStale
  <2>1. /\ registry'[n] \in {registry[n], Unknown} /\ UNCHANGED <<steady, misses, loop, timer, request>>
    BY <1>10 DEF EvictStale, agentVars
  <2> QED
    BY <1>0, <1>1, <1>3, <2>1 DEF Used
<1>11. CASE Tick
  <2>1. UNCHANGED <<loop, steady, misses>>
    BY <1>11 DEF Tick
  <2>2. ASSUME NEW t \in Slots, loop[n][t] # "none" PROVE Used(n, t)' = Used(n, t) + 1
    <3>1. /\ loop[n][t] \in {"sleeping", "waiting"} /\ timer'[n][t] = timer[n][t] - 1
          /\ timer[n][t] \in 0..(Interval + Timeout)
      BY <1>0, <1>11, <2>2 DEF Tick, Timed
    <3>2. /\ request'[n][t] = request[n][t] /\ request[n][t].heard \in BOOLEAN
          /\ Rest(request[n][t].left) \in Nat
      BY <1>11 DEF Tick, Shape, Requests
    <3> QED
      BY <2>1, <3>1, <3>2 DEF Used, UsedAt
  <2>3. CASE registry[n] = Unknown
    BY <1>3, <1>11, <2>3 DEF Tick, Listed
  <2>4. CASE registry[n] # Unknown
    <3>1. registry'[n] <= registry[n] + 1
      BY <1>0, <1>11, <2>4 DEF Tick, Listed, Longer
    <3> QED
      BY <1>0, <2>1, <2>2, <2>4, <3>1
  <2> QED
    BY <2>3, <2>4
<1>12. CASE UNCHANGED vars
  BY <1>0, <1>1, <1>12 DEF vars, agentVars, Used
<1> QED
  BY <1>4, <1>5, <1>6, <1>7, <1>8, <1>9, <1>10, <1>11, <1>12 DEF Next, HeartbeatLoop

\* Before anything is posted nobody is on the registry, and nobody is steady.
LEMMA InitPace == Init => \A n \in Nodes : OnTime(n) /\ Pace(n)
  BY TimesAssumption DEF Init, OnTime, InTime, Pace

\* An agent that keeps running drops out of the registry only after so many
\* failed heartbeats that their intervals and posts, and one post more, may be
\* longer than agent_ttl (DroppedOnlyAfterLosses): for every interval, timeout
\* and TTL, every number of socket operations that a post blocks on, any number
\* of threads that stop() and start() have left over, and posts lost or late.
THEOREM LossesAreForgiven == Spec => DroppedOnlyAfterLosses
<1> DEFINE OnPace == Shape /\ \A n \in Nodes : Running(n) /\ OnTime(n) /\ Pace(n)
           Forgiving == \A n \in Nodes :
             steady[n] /\ n \in Listed /\ registry'[n] = Unknown /\ steady'[n]
               => (misses[n] + 1) * (Interval + LongestPost) + LongestPost > TTL
<1>1. Init => OnPace
  BY InitTypeOK, TypeOKIsShape, InitPace
<1>2. ASSUME OnPace, [Next]_vars PROVE OnPace'
  <2>1. Shape' /\ \A n \in Nodes : Running(n)' /\ OnTime(n)'
    BY <1>2, StepShape, StepRunning, StepOnTime
  <2>2. \A n \in Nodes : Pace(n)'
    BY <1>2, <2>1, StepPace
  <2> QED
    BY <2>1, <2>2
<1>3. ASSUME OnPace, [Next]_vars, NEW n \in Nodes,
             steady[n], n \in Listed, registry'[n] = Unknown, steady'[n]
      PROVE  (misses[n] + 1) * (Interval + LongestPost) + LongestPost > TTL
  <2>0. /\ registry \in [Nodes -> -1..Old] /\ steady \in [Nodes -> BOOLEAN]
        /\ registry[n] # Unknown /\ registry[n] \in -1..Old
    BY <1>3 DEF Shape, Listed
  <2>1. registry[n] > TTL
    <3>1. CASE EvictStale
      BY <1>3, <2>0, <3>1 DEF EvictStale, Stale
    <3>2. CASE UNCHANGED registry
      BY <1>3, <2>0, <3>2
    <3>3. ASSUME NEW m \in Nodes, Remove(m) PROVE FALSE
      BY <1>3, <2>0, <3>3 DEF Remove
    <3>4. ASSUME NEW m \in Nodes, Ingest(m) PROVE FALSE
      BY <1>3, <2>0, <3>4 DEF Ingest
    <3>5. ASSUME NEW m \in Nodes, (\E t \in Slots : Receive(m, t)) \/ ReceiveLate(m) PROVE FALSE
      BY <3>4, <3>5 DEF Receive, ReceiveLate
    <3>6. CASE Tick
      <4>1. registry'[n] = Longer(registry[n])
        BY <1>3, <3>6 DEF Tick
      <4>2. Longer(registry[n]) # -1
        BY <2>0, TimesAssumption DEF Longer
      <4> QED
        BY <1>3, <4>1, <4>2
    <3>7. ASSUME NEW m \in Nodes, Start(m) \/ Stop(m) \/ \E t \in Slots : HeartbeatLoop(m, t)
          PROVE  UNCHANGED registry
      BY <3>7 DEF Start, Stop, HeartbeatLoop, Check, Wake, Send, Proceed, Succeed, Fail, Crash
    <3>8. UNCHANGED vars => UNCHANGED registry
      BY DEF vars
    <3> QED
      BY <1>3, <3>1, <3>2, <3>3, <3>5, <3>6, <3>7, <3>8 DEF Next
  <2>2. PICK t \in Slots : loop[n][t] # "none"
    BY <1>3 DEF OnTime, Running
  <2>3. registry[n] <= Grace(misses[n]) + Used(n, t)
    BY <1>3, <2>2 DEF Pace, Listed
  <2>4. Used(n, t) \in Nat /\ Used(n, t) <= LongestPost + Cycle
    <3>1. /\ loop[n][t] \in Places /\ timer[n][t] \in 0..(Interval + Timeout)
          /\ request[n][t] \in Requests /\ InTime(loop[n][t], timer[n][t])
      BY <1>3 DEF OnTime, Shape
    <3> QED
      BY <3>1, UsedBounds DEF Used
  <2>5. misses[n] \in 0..Old /\ registry[n] \in Int
    BY <1>3 DEF Shape
  <2>6. Grace(misses[n] + 1) + LongestPost > TTL
    BY <2>1, <2>3, <2>4, <2>5, GraceGrows
  <2> QED
    BY <2>6 DEF Grace, Cycle
<1>4. OnPace /\ [Next]_vars => [Forgiving]_vars
  BY <1>3
<1> QED
  BY <1>1, <1>2, <1>4, PTL DEF Spec, DroppedOnlyAfterLosses, Forgiving
=============================================================================
