------------------------------- MODULE Fleet -------------------------------
(***************************************************************************)
(* NodeAgent (agent.py) and AgentCoordinator (coordinator.py): agents post *)
(* their statistics from heartbeat threads, the coordinator keeps a        *)
(* registry and forgets the silent.  start() and stop() set a flag; the    *)
(* thread of an earlier start() looks at it only when its sleep is over:   *)
(*                                                                         *)
(*   none -Start-> checking -> sleeping -> sending -> waiting -> checking  *)
(*                                                                         *)
(* Time is kept by timers, so that the model is finite: Tick lets one      *)
(* unit pass, and no thread lingers in a step that does not wait.  The     *)
(* network delivers a heartbeat, loses it, or delivers it after the sender *)
(* has given up.  What the statistics say is left out: a post replaces the *)
(* entry of its node, however old it is.  The signature of trust.py is the *)
(* test whether both sides hold the same secret.                           *)
(***************************************************************************)
EXTENDS Integers, FiniteSets

CONSTANTS
    Nodes,        \* node ids of agents that have a coordinator_url
    Trusted,      \* the nodes whose signature verify_payload() accepts
    RequireAuth,  \* the coordinator has require_auth and a secret
    Interval,     \* heartbeat_interval
    Timeout,      \* the timeout of urlopen(), for each blocking socket operation
    Operations,   \* bound: socket operations that one post blocks on
    TTL,          \* agent_ttl
    Slots,        \* bound: heartbeat threads of one agent alive at once
    MaxLate       \* bound: late heartbeats of a node on their way

ASSUME TrustAssumption == Trusted \subseteq Nodes /\ RequireAuth \in BOOLEAN
ASSUME TimesAssumption ==
    /\ Interval \in Nat /\ Timeout \in Nat \ {0} /\ TTL \in Nat
    /\ Operations \in Nat \ {0} /\ MaxLate \in Nat

VARIABLES
    running,   \* self._running
    loop,      \* loop[n][t]: where heartbeat thread t of n is
    timer,     \* timer[n][t]: time left of its sleep, or of the socket
               \*              operation it is blocked in
    request,   \* request[n][t]: whether it has arrived, and the socket
               \*                operations it may still block on
    late,      \* late[n]: posts on their way whose sender has given up
    registry,  \* self._registry: time since last_seen
    count,     \* self._heartbeat_count, modulo 2
    errors,    \* self._heartbeat_errors, modulo 2
    steady,    \* history: n has been running, with no thread lost, since
               \*          its last heartbeat arrived
    misses,    \* history: heartbeats of n failed since one arrived
    lost       \* history: an exception has ended a thread since start()

agentVars == <<running, loop, timer, count, errors, lost>>
vars == <<agentVars, request, late, registry, steady, misses>>

Old == TTL + 1         \* times are not told apart beyond the TTL
NoRequest == [heard |-> FALSE, left |-> 0]
Unknown == -1
Places == {"none", "checking", "sleeping", "sending", "waiting"}
Alive(n) == {t \in Slots : loop[n][t] # "none"}
Listed == {n \in Nodes : registry[n] # Unknown}
Longer(silent) == IF silent < Old THEN silent + 1 ELSE Old

Init ==
    /\ running = [n \in Nodes |-> FALSE]
    /\ loop = [n \in Nodes |-> [t \in Slots |-> "none"]]
    /\ timer = [n \in Nodes |-> [t \in Slots |-> 0]]
    /\ request = [n \in Nodes |-> [t \in Slots |-> NoRequest]]
    /\ late = [n \in Nodes |-> 0]
    /\ registry = [n \in Nodes |-> Unknown]
    /\ count = [n \in Nodes |-> 0] /\ errors = [n \in Nodes |-> 0]
    /\ steady = [n \in Nodes |-> FALSE]
    /\ misses = [n \in Nodes |-> 0]
    /\ lost = [n \in Nodes |-> FALSE]

-----------------------------------------------------------------------------
(* Variants with a plausible bug; the properties notice each of them.      *)
Continues_Always(n) == TRUE
AfterError_Ends == "none"
Answered_Unheard(n, t) == TRUE
Stale_AtLimit(n) == registry[n] # Unknown /\ registry[n] >= TTL

-----------------------------------------------------------------------------
(* The agent.                                                              *)
MoveTo(n, t, place) == loop' = [loop EXCEPT ![n][t] = place]

\* start(): nothing when running, otherwise a new thread.
Start(n) ==
    /\ ~running[n]
    /\ running' = [running EXCEPT ![n] = TRUE]
    /\ \E t \in Slots \ Alive(n) : MoveTo(n, t, "checking")
    /\ lost' = [lost EXCEPT ![n] = FALSE]
    /\ UNCHANGED <<timer, count, errors, request, late, registry, steady, misses>>

\* stop(): only the flag.
Stop(n) ==
    /\ running' = [running EXCEPT ![n] = FALSE]
    /\ steady' = [steady EXCEPT ![n] = FALSE]
    /\ UNCHANGED <<loop, timer, count, errors, lost, request, late, registry, misses>>

Continues(n) == running[n]

\* The head of the loop: leave it, or sleep.
Check(n, t) ==
    /\ loop[n][t] = "checking"
    /\ IF Continues(n)
       THEN /\ MoveTo(n, t, "sleeping")
            /\ timer' = [timer EXCEPT ![n][t] = Interval]
       ELSE MoveTo(n, t, "none") /\ UNCHANGED timer
    /\ UNCHANGED <<running, count, errors, lost, request, late, registry, steady, misses>>

\* The second look at the flag, after the sleep.
Wake(n, t) ==
    /\ loop[n][t] = "sleeping" /\ timer[n][t] = 0
    /\ MoveTo(n, t, IF Continues(n) THEN "sending" ELSE "none")
    /\ UNCHANGED <<running, timer, count, errors, lost, request, late, registry, steady, misses>>

\* _send_heartbeat() takes the statistics and posts them.  The timeout of
\* urlopen() is that of its first blocking socket operation.
Send(n, t) ==
    /\ loop[n][t] = "sending"
    /\ MoveTo(n, t, "waiting")
    /\ timer' = [timer EXCEPT ![n][t] = Timeout]
    /\ request' = [request EXCEPT ![n][t] =
                     [heard |-> FALSE, left |-> Operations - 1]]
    /\ UNCHANGED <<running, count, errors, lost, late, registry, steady, misses>>

\* One operation is over in time (connect to an address, send, receive a part
\* of the answer) and the next may take as long again.
Proceed(n, t) ==
    /\ loop[n][t] = "waiting" /\ request[n][t].left > 0
    /\ timer' = [timer EXCEPT ![n][t] = Timeout]
    /\ request' = [request EXCEPT ![n][t].left = @ - 1]
    /\ UNCHANGED <<running, loop, count, errors, lost, late, registry, steady, misses>>

Answered(n, t) == request[n][t].heard

\* urlopen() returns: the heartbeat counts.
Succeed(n, t) ==
    /\ loop[n][t] = "waiting" /\ Answered(n, t)
    /\ MoveTo(n, t, "checking")
    /\ count' = [count EXCEPT ![n] = (@ + 1) % 2]
    /\ timer' = [timer EXCEPT ![n][t] = 0]
    /\ request' = [request EXCEPT ![n][t] = NoRequest]
    /\ UNCHANGED <<running, errors, lost, late, registry, steady, misses>>

\* The sender gives up; what the coordinator has not seen is lost or late.
GiveUp(n, t) ==
    /\ loop[n][t] = "waiting"
    /\ \/ late' = late
       \/ /\ ~request[n][t].heard /\ late[n] < MaxLate
          /\ late' = [late EXCEPT ![n] = @ + 1]
    /\ misses' = [misses EXCEPT ![n] =
                    IF request[n][t].heard \/ @ > TTL THEN @ ELSE @ + 1]
    /\ timer' = [timer EXCEPT ![n][t] = 0]
    /\ request' = [request EXCEPT ![n][t] = NoRequest]

AfterError == "checking"

\* A timeout, a refused connection, a 401: an error is counted.
Fail(n, t) ==
    /\ GiveUp(n, t)
    /\ MoveTo(n, t, AfterError)
    /\ errors' = [errors EXCEPT ![n] = (@ + 1) % 2]
    /\ UNCHANGED <<running, count, lost, registry, steady>>

\* Any other exception (http.client's, for one) ends the thread.
Crash(n, t) ==
    /\ GiveUp(n, t)
    /\ MoveTo(n, t, "none")
    /\ lost' = [lost EXCEPT ![n] = TRUE]
    /\ steady' = [steady EXCEPT ![n] = FALSE]
    /\ UNCHANGED <<running, count, errors, registry>>

-----------------------------------------------------------------------------
(* The coordinator.                                                        *)
Accepted(n) == RequireAuth => n \in Trusted

\* ingest(): what has arrived becomes the entry of n.
Ingest(n) ==
    /\ Accepted(n)
    /\ registry' = [registry EXCEPT ![n] = 0]
    /\ misses' = [misses EXCEPT ![n] = 0]

Receive(n, t) ==
    /\ loop[n][t] = "waiting" /\ ~request[n][t].heard
    /\ Ingest(n)
    /\ request' = [request EXCEPT ![n][t].heard = TRUE]
    /\ steady' = [steady EXCEPT ![n] = running[n] /\ ~lost[n]]
    /\ UNCHANGED <<agentVars, late>>

ReceiveLate(n) ==
    /\ late[n] > 0
    /\ Ingest(n)
    /\ late' = [late EXCEPT ![n] = @ - 1]
    /\ UNCHANGED <<agentVars, request, steady>>

Stale(n) == registry[n] # Unknown /\ registry[n] > TTL

\* _evict_stale(), in all_agents(), agent_count() and fleet_value_summary().
EvictStale ==
    /\ registry' = [n \in Nodes |-> IF Stale(n) THEN Unknown ELSE registry[n]]
    /\ UNCHANGED <<agentVars, request, late, steady, misses>>

Remove(n) ==
    /\ registry' = [registry EXCEPT ![n] = Unknown]
    /\ steady' = [steady EXCEPT ![n] = FALSE]
    /\ UNCHANGED <<agentVars, request, late, misses>>

-----------------------------------------------------------------------------
Timed(n, t) == loop[n][t] \in {"sleeping", "waiting"}
Tick ==
    /\ \A n \in Nodes, t \in Slots :
         loop[n][t] # "none" => Timed(n, t) /\ timer[n][t] > 0
    /\ timer' = [n \in Nodes |-> [t \in Slots |->
                   IF Timed(n, t) THEN timer[n][t] - 1 ELSE 0]]
    /\ registry' = [n \in Nodes |-> IF n \in Listed THEN Longer(registry[n])
                                                   ELSE Unknown]
    /\ UNCHANGED <<running, loop, count, errors, lost, request, late, steady, misses>>

HeartbeatLoop(n, t) ==
    \/ Check(n, t) \/ Wake(n, t) \/ Send(n, t) \/ Proceed(n, t)
    \/ Succeed(n, t) \/ Fail(n, t) \/ Crash(n, t)

Next ==
    \/ \E n \in Nodes :
         \/ Start(n) \/ Stop(n) \/ Remove(n) \/ ReceiveLate(n)
         \/ \E t \in Slots : HeartbeatLoop(n, t) \/ Receive(n, t)
    \/ EvictStale
    \/ Tick

Spec == Init /\ [][Next]_vars

\* A thread that can move moves, urlopen() returns or raises when its last
\* operation times out at the latest, and time goes on.  The network owes nothing, nobody need start or stop.
Fairness ==
    /\ \A n \in Nodes, t \in Slots : WF_vars(HeartbeatLoop(n, t))
    /\ WF_vars(Tick)
FairSpec == Spec /\ Fairness

-----------------------------------------------------------------------------
\* The state has the shape the code gives it, and an agent that is running has
\* a heartbeat thread unless an exception ended it.
TypeOK ==
    /\ running \in [Nodes -> BOOLEAN]
    /\ loop \in [Nodes -> [Slots -> Places]]
    /\ timer \in [Nodes -> [Slots -> 0..(Interval + Timeout)]]
    /\ request \in [Nodes -> [Slots -> [heard : BOOLEAN, left : 0..(Operations - 1)]]]
    /\ late \in [Nodes -> 0..MaxLate]
    /\ registry \in [Nodes -> -1..Old]
    /\ count \in [Nodes -> 0..1] /\ errors \in [Nodes -> 0..1]
    /\ steady \in [Nodes -> BOOLEAN] /\ lost \in [Nodes -> BOOLEAN]
    /\ misses \in [Nodes -> 0..Old]
    /\ \A n \in Nodes : running[n] /\ ~lost[n] => Alive(n) # {}

\* The longest post: nothing in agent.py bounds it but the timeout of each
\* operation and their number (the look-up of a name has no timeout at all).
LongestPost == Operations * Timeout

\* How many losses the TTL forgives.  The coordinator takes a silent agent to be
\* offline (coordinator.py 55-58).  An agent that keeps running is dropped from
\* the registry only after so many failed heartbeats that their intervals and
\* posts, and one post more, may be longer than agent_ttl.
DroppedOnlyAfterLosses ==
    [][\A n \in Nodes :
         steady[n] /\ n \in Listed /\ registry'[n] = Unknown /\ steady'[n]
           => (misses[n] + 1) * (Interval + LongestPost) + LongestPost > TTL]_vars

\* heartbeat.count is the number of heartbeats the coordinator took (agent.py
\* 228-234): it grows only for a post that has arrived and was accepted, never
\* together with the errors, whatever stop() and start() do in between.
CountedHeartbeatsArrived ==
    [][\A n \in Nodes :
         count'[n] # count[n] =>
           /\ errors'[n] = errors[n]
           /\ Accepted(n)
           /\ \E t \in Slots : request[n][t].heard /\ loop[n][t] = "waiting"
                               /\ loop'[n][t] = "checking"]_vars

\* "Stop the heartbeat thread" (agent.py 151): an agent that stays stopped has no
\* thread left, and no heartbeat leaves it, from some moment on.
StoppedAgentFallsSilent ==
    \A n \in Nodes : <>[]~running[n] => <>[](Alive(n) = {})

\* An agent that stays running keeps posting, whatever becomes of its posts,
\* unless an exception ended a thread.
RunningAgentKeepsPosting ==
    \A n \in Nodes :
        <>[](running[n] /\ ~lost[n])
          => []<>(\E t \in Slots : loop[n][t] = "waiting")

\* "Stop the heartbeat thread" (agent.py 151) and "periodically POSTs stats" at
\* heartbeat_interval (agent.py 118): a running agent has one heartbeat thread.
OneHeartbeatThread ==
    \A n \in Nodes : running[n] => Cardinality(Alive(n)) <= 1
=============================================================================
