------------------------------ MODULE FlowTable ------------------------------
(***************************************************************************)
(* FlowTracker (flow_tracker.py): a table of at most MaxFlows flow         *)
(* records.  update() finds or creates the record under the lock, and      *)
(* purges the table first; it updates the record after it has released the *)
(* lock, when the record may no longer be in the table or another thread   *)
(* may be updating it too:                                                 *)
(*                                                                         *)
(*   new -Lookup-> found -Touch-> counting -StoreCount-> updated           *)
(*                                                                         *)
(* Each packet is one call, and names the record it creates.  Of a record  *)
(* the packet count stands for all counters and averages; the scores are   *)
(* left to the reader of the record.                                       *)
(***************************************************************************)
EXTENDS Integers, FiniteSets, Functions

CONSTANTS
    Packets,   \* the calls of update()
    Packet,    \* Packet[p]: [src, dst, protocol, ...] with endpoints [ip, port]
    MaxFlows,  \* max_flows
    FlowTtl,   \* flow_ttl
    Workers,   \* bound: threads at once between "new" and "done", which the
               \*   caller of update() reaches
    MaxTime    \* bound: ticks

ASSUME FlowAssumption ==
    /\ IsFiniteSet(Packets) /\ MaxFlows \in Nat \ {0}
    /\ FlowTtl \in Nat /\ MaxTime \in Nat

VARIABLES
    clock,      \* time.monotonic()
    stage,      \* how far update() has come with each packet
    table,      \* self._table: from keys to records
    record,     \* the FlowRecords ever created: last, count
    held,       \* the record update() found for the packet
    local,      \* what the thread knows: when it found the record, its count
    seen,       \* history: when each conversation was last updated
    disturbed,  \* history: conversations with overlapping calls, or evicted
                \*   during a call, since their record was created
    shared      \* history: records two calls have held at once

flowVars == <<clock, stage, table, record, held, local, seen, disturbed, shared>>

Nobody == "nobody"
Never == -1

ASSUME CallsAssumption ==
    /\ Nobody \notin Packets
    /\ \A p \in Packets : {Packet[p].src, Packet[p].dst} \subseteq [ip : Int, port : Int]

-----------------------------------------------------------------------------
(* Variants with a plausible bug; the properties notice each of them.      *)
Key_Directed(packet) == <<packet.src, packet.dst, packet.protocol>>
IsOldest_Newest(k, flows) ==
    \A other \in DOMAIN flows : record[flows[k]].last >= record[flows[other]].last
-----------------------------------------------------------------------------
EndpointLeq(a, b) == a.ip < b.ip \/ (a.ip = b.ip /\ a.port <= b.port)

\* FlowKey.from_packet: the smaller endpoint first
Key(packet) ==
    IF EndpointLeq(packet.src, packet.dst)
    THEN <<packet.src, packet.dst, packet.protocol>>
    ELSE <<packet.dst, packet.src, packet.protocol>>

\* Who talks to whom, in either direction.
Conversation == [p \in Packets |->
    [ends |-> {Packet[p].src, Packet[p].dst}, protocol |-> Packet[p].protocol]]
Conversations == Range(Conversation)

Inside == {p \in Packets : stage[p] \in {"found", "counting"}}

FlowInit ==
    /\ clock = 0
    /\ stage = [p \in Packets |-> "new"]
    /\ table = << >>
    /\ record = [p \in Packets |-> [last |-> 0, count |-> 0]]
    /\ held = [p \in Packets |-> Nobody]
    /\ local = [p \in Packets |-> 0]
    /\ seen = [c \in Conversations |-> Never]
    /\ disturbed = {} /\ shared = {}

Go(p, from, to) == stage[p] = from /\ stage' = [stage EXCEPT ![p] = to]

Tick ==
    /\ clock < MaxTime
    /\ clock' = clock + 1
    /\ UNCHANGED <<stage, table, record, held, local, seen, disturbed, shared>>

\* _evict_expired()
Expired(r) == clock - record[r].last > FlowTtl
Live == Restrict(table, {k \in DOMAIN table : ~Expired(table[k])})

\* _evict_oldest()
IsOldest(k, flows) ==
    \A other \in DOMAIN flows : record[flows[k]].last <= record[flows[other]].last

\* What the table may keep when a new flow is about to come in ...
Kept(flows) ==
    IF Cardinality(DOMAIN flows) < MaxFlows THEN {flows}
    ELSE {Restrict(flows, DOMAIN flows \ {k}) : k \in {k \in DOMAIN flows : IsOldest(k, flows)}}

\* ... and self._table[key] = record.
Stored(flows, key, r) == [k \in DOMAIN flows \cup {key} |-> IF k = key THEN r ELSE flows[k]]

Evicted(new) == {r \in Range(table) : r \notin Range(new)}

\* The two histories of a call that finds, or creates, record r.
Note(p, r, new) ==
    LET c == Conversation[p]
        cut == {Conversation[q] : q \in {q \in Inside : held[q] \in Evicted(new)}}
        overlap == \E q \in Inside : Conversation[q] = c
    IN  /\ disturbed' = IF overlap THEN disturbed \cup cut \cup {c}
                        ELSE (IF r = p THEN disturbed \ {c} ELSE disturbed) \cup cut
        /\ shared' = shared \cup {held[q] : q \in {q \in Inside : held[q] = r}}

\* update(), the locked section
Lookup(p) ==
    /\ Cardinality({q \in Packets : stage[q] \notin {"new", "done"}}) < Workers
    /\ Go(p, "new", "found")
    /\ LET k == Key(Packet[p])
       IN  \/ /\ k \in DOMAIN Live
              /\ table' = Live
              /\ held' = [held EXCEPT ![p] = Live[k]]
              /\ Note(p, Live[k], Live)
              /\ UNCHANGED record
           \/ /\ k \notin DOMAIN Live
              /\ \E kept \in Kept(Live) :
                   /\ table' = Stored(kept, k, p)
                   /\ Note(p, p, Stored(kept, k, p))
              /\ record' = [record EXCEPT ![p] = [last |-> clock, count |-> 0]]
              /\ held' = [held EXCEPT ![p] = p]
    /\ local' = [local EXCEPT ![p] = clock]
    /\ UNCHANGED <<clock, seen>>

Later(a, b) == IF a < b THEN b ELSE a

\* FlowRecord.update(), without the lock: it has read the clock some time since
\* Lookup, stores that time and reads the count ...
Touch(p) ==
    /\ Go(p, "found", "counting")
    /\ \E now \in local[p]..clock :
         /\ record' = [record EXCEPT ![held[p]].last = now]
         /\ seen' = [seen EXCEPT ![Conversation[p]] = Later(@, now)]
    /\ local' = [local EXCEPT ![p] = record[held[p]].count]
    /\ UNCHANGED <<clock, table, held, disturbed, shared>>

\* ... and stores the count.
StoreCount(p) ==
    /\ Go(p, "counting", "updated")
    /\ record' = [record EXCEPT ![held[p]].count = local[p] + 1]
    /\ local' = [local EXCEPT ![p] = 0]
    /\ UNCHANGED <<clock, table, held, seen, disturbed, shared>>

Update(p) == Lookup(p) \/ Touch(p) \/ StoreCount(p)

\* evict_expired(), called from outside
EvictExpired ==
    /\ table # Live
    /\ table' = Live
    /\ disturbed' = disturbed \cup
         {Conversation[q] : q \in {q \in Inside : held[q] \in Evicted(Live)}}
    /\ UNCHANGED <<clock, stage, record, held, local, seen, shared>>

-----------------------------------------------------------------------------
\* The table forgets only the flows that have been idle longest ("the oldest
\* (longest-idle) flow is evicted", flow_tracker.py 237-239), although it
\* compares last_seen of records that other threads are about to change: a flow
\* that is missing and not expired was seen no later than any the table keeps.
\* Only a flow with two calls at once, or evicted in the middle of its own call,
\* may be forgotten too early, and it never costs another flow its place.
RecentFlowsKept ==
    /\ Cardinality(DOMAIN table) <= MaxFlows
    /\ \A c \in Conversations \ disturbed :
         \/ seen[c] = Never \/ clock - seen[c] > FlowTtl
         \/ \E r \in Range(table) : Conversation[r] = c
         \/ \A r \in Range(table) : seen[c] <= Later(record[r].last, seen[Conversation[r]])

\* Packets "in both directions contribute to the same FlowRecord"
\* (flow_tracker.py 53-54): the table has one record per conversation, each
\* packet is counted in a record of its own conversation, and no count exceeds
\* the packets; it is exact unless two threads were updating that very record at
\* once, which may lose some but never the first.
FlowCounts ==
    /\ \A k, l \in DOMAIN table :
         Conversation[table[k]] = Conversation[table[l]] => k = l
    /\ \A p \in Packets : held[p] # Nobody => Conversation[held[p]] = Conversation[p]
    /\ \A r \in Packets :
         LET counted == Cardinality({p \in Packets : held[p] = r /\ p \notin Inside})
         IN  /\ record[r].count <= counted
             /\ counted > 0 => record[r].count > 0
             /\ r \notin shared => record[r].count = counted
=============================================================================
