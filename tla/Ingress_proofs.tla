---------------------------- MODULE Ingress_proofs ----------------------------
(***************************************************************************)
(* Theorems about the way of a packet from the command line to the queue,  *)
(* for every set of packets, every table size, TTL and number of threads,  *)
(* and every policy: the flow table keeps the recent flows, the counts of  *)
(* flows are honest, payloads can be restored, and packets are treated as  *)
(* the policy in force says. And, for every capture backend and any number *)
(* of frames, every captured packet has exactly one fate.                  *)
(***************************************************************************)
EXTENDS Ingress, Capture, FiniteSetTheorems, SequenceTheorems, WellFoundedInduction, TLAPS

-----------------------------------------------------------------------------
(* Keys and tables.                                                        *)

\* Endpoints are totally ordered, so a flow's key is the same in either
\* direction, and tells apart who talks to whom.
LEMMA KeyIsConversation ==
    ASSUME NEW p \in Packets, NEW q \in Packets
    PROVE  Key(Packet[p]) = Key(Packet[q]) <=> Conversation[p] = Conversation[q]
<1> DEFINE ps == Packet[p].src
           pd == Packet[p].dst
           qs == Packet[q].src
           qd == Packet[q].dst
<1>1. {ps, pd, qs, qd} \subseteq [ip : Int, port : Int]
  BY CallsAssumption
<1>2. \A a, b \in [ip : Int, port : Int] :
        /\ EndpointLeq(a, b) \/ EndpointLeq(b, a)
        /\ EndpointLeq(a, b) /\ EndpointLeq(b, a) => a = b
  BY DEF EndpointLeq
<1>3. Conversation[p] = Conversation[q] <=>
        {ps, pd} = {qs, qd} /\ Packet[p].protocol = Packet[q].protocol
  BY DEF Conversation
<1>4. Key(Packet[p]) = IF EndpointLeq(ps, pd) THEN <<ps, pd, Packet[p].protocol>>
                                              ELSE <<pd, ps, Packet[p].protocol>>
  BY DEF Key
<1>5. Key(Packet[q]) = IF EndpointLeq(qs, qd) THEN <<qs, qd, Packet[q].protocol>>
                                              ELSE <<qd, qs, Packet[q].protocol>>
  BY DEF Key
<1> HIDE DEF ps, pd, qs, qd
<1>6. ASSUME {ps, pd} = {qs, qd}
      PROVE  \/ ps = qs /\ pd = qd
             \/ ps = qd /\ pd = qs
  BY <1>6
<1>7. ASSUME Key(Packet[p]) = Key(Packet[q])
      PROVE  {ps, pd} = {qs, qd} /\ Packet[p].protocol = Packet[q].protocol
  BY <1>4, <1>5, <1>7
<1>8. ASSUME {ps, pd} = {qs, qd}, Packet[p].protocol = Packet[q].protocol
      PROVE  Key(Packet[p]) = Key(Packet[q])
  <2>1. CASE ps = qs /\ pd = qd
    BY <1>4, <1>5, <1>8, <2>1
  <2>2. CASE ps = qd /\ pd = qs
    <3>1. EndpointLeq(ps, pd) => EndpointLeq(qd, qs)
      BY <2>2
    <3> QED
      BY <1>1, <1>2, <1>4, <1>5, <1>8, <2>2
  <2> QED
    BY <1>6, <1>8, <2>1, <2>2
<1> QED
  BY <1>3, <1>7, <1>8

\* A table is a finite function from keys to records of that key, at most
\* MaxFlows of them.
TableOK(t) ==
    /\ IsFiniteSet(DOMAIN t) /\ Cardinality(DOMAIN t) <= MaxFlows
    /\ \A k \in DOMAIN t : t[k] \in Packets /\ Key(Packet[t[k]]) = k

\* Two records of one conversation are the same record.
LEMMA OneRecord ==
    ASSUME NEW t, TableOK(t), NEW r \in Range(t), NEW s \in Range(t),
           Conversation[r] = Conversation[s]
    PROVE  r = s /\ r \in Packets
<1>1. PICK k \in DOMAIN t : t[k] = r
  BY DEF Range
<1>2. PICK l \in DOMAIN t : t[l] = s
  BY DEF Range
<1>3. r \in Packets /\ s \in Packets /\ Key(Packet[r]) = k /\ Key(Packet[s]) = l
  BY <1>1, <1>2 DEF TableOK
<1> QED
  BY <1>1, <1>2, <1>3, KeyIsConversation

\* Eviction by age leaves a table, and takes away only what has expired.
LEMMA LiveTable ==
    ASSUME TableOK(table)
    PROVE  /\ TableOK(Live) /\ DOMAIN Live \subseteq DOMAIN table
           /\ \A k \in DOMAIN Live : Live[k] = table[k]
           /\ Range(Live) \subseteq Range(table)
           /\ \A r \in Range(table) \ Range(Live) : Expired(r)
<1>1. /\ DOMAIN Live = {k \in DOMAIN table : ~Expired(table[k])}
      /\ \A k \in DOMAIN Live : Live[k] = table[k]
  BY DEF Live, Restrict
<1>2. DOMAIN Live \subseteq DOMAIN table
  BY <1>1
<1>3. IsFiniteSet(DOMAIN Live) /\ Cardinality(DOMAIN Live) <= MaxFlows
  <2>1. /\ IsFiniteSet(DOMAIN Live) /\ Cardinality(DOMAIN Live) <= Cardinality(DOMAIN table)
        /\ Cardinality(DOMAIN Live) \in Nat /\ Cardinality(DOMAIN table) \in Nat
    BY <1>2, FS_Subset, FS_CardinalityType DEF TableOK
  <2> QED
    BY <2>1, FlowAssumption DEF TableOK
<1> HIDE DEF Live
<1>4. TableOK(Live)
  BY <1>1, <1>2, <1>3 DEF TableOK
<1>5. Range(Live) \subseteq Range(table)
  BY <1>1, <1>2 DEF Range
<1>6. \A r \in Range(table) \ Range(Live) : Expired(r)
  BY <1>1 DEF Range
<1> QED
  BY <1>1, <1>2, <1>4, <1>5, <1>6

\* A new record takes the place of the oldest, if the table is full, and of no
\* other.
LEMMA StoredTable ==
    ASSUME NEW p \in Packets, NEW flows, TableOK(flows), Key(Packet[p]) \notin DOMAIN flows,
           NEW kept \in Kept(flows)
    PROVE  /\ TableOK(Stored(kept, Key(Packet[p]), p))
           /\ Range(Stored(kept, Key(Packet[p]), p)) = Range(kept) \cup {p}
           /\ Range(kept) \subseteq Range(flows)
           /\ \A r \in Range(flows) \ Range(kept) : \A s \in Range(kept) :
                record[r].last <= record[s].last
<1> DEFINE key == Key(Packet[p])
           new == Stored(kept, key, p)
           Shrunk == /\ DOMAIN kept \subseteq DOMAIN flows
                     /\ \A k \in DOMAIN kept : kept[k] = flows[k]
                     /\ IsFiniteSet(DOMAIN kept) /\ Cardinality(DOMAIN kept) + 1 <= MaxFlows
                     /\ \A k \in DOMAIN flows \ DOMAIN kept : IsOldest(k, flows)
<1>1. Shrunk
  <2>1. IsFiniteSet(DOMAIN flows) /\ Cardinality(DOMAIN flows) \in Nat
        /\ Cardinality(DOMAIN flows) <= MaxFlows /\ MaxFlows \in Nat
    BY FS_CardinalityType, FlowAssumption DEF TableOK
  <2>2. CASE kept = flows /\ Cardinality(DOMAIN flows) < MaxFlows
    BY <2>1, <2>2
  <2>3. ASSUME NEW k \in DOMAIN flows, IsOldest(k, flows), kept = Restrict(flows, DOMAIN flows \ {k})
        PROVE  Shrunk
    <3>1. DOMAIN kept = DOMAIN flows \ {k} /\ \A l \in DOMAIN kept : kept[l] = flows[l]
      BY <2>3 DEF Restrict
    <3>2. /\ IsFiniteSet(DOMAIN flows \ {k})
          /\ Cardinality(DOMAIN flows \ {k}) = Cardinality(DOMAIN flows) - 1
      BY <2>1, FS_RemoveElement
    <3>3. IsFiniteSet(DOMAIN kept) /\ Cardinality(DOMAIN kept) + 1 <= MaxFlows
      <4>1. IsFiniteSet(DOMAIN kept) /\ Cardinality(DOMAIN kept) = Cardinality(DOMAIN flows) - 1
        BY <3>1, <3>2, Zenon
      <4> QED
        BY <2>1, <4>1
    <3> QED
      BY <2>3, <3>1, <3>3
  <2> QED
    BY <2>1, <2>2, <2>3 DEF Kept
<1>2. DOMAIN new = DOMAIN kept \cup {key} /\ new[key] = p /\ key \notin DOMAIN kept
      /\ \A k \in DOMAIN kept : new[k] = kept[k]
  BY <1>1 DEF Stored
<1>3. IsFiniteSet(DOMAIN new) /\ Cardinality(DOMAIN new) <= MaxFlows
  <2>1. IsFiniteSet(DOMAIN new) /\ Cardinality(DOMAIN new) = Cardinality(DOMAIN kept) + 1
    BY <1>1, <1>2, FS_AddElement
  <2> QED
    BY <1>1, <2>1
<1> HIDE DEF new
<1>4. TableOK(new)
  BY <1>1, <1>2, <1>3 DEF TableOK
<1>5. Range(new) = Range(kept) \cup {p} /\ Range(kept) \subseteq Range(flows)
  BY <1>1, <1>2 DEF Range
<1>6. \A r \in Range(flows) \ Range(kept) : \A s \in Range(kept) : record[r].last <= record[s].last
  BY <1>1 DEF Range, IsOldest
<1> QED
  BY <1>4, <1>5, <1>6 DEF new

-----------------------------------------------------------------------------
(* The steps of update(), as process() makes them.                         *)
Finish(p) ==
    /\ Go(p, "updated", "done")
    /\ UNCHANGED <<clock, table, record, held, local, seen, disturbed, shared>>

FlowStep ==
    \/ UNCHANGED flowVars
    \/ Tick \/ EvictExpired
    \/ \E p \in Packets : Update(p) \/ Finish(p)

FlowStages == {"new", "found", "counting", "updated", "done"}
FlowTypeOK ==
    /\ clock \in Nat
    /\ stage \in [Packets -> FlowStages]
    /\ record \in [Packets -> [last : Nat, count : Nat]]
    /\ held \in [Packets -> Packets \cup {Nobody}]
    /\ local \in [Packets -> Nat]
    /\ seen \in [Conversations -> Nat \cup {Never}]
    /\ disturbed \subseteq Conversations /\ shared \subseteq Packets
    /\ TableOK(table)

\* A packet has its record once update() has found it, one of its own
\* conversation; who created a record holds it.
HeldOK ==
    /\ \A p \in Packets :
         /\ stage[p] = "new" <=> held[p] = Nobody
         /\ held[p] # Nobody =>
              held[held[p]] = held[p] /\ Conversation[held[p]] = Conversation[p]
    /\ \A r \in Range(table) : held[r] = r

\* What a conversation is.
LEMMA ConversationOf ==
    ASSUME NEW p \in Packets
    PROVE  Conversation[p] \in Conversations
BY DEF Conversations, Conversation, Range

\* Lookup finds the record of the packet's flow in the table, or creates it.
LEMMA LookupFinds ==
    ASSUME FlowTypeOK, HeldOK, NEW p \in Packets, Lookup(p)
    PROVE  \E r \in Packets :
             /\ held' = [held EXCEPT ![p] = r] /\ Conversation[r] = Conversation[p]
             /\ TableOK(table') /\ r \in Range(table')
             /\ Range(table') \subseteq Range(table) \cup {p}
             /\ Note(p, r, table')
             /\ \/ r # p /\ r \in Range(table) /\ UNCHANGED record /\ held[r] = r
                   /\ \A s \in Range(table) \ Range(table') : Expired(s)
                \/ r = p /\ record' = [record EXCEPT ![p] = [last |-> clock, count |-> 0]]
                   /\ \A s \in Range(table) \ Range(table') :
                        \/ Expired(s)
                        \/ \A o \in Range(table') \ {p} : record[s].last <= record[o].last
<1> DEFINE k == Key(Packet[p])
<1>0. /\ held[p] = Nobody /\ Nobody \notin Packets /\ \A s \in Range(table) : held[s] = s /\ s \in Packets
  <2>1. held[p] = Nobody
    BY DEF Lookup, Go, HeldOK
  <2>2. \A s \in Range(table) : s \in Packets
    BY DEF FlowTypeOK, TableOK, Range
  <2> QED
    BY <2>1, <2>2, CallsAssumption DEF HeldOK
<1>1. /\ TableOK(Live) /\ DOMAIN Live \subseteq DOMAIN table
      /\ \A l \in DOMAIN Live : Live[l] = table[l]
      /\ Range(Live) \subseteq Range(table)
      /\ \A r \in Range(table) \ Range(Live) : Expired(r)
  BY LiveTable DEF FlowTypeOK
<1>2. CASE /\ k \in DOMAIN Live /\ table' = Live /\ held' = [held EXCEPT ![p] = Live[k]]
           /\ Note(p, Live[k], Live) /\ UNCHANGED record
  <2>1. Live[k] \in Packets /\ Key(Packet[Live[k]]) = k /\ Live[k] \in Range(Live)
    BY <1>1, <1>2 DEF TableOK, Range
  <2>2. Conversation[Live[k]] = Conversation[p]
    BY <2>1, KeyIsConversation
  <2>3. Live[k] \in Range(table) /\ held[Live[k]] = Live[k] /\ Live[k] # p
    BY <1>0, <1>1, <2>1
  <2> HIDE DEF k
  <2> QED
    BY <1>1, <1>2, <2>1, <2>2, <2>3
<1>3. CASE /\ k \notin DOMAIN Live /\ held' = [held EXCEPT ![p] = p]
           /\ record' = [record EXCEPT ![p] = [last |-> clock, count |-> 0]]
           /\ \E kept \in Kept(Live) : table' = Stored(kept, k, p) /\ Note(p, p, Stored(kept, k, p))
  <2>1. PICK kept \in Kept(Live) : table' = Stored(kept, k, p) /\ Note(p, p, Stored(kept, k, p))
    BY <1>3
  <2>2. /\ TableOK(table') /\ Range(table') = Range(kept) \cup {p}
        /\ Range(kept) \subseteq Range(Live)
        /\ \A r \in Range(Live) \ Range(kept) : \A s \in Range(kept) : record[r].last <= record[s].last
    BY <1>1, <1>3, <2>1, StoredTable
  <2>3. \A s \in Range(table) \ Range(table') :
                        \/ Expired(s)
                        \/ \A o \in Range(table') \ {p} : record[s].last <= record[o].last
    BY <1>1, <2>2
  <2> HIDE DEF k
  <2> QED
    BY <1>1, <1>3, <2>1, <2>2, <2>3
<1> QED
  BY <1>2, <1>3 DEF Lookup

\* The histories stay sets of conversations and of records, and the calls they
\* speak of are those inside update() when it looks up.
LEMMA NoteTypes ==
    ASSUME FlowTypeOK, NEW p \in Packets, NEW r \in Packets, NEW new, Note(p, r, new)
    PROVE  disturbed' \subseteq Conversations /\ shared' \subseteq Packets
<1>1. \A q \in Inside : Conversation[q] \in Conversations
  BY ConversationOf DEF Inside
<1>2. Conversation[p] \in Conversations
  BY ConversationOf
<1>3. {held[q] : q \in {q \in Inside : held[q] = r}} \subseteq Packets
  OBVIOUS
<1>4. shared' \subseteq Packets
  BY <1>3 DEF Note, FlowTypeOK
<1>5. disturbed' \subseteq Conversations
  BY <1>1, <1>2 DEF Note, FlowTypeOK
<1> QED
  BY <1>4, <1>5

\* No step of any call breaks the types or gives a packet a record of another
\* conversation.
LEMMA StepFlowTypeOK ==
    ASSUME FlowTypeOK, HeldOK, FlowStep
    PROVE  FlowTypeOK' /\ HeldOK'
<1>1. CASE UNCHANGED flowVars
  BY <1>1 DEF flowVars, FlowTypeOK, HeldOK
<1>2. CASE Tick
  BY <1>2 DEF Tick, FlowTypeOK, HeldOK
<1>3. CASE EvictExpired
  <2>1. TableOK(table') /\ Range(table') \subseteq Range(table)
    BY <1>3, LiveTable DEF EvictExpired, FlowTypeOK
  <2>2. disturbed' \subseteq Conversations
    BY <1>3, ConversationOf DEF EvictExpired, FlowTypeOK, Inside
  <2> QED
    BY <1>3, <2>1, <2>2 DEF EvictExpired, FlowTypeOK, HeldOK
<1>4. ASSUME NEW p \in Packets, Lookup(p) PROVE FlowTypeOK' /\ HeldOK'
  <2>1. PICK r \in Packets :
             /\ held' = [held EXCEPT ![p] = r] /\ Conversation[r] = Conversation[p]
             /\ TableOK(table') /\ r \in Range(table')
             /\ Range(table') \subseteq Range(table) \cup {p}
             /\ Note(p, r, table')
             /\ \/ r # p /\ r \in Range(table) /\ UNCHANGED record /\ held[r] = r
                \/ r = p /\ record' = [record EXCEPT ![p] = [last |-> clock, count |-> 0]]
    BY <1>4, LookupFinds
  <2>2. disturbed' \subseteq Conversations /\ shared' \subseteq Packets
    BY <2>1, NoteTypes
  <2>3. /\ stage[p] = "new" /\ stage' = [stage EXCEPT ![p] = "found"]
        /\ local' = [local EXCEPT ![p] = clock] /\ UNCHANGED <<clock, seen>>
    BY <1>4 DEF Lookup, Go
  <2>4. FlowTypeOK'
    BY <2>1, <2>2, <2>3 DEF FlowTypeOK, FlowStages
  <2>5. HeldOK'
    <3>1. held[p] = Nobody /\ Nobody \notin Packets
      BY <2>3, CallsAssumption DEF HeldOK
    <3>2. \A q \in Packets : held'[q] = IF q = p THEN r ELSE held[q]
      BY <2>1 DEF FlowTypeOK
    <3>3. \A q \in Packets : stage'[q] = IF q = p THEN "found" ELSE stage[q]
      BY <2>3 DEF FlowTypeOK
    <3>4. \A q \in Packets \ {p} : held[q] # Nobody => held[q] # p
      BY <3>1 DEF HeldOK
    <3>5. held'[r] = r
      BY <2>1, <3>2
    <3>6. ASSUME NEW q \in Packets
          PROVE  /\ stage'[q] = "new" <=> held'[q] = Nobody
                 /\ held'[q] # Nobody => held'[held'[q]] = held'[q] /\ Conversation[held'[q]] = Conversation[q]
      <4>1. CASE q = p
        BY <2>1, <3>1, <3>2, <3>3, <3>5, <4>1
      <4>2. CASE q # p
        <5>1. held'[q] = held[q] /\ stage'[q] = stage[q]
          BY <3>2, <3>3, <4>2
        <5>2. held[q] # Nobody => held'[held[q]] = held[held[q]]
          BY <3>2, <3>4, <4>2 DEF FlowTypeOK
        <5> QED
          BY <5>1, <5>2 DEF HeldOK
      <4> QED
        BY <4>1, <4>2
    <3>7. \A s \in Range(table') : held'[s] = s
      <4>1. ASSUME NEW s \in Range(table'), s # r PROVE held'[s] = s
        <5>1. s \in Packets /\ s \in Range(table) \cup {p}
          BY <2>1 DEF TableOK, Range
        <5>2. CASE s = p
          <6>1. r \in Range(table) /\ r # p
            BY <2>1, <4>1, <5>2
          <6>2. p = r
            BY <2>1, <5>2, OneRecord
          <6> QED
            BY <6>1, <6>2
        <5>3. CASE s # p
          BY <3>2, <5>1, <5>3 DEF HeldOK
        <5> QED
          BY <5>2, <5>3
      <4> QED
        BY <3>5, <4>1
    <3> QED
      BY <3>6, <3>7 DEF HeldOK
  <2> QED
    BY <2>4, <2>5
<1>5. ASSUME NEW p \in Packets, Touch(p) PROVE FlowTypeOK' /\ HeldOK'
  <2>1. PICK now \in local[p]..clock :
          /\ record' = [record EXCEPT ![held[p]].last = now]
          /\ seen' = [seen EXCEPT ![Conversation[p]] = Later(@, now)]
    BY <1>5 DEF Touch
  <2>2. now \in Nat
    BY <2>1 DEF FlowTypeOK
  <2>3. /\ stage[p] = "found" /\ stage' = [stage EXCEPT ![p] = "counting"]
        /\ local' = [local EXCEPT ![p] = record[held[p]].count]
        /\ UNCHANGED <<clock, table, held, disturbed, shared>>
    BY <1>5 DEF Touch, Go
  <2>4. held[p] \in Packets
    BY <2>3 DEF FlowTypeOK, HeldOK
  <2>5. record' \in [Packets -> [last : Nat, count : Nat]]
    BY <2>1, <2>2, <2>4 DEF FlowTypeOK
  <2>6. seen' \in [Conversations -> Nat \cup {Never}]
    BY <2>1, <2>2 DEF FlowTypeOK, Later
  <2> QED
    BY <2>3, <2>4, <2>5, <2>6 DEF FlowTypeOK, FlowStages, HeldOK
<1>6. ASSUME NEW p \in Packets, StoreCount(p) PROVE FlowTypeOK' /\ HeldOK'
  <2>1. /\ stage[p] = "counting" /\ stage' = [stage EXCEPT ![p] = "updated"]
        /\ record' = [record EXCEPT ![held[p]].count = local[p] + 1]
        /\ local' = [local EXCEPT ![p] = 0]
        /\ UNCHANGED <<clock, table, held, seen, disturbed, shared>>
    BY <1>6 DEF StoreCount, Go
  <2>2. held[p] \in Packets
    BY <2>1 DEF FlowTypeOK, HeldOK
  <2> QED
    BY <2>1, <2>2 DEF FlowTypeOK, FlowStages, HeldOK
<1>7. ASSUME NEW p \in Packets, Finish(p) PROVE FlowTypeOK' /\ HeldOK'
  BY <1>7 DEF Finish, Go, FlowTypeOK, FlowStages, HeldOK
<1> QED
  BY <1>1, <1>2, <1>3, <1>4, <1>5, <1>6, <1>7 DEF FlowStep, Update

-----------------------------------------------------------------------------
(* The counts.  Counted are the calls that have stored their count; a call  *)
(* between its two halves carries what it has read.                         *)
Counted(r) == {p \in Packets : held[p] = r /\ p \notin Inside}

CountInv ==
    /\ \A r \in Packets :
         /\ record[r].count <= Cardinality(Counted(r))
         /\ Counted(r) # {} => record[r].count > 0
         /\ r \notin shared => record[r].count = Cardinality(Counted(r))
    /\ \A p \in Packets : stage[p] = "counting" =>
         /\ local[p] <= Cardinality(Counted(held[p]))
         /\ held[p] \notin shared => local[p] = record[held[p]].count
    /\ \A p, q \in Inside : held[p] = held[q] /\ held[p] \notin shared => p = q

\* Of the steps only StoreCount changes who is counted.
LEMMA CountedMoves ==
    ASSUME FlowTypeOK, HeldOK, FlowStep
    PROVE  /\ \A r \in Packets : IsFiniteSet(Counted(r)) /\ Cardinality(Counted(r)) \in Nat
           /\ \A p \in Packets : StoreCount(p) =>
                \A r \in Packets : Cardinality(Counted(r)') =
                   IF r = held[p] THEN Cardinality(Counted(r)) + 1 ELSE Cardinality(Counted(r))
           /\ (\A p \in Packets : ~StoreCount(p)) => \A r \in Packets : Counted(r)' = Counted(r)
<1>1. \A r \in Packets : IsFiniteSet(Counted(r)) /\ Cardinality(Counted(r)) \in Nat
  <2>1. \A r \in Packets : Counted(r) \subseteq Packets
    BY DEF Counted
  <2> QED
    BY <2>1, FlowAssumption, FS_Subset, FS_CardinalityType
<1>2. ASSUME NEW p \in Packets, StoreCount(p), NEW r \in Packets
      PROVE  Cardinality(Counted(r)') =
                   IF r = held[p] THEN Cardinality(Counted(r)) + 1 ELSE Cardinality(Counted(r))
  <2>1. /\ stage[p] = "counting" /\ stage' = [stage EXCEPT ![p] = "updated"] /\ held' = held
    BY <1>2 DEF StoreCount, Go
  <2>2. p \notin Counted(r) /\ Counted(r)' = IF r = held[p] THEN Counted(r) \cup {p} ELSE Counted(r)
    BY <2>1 DEF Counted, Inside, FlowTypeOK
  <2>3. Cardinality(Counted(r) \cup {p}) = Cardinality(Counted(r)) + 1
    BY <1>1, <2>2, FS_AddElement
  <2> QED
    BY <2>2, <2>3
<1>3. ASSUME \A p \in Packets : ~StoreCount(p), NEW r \in Packets PROVE Counted(r)' = Counted(r)
  <2>1. CASE UNCHANGED <<stage, held>>
    BY <2>1 DEF Counted, Inside
  <2>2. ASSUME NEW p \in Packets, Lookup(p) PROVE Counted(r)' = Counted(r)
    <3>1. PICK h \in Packets : held' = [held EXCEPT ![p] = h]
      BY <2>2, LookupFinds
    <3>2. stage[p] = "new" /\ stage' = [stage EXCEPT ![p] = "found"] /\ held[p] = Nobody
      BY <2>2 DEF Lookup, Go, HeldOK
    <3> QED
      BY <3>1, <3>2, CallsAssumption DEF Counted, Inside, FlowTypeOK
  <2>3. ASSUME NEW p \in Packets, Touch(p) \/ Finish(p) PROVE Counted(r)' = Counted(r)
    BY <2>3 DEF Touch, Finish, Go, Counted, Inside, FlowTypeOK
  <2> QED
    BY <1>3, <2>1, <2>2, <2>3 DEF FlowStep, flowVars, Tick, EvictExpired, Update
<1> QED
  BY <1>1, <1>2, <1>3

\* A count that was read is still so when it is stored, unless two calls hold the
\* record; then it may be less than what has been counted, but never more.
LEMMA StepCountInv ==
    ASSUME FlowTypeOK, HeldOK, CountInv, FlowStep
    PROVE  CountInv'
<1>1. \A r \in Packets : IsFiniteSet(Counted(r)) /\ Cardinality(Counted(r)) \in Nat
  BY CountedMoves
<1> DEFINE RecordOK(r) ==
             /\ record[r].count <= Cardinality(Counted(r))
             /\ Counted(r) # {} => record[r].count > 0
             /\ r \notin shared => record[r].count = Cardinality(Counted(r))
           CallOK(p) == stage[p] = "counting" =>
             /\ local[p] <= Cardinality(Counted(held[p]))
             /\ held[p] \notin shared => local[p] = record[held[p]].count
           Alone == \A p, q \in Inside : held[p] = held[q] /\ held[p] \notin shared => p = q
<1>2. CountInv <=> (\A r \in Packets : RecordOK(r)) /\ (\A p \in Packets : CallOK(p)) /\ Alone
  BY DEF CountInv
<1>3. CountInv' <=> (\A r \in Packets : RecordOK(r)') /\ (\A p \in Packets : CallOK(p)') /\ Alone'
  BY DEF CountInv
<1>4. CASE UNCHANGED <<stage, record, held, local, shared>>
  BY <1>4 DEF CountInv, Counted, Inside
<1>5. ASSUME NEW p \in Packets, Lookup(p) PROVE CountInv'
  <2>1. PICK r \in Packets :
             /\ held' = [held EXCEPT ![p] = r] /\ Note(p, r, table')
             /\ \/ r # p /\ UNCHANGED record
                \/ r = p /\ record' = [record EXCEPT ![p] = [last |-> clock, count |-> 0]]
    BY <1>5, LookupFinds
  <2>2. stage[p] = "new" /\ stage' = [stage EXCEPT ![p] = "found"] /\ held[p] = Nobody
        /\ local' = [local EXCEPT ![p] = clock]
    BY <1>5 DEF Lookup, Go, HeldOK
  <2>3. \A s \in Packets : Counted(s)' = Counted(s)
    <3>1. \A q \in Packets : ~StoreCount(q)
      BY <2>2 DEF StoreCount, Go, FlowTypeOK
    <3> QED
      BY <3>1, CountedMoves
  <2>4. shared' = shared \cup {held[q] : q \in {q \in Inside : held[q] = r}}
    BY <2>1 DEF Note
  <2>5. ASSUME NEW s \in Packets PROVE RecordOK(s)'
    <3>1. CASE r = p /\ s = p
      <4>1. Counted(p) = {}
        BY <2>2, CallsAssumption DEF Counted, HeldOK
      <4>2. record'[p].count = 0
        BY <2>1, <3>1 DEF FlowTypeOK
      <4> QED
        BY <2>3, <3>1, <4>1, <4>2, FS_EmptySet
    <3>2. CASE ~(r = p /\ s = p)
      <4>1. record'[s] = record[s]
        BY <2>1, <3>2 DEF FlowTypeOK
      <4> HIDE DEF Counted
      <4> QED
        BY <1>2, <2>3, <2>4, <4>1
    <3> QED
      BY <3>1, <3>2
  <2>6. ASSUME NEW q \in Packets PROVE CallOK(q)'
    <3> SUFFICES ASSUME stage'[q] = "counting" PROVE CallOK(q)'
      OBVIOUS
    <3>1. q # p /\ stage[q] = "counting" /\ held'[q] = held[q] /\ local'[q] = local[q]
      BY <2>1, <2>2 DEF FlowTypeOK
    <3>2. PICK h \in Packets : h = held[q] /\ h # p
      BY <2>2, <3>1, CallsAssumption DEF HeldOK, FlowTypeOK
    <3>3. record'[h] = record[h] /\ Counted(h)' = Counted(h)
      BY <2>1, <2>3, <3>2 DEF FlowTypeOK
    <3>4. shared \subseteq shared'
      BY <2>4
    <3>5. Counted(held[q])' = Counted(h)' /\ Counted(held[q]) = Counted(h)
      BY <3>1, <3>2 DEF Counted
    <3> HIDE DEF Counted
    <3> QED
      BY <1>2, <3>1, <3>2, <3>3, <3>4, <3>5
  <2>7. Alone'
    <3> SUFFICES ASSUME NEW a \in Inside', NEW b \in Inside', held'[a] = held'[b],
                        held'[a] \notin shared'
                 PROVE  a = b
      OBVIOUS
    <3>1. /\ a \in Packets /\ b \in Packets
          /\ \A q \in Packets \ {p} : q \in Inside' => q \in Inside /\ held'[q] = held[q]
          /\ held'[p] = r
      BY <2>1, <2>2 DEF Inside, FlowTypeOK
    <3>2. \A q \in Inside : held[q] = r => r \in shared'
      BY <2>4
    <3> QED
      BY <1>2, <2>4, <3>1, <3>2
  <2> QED
    BY <1>3, <2>5, <2>6, <2>7
<1>6. ASSUME NEW p \in Packets, Touch(p) PROVE CountInv'
  <2>1. PICK now \in local[p]..clock : record' = [record EXCEPT ![held[p]].last = now]
    BY <1>6 DEF Touch
  <2>2. /\ stage[p] = "found" /\ stage' = [stage EXCEPT ![p] = "counting"]
        /\ local' = [local EXCEPT ![p] = record[held[p]].count]
        /\ UNCHANGED <<held, shared>>
    BY <1>6 DEF Touch, Go
  <2>3. \A s \in Packets : Counted(s)' = Counted(s)
    BY <2>2 DEF Counted, Inside, FlowTypeOK
  <2>4. held[p] \in Packets /\ \A s \in Packets : record'[s].count = record[s].count
    BY <2>1, <2>2 DEF FlowTypeOK, HeldOK
  <2>5. ASSUME NEW q \in Packets PROVE CallOK(q)'
    <3>1. CASE q = p
      <4>1. local'[p] = record[held[p]].count /\ held'[p] = held[p]
        BY <2>2 DEF FlowTypeOK
      <4> HIDE DEF Counted
      <4> QED
        BY <1>2, <2>3, <2>4, <3>1, <4>1
    <3>2. CASE q # p
      <4>1. stage'[q] = stage[q] /\ local'[q] = local[q] /\ held'[q] = held[q]
        BY <2>2, <3>2 DEF FlowTypeOK
      <4>2. stage[q] = "counting" => held[q] \in Packets
        BY DEF FlowTypeOK, HeldOK
      <4> HIDE DEF Counted
      <4> QED
        BY <1>2, <2>2, <2>3, <2>4, <4>1, <4>2
    <3> QED
      BY <3>1, <3>2
  <2>6. Inside' = Inside
    BY <2>2 DEF Inside, FlowTypeOK
  <2>7. \A s \in Packets : RecordOK(s)'
    <3> HIDE DEF Counted
    <3> QED
      BY <1>2, <2>2, <2>3, <2>4
  <2>8. Alone'
    BY <1>2, <2>2, <2>6
  <2> QED
    BY <1>3, <2>5, <2>7, <2>8
<1>7. ASSUME NEW p \in Packets, StoreCount(p) PROVE CountInv'
  <2>0. PICK h \in Packets : h = held[p]
    BY <1>7 DEF StoreCount, Go, FlowTypeOK, HeldOK
  <2>1. /\ stage[p] = "counting" /\ stage' = [stage EXCEPT ![p] = "updated"]
        /\ record' = [record EXCEPT ![h].count = local[p] + 1]
        /\ local' = [local EXCEPT ![p] = 0]
        /\ UNCHANGED <<held, shared>>
    BY <1>7, <2>0 DEF StoreCount, Go
  <2>2. h = held[p] /\ p \in Inside
    BY <2>0, <2>1 DEF FlowTypeOK, Inside
  <2>3. \A r \in Packets : Cardinality(Counted(r)') =
                   IF r = h THEN Cardinality(Counted(r)) + 1 ELSE Cardinality(Counted(r))
    BY <1>7, <2>0, CountedMoves
  <2>4. /\ record'[h].count = local[p] + 1
        /\ \A r \in Packets \ {h} : record'[r].count = record[r].count
    BY <2>1, <2>2 DEF FlowTypeOK
  <2>5. \A r \in Packets \ {h} : Counted(r)' = Counted(r)
    BY <2>0, <2>1 DEF Counted, Inside, FlowTypeOK
  <2>6. local[p] \in Nat /\ local[p] <= Cardinality(Counted(h))
        /\ (h \notin shared => local[p] = record[h].count)
    BY <1>2, <2>0, <2>1 DEF FlowTypeOK
  <2>7. ASSUME NEW r \in Packets PROVE RecordOK(r)'
    <3>1. CASE r = h
      <4>1. h \notin shared => record[h].count = Cardinality(Counted(h))
        BY <1>2, <2>2
      <4> HIDE DEF Counted
      <4> QED
        BY <1>1, <2>1, <2>2, <2>3, <2>4, <2>6, <3>1, <4>1
    <3>2. CASE r # h
      <4> HIDE DEF Counted
      <4> QED
        BY <1>2, <2>1, <2>4, <2>5, <3>2
    <3> QED
      BY <3>1, <3>2
  <2>8. ASSUME NEW q \in Packets PROVE CallOK(q)'
    <3> SUFFICES ASSUME stage'[q] = "counting" PROVE CallOK(q)'
      OBVIOUS
    <3>1. q # p /\ stage[q] = "counting" /\ local'[q] = local[q] /\ held'[q] = held[q]
      BY <2>1 DEF FlowTypeOK
    <3>2. held[q] \in Packets /\ q \in Inside /\ local[q] \in Nat
      BY <3>1 DEF FlowTypeOK, HeldOK, Inside
    <3>3. /\ local[q] <= Cardinality(Counted(held[q]))
          /\ held[q] \notin shared => local[q] = record[held[q]].count
      BY <1>2, <3>1
    <3>4. CASE held[q] = h
      <4>1. h \in shared
        BY <1>2, <2>2, <3>1, <3>2, <3>4
      <4>2. Cardinality(Counted(h)') = Cardinality(Counted(h)) + 1 /\ Cardinality(Counted(h)) \in Nat
        BY <1>1, <2>2, <2>3
      <4>3. Counted(held[q])' = Counted(h)'
        BY <2>1, <3>4 DEF Counted
      <4> HIDE DEF Counted
      <4> QED
        BY <2>1, <3>1, <3>2, <3>3, <3>4, <4>1, <4>2, <4>3
    <3>5. CASE held[q] # h
      <4>1. PICK g \in Packets : g = held[q] /\ g # h
        BY <3>2, <3>5
      <4>2. Counted(g)' = Counted(g) /\ record'[g].count = record[g].count
        BY <2>4, <2>5, <4>1
      <4>3. Counted(held[q])' = Counted(g)' /\ Counted(held[q]) = Counted(g)
        BY <2>1, <4>1 DEF Counted
      <4> HIDE DEF Counted
      <4> QED
        BY <2>1, <3>1, <3>3, <4>1, <4>2, <4>3
    <3> QED
      BY <3>4, <3>5
  <2>9. Alone'
    <3>1. Inside' \subseteq Inside
      BY <2>1 DEF Inside, FlowTypeOK
    <3> QED
      BY <1>2, <2>1, <3>1
  <2> QED
    BY <1>3, <2>7, <2>8, <2>9
<1>8. ASSUME NEW p \in Packets, Finish(p) PROVE CountInv'
  <2>1. /\ stage[p] = "updated" /\ stage' = [stage EXCEPT ![p] = "done"]
        /\ UNCHANGED <<record, held, local, shared>>
    BY <1>8 DEF Finish, Go
  <2>2. Inside' = Inside /\ \A q \in Packets : stage'[q] = "counting" => stage[q] = "counting"
    BY <2>1 DEF Inside, FlowTypeOK
  <2> QED
    BY <2>1, <2>2 DEF CountInv, Counted
<1> QED
  BY <1>4, <1>5, <1>6, <1>7, <1>8 DEF FlowStep, flowVars, Tick, EvictExpired, Update

\* What FlowCounts says of the table and of the counts follows.
LEMMA CountsFollow ==
    ASSUME FlowTypeOK, HeldOK, CountInv
    PROVE  FlowCounts
<1>1. \A k, l \in DOMAIN table : Conversation[table[k]] = Conversation[table[l]] => k = l
  BY KeyIsConversation DEF FlowTypeOK, TableOK
<1>2. \A p \in Packets : held[p] # Nobody => Conversation[held[p]] = Conversation[p]
  BY DEF HeldOK
<1>3. ASSUME NEW r \in Packets
      PROVE  /\ record[r].count <= Cardinality(Counted(r))
             /\ Cardinality(Counted(r)) > 0 => record[r].count > 0
             /\ r \notin shared => record[r].count = Cardinality(Counted(r))
  <2>1. Cardinality(Counted(r)) > 0 => Counted(r) # {}
    BY FS_EmptySet
  <2> QED
    BY <2>1 DEF CountInv
<1> QED
  BY <1>1, <1>2, <1>3 DEF FlowCounts, Counted

-----------------------------------------------------------------------------
(* The ages.  A conversation that no two calls disturb has its record in     *)
(* the table while a call is inside, and the record is as recent as the      *)
(* conversation; so the flow that makes place was seen no later than others. *)
RecentInv ==
    /\ \A r \in Packets : record[r].last <= clock
    /\ \A c \in Conversations : seen[c] <= clock
    /\ \A p \in Packets : stage[p] = "found" =>
         local[p] <= clock /\ record[held[p]].last <= Later(local[p], seen[Conversation[p]])
    /\ \A p \in Inside : Conversation[p] \notin disturbed =>
         /\ held[p] \in Range(table)
         /\ stage[p] = "found" => seen[Conversation[p]] <= local[p]
         /\ \A q \in Inside : Conversation[q] = Conversation[p] => p = q
    /\ \A r \in Range(table) :
         Conversation[r] \notin disturbed => seen[Conversation[r]] <= record[r].last

\* What becomes of a conversation that is still undisturbed after a lookup.
LEMMA NoteDisturbs ==
    ASSUME NEW p \in Packets, NEW r, NEW new, Note(p, r, new)
    PROVE  /\ \A c : c \notin disturbed' /\ c # Conversation[p] => c \notin disturbed
           /\ \A q \in Inside : Conversation[q] \notin disturbed' =>
                /\ Conversation[q] # Conversation[p] /\ Conversation[q] \notin disturbed
                /\ held[q] \in Range(table) => held[q] \in Range(new)
           /\ Conversation[p] \notin disturbed' => r = p \/ Conversation[p] \notin disturbed
<1> DEFINE c == Conversation[p]
           cut == {Conversation[q] : q \in {q \in Inside : held[q] \in Evicted(new)}}
           overlap == \E q \in Inside : Conversation[q] = c
<1>1. disturbed' = IF overlap THEN disturbed \cup cut \cup {c}
                   ELSE (IF r = p THEN disturbed \ {c} ELSE disturbed) \cup cut
  BY DEF Note
<1>2. \A q \in Inside : held[q] \in Range(table) /\ held[q] \notin Range(new) => Conversation[q] \in cut
  BY DEF Evicted
<1>3. \A q \in Inside : Conversation[q] = c => overlap
  OBVIOUS
<1> HIDE DEF cut, overlap, c
<1>4. \A d : d \notin disturbed' /\ d # c => d \notin disturbed /\ d \notin cut
  BY <1>1
<1>5. overlap => c \in disturbed'
  BY <1>1
<1>6. c \notin disturbed' => r = p \/ c \notin disturbed
  BY <1>1
<1> QED
  BY <1>2, <1>3, <1>4, <1>5, <1>6 DEF c

\* The records are as old as said after every step.
LEMMA StepRecentInv ==
    ASSUME FlowTypeOK, HeldOK, RecentInv, FlowStep
    PROVE  RecentInv'
<1>1. CASE UNCHANGED flowVars
  BY <1>1 DEF flowVars, RecentInv, Inside
<1>2. CASE Tick
  <2>1. clock' = clock + 1 /\ clock \in Nat
        /\ UNCHANGED <<stage, table, record, held, local, seen, disturbed, shared>>
    BY <1>2 DEF Tick, FlowTypeOK
  <2>2. /\ \A r \in Packets : record[r].last \in Nat
        /\ \A c \in Conversations : seen[c] \in Int
        /\ \A p \in Packets : local[p] \in Nat
    BY DEF FlowTypeOK, Never
  <2> QED
    BY <2>1, <2>2 DEF RecentInv, Inside
<1>3. CASE EvictExpired
  <2>1. /\ table' = Live /\ Range(Live) \subseteq Range(table)
        /\ UNCHANGED <<clock, stage, record, held, local, seen, shared>>
        /\ disturbed' = disturbed \cup
             {Conversation[q] : q \in {q \in Inside : held[q] \in Evicted(Live)}}
    BY <1>3, LiveTable DEF EvictExpired, FlowTypeOK
  <2>2. Inside' = Inside
    BY <2>1 DEF Inside
  <2>3. \A q \in Inside : Conversation[q] \notin disturbed' =>
          Conversation[q] \notin disturbed /\ (held[q] \in Range(table) => held[q] \in Range(table'))
    BY <2>1 DEF Evicted
  <2> QED
    BY <2>1, <2>2, <2>3 DEF RecentInv
<1>4. ASSUME NEW p \in Packets, Lookup(p) PROVE RecentInv'
  <2>1. PICK r \in Packets :
             /\ held' = [held EXCEPT ![p] = r] /\ Conversation[r] = Conversation[p]
             /\ TableOK(table') /\ r \in Range(table')
             /\ Range(table') \subseteq Range(table) \cup {p}
             /\ Note(p, r, table')
             /\ \/ r # p /\ r \in Range(table) /\ UNCHANGED record /\ held[r] = r
                \/ r = p /\ record' = [record EXCEPT ![p] = [last |-> clock, count |-> 0]]
    BY <1>4, LookupFinds
  <2>2. /\ stage[p] = "new" /\ stage' = [stage EXCEPT ![p] = "found"]
        /\ local' = [local EXCEPT ![p] = clock] /\ UNCHANGED <<clock, seen>>
    BY <1>4 DEF Lookup, Go
  <2>3. /\ \A c : c \notin disturbed' /\ c # Conversation[p] => c \notin disturbed
        /\ \A q \in Inside : Conversation[q] \notin disturbed' =>
             /\ Conversation[q] # Conversation[p] /\ Conversation[q] \notin disturbed
             /\ held[q] \in Range(table) => held[q] \in Range(table')
        /\ Conversation[p] \notin disturbed' => r = p \/ Conversation[p] \notin disturbed
    BY <2>1, NoteDisturbs
  <2>4. /\ \A q \in Packets \ {p} : /\ stage'[q] = stage[q] /\ local'[q] = local[q]
                                    /\ held'[q] = held[q] /\ record'[q] = record[q]
        /\ stage'[p] = "found" /\ local'[p] = clock /\ held'[p] = r
        /\ r # p => record'[p] = record[p]
        /\ r = p => record'[p].last = clock
    BY <2>1, <2>2 DEF FlowTypeOK
  <2>5. Inside' = Inside \cup {p} /\ p \notin Inside
    BY <2>2, <2>4 DEF Inside
  <2>6. /\ clock \in Nat /\ \A s \in Packets : record[s].last \in Nat
        /\ \A c \in Conversations : seen[c] \in Int
        /\ \A q \in Packets : local[q] \in Nat /\ Conversation[q] \in Conversations
    BY ConversationOf DEF FlowTypeOK, Never
  <2>7. \A s \in Packets : record'[s].last <= clock' /\ record'[s].last \in Nat
    <3>1. ASSUME NEW s \in Packets, s # p PROVE record'[s].last <= clock' /\ record'[s].last \in Nat
      BY <2>2, <2>4, <2>6, <3>1 DEF RecentInv
    <3>2. record'[p].last <= clock' /\ record'[p].last \in Nat
      BY <2>1, <2>2, <2>4, <2>6 DEF RecentInv
    <3> QED
      BY <3>1, <3>2
  <2>8. \A c \in Conversations : seen'[c] <= clock'
    BY <2>2 DEF RecentInv
  <2>9. ASSUME NEW q \in Packets, stage'[q] = "found"
        PROVE  local'[q] <= clock' /\ record'[held'[q]].last <= Later(local'[q], seen'[Conversation[q]])
    <3>1. CASE q = p
      <4>1. local'[q] = clock /\ record'[r].last <= clock /\ record'[r].last \in Nat /\ held'[q] = r
        BY <2>1, <2>2, <2>4, <2>7, <3>1
      <4>2. seen[Conversation[q]] \in Int /\ seen' = seen /\ clock' = clock
        BY <2>2, <2>6
      <4> QED
        BY <2>6, <4>1, <4>2 DEF Later
    <3>2. CASE q # p
      <4>1. stage[q] = "found" /\ local'[q] = local[q] /\ held'[q] = held[q]
        BY <2>4, <2>9, <3>2
      <4>2. held[q] \in Packets /\ held[q] # p
        BY <2>2, <4>1, CallsAssumption DEF HeldOK, FlowTypeOK
      <4>3. record'[held[q]] = record[held[q]]
        BY <2>4, <4>2
      <4>4. local[q] <= clock /\ record[held[q]].last <= Later(local[q], seen[Conversation[q]])
        BY <4>1 DEF RecentInv
      <4> QED
        BY <2>2, <4>1, <4>3, <4>4
    <3> QED
      BY <3>1, <3>2
  <2>10. ASSUME NEW q \in Inside', Conversation[q] \notin disturbed'
         PROVE  /\ held'[q] \in Range(table')
                /\ stage'[q] = "found" => seen'[Conversation[q]] <= local'[q]
                /\ \A o \in Inside' : Conversation[o] = Conversation[q] => q = o
    <3>1. CASE q = p
      <4>1. seen[Conversation[p]] <= clock
        BY <2>6 DEF RecentInv
      <4>2. \A o \in Inside : Conversation[o] # Conversation[p]
        BY <2>3, <2>10, <3>1
      <4> QED
        BY <2>1, <2>2, <2>4, <2>5, <3>1, <4>1, <4>2
    <3>2. CASE q # p
      <4>1. q \in Inside /\ q \in Packets
        BY <2>5, <3>2 DEF Inside
      <4>2. Conversation[q] # Conversation[p] /\ Conversation[q] \notin disturbed
        BY <2>3, <2>10, <4>1
      <4>3. /\ held[q] \in Range(table) /\ (stage[q] = "found" => seen[Conversation[q]] <= local[q])
            /\ \A o \in Inside : Conversation[o] = Conversation[q] => q = o
        BY <4>1, <4>2 DEF RecentInv
      <4>4. held[q] \in Range(table')
        BY <2>3, <2>10, <4>1, <4>3
      <4>5. stage'[q] = stage[q] /\ local'[q] = local[q] /\ held'[q] = held[q]
        BY <2>4, <3>2, <4>1
      <4> QED
        BY <2>2, <2>5, <4>2, <4>3, <4>4, <4>5
    <3> QED
      BY <3>1, <3>2
  <2>11. ASSUME NEW s \in Range(table'), Conversation[s] \notin disturbed'
         PROVE  seen'[Conversation[s]] <= record'[s].last
    <3>0. s \in Packets
      BY <2>1 DEF TableOK, Range
    <3>1. CASE Conversation[s] = Conversation[p]
      <4>1. s = r
        BY <2>1, <3>1, OneRecord
      <4>2. CASE r = p
        <5>1. record'[s].last = clock
          BY <2>4, <4>1, <4>2
        <5> QED
          BY <2>2, <2>6, <3>0, <5>1 DEF RecentInv
      <4>3. CASE r # p
        <5>1. Conversation[s] \notin disturbed /\ record'[s] = record[s] /\ s \in Range(table)
          BY <2>1, <2>3, <2>4, <2>11, <3>1, <4>1, <4>3
        <5> QED
          BY <2>2, <5>1 DEF RecentInv
      <4> QED
        BY <4>2, <4>3
    <3>2. CASE Conversation[s] # Conversation[p]
      <4>1. s # p /\ s \in Range(table) /\ Conversation[s] \notin disturbed
        BY <2>1, <2>3, <2>11, <3>2
      <4>2. record'[s] = record[s]
        BY <2>4, <3>0, <4>1
      <4> QED
        BY <2>2, <4>1, <4>2 DEF RecentInv
    <3> QED
      BY <3>1, <3>2
  <2> QED
    BY <2>7, <2>8, <2>9, <2>10, <2>11 DEF RecentInv
<1>5. ASSUME NEW p \in Packets, Touch(p) PROVE RecentInv'
  <2>1. PICK h \in Packets : h = held[p]
    BY <1>5 DEF Touch, Go, FlowTypeOK, HeldOK
  <2>2. PICK now \in local[p]..clock :
          /\ record' = [record EXCEPT ![h].last = now]
          /\ seen' = [seen EXCEPT ![Conversation[p]] = Later(@, now)]
    BY <1>5, <2>1 DEF Touch
  <2>3. /\ stage[p] = "found" /\ stage' = [stage EXCEPT ![p] = "counting"]
        /\ local' = [local EXCEPT ![p] = record[h].count]
        /\ UNCHANGED <<clock, table, held, disturbed>>
    BY <1>5, <2>1 DEF Touch, Go
  <2>4. /\ clock \in Nat /\ local[p] \in Nat /\ now \in Nat /\ local[p] <= now /\ now <= clock
        /\ \A c \in Conversations : seen[c] \in Int
        /\ \A r \in Packets : record[r].last \in Nat
        /\ \A q \in Packets : local[q] \in Nat /\ Conversation[q] \in Conversations
    BY <2>2, ConversationOf DEF FlowTypeOK, Never
  <2>5. /\ \A q \in Packets \ {p} : stage'[q] = stage[q] /\ local'[q] = local[q]
        /\ stage'[p] = "counting" /\ Inside' = Inside /\ p \in Inside
    BY <2>3 DEF FlowTypeOK, Inside
  <2>6. /\ record'[h].last = now
        /\ \A r \in Packets \ {h} : record'[r] = record[r]
    BY <2>2 DEF FlowTypeOK
  <2>7. /\ seen'[Conversation[p]] = Later(seen[Conversation[p]], now)
        /\ \A c \in Conversations \ {Conversation[p]} : seen'[c] = seen[c]
    BY <2>2, <2>4 DEF FlowTypeOK
  <2>8. Conversation[h] = Conversation[p]
    BY <2>1, CallsAssumption DEF HeldOK
  <2>9. \A r \in Packets : record'[r].last <= clock'
    BY <2>3, <2>4, <2>6 DEF RecentInv
  <2>10. \A c \in Conversations : seen'[c] <= clock'
    BY <2>3, <2>4, <2>7 DEF RecentInv, Later
  <2>11. ASSUME NEW q \in Packets, stage'[q] = "found"
         PROVE  local'[q] <= clock' /\ record'[held'[q]].last <= Later(local'[q], seen'[Conversation[q]])
    <3>1. q # p /\ stage[q] = "found" /\ local'[q] = local[q] /\ held'[q] = held[q] /\ clock' = clock
      BY <2>3, <2>5, <2>11
    <3>2. held[q] \in Packets /\ Conversation[held[q]] = Conversation[q]
      BY <3>1, CallsAssumption DEF FlowTypeOK, HeldOK
    <3>3. local[q] <= clock /\ record[held[q]].last <= Later(local[q], seen[Conversation[q]])
      BY <3>1 DEF RecentInv
    <3>4. PICK g \in Packets : g = held[q]
      BY <3>2
    <3>5. CASE g = h
      <4>1. record'[held'[q]].last = now /\ Conversation[q] = Conversation[p]
        BY <2>6, <2>8, <3>1, <3>2, <3>4, <3>5
      <4>2. now <= Later(local[q], Later(seen[Conversation[p]], now))
        BY <2>4 DEF Later
      <4> QED
        BY <2>7, <3>1, <3>3, <4>1, <4>2
    <3>6. CASE g # h
      <4>1. record'[held'[q]].last = record[held[q]].last
        BY <2>6, <3>1, <3>4, <3>6
      <4>2. seen[Conversation[q]] <= seen'[Conversation[q]] /\ seen'[Conversation[q]] \in Int
        BY <2>4, <2>7 DEF Later
      <4>3. record[held[q]].last \in Nat
        BY <2>4, <3>4
      <4> QED
        BY <2>4, <3>1, <3>3, <4>1, <4>2, <4>3 DEF Later
    <3> QED
      BY <3>5, <3>6
  <2>12. ASSUME NEW q \in Inside', Conversation[q] \notin disturbed'
         PROVE  /\ held'[q] \in Range(table')
                /\ stage'[q] = "found" => seen'[Conversation[q]] <= local'[q]
                /\ \A o \in Inside' : Conversation[o] = Conversation[q] => q = o
    <3>1. q \in Inside /\ q \in Packets /\ Conversation[q] \notin disturbed
      BY <2>3, <2>5, <2>12 DEF Inside
    <3>2. /\ held[q] \in Range(table) /\ (stage[q] = "found" => seen[Conversation[q]] <= local[q])
          /\ \A o \in Inside : Conversation[o] = Conversation[q] => q = o
      BY <3>1 DEF RecentInv
    <3>3. ASSUME stage'[q] = "found" PROVE seen'[Conversation[q]] <= local'[q]
      <4>1. q # p /\ stage[q] = "found" /\ local'[q] = local[q]
        BY <2>5, <3>1, <3>3
      <4>2. Conversation[q] # Conversation[p]
        BY <2>5, <3>2, <4>1
      <4> QED
        BY <2>4, <2>7, <3>1, <3>2, <4>1, <4>2
    <3> QED
      BY <2>3, <2>5, <3>2, <3>3
  <2>13. ASSUME NEW r \in Range(table'), Conversation[r] \notin disturbed'
         PROVE  seen'[Conversation[r]] <= record'[r].last
    <3>1. r \in Range(table) /\ Conversation[r] \notin disturbed /\ r \in Packets
      BY <2>3, <2>13 DEF FlowTypeOK, TableOK, Range
    <3>2. CASE Conversation[r] = Conversation[p]
      <4>1. h \in Range(table) /\ seen[Conversation[p]] <= local[p]
        BY <2>1, <2>3, <2>5, <3>1, <3>2 DEF RecentInv
      <4>2. r = h
        BY <2>8, <3>1, <3>2, <4>1, OneRecord DEF FlowTypeOK
      <4> QED
        BY <2>4, <2>6, <2>7, <3>2, <4>1, <4>2 DEF Later
    <3>3. CASE Conversation[r] # Conversation[p]
      <4>1. record'[r] = record[r] /\ seen'[Conversation[r]] = seen[Conversation[r]]
        BY <2>4, <2>6, <2>7, <2>8, <3>1, <3>3
      <4> QED
        BY <3>1, <4>1 DEF RecentInv
    <3> QED
      BY <3>2, <3>3
  <2> QED
    BY <2>9, <2>10, <2>11, <2>12, <2>13 DEF RecentInv
<1>6. ASSUME NEW p \in Packets, StoreCount(p) \/ Finish(p) PROVE RecentInv'
  <2>1. /\ \A q \in Packets : /\ stage'[q] = "found" => stage[q] = "found" /\ local'[q] = local[q]
                              /\ q \in Inside' => q \in Inside
        /\ \A r \in Packets : record'[r].last = record[r].last
        /\ UNCHANGED <<clock, table, held, seen, disturbed>>
    <3>1. CASE StoreCount(p)
      <4>1. held[p] \in Packets
        BY <3>1 DEF StoreCount, Go, FlowTypeOK, HeldOK
      <4> QED
        BY <3>1, <4>1 DEF StoreCount, Go, FlowTypeOK, Inside
    <3>2. CASE Finish(p)
      BY <3>2 DEF Finish, Go, FlowTypeOK, Inside
    <3> QED
      BY <1>6, <3>1, <3>2
  <2>2. /\ \A q \in Packets : stage[q] = "found" => held[q] \in Packets
        /\ Inside' \subseteq Inside /\ Inside \subseteq Packets
        /\ Range(table) \subseteq Packets
    BY <2>1 DEF FlowTypeOK, HeldOK, TableOK, Range, Inside
  <2> QED
    BY <2>1, <2>2 DEF RecentInv
<1> QED
  BY <1>1, <1>2, <1>3, <1>4, <1>5, <1>6 DEF FlowStep, Update

\* A step forgets no flow that is not expired while it keeps one that was seen
\* earlier.
LEMMA StepRecentFlows ==
    ASSUME FlowTypeOK, HeldOK, RecentInv, RecentFlowsKept, FlowStep
    PROVE  RecentFlowsKept'
<1> DEFINE Age(r) == Later(record[r].last, seen[Conversation[r]])
           Remembered(c) == \/ seen[c] = Never \/ clock - seen[c] > FlowTtl
                            \/ \E r \in Range(table) : Conversation[r] = c
                            \/ \A r \in Range(table) : seen[c] <= Age(r)
<1>0. SUFFICES ASSUME NEW c \in Conversations \ disturbed' PROVE Remembered(c)'
  <2>1. Cardinality(DOMAIN table') <= MaxFlows
    BY StepFlowTypeOK DEF FlowTypeOK, TableOK
  <2> QED
    BY <2>1 DEF RecentFlowsKept
<1>1. /\ clock \in Nat /\ FlowTtl \in Nat
      /\ \A d \in Conversations : seen[d] \in Int /\ seen[d] <= clock
      /\ \A r \in Packets : record[r].last \in Nat /\ record[r].last <= clock
      /\ \A r \in Packets : Conversation[r] \in Conversations
      /\ \A r \in Range(table) : r \in Packets
  BY FlowAssumption, ConversationOf DEF FlowTypeOK, TableOK, Range, RecentInv, Never
<1>2. c \notin disturbed => Remembered(c)
  BY DEF RecentFlowsKept
<1>3. ASSUME c \notin disturbed, NEW r \in Range(table), Conversation[r] = c, Expired(r)
      PROVE  clock - seen[c] > FlowTtl
  <2>1. seen[c] <= record[r].last
    BY <1>3 DEF RecentInv
  <2> QED
    BY <1>1, <1>3, <2>1 DEF Expired
<1>4. CASE UNCHANGED flowVars
  BY <1>2, <1>4 DEF flowVars
<1>5. CASE Tick
  <2>1. clock' = clock + 1 /\ UNCHANGED <<table, record, seen, disturbed>>
    BY <1>5 DEF Tick
  <2> QED
    BY <1>1, <1>2, <2>1
<1>6. CASE EvictExpired
  <2>1. /\ Range(table') \subseteq Range(table)
        /\ \A r \in Range(table) \ Range(table') : Expired(r)
        /\ UNCHANGED <<clock, record, seen>> /\ c \notin disturbed
    BY <1>6, LiveTable DEF EvictExpired, FlowTypeOK
  <2> QED
    BY <1>2, <1>3, <2>1
<1>7. ASSUME NEW p \in Packets, Lookup(p) PROVE Remembered(c)'
  <2>1. PICK r \in Packets :
             /\ held' = [held EXCEPT ![p] = r] /\ Conversation[r] = Conversation[p]
             /\ TableOK(table') /\ r \in Range(table')
             /\ Range(table') \subseteq Range(table) \cup {p}
             /\ Note(p, r, table')
             /\ \/ r # p /\ r \in Range(table) /\ UNCHANGED record /\ held[r] = r
                   /\ \A s \in Range(table) \ Range(table') : Expired(s)
                \/ r = p /\ record' = [record EXCEPT ![p] = [last |-> clock, count |-> 0]]
                   /\ \A s \in Range(table) \ Range(table') :
                        \/ Expired(s)
                        \/ \A o \in Range(table') \ {p} : record[s].last <= record[o].last
    BY <1>7, LookupFinds
  <2>2. UNCHANGED <<clock, seen>> /\ stage[p] = "new"
    BY <1>7 DEF Lookup, Go
  <2>3. CASE c = Conversation[p]
    BY <2>1, <2>3
  <2>4. CASE c # Conversation[p]
    <3>1. c \notin disturbed
      BY <2>1, <2>4, NoteDisturbs
    <3>2. p \notin Range(table)
      BY <2>2, CallsAssumption DEF HeldOK
    <3>3. \A o \in Range(table') : o # p => o \in Range(table) /\ record'[o] = record[o]
      BY <1>1, <2>1 DEF FlowTypeOK
    <3>4. p \in Range(table') => r = p
      BY <2>1, OneRecord
    <3>5. r = p => record'[p].last = clock
      BY <2>1 DEF FlowTypeOK
    <3>6. ASSUME p \in Range(table') PROVE seen[c] <= Age(p)'
      <4>1. record'[p].last = clock /\ seen' = seen
        BY <2>2, <3>4, <3>5, <3>6
      <4> QED
        BY <1>1, <4>1 DEF Later
    <3>7. ASSUME NEW o \in Range(table'), o # p PROVE Age(o)' = Age(o)
      BY <2>2, <3>3, <3>7
    <3>8. CASE seen[c] = Never \/ clock - seen[c] > FlowTtl
      BY <2>2, <3>8
    <3>9. CASE \A o \in Range(table) : seen[c] <= Age(o)
      <4>1. \A o \in Range(table') : seen[c] <= Age(o)'
        BY <3>3, <3>6, <3>7, <3>9
      <4> QED
        BY <2>2, <4>1
    <3>10. ASSUME NEW s \in Range(table), Conversation[s] = c PROVE Remembered(c)'
      <4>1. CASE s \in Range(table')
        BY <3>10, <4>1
      <4>2. CASE Expired(s)
        BY <1>3, <2>2, <3>1, <3>10, <4>2
      <4>3. CASE \A o \in Range(table') \ {p} : record[s].last <= record[o].last
        <5>1. seen[c] <= record[s].last /\ record[s].last \in Nat /\ seen[c] \in Int
          BY <1>1, <3>1, <3>10 DEF RecentInv
        <5>2. ASSUME NEW o \in Range(table'), o # p PROVE seen[c] <= Age(o)'
          <6>1. record[s].last <= record[o].last /\ o \in Packets
            BY <1>1, <3>3, <4>3, <5>2
          <6>2. seen[c] <= Age(o)
            BY <1>1, <5>1, <6>1 DEF Later
          <6> QED
            BY <3>7, <5>2, <6>2
        <5>3. \A o \in Range(table') : seen[c] <= Age(o)'
          BY <3>6, <5>2
        <5> QED
          BY <2>2, <5>3
      <4> QED
        BY <2>1, <3>10, <4>1, <4>2, <4>3
    <3> QED
      BY <1>2, <3>1, <3>8, <3>9, <3>10
  <2> QED
    BY <2>3, <2>4
<1>8. ASSUME NEW p \in Packets, Touch(p) PROVE Remembered(c)'
  <2>1. PICK h \in Packets : h = held[p] /\ Conversation[h] = Conversation[p]
    BY <1>8, CallsAssumption DEF Touch, Go, FlowTypeOK, HeldOK
  <2>2. PICK now \in local[p]..clock :
          /\ record' = [record EXCEPT ![h].last = now]
          /\ seen' = [seen EXCEPT ![Conversation[p]] = Later(@, now)]
    BY <1>8, <2>1 DEF Touch
  <2>3. /\ stage[p] = "found" /\ p \in Inside /\ UNCHANGED <<clock, table, disturbed>>
    BY <1>8 DEF Touch, Go, Inside
  <2>4. CASE c = Conversation[p]
    <3>1. h \in Range(table)
      BY <2>1, <2>3, <2>4 DEF RecentInv
    <3> QED
      BY <2>1, <2>3, <2>4, <3>1
  <2>5. CASE c # Conversation[p]
    <3>1. seen'[c] = seen[c]
      BY <2>2, <2>5 DEF FlowTypeOK
    <3>2. local[p] \in Nat /\ now \in Nat /\ local[p] <= now
          /\ record[h].last <= Later(local[p], seen[Conversation[p]])
      BY <1>1, <2>1, <2>2, <2>3 DEF RecentInv, FlowTypeOK
    <3>3. /\ seen'[Conversation[p]] = Later(seen[Conversation[p]], now)
          /\ \A d \in Conversations \ {Conversation[p]} : seen'[d] = seen[d]
          /\ record'[h].last = now /\ \A r \in Packets \ {h} : record'[r] = record[r]
      BY <1>1, <2>2 DEF FlowTypeOK
    <3>4. ASSUME NEW r \in Range(table) PROVE Age(r) <= Age(r)' /\ Age(r) \in Int /\ Age(r)' \in Int
      <4>1. r \in Packets /\ Conversation[r] \in Conversations /\ record[r].last \in Nat
            /\ seen[Conversation[r]] \in Int /\ seen[Conversation[p]] \in Int
        BY <1>1
      <4>2. seen'[Conversation[r]] >= seen[Conversation[r]] /\ seen'[Conversation[r]] \in Int
        BY <3>2, <3>3, <4>1 DEF Later
      <4>3. CASE r = h
        BY <2>1, <3>2, <3>3, <4>1, <4>3 DEF Later
      <4>4. CASE r # h
        <5>1. record'[r].last = record[r].last
          BY <3>3, <4>1, <4>4
        <5> QED
          BY <4>1, <4>2, <5>1 DEF Later
      <4> QED
        BY <4>3, <4>4
    <3>5. CASE \A r \in Range(table) : seen[c] <= Age(r)
      <4>1. seen[c] \in Int
        BY <1>1
      <4> HIDE DEF Age
      <4>2. \A r \in Range(table) : seen[c] <= Age(r)'
        BY <3>4, <3>5, <4>1
      <4> QED
        BY <2>3, <3>1, <4>2
    <3>6. c \notin disturbed
      BY <2>3
    <3> HIDE DEF Age
    <3> QED
      BY <1>2, <2>3, <3>1, <3>5, <3>6
  <2> QED
    BY <2>4, <2>5
<1>9. ASSUME NEW p \in Packets, StoreCount(p) \/ Finish(p) PROVE Remembered(c)'
  <2>1. /\ \A r \in Packets : record'[r].last = record[r].last
        /\ UNCHANGED <<clock, table, seen, disturbed>>
    <3>1. CASE StoreCount(p)
      <4>1. held[p] \in Packets
        BY <3>1 DEF StoreCount, Go, FlowTypeOK, HeldOK
      <4> QED
        BY <3>1, <4>1 DEF StoreCount, FlowTypeOK
    <3>2. CASE Finish(p)
      BY <3>2 DEF Finish
    <3> QED
      BY <1>9, <3>1, <3>2
  <2>2. \A r \in Range(table) : Age(r)' = Age(r)
    BY <1>1, <2>1
  <2> HIDE DEF Age
  <2> QED
    BY <1>2, <2>1, <2>2
<1> HIDE DEF Remembered
<1> QED
  BY <1>4, <1>5, <1>6, <1>7, <1>8, <1>9 DEF FlowStep, Update

\* A flow that had several packets never looks like a flow of one again.
LEMMA SeveralGrows ==
    ASSUME FlowTypeOK, HeldOK, CountInv, FlowStep,
           NEW q \in Packets, held[q] # Nobody, Several(q)
    PROVE  held'[q] = held[q] /\ Several(q)'
<1>0. PICK h \in Packets : h = held[q] /\ held[h] = h
  BY DEF FlowTypeOK, HeldOK
<1>1. record[h].count > 1 \/ h \in shared
  BY <1>0 DEF Several
<1>2. \A r \in Packets : record[r].count \in Nat
  BY DEF FlowTypeOK
<1> SUFFICES held'[q] = h /\ (record'[h].count > 1 \/ h \in shared')
  BY <1>0 DEF Several
<1>3. CASE UNCHANGED <<record, held, shared>>
  BY <1>0, <1>1, <1>3
<1>4. ASSUME NEW p \in Packets, Lookup(p) PROVE held'[q] = h /\ (record'[h].count > 1 \/ h \in shared')
  <2>1. PICK r \in Packets :
             /\ held' = [held EXCEPT ![p] = r] /\ Note(p, r, table')
             /\ \/ UNCHANGED record
                \/ record' = [record EXCEPT ![p] = [last |-> clock, count |-> 0]]
    BY <1>4, LookupFinds
  <2>2. held[p] = Nobody
    BY <1>4 DEF Lookup, Go, HeldOK
  <2>3. p # h /\ p # q
    BY <1>0, <2>2, CallsAssumption
  <2>4. shared \subseteq shared'
    BY <2>1 DEF Note
  <2>5. record'[h] = record[h] /\ held'[q] = h
    BY <1>0, <2>1, <2>3 DEF FlowTypeOK
  <2> QED
    BY <1>1, <2>4, <2>5
<1>5. ASSUME NEW p \in Packets, Touch(p) PROVE held'[q] = h /\ (record'[h].count > 1 \/ h \in shared')
  <2>1. PICK g \in Packets : g = held[p]
    BY <1>5 DEF Touch, Go, FlowTypeOK, HeldOK
  <2>2. PICK now : record' = [record EXCEPT ![g].last = now] /\ UNCHANGED <<held, shared>>
    BY <1>5, <2>1 DEF Touch
  <2>3. record'[h].count = record[h].count
    BY <2>2 DEF FlowTypeOK
  <2> QED
    BY <1>0, <1>1, <2>2, <2>3
<1>6. ASSUME NEW p \in Packets, StoreCount(p) PROVE held'[q] = h /\ (record'[h].count > 1 \/ h \in shared')
  <2>1. PICK g \in Packets : g = held[p]
    BY <1>6 DEF StoreCount, Go, FlowTypeOK, HeldOK
  <2>2. /\ record' = [record EXCEPT ![g].count = local[p] + 1] /\ UNCHANGED <<held, shared>>
        /\ stage[p] = "counting"
    BY <1>6, <2>1 DEF StoreCount, Go
  <2>3. CASE h \in shared
    BY <1>0, <2>2, <2>3
  <2>4. CASE h \notin shared /\ g = h
    <3>1. local[p] = record[h].count
      BY <2>1, <2>2, <2>4 DEF CountInv
    <3>2. record'[h].count = local[p] + 1
      BY <2>2, <2>4 DEF FlowTypeOK
    <3> QED
      BY <1>0, <1>1, <1>2, <2>2, <2>4, <3>1, <3>2
  <2>5. CASE g # h
    <3>1. record'[h] = record[h]
      BY <2>2, <2>5 DEF FlowTypeOK
    <3> QED
      BY <1>0, <1>1, <2>2, <3>1
  <2> QED
    BY <2>3, <2>4, <2>5
<1> QED
  BY <1>3, <1>4, <1>5, <1>6 DEF FlowStep, flowVars, Tick, EvictExpired, Update, Finish

-----------------------------------------------------------------------------
(* The steps of the whole, as the flow table sees them.                     *)
BootInv ==
    /\ args \in CommandLines
    /\ boot \in {"license", "policy", "running", "refused"}
    /\ boot \in {"policy", "running"} => args.license = None \/ Valid(Licenses[args.license])
    /\ boot \in {"license", "policy"} => classRules = "default" /\ valueRules = None
    /\ boot = "policy" => args.start = "main"
    /\ boot = "running" =>
         \/ args.start = "presets" /\ classRules = "default" /\ valueRules = "presets"
         \/ /\ classRules = IF args.policy = None THEN "default" ELSE "policy"
            /\ valueRules = IF ~Pvm THEN None ELSE IF args.policy = None THEN "empty" ELSE "policy"
    /\ boot = "running" /\ args.policy # None => ParsesPolicy(Policies[args.policy])

\* A packet is as it came until it is prepared, and no packet comes before the
\* process runs.
ArrivalInv ==
    \A p \in Packets :
        /\ stage[p] # "new" => boot = "running"
        /\ stage[p] # "done" =>
             /\ priority[p] = Packet[p].priority /\ coefficient[p] = One
             /\ payload[p] = Packet[p].payload /\ size[p] = Packet[p].size

OfPackets(f) == f = [p \in Packets |-> f[p]]
PacketTypes ==
    OfPackets(priority) /\ OfPackets(coefficient) /\ OfPackets(payload) /\ OfPackets(size)

\* Stages 1 to 3 of a packet, and nothing else, change it.
Prepares(p) ==
    /\ Finish(p) /\ Prepare(p) /\ UNCHANGED startVars
    /\ \/ UNCHANGED <<payload, size>>
       \/ /\ MayCompress(payload[p]) /\ Shrinks(payload[p])
          /\ payload' = [payload EXCEPT ![p] = Compressed(@)]
          /\ size' = [size EXCEPT ![p] = @ - Saving(p)]

\* A step is one of the flow table, of startup, or prepares one packet.
LEMMA StepsOfIngress ==
    ASSUME BootInv, [Next]_vars
    PROVE  /\ FlowStep
           /\ \/ UNCHANGED <<startVars, packetVars>> /\ (UNCHANGED stage \/ boot = "running")
              \/ StartNext /\ UNCHANGED <<flowVars, packetVars>>
              \/ \E p \in Packets : Prepares(p)
<1>1. CASE UNCHANGED vars
  BY <1>1 DEF vars, FlowStep, flowVars
<1>2. CASE StartNext /\ UNCHANGED <<flowVars, packetVars>>
  BY <1>2 DEF FlowStep
<1>3. CASE /\ boot = "running"
           /\ Tick \/ EvictExpired \/ \E p \in args.traffic : Update(p)
           /\ UNCHANGED <<startVars, packetVars>>
  <2>1. args.traffic \subseteq Packets
    BY CommandLinesAssumption DEF BootInv
  <2> QED
    BY <1>3, <2>1 DEF FlowStep
<1>4. ASSUME NEW p \in Packets, Process(p) PROVE Prepares(p)
  BY <1>4 DEF Process, PassOn, Compress, Prepares, Finish
<1>5. ASSUME NEW p \in Packets, Prepares(p) PROVE FlowStep
  BY <1>5 DEF Prepares, FlowStep
<1> QED
  BY <1>1, <1>2, <1>3, <1>4, <1>5 DEF Next

\* The configuration is that of the command line, and stays.
LEMMA StepBootInv ==
    ASSUME BootInv, [Next]_vars
    PROVE  BootInv' /\ (boot = "running" => UNCHANGED startVars)
<1>1. CASE UNCHANGED startVars
  BY <1>1 DEF startVars, BootInv, Pvm, ParsesPolicy, Valid, HasFeature
<1>2. args.start = "presets" => args.policy = None /\ args.license = None
  BY CommandLinesAssumption DEF BootInv
<1>3. CASE ResolveLicense
  BY <1>3 DEF ResolveLicense, BootInv
<1>4. CASE Build
  BY <1>4 DEF Build, BootInv, Pvm
<1>5. CASE BuildWithPolicy
  BY <1>5 DEF BuildWithPolicy, BootInv, Pvm
<1>6. CASE RejectPolicy
  BY <1>6 DEF RejectPolicy, BootInv
<1>7. CASE Embed
  BY <1>2, <1>7 DEF Embed, BootInv
<1>8. StartNext => boot # "running"
  BY DEF StartNext, ResolveLicense, Build, BuildWithPolicy, RejectPolicy, Embed
<1>9. UNCHANGED startVars \/ StartNext
  BY StepsOfIngress DEF Prepares
<1> QED
  BY <1>1, <1>3, <1>4, <1>5, <1>6, <1>7, <1>8, <1>9 DEF StartNext

\* A packet that is done stays done.
LEMMA StaysDone ==
    ASSUME FlowTypeOK, FlowStep, NEW q \in Packets
    PROVE  stage[q] = "done" => stage'[q] = "done"
BY DEF FlowTypeOK, FlowStep, flowVars, Tick, EvictExpired, Update, Lookup, Touch, StoreCount,
       Finish, Go

\* A packet is done when it has been prepared, and not otherwise.
LEMMA FinishOnly ==
    ASSUME FlowTypeOK, BootInv, [Next]_vars, NEW q \in Packets,
           stage[q] # "done", stage'[q] = "done"
    PROVE  Prepares(q)
<1>1. ASSUME NEW p \in args.traffic, Update(p) PROVE p \in Packets /\ stage'[q] # "done"
  <2>1. p \in Packets
    BY CommandLinesAssumption DEF BootInv
  <2> QED
    BY <1>1, <2>1 DEF FlowTypeOK, Update, Lookup, Touch, StoreCount, Go
<1>2. ~UNCHANGED stage
  OBVIOUS
<1>3. \E p \in Packets : Process(p)
  BY <1>1, <1>2 DEF Next, vars, flowVars, Tick, EvictExpired
<1>4. ASSUME NEW p \in Packets, Process(p) PROVE Prepares(p) /\ p = q
  <2>1. Prepares(p)
    BY <1>4 DEF Process, PassOn, Compress, Prepares, Finish
  <2> QED
    BY <2>1 DEF Prepares, Finish, Go, FlowTypeOK
<1> QED
  BY <1>3, <1>4

\* Preparing a packet leaves the others alone.
LEMMA PreparesOne ==
    ASSUME PacketTypes, NEW p \in Packets, Prepares(p)
    PROVE  /\ PacketTypes'
           /\ \A q \in Packets \ {p} :
                /\ priority'[q] = priority[q] /\ coefficient'[q] = coefficient[q]
                /\ payload'[q] = payload[q] /\ size'[q] = size[q]
           /\ priority'[p] = Hint(BaseClass(p), Boosts(p), Demotes(p))
           /\ coefficient'[p] = IF valueRules = None THEN coefficient[p]
                                ELSE CoefficientOf(ValueTable, Packet[p])
           /\ \/ payload'[p] = payload[p] /\ size'[p] = size[p]
              \/ /\ MayCompress(payload[p]) /\ Shrinks(payload[p])
                 /\ payload'[p] = Compressed(payload[p]) /\ size'[p] = size[p] - Saving(p)
<1>1. DOMAIN priority = Packets /\ DOMAIN coefficient = Packets
      /\ DOMAIN payload = Packets /\ DOMAIN size = Packets
  BY DEF PacketTypes, OfPackets
<1>2. priority' = [priority EXCEPT ![p] = Hint(BaseClass(p), Boosts(p), Demotes(p))]
  BY DEF Prepares, Prepare
<1>3. coefficient' = [coefficient EXCEPT ![p] = IF valueRules = None THEN coefficient[p]
                                                ELSE CoefficientOf(ValueTable, Packet[p])]
  BY DEF Prepares, Prepare
<1>4. \/ UNCHANGED <<payload, size>>
      \/ /\ MayCompress(payload[p]) /\ Shrinks(payload[p])
         /\ payload' = [payload EXCEPT ![p] = Compressed(payload[p])]
         /\ size' = [size EXCEPT ![p] = size[p] - Saving(p)]
  BY DEF Prepares
<1>5. priority' = [q \in Packets |-> priority'[q]] /\ coefficient' = [q \in Packets |-> coefficient'[q]]
  BY <1>2, <1>3 DEF PacketTypes, OfPackets
<1>6. payload' = [q \in Packets |-> payload'[q]] /\ size' = [q \in Packets |-> size'[q]]
  BY <1>4 DEF PacketTypes, OfPackets
<1>7. PacketTypes'
  BY <1>5, <1>6 DEF PacketTypes, OfPackets
<1>8. \A q \in Packets \ {p} : priority'[q] = priority[q] /\ coefficient'[q] = coefficient[q]
  BY <1>1, <1>2, <1>3
<1>9. \A q \in Packets \ {p} : payload'[q] = payload[q] /\ size'[q] = size[q]
  BY <1>1, <1>4
<1>10. /\ priority'[p] = Hint(BaseClass(p), Boosts(p), Demotes(p))
       /\ coefficient'[p] = IF valueRules = None THEN coefficient[p]
                            ELSE CoefficientOf(ValueTable, Packet[p])
  BY <1>1, <1>2, <1>3
<1>11. \/ payload'[p] = payload[p] /\ size'[p] = size[p]
       \/ /\ MayCompress(payload[p]) /\ Shrinks(payload[p])
          /\ payload'[p] = Compressed(payload[p]) /\ size'[p] = size[p] - Saving(p)
  BY <1>1, <1>4
<1> QED
  BY <1>7, <1>8, <1>9, <1>10, <1>11

\* Packets arrive as they were sent.
LEMMA StepArrivalInv ==
    ASSUME FlowTypeOK, PacketTypes, BootInv, ArrivalInv, [Next]_vars
    PROVE  PacketTypes' /\ ArrivalInv'
<1>1. /\ FlowStep
      /\ \/ UNCHANGED <<startVars, packetVars>> /\ (UNCHANGED stage \/ boot = "running")
         \/ StartNext /\ UNCHANGED <<flowVars, packetVars>>
         \/ \E p \in Packets : Prepares(p)
  BY StepsOfIngress
<1>2. boot = "running" => boot' = "running"
  BY StepBootInv DEF startVars
<1>3. \A q \in Packets : stage'[q] # "done" => stage[q] # "done"
  BY <1>1, StaysDone
<1>4. CASE UNCHANGED packetVars
  <2>1. \A q \in Packets : stage'[q] # "new" => stage[q] # "new" \/ boot = "running"
    BY <1>1, <1>2 DEF flowVars, Prepares, Finish, Go, FlowTypeOK
  <2> QED
    BY <1>2, <1>3, <1>4, <2>1 DEF packetVars, PacketTypes, OfPackets, ArrivalInv
<1>5. ASSUME NEW p \in Packets, Prepares(p) PROVE PacketTypes' /\ ArrivalInv'
  <2>1. stage[p] = "updated" /\ stage' = [stage EXCEPT ![p] = "done"]
    BY <1>5 DEF Prepares, Finish, Go
  <2>2. PacketTypes' /\ \A q \in Packets \ {p} :
          /\ priority'[q] = priority[q] /\ coefficient'[q] = coefficient[q]
          /\ payload'[q] = payload[q] /\ size'[q] = size[q]
    BY <1>5, PreparesOne
  <2>3. UNCHANGED boot
    BY <1>5 DEF Prepares, startVars
  <2>4. stage'[p] = "done" /\ \A q \in Packets \ {p} : stage'[q] = stage[q]
    BY <2>1 DEF FlowTypeOK
  <2>5. boot = "running"
    BY <2>1 DEF ArrivalInv
  <2> QED
    BY <2>2, <2>3, <2>4, <2>5 DEF ArrivalInv
<1> QED
  BY <1>1, <1>4, <1>5 DEF packetVars

\* Compression puts one layer on a payload without any, and the packet shrinks
\* by what the payload does.
LEMMA StepPayloads ==
    ASSUME FlowTypeOK, PacketTypes, BootInv, ArrivalInv, PayloadsRestorable, [Next]_vars
    PROVE  PayloadsRestorable'
<1> DEFINE Restorable(q) ==
             /\ ~Packet[q].payload.stray =>
                  Decompress(payload[q]) = Decompress(Packet[q].payload)
             /\ size[q] - payload[q].size = Packet[q].size - Packet[q].payload.size
             /\ payload[q].size <= Packet[q].payload.size
<1>1. CASE UNCHANGED <<payload, size>>
  BY <1>1 DEF PayloadsRestorable
<1>2. ASSUME NEW p \in Packets, Prepares(p), NEW q \in Packets PROVE Restorable(q)'
  <2>1. CASE payload'[q] = payload[q] /\ size'[q] = size[q]
    BY <2>1 DEF PayloadsRestorable
  <2>2. CASE /\ q = p /\ MayCompress(payload[p]) /\ Shrinks(payload[p])
             /\ payload'[p] = Compressed(payload[p]) /\ size'[p] = size[p] - Saving(p)
    <3>1. payload[p] = Packet[p].payload /\ size[p] = Packet[p].size
      BY <1>2 DEF Prepares, Finish, Go, ArrivalInv
    <3> DEFINE sent == Packet[p].payload
    <3>2. sent \in [body : Nat, wraps : Nat, stray : BOOLEAN, size : Nat, deflated : Nat]
          /\ Packet[p].size \in Nat
      BY PacketAssumption
    <3>3. sent.wraps = 0 /\ ~sent.stray
      BY <2>2, <3>1, <3>2 DEF MayCompress, Magic
    <3>4. payload'[p] = [sent EXCEPT !.wraps = sent.wraps + 1, !.size = sent.deflated + 4]
      BY <2>2, <3>1 DEF Compressed
    <3>5. sent.deflated + 4 < sent.size
      BY <2>2, <3>1, <3>2 DEF Shrinks, Compressed
    <3> HIDE DEF sent
    <3>6. payload'[p].wraps = 1 /\ payload'[p].body = sent.body /\ payload'[p].size = sent.deflated + 4
      BY <3>2, <3>3, <3>4
    <3>7. Saving(p) = sent.size - (sent.deflated + 4)
      BY <3>1, <3>2 DEF Saving, Compressed, sent
    <3>8. size'[p] - payload'[p].size = Packet[p].size - sent.size
      BY <2>2, <3>1, <3>2, <3>6, <3>7
    <3>9. Decompress(payload'[p]) = Decompress(sent)
      BY <3>3, <3>6 DEF Decompress
    <3>10. payload'[p].size <= sent.size
      BY <3>2, <3>5, <3>6
    <3> QED
      BY <2>2, <3>8, <3>9, <3>10 DEF sent
  <2> QED
    BY <1>2, <2>1, <2>2, PreparesOne
<1>3. UNCHANGED <<payload, size>> \/ \E p \in Packets : Prepares(p)
  BY StepsOfIngress DEF packetVars
<1> QED
  BY <1>1, <1>2, <1>3 DEF PayloadsRestorable

-----------------------------------------------------------------------------
(* The tables of rules.                                                    *)

\* The first rule that matches is one, and no earlier rule is.
LEMMA FirstOfHits ==
    ASSUME NEW hits, hits \subseteq Nat, hits # {}
    PROVE  FirstMatch(hits) \in hits /\ \A i \in hits : FirstMatch(hits) <= i
<1>1. \E i \in hits : \A j \in hits : i <= j
  <2> DEFINE Less == OpToRel(<, Nat)
  <2>1. IsWellFoundedOn(Less, Nat)
    BY Zenon, NatLessThanWellFounded
  <2>2. \A i, j \in Nat : j < i => <<j, i>> \in Less
    BY DEF OpToRel
  <2> HIDE DEF Less
  <2>3. PICK i \in hits : \A j \in hits : ~(<<j, i>> \in Less)
    BY <2>1, WFMin
  <2>4. \A j \in hits : i \in Nat /\ j \in Nat /\ ~(j < i)
    BY <2>2, <2>3
  <2> QED
    BY <2>4
<1> QED
  BY <1>1 DEF FirstMatch

\* A hint moves a class by one level at most, never out of the classes, and
\* upwards only if the flow is latency-sensitive.
LEMMA HintMoves ==
    ASSUME NEW base \in TrafficPriority, NEW boost, NEW demote
    PROVE  LET class == Hint(base, boost, demote)
           IN  /\ class \in TrafficPriority /\ WithinOneLevel(class, base)
               /\ ~boost => class >= base
BY DEF Hint, TrafficPriority, WithinOneLevel, CRITICAL, BACKGROUND

\* The default rules are a list, and their classes are classes.
LEMMA DefaultRules ==
    /\ DOMAIN DEFAULT_RULES = 1..Len(DEFAULT_RULES) /\ Len(DEFAULT_RULES) \in Nat
    /\ \A i \in DOMAIN DEFAULT_RULES : DEFAULT_RULES[i].priority \in TrafficPriority
<1>1. \A class, ports, protocols : Rule(class, ports, protocols).priority = class
  BY DEF Rule
<1>2. {CRITICAL, HIGH, MEDIUM, LOW, BACKGROUND} \subseteq TrafficPriority
  BY DEF TrafficPriority, CRITICAL, HIGH, MEDIUM, LOW, BACKGROUND
<1>3. DOMAIN DEFAULT_RULES = 1..12 /\ Len(DEFAULT_RULES) = 12
  BY DEF DEFAULT_RULES
<1>4. ASSUME NEW i \in 1..12 PROVE DEFAULT_RULES[i].priority \in {CRITICAL, HIGH, MEDIUM, LOW, BACKGROUND}
  BY <1>1 DEF DEFAULT_RULES
<1> QED
  BY <1>2, <1>3, <1>4

\* The tables of a running process: lists of rules with classes, and one policy
\* for classes and values, if there is one.
LEMMA TablesInForce ==
    ASSUME BootInv, boot = "running"
    PROVE  /\ DOMAIN ClassTable = 1..Len(ClassTable) /\ Len(ClassTable) \in Nat
           /\ \A i \in DOMAIN ClassTable : ClassTable[i].priority \in TrafficPriority
           /\ DefaultPriority \in TrafficPriority
           /\ classRules = "policy" =>
                args.policy \in DOMAIN Policies /\ ClassTable = Policies[args.policy].rules
           /\ classRules # "policy" => ClassTable = DEFAULT_RULES
           /\ valueRules = "policy" => classRules = "policy" /\ ValueTable = ClassTable
           /\ valueRules # None => args.start = "presets" \/ Pvm
<1>1. classRules \in {"default", "policy"} /\ (valueRules = "policy" => classRules = "policy")
      /\ (valueRules # None => args.start = "presets" \/ Pvm)
      /\ (classRules = "policy" => args.policy # None)
  BY DEF BootInv, None
<1>2. CASE classRules # "policy"
  <2>1. ClassTable = DEFAULT_RULES /\ DefaultPriority = MEDIUM
    BY <1>2 DEF ClassTable, DefaultPriority
  <2>2. MEDIUM \in TrafficPriority
    BY DEF MEDIUM, TrafficPriority, CRITICAL, BACKGROUND
  <2> QED
    BY <1>1, <1>2, <2>1, <2>2, DefaultRules
<1>3. CASE classRules = "policy"
  <2>1. args.policy \in DOMAIN Policies /\ ParsesPolicy(Policies[args.policy])
    BY <1>1, <1>3, CommandLinesAssumption DEF BootInv
  <2>2. ClassTable = Policies[args.policy].rules
        /\ DefaultPriority = PriorityOf(Policies[args.policy].default)
    BY <1>3 DEF ClassTable, DefaultPriority
  <2>3. DOMAIN ClassTable = 1..Len(ClassTable) /\ Len(ClassTable) \in Nat
    BY <2>1, <2>2, PoliciesAssumption
  <2>4. \A i \in DOMAIN ClassTable : ClassTable[i].priority \in TrafficPriority
    BY <2>1, <2>2 DEF ParsesPolicy, ParsesRule
  <2>5. DefaultPriority \in TrafficPriority
    <3>1. Policies[args.policy].default \in TrafficPriority \cup {NoPriority}
      BY <2>1 DEF ParsesPolicy
    <3>2. MEDIUM \in TrafficPriority
      BY DEF MEDIUM, TrafficPriority, CRITICAL, BACKGROUND
    <3> QED
      BY <2>2, <3>1, <3>2 DEF PriorityOf
  <2>6. valueRules = "policy" => ValueTable = ClassTable
    BY <2>2 DEF ValueTable
  <2> QED
    BY <1>1, <1>3, <2>1, <2>2, <2>3, <2>4, <2>5, <2>6
<1> QED
  BY <1>2, <1>3

\* Which rule in force describes a packet, and which the value policy takes for
\* one that does.
Describes(p, i) ==
    IF classRules = "policy" THEN <<args.policy, <<p, i>>>> \in PolicyDescribing
                             ELSE <<p, i>> \in DefaultDescribing

\* A packet is described by the rules its class table matches it with; a rule that
\* only the value policy matches it with is one that overlooks its pattern.
LEMMA DescribesMatches ==
    ASSUME BootInv, boot = "running", NEW p \in Packets, NEW i \in DOMAIN ClassTable
    PROVE  /\ Describes(p, i) <=> Matches(ClassTable[i], Packet[p])
           /\ /\ valueRules = "policy" /\ RuleMatches(ClassTable[i], Packet[p])
              /\ ~Matches(ClassTable[i], Packet[p])
              => <<args.policy, <<p, i>>>> \in PolicyOverlooked
<1>1. /\ classRules = "policy" =>
           args.policy \in DOMAIN Policies /\ ClassTable = Policies[args.policy].rules
      /\ classRules # "policy" => ClassTable = DEFAULT_RULES
      /\ valueRules = "policy" => classRules = "policy"
  BY TablesInForce
<1>2. ASSUME classRules = "policy"
      PROVE  /\ <<args.policy, <<p, i>>>> \in PolicyDescribing
                  <=> <<p, i>> \in Describing(Policies[args.policy].rules)
             /\ <<args.policy, <<p, i>>>> \in PolicyOverlooked
                  <=> <<p, i>> \in Overlooked(Policies[args.policy].rules)
  BY <1>1, <1>2 DEF PolicyDescribing, PolicyOverlooked
<1>3. ASSUME NEW rules, i \in DOMAIN rules
      PROVE  /\ <<p, i>> \in Describing(rules) <=> Matches(rules[i], Packet[p])
             /\ <<p, i>> \in Overlooked(rules)
                  <=> rules[i].pattern # NoPattern /\ RuleMatches(rules[i], Packet[p])
  BY <1>3 DEF Describing, Overlooked
<1>4. Describes(p, i) <=> Matches(ClassTable[i], Packet[p])
  BY <1>1, <1>2, <1>3 DEF Describes, DefaultDescribing
<1>5. ASSUME RuleMatches(ClassTable[i], Packet[p]), ~Matches(ClassTable[i], Packet[p])
      PROVE  ClassTable[i].pattern # NoPattern
  BY <1>5 DEF Matches
<1> QED
  BY <1>1, <1>2, <1>3, <1>4, <1>5

\* Class and value come from one rule, unless the value policy has overlooked
\* the pattern of a rule before it.
LEMMA ValueOfRule ==
    ASSUME BootInv, boot = "running", valueRules = "policy", NEW p \in Packets,
           NEW i \in 1..(Len(ClassTable) + 1),
           \A j \in 1..(i - 1) : ~Describes(p, j), i \in DOMAIN ClassTable => Describes(p, i)
    PROVE  \/ \E j \in 1..(i - 1) : <<args.policy, <<p, j>>>> \in PolicyOverlooked
           \/ CoefficientOf(ValueTable, Packet[p]) =
                IF i \in DOMAIN ClassTable THEN ClassTable[i].coefficient ELSE One
<1> DEFINE hits == {k \in DOMAIN ClassTable : RuleMatches(ClassTable[k], Packet[p])}
           first == FirstMatch(hits)
<1>1. DOMAIN ClassTable = 1..Len(ClassTable) /\ Len(ClassTable) \in Nat /\ ValueTable = ClassTable
  BY TablesInForce
<1>2. CoefficientOf(ValueTable, Packet[p]) =
        IF hits = {} THEN One ELSE ClassTable[first].coefficient
  BY <1>1 DEF CoefficientOf
<1>3. i \in DOMAIN ClassTable => i \in hits
  BY DescribesMatches DEF Matches
<1>4. CASE hits = {}
  BY <1>2, <1>3, <1>4
<1>5. CASE hits # {}
  <2>1. hits \subseteq Nat
    BY <1>1
  <2>2. first \in hits /\ \A k \in hits : first <= k
    BY <1>5, <2>1, FirstOfHits
  <2>3. CASE first < i
    <3>1. first \in 1..(i - 1) /\ first \in DOMAIN ClassTable
      BY <1>1, <2>2, <2>3
    <3>2. ~Describes(p, first) /\ RuleMatches(ClassTable[first], Packet[p])
      BY <2>2, <3>1
    <3> HIDE DEF first
    <3>3. <<args.policy, <<p, first>>>> \in PolicyOverlooked
      BY <3>1, <3>2, DescribesMatches
    <3> QED
      BY <3>1, <3>3
  <2>4. CASE ~(first < i)
    <3>1. first \in DOMAIN ClassTable /\ first \in Nat
      BY <2>1, <2>2
    <3> HIDE DEF first, hits
    <3>2. i \in DOMAIN ClassTable
      BY <1>1, <2>4, <3>1
    <3>3. first = i
      BY <1>3, <2>2, <2>4, <3>1, <3>2
    <3> QED
      BY <1>2, <1>5, <3>2, <3>3
  <2> QED
    BY <2>3, <2>4
<1> QED
  BY <1>4, <1>5

\* Preparing a packet treats it as configured.
LEMMA PreparesTreats ==
    ASSUME PacketTypes, BootInv, ArrivalInv, NEW p \in Packets, Prepares(p)
    PROVE  Treated(p)'
<1>1. /\ boot = "running" /\ priority[p] = Packet[p].priority /\ coefficient[p] = One
      /\ UNCHANGED <<args, classRules, valueRules>> /\ UNCHANGED <<record, held, shared>>
  BY DEF Prepares, Finish, Go, ArrivalInv, startVars
<1>2. /\ priority'[p] = Hint(BaseClass(p), Boosts(p), Demotes(p))
      /\ coefficient'[p] = IF valueRules = None THEN coefficient[p]
                           ELSE CoefficientOf(ValueTable, Packet[p])
  BY PreparesOne
<1>3. /\ DOMAIN ClassTable = 1..Len(ClassTable) /\ Len(ClassTable) \in Nat
      /\ \A i \in DOMAIN ClassTable : ClassTable[i].priority \in TrafficPriority
      /\ DefaultPriority \in TrafficPriority
      /\ valueRules # None => args.start = "presets" \/ Pvm
  BY <1>1, TablesInForce
<1>4. Several(p)' <=> Several(p)
  BY <1>1 DEF Several
<1>5. UNCHANGED <<ClassTable, DefaultPriority>> /\ \A i : Describes(p, i)' <=> Describes(p, i)
  BY <1>1 DEF ClassTable, DefaultPriority, Describes
<1> DEFINE At(base) == /\ WithinOneLevel(priority[p], base)
                       /\ priority[p] \in TrafficPriority
                       /\ ~Several(p) => priority[p] >= base
           Valued(i, value) ==
               \/ \E j \in 1..(i - 1) : <<args.policy, <<p, j>>>> \in PolicyOverlooked
               \/ valueRules = "policy" => coefficient[p] = value
           AsByRule(i) == /\ Describes(p, i) /\ \A j \in 1..(i - 1) : ~Describes(p, j)
                          /\ At(ClassTable[i].priority) /\ Valued(i, ClassTable[i].coefficient)
           AsByNone == /\ \A i \in DOMAIN ClassTable : ~Describes(p, i)
                       /\ At(DefaultPriority) /\ Valued(Len(ClassTable) + 1, One)
<1>6. ASSUME NEW base \in TrafficPriority, base = BaseClass(p) PROVE At(base)'
  <2>1. ~Boosts(p) => priority'[p] >= base
    BY <1>2, <1>6, HintMoves
  <2>2. ~Several(p) => ~Boosts(p)
    BY DEF Boosts
  <2>3. WithinOneLevel(priority'[p], base) /\ priority'[p] \in TrafficPriority
    BY <1>2, <1>6, HintMoves
  <2> QED
    BY <1>4, <2>1, <2>2, <2>3 DEF WithinOneLevel
<1>7. Packet[p].priority # NoPriority => At(Packet[p].priority)'
  <2>1. Packet[p].priority \in {NoPriority} \cup TrafficPriority
    BY PacketAssumption
  <2>2. Packet[p].priority # NoPriority => BaseClass(p) = Packet[p].priority
    BY <1>1 DEF BaseClass
  <2> HIDE DEF At
  <2> QED
    BY <1>6, <2>1, <2>2
<1>8. ASSUME NEW i \in 1..(Len(ClassTable) + 1),
             \A j \in 1..(i - 1) : ~Describes(p, j), i \in DOMAIN ClassTable => Describes(p, i),
             NEW value, value = IF i \in DOMAIN ClassTable THEN ClassTable[i].coefficient ELSE One
      PROVE  Valued(i, value)'
  <2>1. CASE valueRules = "policy"
    <3>1. coefficient'[p] = CoefficientOf(ValueTable, Packet[p])
      BY <1>2, <2>1 DEF None
    <3>2. \/ \E j \in 1..(i - 1) : <<args.policy, <<p, j>>>> \in PolicyOverlooked
          \/ coefficient'[p] = value
      BY <1>1, <1>8, <2>1, <3>1, ValueOfRule
    <3> QED
      BY <1>1, <3>2
  <2>2. CASE valueRules # "policy"
    BY <1>1, <2>2
  <2> QED
    BY <2>1, <2>2
<1>9. Packet[p].priority = NoPriority => (\E i \in DOMAIN ClassTable : AsByRule(i))' \/ AsByNone'
  <2> SUFFICES ASSUME Packet[p].priority = NoPriority
               PROVE  (\E i \in DOMAIN ClassTable : AsByRule(i))' \/ AsByNone'
    OBVIOUS
  <2> DEFINE hits == {i \in DOMAIN ClassTable : Matches(ClassTable[i], Packet[p])}
  <2>1. BaseClass(p) = IF hits = {} THEN DefaultPriority ELSE ClassTable[FirstMatch(hits)].priority
    BY <1>1 DEF BaseClass, Classify
  <2>2. \A i \in DOMAIN ClassTable : i \in hits <=> Describes(p, i)
    BY <1>1, DescribesMatches
  <2>3. CASE hits = {}
    <3>1. \A i \in DOMAIN ClassTable : ~Describes(p, i)
      BY <2>2, <2>3
    <3>2. At(DefaultPriority)'
      <4>1. PICK base \in TrafficPriority : base = DefaultPriority
        BY <1>3
      <4>2. At(base)'
        BY <1>6, <2>1, <2>3, <4>1
      <4> QED
        BY <1>5, <4>1, <4>2
    <3>3. Valued(Len(ClassTable) + 1, One)'
      <4>1. PICK n \in Nat : n = Len(ClassTable)
        BY <1>3
      <4>2. n + 1 \in 1..(Len(ClassTable) + 1) /\ n + 1 \notin DOMAIN ClassTable
            /\ \A j \in 1..(n + 1 - 1) : ~Describes(p, j)
        BY <1>3, <3>1, <4>1
      <4> HIDE DEF Valued
      <4>3. Valued(n + 1, One)'
        BY <1>8, <4>2
      <4>4. Len(ClassTable)' = n
        BY <1>5, <4>1
      <4> QED
        BY <4>3, <4>4 DEF Valued
    <3> HIDE DEF At, Valued
    <3> QED
      BY <1>5, <3>1, <3>2, <3>3
  <2>4. CASE hits # {}
    <3>1. hits \subseteq Nat
      BY <1>3
    <3>2. PICK i \in hits : i = FirstMatch(hits) /\ \A k \in hits : i <= k
      BY <2>4, <3>1, FirstOfHits
    <3> HIDE DEF hits
    <3>3. i \in DOMAIN ClassTable /\ i \in 1..(Len(ClassTable) + 1) /\ Describes(p, i)
      BY <1>3, <2>2, <3>2 DEF hits
    <3>4. \A j \in 1..(i - 1) : ~Describes(p, j)
      <4>1. \A j \in 1..(i - 1) : j \in DOMAIN ClassTable /\ j \notin hits
        BY <1>3, <3>2, <3>3
      <4> QED
        BY <2>2, <4>1
    <3>5. At(ClassTable[i].priority)'
      <4>1. PICK base \in TrafficPriority : base = ClassTable[i].priority
        BY <1>3, <3>3
      <4>2. At(base)'
        BY <1>6, <2>1, <2>4, <3>2, <4>1
      <4> QED
        BY <1>5, <4>1, <4>2
    <3>6. Valued(i, ClassTable[i].coefficient)'
      <4>1. PICK value : value = ClassTable[i].coefficient
        OBVIOUS
      <4> HIDE DEF Valued
      <4>2. Valued(i, value)'
        BY <1>8, <3>3, <3>4, <4>1
      <4> QED
        BY <1>5, <4>1, <4>2 DEF Valued
    <3> HIDE DEF At, Valued
    <3>7. AsByRule(i)'
      BY <1>5, <3>3, <3>4, <3>5, <3>6
    <3> HIDE DEF AsByRule
    <3> QED
      BY <1>5, <3>3, <3>7
  <2> QED
    BY <2>3, <2>4
<1>10. valueRules' = None => coefficient'[p] = One
  BY <1>1, <1>2
<1>11. coefficient'[p] # One =>
         args'.start = "presets" \/ "pvm" \in Licenses[args'.license].features
  BY <1>1, <1>2, <1>3 DEF Pvm, HasFeature
<1> QED
  BY <1>7, <1>9, <1>10, <1>11 DEF Treated, Describes

\* How a packet was treated stays right: the configuration stays, and a flow
\* that was boosted keeps its packets.
LEMMA StaysTreated ==
    ASSUME FlowTypeOK, HeldOK, CountInv, FlowStep, UNCHANGED <<args, classRules, valueRules>>,
           NEW q \in Packets, stage[q] = "done", Treated(q),
           priority'[q] = priority[q], coefficient'[q] = coefficient[q]
    PROVE  Treated(q)'
<1>1. Several(q) => Several(q)'
  <2>1. held[q] # Nobody
    BY DEF HeldOK
  <2> QED
    BY <2>1, SeveralGrows
<1>2. UNCHANGED <<ClassTable, DefaultPriority>>
  BY DEF ClassTable, DefaultPriority
<1> DEFINE At(base) == /\ WithinOneLevel(priority[q], base)
                       /\ priority[q] \in TrafficPriority
                       /\ ~Several(q) => priority[q] >= base
           Valued(i, value) ==
               \/ \E j \in 1..(i - 1) : <<args.policy, <<q, j>>>> \in PolicyOverlooked
               \/ valueRules = "policy" => coefficient[q] = value
<1>3. ASSUME NEW base, At(base) PROVE At(base)'
  BY <1>1, <1>3 DEF WithinOneLevel
<1>4. ASSUME NEW i, NEW value, Valued(i, value) PROVE Valued(i, value)'
  BY <1>4
<1>5. \A base : At(base) => At(base)'
  BY <1>3
<1>6. \A i, value : Valued(i, value) => Valued(i, value)'
  BY <1>4
<1> DEFINE AsByRule(i) == /\ Describes(q, i) /\ \A j \in 1..(i - 1) : ~Describes(q, j)
                          /\ At(ClassTable[i].priority) /\ Valued(i, ClassTable[i].coefficient)
           AsByNone == /\ \A i \in DOMAIN ClassTable : ~Describes(q, i)
                       /\ At(DefaultPriority) /\ Valued(Len(ClassTable) + 1, One)
           Rest == /\ valueRules = None => coefficient[q] = One
                   /\ coefficient[q] # One =>
                        args.start = "presets" \/ "pvm" \in Licenses[args.license].features
<1>7. /\ IF Packet[q].priority # NoPriority THEN At(Packet[q].priority)
         ELSE (\E i \in DOMAIN ClassTable : AsByRule(i)) \/ AsByNone
      /\ Rest
  BY DEF Treated, Describes
<1>8. \A i : Describes(q, i)' <=> Describes(q, i)
  BY DEF Describes
<1>9. Rest'
  BY <1>7
<1>10. ASSUME NEW i, AsByRule(i) PROVE AsByRule(i)'
  <2>1. At(ClassTable[i].priority)'
    <3>1. PICK base : base = ClassTable[i].priority
      OBVIOUS
    <3>2. At(base)'
      BY <1>5, <1>10, <3>1
    <3> QED
      BY <1>2, <3>1, <3>2
  <2>2. Valued(i, ClassTable[i].coefficient)'
    <3>1. PICK value : value = ClassTable[i].coefficient
      OBVIOUS
    <3>2. Valued(i, value)'
      BY <1>6, <1>10, <3>1
    <3> QED
      BY <1>2, <3>1, <3>2
  <2> HIDE DEF At, Valued
  <2> QED
    BY <1>8, <1>10, <2>1, <2>2
<1>11. ASSUME AsByNone PROVE AsByNone'
  <2>1. At(DefaultPriority)'
    <3>1. PICK base : base = DefaultPriority
      OBVIOUS
    <3>2. At(base)'
      BY <1>5, <1>11, <3>1
    <3> QED
      BY <1>2, <3>1, <3>2
  <2>2. Valued(Len(ClassTable) + 1, One)'
    BY <1>2, <1>11
  <2> HIDE DEF At, Valued
  <2> QED
    BY <1>2, <1>8, <1>11, <2>1, <2>2
<1>12. Packet[q].priority # NoPriority => At(Packet[q].priority)'
  BY <1>5, <1>7
<1> HIDE DEF AsByRule, AsByNone, Rest, At, Valued
<1>13. Packet[q].priority = NoPriority => (\E i \in DOMAIN ClassTable : AsByRule(i))' \/ AsByNone'
  BY <1>2, <1>7, <1>10, <1>11
<1> QED
  BY <1>9, <1>12, <1>13 DEF Treated, Describes, AsByRule, AsByNone, Rest, At, Valued

TreatedInv == \A p \in Packets : Prepared(p) => Treated(p)

\* Every packet that is prepared has been treated as configured.
LEMMA StepTreatedInv ==
    ASSUME FlowTypeOK, HeldOK, CountInv, PacketTypes, BootInv, ArrivalInv, TreatedInv, [Next]_vars
    PROVE  TreatedInv'
<1> SUFFICES ASSUME NEW q \in Packets, stage'[q] = "done" PROVE Treated(q)'
  BY DEF TreatedInv, Prepared
<1>1. /\ FlowStep
      /\ \/ UNCHANGED <<startVars, packetVars>>
         \/ StartNext /\ UNCHANGED <<flowVars, packetVars>>
         \/ \E p \in Packets : Prepares(p)
  BY StepsOfIngress
<1>2. CASE stage[q] = "done"
  <2>1. boot = "running" /\ Treated(q)
    BY <1>2 DEF ArrivalInv, TreatedInv, Prepared
  <2>2. UNCHANGED <<args, classRules, valueRules>>
    BY <2>1, StepBootInv DEF startVars
  <2>3. priority'[q] = priority[q] /\ coefficient'[q] = coefficient[q]
    <3>1. ASSUME NEW p \in Packets, Prepares(p) PROVE q # p
      BY <1>2, <3>1 DEF Prepares, Finish, Go
    <3> QED
      BY <1>1, <3>1, PreparesOne DEF packetVars
  <2> QED
    BY <1>1, <1>2, <2>1, <2>2, <2>3, StaysTreated
<1>3. CASE stage[q] # "done"
  <2>1. Prepares(q)
    BY <1>3, FinishOnly
  <2> QED
    BY <2>1, PreparesTreats
<1> QED
  BY <1>2, <1>3

-----------------------------------------------------------------------------
(* The theorems.                                                           *)
IngressInv ==
    /\ FlowTypeOK /\ HeldOK /\ CountInv
    /\ RecentInv /\ RecentFlowsKept
    /\ BootInv /\ PacketTypes /\ ArrivalInv
    /\ PayloadsRestorable /\ TreatedInv

\* The empty table of a process that has yet to read its command line.
LEMMA InitIngressInv ==
    ASSUME Init
    PROVE  IngressInv
<1>1. /\ clock = 0 /\ stage = [p \in Packets |-> "new"] /\ table = << >>
      /\ record = [p \in Packets |-> [last |-> 0, count |-> 0]]
      /\ held = [p \in Packets |-> Nobody] /\ local = [p \in Packets |-> 0]
      /\ seen = [c \in Conversations |-> Never] /\ disturbed = {} /\ shared = {}
  BY DEF Init, FlowInit
<1>2. DOMAIN table = {} /\ Range(table) = {}
  BY <1>1 DEF Range
<1>3. TableOK(table)
  <2>1. IsFiniteSet(DOMAIN table) /\ Cardinality(DOMAIN table) = 0
    BY <1>2, FS_EmptySet
  <2> QED
    BY <1>2, <2>1, FlowAssumption DEF TableOK
<1>4. FlowTypeOK
  BY <1>1, <1>3 DEF FlowTypeOK, FlowStages, Never
<1>5. HeldOK
  BY <1>1, <1>2 DEF HeldOK
<1>6. CountInv
  <2>1. Inside = {}
    BY <1>1 DEF Inside
  <2>2. ASSUME NEW r \in Packets PROVE Counted(r) = {} /\ record[r].count = 0
    BY <1>1, CallsAssumption DEF Counted
  <2>3. \A r \in Packets : Counted(r) = {} /\ Cardinality(Counted(r)) = 0 /\ record[r].count = 0
    BY <2>2, FS_EmptySet
  <2> QED
    BY <1>1, <2>1, <2>3 DEF CountInv
<1>7. RecentInv /\ RecentFlowsKept
  <2>1. Inside = {}
    BY <1>1 DEF Inside
  <2>2. RecentInv
    BY <1>1, <1>2, <2>1 DEF RecentInv, Never
  <2>3. RecentFlowsKept
    BY <1>1, <1>3 DEF RecentFlowsKept, TableOK
  <2> QED
    BY <2>2, <2>3
<1>8. BootInv
  BY DEF Init, StartInit, BootInv
<1>9. PacketTypes /\ ArrivalInv
  BY <1>1 DEF Init, PacketTypes, OfPackets, ArrivalInv
<1>10. PayloadsRestorable
  <2>1. ASSUME NEW p \in Packets
        PROVE  payload[p] = Packet[p].payload /\ size[p] = Packet[p].size
               /\ Packet[p].payload.size \in Nat
    BY PacketAssumption DEF Init
  <2> QED
    BY <2>1 DEF PayloadsRestorable
<1>11. TreatedInv
  BY <1>1 DEF TreatedInv, Prepared
<1> QED
  BY <1>4, <1>5, <1>6, <1>7, <1>8, <1>9, <1>10, <1>11 DEF IngressInv

\* The parts of the invariant, step by step.
LEMMA NextIngressInv ==
    ASSUME IngressInv, [Next]_vars
    PROVE  IngressInv'
<1>1. FlowStep
  BY StepsOfIngress DEF IngressInv
<1>2. FlowTypeOK' /\ HeldOK'
  BY <1>1, StepFlowTypeOK DEF IngressInv
<1>3. CountInv'
  BY <1>1, StepCountInv DEF IngressInv
<1>4. RecentInv' /\ RecentFlowsKept'
  BY <1>1, StepRecentInv, StepRecentFlows DEF IngressInv
<1>5. BootInv' /\ PacketTypes' /\ ArrivalInv'
  BY StepBootInv, StepArrivalInv DEF IngressInv
<1>6. PayloadsRestorable'
  BY StepPayloads DEF IngressInv
<1>7. TreatedInv'
  BY StepTreatedInv DEF IngressInv
<1> QED
  BY <1>2, <1>3, <1>4, <1>5, <1>6, <1>7 DEF IngressInv

\* The inductive invariant of the way in: the types of the flow table, what the
\* calls inside update() know of its counts and ages, and the configuration.
THEOREM Ingressed == Spec => []IngressInv
<1>1. Init => IngressInv
  BY InitIngressInv
<1>2. IngressInv /\ [Next]_vars => IngressInv'
  BY NextIngressInv
<1> QED
  BY <1>1, <1>2, PTL DEF Spec

\* The flow table holds at most MaxFlows flows and forgets only what expired or
\* was idle longest (_evict_oldest, flow_tracker.py 237-239), however the calls of
\* update() interleave, but for the flows those calls disturb.
THEOREM RecentKept == Spec => []RecentFlowsKept
<1>1. IngressInv => RecentFlowsKept
  BY DEF IngressInv
<1> QED
  BY <1>1, Ingressed, PTL

\* One record per conversation in either direction (FlowKey.from_packet), and a
\* record's count is exact unless two calls held it at once, and then too low by
\* no more than loses the first (FlowRecord.update without the lock).
THEOREM CountsHonest == Spec => []FlowCounts
<1>1. IngressInv => FlowCounts
  BY CountsFollow DEF IngressInv
<1> QED
  BY <1>1, Ingressed, PTL

\* One decompress() gives back what the sender wrote, and no payload grows
\* (compress() and process(), stage 3).
THEOREM PayloadsBack == Spec => []PayloadsRestorable
<1>1. IngressInv => PayloadsRestorable
  BY DEF IngressInv
<1> QED
  BY <1>1, Ingressed, PTL

\* A process serves packets only with a valid key and a sound policy, and every
\* packet gets its class and its value from the first rule of the policy in force
\* that describes it (main.py, classify(), get_coefficient(), priority_hint()).
THEOREM ServedAsConfigured == Spec => []TreatedAsConfigured
<1>1. IngressInv => TreatedAsConfigured
  BY DEF IngressInv, BootInv, TreatedInv, TreatedAsConfigured, Admissible
<1> QED
  BY <1>1, Ingressed, PTL

-----------------------------------------------------------------------------
(* Capture: lists of packets.                                               *)

\* A list in the order of arrival.
Ascending(list) == \A i, j \in DOMAIN list : i < j => list[i] < list[j]

\* The first of a list leaves it, and it alone.
LEMMA PopFirst ==
    ASSUME NEW list \in Seq(Nat), list # << >>
    PROVE  LET rest == RemoveAt(list, NextOf(list))
               first == list[NextOf(list)]
           IN  /\ rest \in Seq(Nat) /\ Len(rest) = Len(list) - 1 /\ first \in Nat
               /\ \A i \in DOMAIN rest : i + 1 \in DOMAIN list /\ rest[i] = list[i + 1]
               /\ ToSet(list) = ToSet(rest) \cup {first}
<1> DEFINE rest == SubSeq(list, 2, Len(list))
<1>1. Len(list) \in Nat \ {0} /\ DOMAIN list = 1..Len(list) /\ \A i \in 1..Len(list) : list[i] \in Nat
  BY EmptySeq, LenProperties, ElementOfSeq
<1>2. rest \in Seq(Nat) /\ Len(rest) = Len(list) - 1 /\ \A i \in 1..(Len(list) - 1) : rest[i] = list[i + 1]
  BY <1>1, SubSeqProperties
<1>3. RemoveAt(list, NextOf(list)) = rest
  <2>1. SubSeq(list, 1, 0) = << >>
    BY SubSeqEmpty
  <2>2. RemoveAt(list, NextOf(list)) = << >> \o rest
    BY <2>1 DEF RemoveAt, NextOf
  <2> QED
    BY <1>2, <2>2, ConcatEmptySeq
<1> HIDE DEF rest
<1>4. DOMAIN rest = 1..(Len(list) - 1)
  BY <1>2, LenProperties
<1>5. ToSet(list) = ToSet(rest) \cup {list[1]}
  <2>1. ToSet(list) = {list[i] : i \in 1..Len(list)} /\ ToSet(rest) = {rest[i] : i \in 1..(Len(list) - 1)}
    BY <1>1, <1>4 DEF ToSet
  <2>2. ASSUME NEW i \in 1..Len(list) PROVE list[i] \in ToSet(rest) \cup {list[1]}
    <3>1. CASE i = 1
      BY <3>1
    <3>2. CASE i # 1
      <4>1. i - 1 \in 1..(Len(list) - 1) /\ rest[i - 1] = list[i]
        BY <1>1, <1>2, <3>2
      <4> QED
        BY <2>1, <4>1
    <3> QED
      BY <3>1, <3>2
  <2>3. ASSUME NEW i \in 1..(Len(list) - 1) PROVE rest[i] \in ToSet(list)
    <3>1. i + 1 \in 1..Len(list) /\ rest[i] = list[i + 1]
      BY <1>1, <1>2
    <3> QED
      BY <2>1, <3>1
  <2>4. list[1] \in ToSet(list)
    BY <1>1, <2>1
  <2> QED
    BY <2>1, <2>2, <2>3, <2>4
<1>6. list[NextOf(list)] = list[1]
  BY DEF NextOf
<1>7. \A i \in DOMAIN rest : i + 1 \in DOMAIN list /\ rest[i] = list[i + 1]
  BY <1>1, <1>2, <1>4
<1>8. list[1] \in Nat
  BY <1>1
<1> HIDE DEF NextOf
<1> QED
  BY <1>2, <1>3, <1>5, <1>6, <1>7, <1>8

\* The first of an ordered list is before all others.
LEMMA PopOrdered ==
    ASSUME NEW list \in Seq(Nat), list # << >>, Ascending(list)
    PROVE  LET rest == RemoveAt(list, NextOf(list))
               first == list[NextOf(list)]
           IN  /\ Ascending(rest) /\ \A y \in ToSet(rest) : first < y
               /\ ToSet(rest) = ToSet(list) \ {first}
<1> DEFINE rest == RemoveAt(list, NextOf(list))
           first == list[NextOf(list)]
<1>1. /\ rest \in Seq(Nat) /\ Len(rest) = Len(list) - 1 /\ first \in Nat
      /\ \A i \in DOMAIN rest : i + 1 \in DOMAIN list /\ rest[i] = list[i + 1]
      /\ ToSet(list) = ToSet(rest) \cup {first}
  BY PopFirst
<1>2. first = list[1] /\ 1 \in DOMAIN list
  BY LenProperties, EmptySeq DEF NextOf
<1>3. \A i \in DOMAIN rest : i \in Nat \ {0} /\ rest[i] \in Nat
  BY <1>1, LenProperties, ElementOfSeq
<1> HIDE DEF rest, first
<1>4. ASSUME NEW i \in DOMAIN rest, NEW j \in DOMAIN rest, i < j PROVE rest[i] < rest[j]
  <2>1. i + 1 < j + 1
    BY <1>3, <1>4
  <2> QED
    BY <1>1, <2>1 DEF Ascending
<1>5. ASSUME NEW i \in DOMAIN rest PROVE first < rest[i]
  <2>1. 1 < i + 1
    BY <1>3
  <2> QED
    BY <1>1, <1>2, <2>1 DEF Ascending
<1>6. \A y \in ToSet(rest) : first < y /\ y \in Nat
  BY <1>3, <1>5 DEF ToSet
<1>7. first \notin ToSet(rest)
  BY <1>1, <1>6
<1> QED
  BY <1>1, <1>4, <1>6, <1>7 DEF Ascending, rest, first

\* Appending packets to a list.
LEMMA JoinLists ==
    ASSUME NEW s \in Seq(Nat), NEW t \in Seq(Nat), Ascending(s), Ascending(t),
           \A x \in ToSet(s), y \in ToSet(t) : x < y
    PROVE  /\ s \o t \in Seq(Nat) /\ Len(s \o t) = Len(s) + Len(t)
           /\ ToSet(s \o t) = ToSet(s) \cup ToSet(t) /\ Ascending(s \o t)
<1>1. Len(s) \in Nat /\ DOMAIN s = 1..Len(s) /\ Len(t) \in Nat /\ DOMAIN t = 1..Len(t)
  BY LenProperties
<1>2. /\ s \o t \in Seq(Nat) /\ Len(s \o t) = Len(s) + Len(t)
      /\ \A i \in 1..(Len(s) + Len(t)) : (s \o t)[i] = IF i <= Len(s) THEN s[i] ELSE t[i - Len(s)]
  BY ConcatProperties
<1>3. DOMAIN (s \o t) = 1..(Len(s) + Len(t))
  BY <1>2, LenProperties
<1> DEFINE u == s \o t
<1> HIDE DEF u
<1>4. \A i \in DOMAIN u : i <= Len(s) => i \in DOMAIN s /\ u[i] = s[i]
  BY <1>1, <1>2, <1>3 DEF u
<1>5. \A i \in DOMAIN u : ~(i <= Len(s)) => i - Len(s) \in DOMAIN t /\ u[i] = t[i - Len(s)]
  BY <1>1, <1>2, <1>3 DEF u
<1>6. Ascending(u)
  <2> SUFFICES ASSUME NEW i \in DOMAIN u, NEW j \in DOMAIN u, i < j PROVE u[i] < u[j]
    BY DEF Ascending
  <2>1. i \in Nat /\ j \in Nat
    BY <1>1, <1>3 DEF u
  <2>2. CASE j <= Len(s)
    BY <1>1, <1>4, <2>1, <2>2 DEF Ascending
  <2>3. CASE ~(j <= Len(s)) /\ i <= Len(s)
    BY <1>4, <1>5, <2>3 DEF ToSet
  <2>4. CASE ~(i <= Len(s))
    <3>1. i - Len(s) < j - Len(s) /\ ~(j <= Len(s))
      BY <1>1, <2>1, <2>4
    <3> QED
      BY <1>5, <2>4, <3>1 DEF Ascending
  <2> QED
    BY <2>2, <2>3, <2>4
<1>7. ToSet(u) = ToSet(s) \cup ToSet(t)
  <2>1. ASSUME NEW i \in DOMAIN s PROVE i \in DOMAIN u /\ u[i] = s[i]
    BY <1>1, <1>3, <1>4 DEF u
  <2>2. ASSUME NEW j \in DOMAIN t PROVE j + Len(s) \in DOMAIN u /\ u[j + Len(s)] = t[j]
    <3>1. j + Len(s) \in DOMAIN u /\ ~(j + Len(s) <= Len(s)) /\ (j + Len(s)) - Len(s) = j
      BY <1>1, <1>3 DEF u
    <3> QED
      BY <1>5, <3>1
  <2>3. \A i \in DOMAIN u : u[i] \in ToSet(s) \cup ToSet(t)
    BY <1>4, <1>5 DEF ToSet
  <2> QED
    BY <2>1, <2>2, <2>3 DEF ToSet
<1> QED
  BY <1>2, <1>6, <1>7 DEF u

\* What two lists hold together.
LEMMA ToSetConcat ==
    ASSUME NEW s \in Seq(Nat), NEW t \in Seq(Nat)
    PROVE  ToSet(s \o t) = ToSet(s) \cup ToSet(t)
<1>1. Len(s) \in Nat /\ DOMAIN s = 1..Len(s) /\ Len(t) \in Nat /\ DOMAIN t = 1..Len(t)
  BY LenProperties
<1>2. /\ Len(s \o t) = Len(s) + Len(t) /\ s \o t \in Seq(Nat)
      /\ \A i \in 1..(Len(s) + Len(t)) : (s \o t)[i] = IF i <= Len(s) THEN s[i] ELSE t[i - Len(s)]
  BY ConcatProperties
<1>3. DOMAIN (s \o t) = 1..(Len(s) + Len(t))
  BY <1>2, LenProperties
<1> DEFINE u == s \o t
<1> HIDE DEF u
<1>4. \A i \in DOMAIN u : IF i <= Len(s) THEN i \in DOMAIN s /\ u[i] = s[i]
                                          ELSE i - Len(s) \in DOMAIN t /\ u[i] = t[i - Len(s)]
  BY <1>1, <1>2, <1>3 DEF u
<1>5. \A i \in DOMAIN s : i \in DOMAIN u /\ u[i] = s[i]
  BY <1>1, <1>3, <1>4 DEF u
<1>6. \A j \in DOMAIN t : j + Len(s) \in DOMAIN u /\ u[j + Len(s)] = t[j]
  <2> SUFFICES ASSUME NEW j \in DOMAIN t PROVE j + Len(s) \in DOMAIN u /\ u[j + Len(s)] = t[j]
    OBVIOUS
  <2>1. j + Len(s) \in DOMAIN u /\ ~(j + Len(s) <= Len(s)) /\ (j + Len(s)) - Len(s) = j
    BY <1>1, <1>3 DEF u
  <2> QED
    BY <1>4, <2>1
<1>7. ToSet(u) = ToSet(s) \cup ToSet(t)
  BY <1>4, <1>5, <1>6 DEF ToSet
<1> QED
  BY <1>7 DEF u

\* Handing out a packet later than all others.
LEMMA AppendOrdered ==
    ASSUME NEW s \in Seq(Nat), NEW x \in Nat, Ascending(s), \A y \in ToSet(s) : y < x
    PROVE  /\ Append(s, x) \in Seq(Nat) /\ Len(Append(s, x)) = Len(s) + 1
           /\ ToSet(Append(s, x)) = ToSet(s) \cup {x} /\ Ascending(Append(s, x))
<1>1. /\ <<x>> \in Seq(Nat) /\ Len(<<x>>) = 1 /\ DOMAIN <<x>> = {1} /\ <<x>>[1] = x
  OBVIOUS
<1>2. ToSet(<<x>>) = {x}
  BY <1>1 DEF ToSet
<1>3. Ascending(<<x>>)
  BY <1>1 DEF Ascending
<1>4. Append(s, x) = s \o <<x>>
  BY AppendIsConcat
<1> QED
  BY <1>1, <1>2, <1>3, <1>4, JoinLists

\* A batch holds the packets between two counts, in order.
LEMMA NumbersList ==
    ASSUME NEW from \in Nat, NEW to \in Nat, from <= to
    PROVE  /\ Numbers(from, to) \in Seq(Nat) /\ Len(Numbers(from, to)) = to - from
           /\ ToSet(Numbers(from, to)) = (from + 1)..to /\ Ascending(Numbers(from, to))
<1>1. to - from \in Nat /\ \A i \in 1..(to - from) : from + i \in Nat
  OBVIOUS
<1>2. Numbers(from, to) \in [1..(to - from) -> Nat]
  BY <1>1 DEF Numbers
<1>3. Numbers(from, to) \in Seq(Nat) /\ Len(Numbers(from, to)) = to - from
  BY <1>1, <1>2
<1>4. ToSet(Numbers(from, to)) = (from + 1)..to
  <2>1. ToSet(Numbers(from, to)) = {from + i : i \in 1..(to - from)}
    BY DEF ToSet, Numbers
  <2>2. ASSUME NEW n \in (from + 1)..to PROVE n - from \in 1..(to - from) /\ n = from + (n - from)
    OBVIOUS
  <2> QED
    BY <2>1, <2>2
<1>5. Ascending(Numbers(from, to))
  BY <1>1 DEF Ascending, Numbers
<1> QED
  BY <1>3, <1>4, <1>5

\* The callbacks append each readable packet, once.
LEMMA InOrderList ==
    ASSUME NEW S \in SUBSET Nat, IsFiniteSet(S), NEW list \in InOrder(S)
    PROVE  /\ list \in Seq(Nat) /\ Len(list) = Cardinality(S)
           /\ ToSet(list) = S /\ Ascending(list)
<1> DEFINE n == Cardinality(S)
<1>1. n \in Nat
  BY FS_CardinalityType
<1>2. list \in [1..n -> S] /\ Ascending(list)
  BY DEF InOrder, Ascending
<1>3. IsFiniteSet(1..n) /\ Cardinality(1..n) = n
  BY <1>1, FS_Interval
<1> HIDE DEF n
<1>4. list \in Injection(1..n, S)
  <2>1. ASSUME NEW i \in 1..n, NEW j \in 1..n, list[i] = list[j] PROVE i = j
    <3>1. DOMAIN list = 1..n /\ list[i] \in Nat
      BY <1>2
    <3>2. ~(i < j) /\ ~(j < i)
      BY <1>2, <2>1, <3>1 DEF Ascending
    <3> QED
      BY <1>1, <3>2
  <2> QED
    BY <1>2, <2>1 DEF Injection, IsInjective
<1>5. list \in Surjection(1..n, S)
  BY <1>3, <1>4, FS_Injection DEF n
<1>6. ToSet(list) = S
  BY <1>2, <1>5 DEF Surjection, ToSet
<1>7. list \in Seq(Nat) /\ Len(list) = n
  <2>1. list \in [1..n -> Nat]
    BY <1>2
  <2> QED
    BY <1>1, <2>1
<1> QED
  BY <1>2, <1>6, <1>7 DEF n

-----------------------------------------------------------------------------
(* Capture: the inductive invariant.                                        *)

Out == ToSet(given)
Waiting == ToSet(batch)
Unread == (1..fetched) \ (Out \cup Waiting \cup discarded)

CaptureTypeOK ==
    /\ backend \in Backends
    /\ arrived \in Nat /\ fetched \in Nat /\ sessions \in Nat /\ fetched <= arrived
    /\ batch \in Seq(Nat) /\ given \in Seq(Nat)
    /\ Out \subseteq 1..fetched /\ Waiting \subseteq 1..fetched
    /\ discarded \subseteq 1..fetched /\ accepted \subseteq 1..fetched

\* What has been handed out and what waits, one after the other, is in order.
InArrivalOrder ==
    /\ Ascending(given) /\ Ascending(batch)
    /\ \A x \in Out, y \in Waiting : x < y

\* Every packet taken has one fate, and the counters count them.
OneFate ==
    /\ Out \cap discarded = {} /\ Waiting \cap discarded = {}
    /\ Unread \subseteq Unparsable /\ dropped = Cardinality(Unread)
    /\ captured = Len(given) + (IF backend = "nfqueue" THEN Len(batch) ELSE 0)

\* NFQUEUE: the kernel is told about the unreadable and the handled, only.
KernelTold ==
    /\ ToSet(hand) \subseteq Out
    /\ backend = "nfqueue" => /\ discarded = {} /\ Unread \subseteq accepted
                              /\ accepted \cap Waiting = {}

\* Where packets can wait: they leave the loop only with it, and in a first
\* session none waits when select() is called.
WhereTheyWait ==
    /\ gen # "ended" \/ discarded # {} => sessions > 0
    /\ batch # << >> => \/ gen \in {"draining", "yielded"}
                        \/ backend = "nfqueue" /\ (gen = "closed" \/ sessions > 1)
    /\ backend = "callable" => /\ discarded = {} /\ Len(batch) <= 1
                               /\ gen = "yielded" => batch = << >>

OnlyNfqueueBinds == bound => backend = "nfqueue"

CaptureInv ==
    /\ CaptureTypeOK /\ InArrivalOrder /\ OneFate /\ KernelTold /\ WhereTheyWait
    /\ OnlyNfqueueBinds

\* What waits or is in the loop's hand can still be accepted, or was stranded,
\* and what the loop is done with has its verdict.
Judged ==
    /\ gen # "yielded" => hand = << >>
    /\ backend = "nfqueue" =>
         /\ live \subseteq 1..fetched /\ stranded \subseteq 1..fetched
         /\ live \cap stranded = {} /\ accepted \cap (ToSet(hand) \cup stranded) = {}
         /\ Waiting \cup ToSet(hand) \subseteq live \cup stranded
         /\ Out \ (ToSet(hand) \cup unjudged \cup stranded) \subseteq accepted

USE DEF verdicts

LEMMA InitCaptureInv == CaptureInit => CaptureInv
<1> SUFFICES ASSUME CaptureInit PROVE CaptureInv
  OBVIOUS
<1>1. /\ gen = "ended" /\ batch = << >> /\ hand = << >> /\ given = << >> /\ fetched = 0
      /\ accepted = {} /\ discarded = {} /\ sessions = 0 /\ captured = 0 /\ dropped = 0
      /\ backend \in Backends /\ arrived \in {0, MaxPackets}
  BY DEF CaptureInit
<1>2. ToSet(<< >>) = {} /\ Ascending(<< >>) /\ << >> \in Seq(Nat) /\ Len(<< >>) = 0
  BY EmptySeq DEF ToSet, Ascending
<1>3. Out = {} /\ Waiting = {} /\ Unread = {}
  BY <1>1, <1>2 DEF Out, Waiting, Unread
<1>4. CaptureTypeOK
  BY <1>1, <1>2, <1>3, CaptureAssumption DEF CaptureTypeOK
<1>5. InArrivalOrder
  BY <1>1, <1>2, <1>3 DEF InArrivalOrder
<1>6. OneFate
  BY <1>1, <1>2, <1>3, FS_EmptySet DEF OneFate
<1>7. KernelTold /\ WhereTheyWait
  BY <1>1, <1>2, <1>3 DEF KernelTold, WhereTheyWait
<1>8. OnlyNfqueueBinds
  BY DEF CaptureInit, OnlyNfqueueBinds
<1> QED
  BY <1>4, <1>5, <1>6, <1>7, <1>8 DEF CaptureInv

\* A step that moves no packet.
LEMMA QuietCapture ==
    ASSUME CaptureInv, arrived' \in Nat, fetched <= arrived', sessions' \in Nat,
           UNCHANGED <<backend, fetched, batch, stats, given, discarded>>,
           accepted' \subseteq 1..fetched, ToSet(hand') \subseteq Out,
           backend = "nfqueue" => accepted \subseteq accepted' /\ accepted' \cap Waiting = {}
    PROVE  CaptureTypeOK' /\ InArrivalOrder' /\ OneFate' /\ KernelTold'
<1>1. Out' = Out /\ Waiting' = Waiting /\ Unread' = Unread
  BY DEF Out, Waiting, Unread
<1>2. CaptureTypeOK'
  BY <1>1 DEF CaptureInv, CaptureTypeOK
<1>3. InArrivalOrder'
  BY <1>1 DEF CaptureInv, InArrivalOrder, Ascending
<1>4. OneFate'
  BY <1>1 DEF CaptureInv, OneFate, stats
<1>5. KernelTold'
  BY <1>1 DEF CaptureInv, KernelTold
<1> QED
  BY <1>2, <1>3, <1>4, <1>5

\* start(), stop() and the waiting of the generator.
LEMMA StepLifecycle ==
    ASSUME CaptureInv,
           \/ Arrive \/ Start \/ Stop \/ Unbind \/ Begin \/ EndLoop \/ Exhausted \/ Sniff
           \/ Select \/ SocketGone \/ Drained
    PROVE  CaptureInv'
<1>1. /\ arrived' \in Nat /\ fetched <= arrived' /\ sessions' \in Nat
      /\ UNCHANGED <<backend, fetched, batch, hand, stats, accepted, given, discarded>>
  BY DEF CaptureInv, CaptureTypeOK, Arrive, Start, Stop, Unbind, Begin, EndLoop, Exhausted, Sniff,
         Select, SocketGone, Drained, Over
<1>2. accepted' \subseteq 1..fetched /\ ToSet(hand') \subseteq Out
  BY <1>1 DEF CaptureInv, CaptureTypeOK, KernelTold
<1>3. CaptureTypeOK' /\ InArrivalOrder' /\ OneFate' /\ KernelTold'
  BY <1>1, <1>2, QuietCapture DEF CaptureInv, KernelTold
<1>4. WhereTheyWait'
  <2>1. CASE Arrive \/ Stop \/ Unbind
    BY <1>1, <2>1 DEF CaptureInv, WhereTheyWait, Arrive, Stop, Unbind
  <2>2. CASE Start
    BY <1>1, <2>2 DEF CaptureInv, CaptureTypeOK, WhereTheyWait, Start, Over
  <2>3. CASE Begin \/ EndLoop \/ Exhausted \/ Sniff \/ SocketGone \/ Drained
    BY <1>1, <2>3 DEF CaptureInv, WhereTheyWait, Begin, EndLoop, Exhausted, Sniff, SocketGone,
                      Drained, Move
  <2>4. CASE Select
    BY <1>1, <2>4 DEF CaptureInv, WhereTheyWait, Select, Move
  <2> QED
    BY <2>1, <2>2, <2>3, <2>4
<1>5. OnlyNfqueueBinds'
  BY <1>1 DEF CaptureInv, OnlyNfqueueBinds, Arrive, Start, Stop, Unbind, Begin, EndLoop, Exhausted,
         Sniff, Select, SocketGone, Drained, lifecycle
<1> QED
  BY <1>3, <1>4, <1>5 DEF CaptureInv

\* The body of the loop ends.
LEMMA StepHandle == CaptureInv /\ Handle => CaptureInv'
<1> SUFFICES ASSUME CaptureInv, Handle PROVE CaptureInv'
  OBVIOUS
<1>1. /\ gen = "yielded" /\ gen' = "draining" /\ hand' = << >>
      /\ UNCHANGED <<backend, arrived, fetched, batch, stats, given, discarded, sessions>>
  BY DEF Handle, Move
<1>2. \/ accepted' = accepted
      \/ /\ backend = "nfqueue" /\ accepted \subseteq accepted'
         /\ accepted' \subseteq accepted \cup ToSet(hand)
  BY DEF Handle, Accept, Refrain
<1>3. accepted' \subseteq 1..fetched /\ accepted \subseteq accepted'
  BY <1>2 DEF CaptureInv, CaptureTypeOK, KernelTold
<1>4. Out \cap Waiting = {}
  BY DEF CaptureInv, CaptureTypeOK, InArrivalOrder
<1>5. ToSet(hand') \subseteq Out
  BY <1>1 DEF ToSet
<1>6. backend = "nfqueue" => accepted' \cap Waiting = {}
  BY <1>2, <1>4 DEF CaptureInv, KernelTold
<1>7. CaptureTypeOK' /\ InArrivalOrder' /\ OneFate' /\ KernelTold'
  <2>1. arrived' \in Nat /\ fetched <= arrived' /\ sessions' \in Nat
    BY <1>1 DEF CaptureInv, CaptureTypeOK
  <2> QED
    BY <1>1, <1>3, <1>5, <1>6, <2>1, QuietCapture
<1>8. WhereTheyWait'
  BY <1>1 DEF CaptureInv, WhereTheyWait
<1>9. OnlyNfqueueBinds'
  BY DEF CaptureInv, OnlyNfqueueBinds, Handle, lifecycle
<1> QED
  BY <1>7, <1>8, <1>9 DEF CaptureInv

\* What waited is let go: the loop or the generator is left with it.
LEMMA LetGo ==
    ASSUME CaptureInv, backend # "nfqueue", batch' = << >>, discarded' = discarded \cup Waiting,
           UNCHANGED <<backend, bound, arrived, fetched, stats, accepted, given, sessions>>,
           ToSet(hand') \subseteq Out, gen # "ended", backend = "callable" => batch = << >>
    PROVE  CaptureInv'
<1>1. ToSet(<< >>) = {} /\ Ascending(<< >>) /\ << >> \in Seq(Nat) /\ Len(<< >>) = 0
  BY EmptySeq DEF ToSet, Ascending
<1>2. Out \cap Waiting = {}
  BY DEF CaptureInv, CaptureTypeOK, InArrivalOrder
<1>3. Out' = Out /\ Waiting' = {}
  BY <1>1 DEF Out, Waiting
<1>4. Unread' = Unread
  BY <1>3 DEF Unread
<1>5. CaptureTypeOK'
  BY <1>1, <1>3 DEF CaptureInv, CaptureTypeOK
<1>6. InArrivalOrder'
  BY <1>1, <1>3 DEF CaptureInv, InArrivalOrder, Ascending
<1>7. OneFate'
  BY <1>1, <1>2, <1>3, <1>4 DEF CaptureInv, OneFate, stats
<1>8. KernelTold'
  BY <1>3 DEF CaptureInv, KernelTold
<1>9. backend = "callable" => Waiting = {}
  BY <1>1 DEF Waiting
<1>10. WhereTheyWait'
  BY <1>1, <1>9 DEF CaptureInv, WhereTheyWait
<1>11. OnlyNfqueueBinds'
  BY DEF CaptureInv, OnlyNfqueueBinds
<1> QED
  BY <1>5, <1>6, <1>7, <1>8, <1>10, <1>11 DEF CaptureInv

LEMMA StepGiveUp == CaptureInv /\ GiveUp => CaptureInv'
<1> SUFFICES ASSUME CaptureInv, GiveUp PROVE CaptureInv'
  OBVIOUS
<1>1. discarded' = discarded \cup Waiting /\ batch' = << >>
  BY DEF GiveUp, Waiting
<1>2. ToSet(hand') \subseteq Out
  BY DEF CaptureInv, KernelTold, GiveUp
<1> QED
  BY <1>1, <1>2, LetGo DEF GiveUp, Move, lifecycle

LEMMA StepLeave == CaptureInv /\ Leave => CaptureInv'
<1> SUFFICES ASSUME CaptureInv, Leave PROVE CaptureInv'
  OBVIOUS
<1>1. /\ gen = "yielded" /\ gen' = "closed" /\ hand' = << >>
      /\ UNCHANGED <<backend, bound, arrived, fetched, stats, accepted, given, sessions>>
  BY DEF Leave, Refrain, Move, lifecycle
<1>2. ToSet(hand') \subseteq Out
  BY <1>1 DEF ToSet
<1>3. CASE backend # "nfqueue"
  <2>1. discarded' = discarded \cup Waiting /\ batch' = << >>
    BY <1>3 DEF Leave, Waiting
  <2>2. backend = "callable" => batch = << >>
    BY <1>1 DEF CaptureInv, WhereTheyWait
  <2> QED
    BY <1>1, <1>2, <1>3, <2>1, <2>2, LetGo
<1>4. CASE backend = "nfqueue"
  <2>1. discarded' = discarded /\ batch' = batch
    BY <1>4 DEF Leave
  <2>2. CaptureTypeOK' /\ InArrivalOrder' /\ OneFate' /\ KernelTold'
    BY <1>1, <1>2, <2>1, QuietCapture DEF CaptureInv, CaptureTypeOK, KernelTold
  <2>3. WhereTheyWait'
    BY <1>1, <1>4, <2>1 DEF CaptureInv, WhereTheyWait
  <2>4. OnlyNfqueueBinds'
    BY <1>1 DEF CaptureInv, OnlyNfqueueBinds
  <2> QED
    BY <2>2, <2>3, <2>4 DEF CaptureInv
<1> QED
  BY <1>3, <1>4

\* The first packet that waits is taken: what the steps that take it know.
LEMMA Taken ==
    ASSUME CaptureInv, batch # << >>, batch' = RemoveAt(batch, NextOf(batch))
    PROVE  LET first == batch[NextOf(batch)]
           IN  /\ first \in Waiting /\ first \in 1..fetched /\ batch' \in Seq(Nat)
               /\ Waiting' = Waiting \ {first} /\ Len(batch') = Len(batch) - 1
               /\ Ascending(batch') /\ \A y \in Waiting' : first < y
<1>1. batch \in Seq(Nat) /\ Ascending(batch) /\ Waiting \subseteq 1..fetched
  BY DEF CaptureInv, CaptureTypeOK, InArrivalOrder
<1>2. Waiting' = ToSet(batch')
  BY DEF Waiting
<1> DEFINE first == batch[NextOf(batch)]
           rest == RemoveAt(batch, NextOf(batch))
<1>3. /\ rest \in Seq(Nat) /\ Len(rest) = Len(batch) - 1 /\ first \in ToSet(batch)
      /\ ToSet(rest) = ToSet(batch) \ {first} /\ Ascending(rest)
      /\ \A y \in ToSet(rest) : first < y
  BY <1>1, PopFirst, PopOrdered
<1>4. batch' = rest
  OBVIOUS
<1> HIDE DEF rest, first
<1>5. first \in Waiting /\ first \in 1..fetched /\ ToSet(batch) = Waiting
  BY <1>1, <1>3 DEF Waiting
<1>6. /\ batch' \in Seq(Nat) /\ Waiting' = Waiting \ {first} /\ Len(batch') = Len(batch) - 1
      /\ Ascending(batch') /\ \A y \in Waiting' : first < y
  BY <1>2, <1>3, <1>4, <1>5
<1> QED
  BY <1>5, <1>6 DEF first

\* The packets of no fate are those that have been taken and found unreadable.
LEMMA UnreadFinite ==
    ASSUME CaptureInv
    PROVE  IsFiniteSet(Unread) /\ Cardinality(Unread) \in Nat
<1>1. IsFiniteSet(1..fetched)
  BY FS_Interval DEF CaptureInv, CaptureTypeOK
<1>2. IsFiniteSet(Unread)
  BY <1>1, FS_Subset DEF Unread
<1> QED
  BY <1>2, FS_CardinalityType

LEMMA StepSkip == CaptureInv /\ Skip => CaptureInv'
<1> SUFFICES ASSUME CaptureInv, Skip PROVE CaptureInv'
  OBVIOUS
<1> DEFINE first == batch[NextOf(batch)]
<1>1. /\ gen = "draining" /\ backend \in {"sniff", "file"} /\ dropped' = dropped + 1
      /\ batch # << >> /\ batch' = RemoveAt(batch, NextOf(batch)) /\ first \in Unparsable
      /\ UNCHANGED <<backend, gen, arrived, fetched, hand, captured, accepted, given,
                     discarded, sessions>>
  BY DEF Skip
<1>2. /\ first \in Waiting /\ first \in 1..fetched /\ batch' \in Seq(Nat)
      /\ Waiting' = Waiting \ {first} /\ Ascending(batch')
  BY <1>1, Taken
<1> HIDE DEF first
<1>3. Out' = Out
  BY <1>1 DEF Out
<1>4. first \notin Out /\ first \notin discarded
  BY <1>2 DEF CaptureInv, CaptureTypeOK, InArrivalOrder, OneFate
<1>5. Unread' = Unread \cup {first} /\ first \notin Unread
  BY <1>1, <1>2, <1>3, <1>4 DEF Unread
<1>6. IsFiniteSet(Unread) /\ Cardinality(Unread') = Cardinality(Unread) + 1
  BY <1>5, UnreadFinite, FS_AddElement
<1>7. CaptureTypeOK'
  BY <1>1, <1>2, <1>3 DEF CaptureInv, CaptureTypeOK
<1>8. InArrivalOrder'
  BY <1>1, <1>2, <1>3 DEF CaptureInv, InArrivalOrder, Ascending
<1>9. OneFate'
  BY <1>1, <1>2, <1>3, <1>5, <1>6 DEF CaptureInv, OneFate
<1>10. KernelTold' /\ WhereTheyWait'
  BY <1>1, <1>3 DEF CaptureInv, KernelTold, WhereTheyWait
<1>11. OnlyNfqueueBinds'
  BY DEF CaptureInv, OnlyNfqueueBinds, Skip, lifecycle
<1> QED
  BY <1>7, <1>8, <1>9, <1>10, <1>11 DEF CaptureInv

LEMMA StepYield == CaptureInv /\ Yield => CaptureInv'
<1> SUFFICES ASSUME CaptureInv, Yield PROVE CaptureInv'
  OBVIOUS
<1> DEFINE first == batch[NextOf(batch)]
<1>1. /\ gen = "draining" /\ gen' = "yielded" /\ batch # << >>
      /\ batch' = RemoveAt(batch, NextOf(batch)) /\ hand' = <<first>>
      /\ given' = Append(given, first)
      /\ captured' = captured + (IF backend = "nfqueue" THEN 0 ELSE 1)
      /\ UNCHANGED <<backend, arrived, fetched, dropped, accepted, discarded, sessions>>
  BY DEF Yield, Move
<1>2. /\ first \in Waiting /\ first \in 1..fetched /\ batch' \in Seq(Nat)
      /\ Waiting' = Waiting \ {first} /\ Len(batch') = Len(batch) - 1
      /\ Ascending(batch') /\ \A y \in Waiting' : first < y
  BY <1>1, Taken
<1> HIDE DEF first
<1>3. given \in Seq(Nat) /\ first \in Nat /\ Ascending(given) /\ \A x \in ToSet(given) : x < first
  BY <1>2 DEF CaptureInv, CaptureTypeOK, InArrivalOrder, Out
<1>4. /\ given' \in Seq(Nat) /\ Len(given') = Len(given) + 1
      /\ Out' = Out \cup {first} /\ Ascending(given')
  BY <1>1, <1>3, AppendOrdered DEF Out
<1>5. first \notin discarded
  BY <1>2 DEF CaptureInv, OneFate
<1>6. Unread' = Unread
  BY <1>1, <1>2, <1>4 DEF Unread
<1>7. CaptureTypeOK'
  BY <1>1, <1>2, <1>4 DEF CaptureInv, CaptureTypeOK
<1>8. InArrivalOrder'
  BY <1>2, <1>4 DEF CaptureInv, InArrivalOrder
<1>9. Len(given) \in Nat /\ Len(batch) \in Nat
  BY LenProperties DEF CaptureInv, CaptureTypeOK
<1>10. OneFate'
  <2>1. captured' = Len(given') + (IF backend' = "nfqueue" THEN Len(batch') ELSE 0)
    <3>1. captured = Len(given) + (IF backend = "nfqueue" THEN Len(batch) ELSE 0)
      BY DEF CaptureInv, OneFate
    <3>2. CASE backend = "nfqueue"
      BY <1>1, <1>2, <1>4, <1>9, <3>1, <3>2
    <3>3. CASE backend # "nfqueue"
      BY <1>1, <1>4, <1>9, <3>1, <3>3
    <3> QED
      BY <3>2, <3>3
  <2>2. Out' \cap discarded' = {} /\ Waiting' \cap discarded' = {}
    BY <1>1, <1>2, <1>4, <1>5 DEF CaptureInv, OneFate
  <2>3. Unread' \subseteq Unparsable /\ dropped' = Cardinality(Unread')
    BY <1>1, <1>6 DEF CaptureInv, OneFate
  <2> QED
    BY <2>1, <2>2, <2>3 DEF OneFate
<1>11. KernelTold'
  <2>1. DOMAIN <<first>> = {1} /\ <<first>>[1] = first
    OBVIOUS
  <2>2. ToSet(hand') \subseteq Out'
    BY <1>1, <1>4, <2>1 DEF ToSet
  <2> QED
    BY <1>1, <1>2, <1>6, <2>2 DEF CaptureInv, KernelTold
<1>12. WhereTheyWait'
  <2>1. backend = "callable" => batch' = << >> /\ Len(batch') <= 1
    BY <1>1, <1>2, <1>9, EmptySeq, LenProperties DEF CaptureInv, WhereTheyWait
  <2> QED
    BY <1>1, <2>1 DEF CaptureInv, WhereTheyWait
<1>13. OnlyNfqueueBinds'
  BY DEF CaptureInv, OnlyNfqueueBinds, Yield, lifecycle
<1> QED
  BY <1>7, <1>8, <1>10, <1>11, <1>12, <1>13 DEF CaptureInv

LEMMA StepPull == CaptureInv /\ Pull => CaptureInv'
<1> SUFFICES ASSUME CaptureInv, Pull PROVE CaptureInv'
  OBVIOUS
<1>1. /\ backend \in Backends \ {"nfqueue"} /\ gen \in {"waiting", "selected"} /\ gen' = "draining"
      /\ \/ fetched' = arrived
         \/ fetched < arrived /\ fetched' = fetched + 1
      /\ backend = "callable" => fetched' = fetched + 1
      /\ batch' = Numbers(fetched, fetched')
      /\ UNCHANGED <<backend, arrived, hand, stats, accepted, given, discarded, sessions>>
  BY DEF Pull, Move, CaptureInv, CaptureTypeOK, Backends
<1>2. fetched \in Nat /\ fetched' \in Nat /\ fetched <= fetched' /\ fetched' <= arrived'
  BY <1>1 DEF CaptureInv, CaptureTypeOK
<1>3. batch = << >>
  BY <1>1 DEF CaptureInv, WhereTheyWait
<1>4. /\ batch' \in Seq(Nat) /\ Len(batch') = fetched' - fetched
      /\ Waiting' = (fetched + 1)..fetched' /\ Ascending(batch')
  BY <1>1, <1>2, NumbersList DEF Waiting
<1>5. Waiting = {} /\ Out' = Out
  BY <1>1, <1>3 DEF Waiting, Out, ToSet
<1>6. Out \subseteq 1..fetched /\ discarded \subseteq 1..fetched
  BY DEF CaptureInv, CaptureTypeOK
<1>7. Unread' = Unread
  BY <1>1, <1>2, <1>4, <1>5, <1>6 DEF Unread
<1>8. CaptureTypeOK'
  BY <1>1, <1>2, <1>4, <1>5 DEF CaptureInv, CaptureTypeOK
<1>9. InArrivalOrder'
  <2>1. \A x \in Out', y \in Waiting' : x < y
    BY <1>2, <1>4, <1>5, <1>6
  <2> QED
    BY <1>1, <1>4, <2>1 DEF CaptureInv, InArrivalOrder, Ascending
<1>10. OneFate'
  <2>1. Waiting' \cap discarded' = {}
    BY <1>1, <1>2, <1>4, <1>6
  <2> QED
    BY <1>1, <1>5, <1>7, <2>1 DEF CaptureInv, OneFate, stats
<1>11. KernelTold'
  BY <1>1, <1>5 DEF CaptureInv, KernelTold
<1>12. WhereTheyWait'
  <2>1. backend = "callable" => Len(batch') <= 1
    BY <1>1, <1>2, <1>4
  <2> QED
    BY <1>1, <2>1 DEF CaptureInv, WhereTheyWait
<1>13. OnlyNfqueueBinds'
  BY DEF CaptureInv, OnlyNfqueueBinds, Pull, lifecycle
<1> QED
  BY <1>8, <1>9, <1>10, <1>11, <1>12, <1>13 DEF CaptureInv

\* run_socket(): every packet the kernel has ready is read or let through.
LEMMA StepRunSocket == CaptureInv /\ RunSocket => CaptureInv'
<1> SUFFICES ASSUME CaptureInv, RunSocket PROVE CaptureInv'
  OBVIOUS
<1> DEFINE new == (fetched + 1)..arrived
           parsable == new \ Unparsable
           unparsable == new \cap Unparsable
<1>1. PICK parsed \in InOrder(parsable) : batch' = batch \o parsed
  BY DEF RunSocket
<1>2. /\ gen' = "draining" /\ gen = "selected" /\ fetched' = arrived
      /\ accepted' = accepted \cup unparsable
      /\ dropped' = dropped + Cardinality(unparsable)
      /\ captured' = captured + Cardinality(parsable)
      /\ UNCHANGED <<backend, arrived, hand, given, discarded, sessions>>
  BY DEF RunSocket, Move
<1>3. fetched \in Nat /\ fetched' \in Nat /\ fetched <= fetched' /\ fetched' = arrived'
  BY <1>2 DEF CaptureInv, CaptureTypeOK
<1>4. backend = "nfqueue"
  BY DEF RunSocket, CaptureInv, OnlyNfqueueBinds
<1>5. /\ Out \subseteq 1..fetched /\ Waiting \subseteq 1..fetched
      /\ accepted \subseteq 1..fetched /\ discarded = {}
      /\ batch \in Seq(Nat) /\ Ascending(batch)
  BY <1>4 DEF CaptureInv, CaptureTypeOK, InArrivalOrder, KernelTold
<1>6. IsFiniteSet(new) /\ IsFiniteSet(parsable) /\ IsFiniteSet(unparsable)
  <2>1. IsFiniteSet(new)
    BY <1>2, <1>3, FS_Interval
  <2> QED
    BY <2>1, FS_Subset
<1>7. \A x \in new : x \in Nat /\ x > fetched /\ x <= fetched' /\ x \in 1..fetched'
  BY <1>2, <1>3
<1>8. parsable \cup unparsable = new /\ 1..fetched' = 1..fetched \cup new
  BY <1>2, <1>3
<1>9. /\ parsable \in SUBSET Nat /\ parsable \subseteq new /\ unparsable \subseteq new
      /\ unparsable \subseteq Unparsable /\ parsable \cap unparsable = {}
  BY <1>7
<1> HIDE DEF new, parsable, unparsable
<1>10. /\ parsed \in Seq(Nat) /\ Len(parsed) = Cardinality(parsable)
       /\ ToSet(parsed) = parsable /\ Ascending(parsed)
  BY <1>1, <1>6, <1>9, InOrderList
<1>11. \A x \in Waiting, y \in parsable : x < y
  BY <1>3, <1>5, <1>7, <1>9
<1>12. /\ batch' \in Seq(Nat) /\ Len(batch') = Len(batch) + Cardinality(parsable)
       /\ Waiting' = Waiting \cup parsable /\ Ascending(batch')
  BY <1>1, <1>5, <1>10, <1>11, JoinLists DEF Waiting
<1>13. Out' = Out
  BY <1>2 DEF Out
<1>14. new \cap (1..fetched) = {}
  BY <1>3, <1>7
<1>15. Unread' = Unread \cup unparsable /\ Unread \cap unparsable = {}
  <2>1. Unread' = (1..fetched \cup new) \ (Out \cup Waiting \cup parsable)
    BY <1>2, <1>5, <1>8, <1>12, <1>13 DEF Unread
  <2>2. Unread = 1..fetched \ (Out \cup Waiting)
    BY <1>5 DEF Unread
  <2> QED
    BY <1>5, <1>8, <1>9, <1>14, <2>1, <2>2
<1>16. Cardinality(Unread') = Cardinality(Unread) + Cardinality(unparsable)
  <2>1. Cardinality(Unread \cup unparsable)
          = Cardinality(Unread) + Cardinality(unparsable) - Cardinality(Unread \cap unparsable)
    BY <1>6, UnreadFinite, FS_Union
  <2>2. Cardinality(Unread \cap unparsable) = 0
    BY <1>15, FS_EmptySet
  <2>3. Cardinality(Unread) \in Nat /\ Cardinality(unparsable) \in Nat
    BY <1>6, UnreadFinite, FS_CardinalityType
  <2> QED
    BY <1>15, <2>1, <2>2, <2>3
<1>17. CaptureTypeOK'
  BY <1>2, <1>3, <1>5, <1>8, <1>9, <1>12, <1>13 DEF CaptureInv, CaptureTypeOK
<1>18. InArrivalOrder'
  <2>1. \A x \in Out', y \in parsable : x < y
    BY <1>3, <1>5, <1>7, <1>9, <1>13
  <2> QED
    BY <1>2, <1>12, <1>13, <2>1 DEF CaptureInv, InArrivalOrder, Ascending
<1>19. OneFate'
  <2>1. Len(given) \in Nat /\ Len(batch) \in Nat /\ Cardinality(parsable) \in Nat
    BY <1>6, FS_CardinalityType, LenProperties DEF CaptureInv, CaptureTypeOK
  <2>2. captured' = Len(given') + Len(batch')
    BY <1>2, <1>4, <1>12, <2>1 DEF CaptureInv, OneFate
  <2> QED
    BY <1>2, <1>4, <1>5, <1>9, <1>15, <1>16, <2>2 DEF CaptureInv, OneFate
<1>20. KernelTold'
  <2>1. accepted' \cap Waiting' = {}
    BY <1>2, <1>4, <1>5, <1>9, <1>12, <1>14 DEF CaptureInv, KernelTold
  <2> QED
    BY <1>2, <1>4, <1>13, <1>15, <2>1 DEF CaptureInv, KernelTold
<1>21. WhereTheyWait'
  BY <1>2, <1>4, <1>5 DEF CaptureInv, WhereTheyWait
<1>22. OnlyNfqueueBinds'
  BY <1>2, <1>4 DEF OnlyNfqueueBinds
<1> QED
  BY <1>17, <1>18, <1>19, <1>20, <1>21, <1>22 DEF CaptureInv

LEMMA NextCaptureInv == CaptureInv /\ [CaptureNext]_captureVars => CaptureInv'
<1> SUFFICES ASSUME CaptureInv, [CaptureNext]_captureVars PROVE CaptureInv'
  OBVIOUS
<1>1. CASE \/ Arrive \/ Start \/ Stop \/ Unbind \/ Begin \/ EndLoop \/ Exhausted \/ Sniff
           \/ Select \/ SocketGone \/ Drained
  BY <1>1, StepLifecycle
<1>2. CASE Pull \/ RunSocket
  BY <1>2, StepPull, StepRunSocket
<1>3. CASE GiveUp \/ Skip \/ Yield
  BY <1>3, StepGiveUp, StepSkip, StepYield
<1>4. CASE Handle \/ Leave
  BY <1>4, StepHandle, StepLeave
<1>5. CASE UNCHANGED captureVars
  BY <1>5 DEF captureVars, stats, lifecycle, CaptureInv, CaptureTypeOK, InArrivalOrder, OneFate,
              KernelTold, WhereTheyWait, OnlyNfqueueBinds, Out, Waiting, Unread, Ascending
<1> QED
  BY <1>1, <1>2, <1>3, <1>4, <1>5 DEF CaptureNext, Generator

\* Only unbinding the queue cuts packets off from the kernel, and then exactly
\* those that wait or are in hand.
LEMMA StepJudged ==
    ASSUME CaptureInv, Judged, [CaptureNext]_captureVars
    PROVE  Judged'
<1>1. CASE UNCHANGED captureVars
  BY <1>1 DEF captureVars, Judged, Waiting, Out
<1>2. CASE \/ Arrive \/ Start \/ Stop \/ Begin \/ EndLoop \/ Exhausted \/ Sniff
           \/ Select \/ SocketGone \/ Drained
  <2>1. /\ UNCHANGED <<backend, fetched, batch, hand, verdicts, given>>
        /\ gen' = gen \/ gen # "yielded"
    BY <1>2 DEF Arrive, Start, Stop, Begin, EndLoop, Exhausted, Sniff, Select, SocketGone,
                Drained, Move, Over
  <2> QED
    BY <2>1 DEF Judged, Waiting, Out
<1>3. CASE Unbind
  <2>1. /\ UNCHANGED <<backend, gen, fetched, batch, hand, accepted, unjudged, given>>
        /\ live' = {}
        /\ backend = "nfqueue" => stranded' = stranded \cup Waiting \cup ToSet(hand)
    BY <1>3 DEF Unbind, Waiting
  <2>2. backend = "nfqueue" => accepted \cap Waiting = {}
    BY DEF CaptureInv, KernelTold
  <2>3. Waiting \subseteq 1..fetched /\ ToSet(hand) \subseteq 1..fetched
    BY DEF CaptureInv, CaptureTypeOK, KernelTold
  <2> QED
    BY <2>1, <2>2, <2>3 DEF Judged, Waiting, Out
<1>4. CASE Pull \/ GiveUp \/ Skip
  <2>1. backend # "nfqueue" /\ UNCHANGED <<backend, hand>> /\ gen # "yielded"
    BY <1>4 DEF Pull, GiveUp, Skip, Move
  <2> QED
    BY <2>1 DEF Judged
<1>5. CASE RunSocket
  <2> DEFINE new == (fetched + 1)..arrived
  <2>1. PICK parsed \in InOrder(new \ Unparsable) : batch' = batch \o parsed
    BY <1>5 DEF RunSocket
  <2>2. /\ gen = "selected" /\ fetched' = arrived
        /\ accepted' = accepted \cup (new \cap Unparsable)
        /\ live' = live \cup (new \ Unparsable)
        /\ UNCHANGED <<backend, hand, unjudged, stranded, given>>
    BY <1>5 DEF RunSocket, Move
  <2>3. /\ fetched \in Nat /\ arrived \in Nat /\ fetched <= arrived
        /\ Out \subseteq 1..fetched /\ batch \in Seq(Nat)
    BY DEF CaptureInv, CaptureTypeOK
  <2>4. IsFiniteSet(new) /\ IsFiniteSet(new \ Unparsable) /\ new \ Unparsable \in SUBSET Nat
    <3>1. IsFiniteSet(new)
      BY <2>3, FS_Interval
    <3> QED
      BY <2>3, <3>1, FS_Subset
  <2>5. new \cap (1..fetched) = {} /\ new \subseteq 1..fetched' /\ 1..fetched \subseteq 1..fetched'
    BY <2>2, <2>3
  <2> HIDE DEF new
  <2>6. parsed \in Seq(Nat) /\ ToSet(parsed) = new \ Unparsable
    BY <2>1, <2>4, InOrderList
  <2>7. Waiting' = Waiting \cup (new \ Unparsable)
    <3>1. ToSet(batch') = ToSet(batch) \cup ToSet(parsed)
      BY <2>1, <2>3, <2>6, ToSetConcat
    <3> QED
      BY <2>6, <3>1 DEF Waiting
  <2>8. Out' = Out /\ hand = << >> /\ ToSet(hand) = {}
    BY <2>2 DEF Judged, Out, ToSet
  <2> QED
    BY <2>2, <2>5, <2>7, <2>8 DEF Judged
<1>6. CASE Yield
  <2> DEFINE first == batch[NextOf(batch)]
  <2>1. /\ gen = "draining" /\ gen' = "yielded" /\ batch # << >>
        /\ batch' = RemoveAt(batch, NextOf(batch)) /\ hand' = <<first>>
        /\ given' = Append(given, first) /\ UNCHANGED <<backend, fetched, verdicts>>
    BY <1>6 DEF Yield, Move
  <2>2. /\ first \in Waiting /\ first \in 1..fetched /\ Waiting' = Waiting \ {first}
    BY <2>1, Taken
  <2> HIDE DEF first
  <2>3. hand = << >> /\ ToSet(hand) = {}
    BY <2>1 DEF Judged, ToSet
  <2>4. DOMAIN <<first>> = {1} /\ <<first>>[1] = first
    OBVIOUS
  <2>5. ToSet(hand') = {first}
    BY <2>1, <2>4 DEF ToSet
  <2>6. Out' = Out \cup {first}
    <3>1. given \in Seq(Nat) /\ first \in Nat /\ Ascending(given) /\ \A y \in ToSet(given) : y < first
      BY <2>2 DEF CaptureInv, CaptureTypeOK, InArrivalOrder, Out
    <3> QED
      BY <2>1, <3>1, AppendOrdered DEF Out
  <2>7. backend = "nfqueue" => first \notin accepted
    BY <2>2 DEF CaptureInv, KernelTold
  <2> QED
    BY <2>1, <2>2, <2>3, <2>5, <2>6, <2>7 DEF Judged
<1>7. CASE Handle \/ Leave
  <2>1. /\ hand' = << >> /\ UNCHANGED <<backend, fetched, live, stranded, given>>
        /\ backend = "nfqueue" => batch' = batch /\ (Accept \/ Refrain)
    BY <1>7 DEF Handle, Leave
  <2>2. ToSet(hand') = {} /\ Out' = Out /\ (backend = "nfqueue" => Waiting' = Waiting)
    BY <2>1 DEF ToSet, Out, Waiting
  <2>3. CASE backend = "nfqueue" /\ Accept
    BY <2>1, <2>2, <2>3 DEF Judged, Accept
  <2>4. CASE backend = "nfqueue" /\ Refrain
    BY <2>1, <2>2, <2>4 DEF Judged, Refrain
  <2>5. CASE backend # "nfqueue"
    BY <2>1, <2>5 DEF Judged
  <2> QED
    BY <2>1, <2>3, <2>4, <2>5
<1> QED
  BY <1>1, <1>2, <1>3, <1>4, <1>5, <1>6, <1>7 DEF CaptureNext, Generator

\* Packets are handed out in the order of arrival, each once, what became of
\* every packet is counted, and the kernel is told, for every backend, any number of packets and of
\* start() calls, and a stop() at any moment (capture/).
THEOREM CaptureKept == CaptureSpec => []CaptureAccounts
<1>1. CaptureInit => CaptureInv /\ Judged
  BY InitCaptureInv DEF CaptureInit, Judged, Out, Waiting, ToSet
<1>2. CaptureInv /\ Judged /\ [CaptureNext]_captureVars => CaptureInv' /\ Judged'
  BY NextCaptureInv, StepJudged
<1>3. CaptureInv /\ Judged => CaptureAccounts
  <2> SUFFICES ASSUME CaptureInv, Judged PROVE CaptureAccounts
    OBVIOUS
  <2>1. Out \cap Waiting = {}
    BY DEF CaptureInv, CaptureTypeOK, InArrivalOrder
  <2>2. sessions = 1 /\ gen \in {"ended", "crashed"} /\ backend = "nfqueue" => batch = << >>
    BY DEF CaptureInv, WhereTheyWait
  <2> QED
    BY <2>1, <2>2 DEF CaptureInv, CaptureAccounts, CaptureTypeOK, InArrivalOrder, OneFate,
         KernelTold, WhereTheyWait, Judged, Ascending, Out, Waiting, Unread
<1> QED
  BY <1>1, <1>2, <1>3, PTL DEF CaptureSpec
=============================================================================
