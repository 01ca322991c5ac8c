------------------------------- MODULE Capture -------------------------------
(***************************************************************************)
(* The capture backends (capture/): packets() is a generator that a loop   *)
(* consumes while another thread may call stop() at any moment.            *)
(*                                                                         *)
(*   nfqueue   the kernel holds packets until accept(); run_socket() calls *)
(*             back for each and fills self._pending.  accept() reaches    *)
(*             the kernel only while the queue the packet came from is     *)
(*             bound                                                       *)
(*   sniff     one timed sniff after another, each a batch                 *)
(*   file      one batch, the whole pcap file                              *)
(*   iterable, callable   SimulatedCapture, one packet at a time           *)
(*                                                                         *)
(* The generator: opened, then waiting -> selected -> draining -> yielded  *)
(* -> draining or, without a socket, waiting -> draining -> yielded ...,   *)
(* and over: ended, crashed by an exception, or closed because its loop    *)
(* was left.  Packets are numbered as they arrive; the consumer is the     *)
(* loop that base.py 58-65 shows.  Parsing is a predicate.                 *)
(***************************************************************************)
EXTENDS Integers, FiniteSets, SequencesExt

CONSTANTS
    MaxPackets,   \* bound: packets that arrive
    Unparsable,   \* those the backend cannot read
    MaxSessions   \* bound: start() calls

ASSUME CaptureAssumption ==
    /\ MaxPackets \in Nat /\ MaxSessions \in Nat /\ Unparsable \subseteq 1..MaxPackets

VARIABLES
    backend,    \* which class this is  (never changes)
    running,    \* self._running
    bound,      \* self._nfqueue is not None
    stopping,   \* a stop() is between its two assignments
    gen,        \* where the generator is
    arrived,    \* packets that have reached the source so far
    fetched,    \* packets taken from it so far
    batch,      \* self._pending, or the generator's own list
    hand,       \* the packet yielded, as a sequence: none or one
    captured,   \* stats.packets_captured
    dropped,    \* stats.packets_dropped
    live,       \* captured packets whose queue is still bound
    accepted,   \* packets re-injected with accept()
    unjudged,   \* history: packets the loop was done with, without accept()
    stranded,   \* history: packets without a verdict when their queue was unbound,
                \*   waiting or in the loop's hand
    given,      \* history: packets yielded
    discarded,  \* history: packets taken and then let go because of stop()
    sessions    \* history: start() calls

lifecycle == <<running, bound, stopping>>
stats == <<captured, dropped>>
verdicts == <<live, accepted, unjudged, stranded>>
captureVars == <<backend, lifecycle, gen, arrived, fetched, batch, hand, stats, verdicts,
                 given, discarded, sessions>>

Backends == {"nfqueue", "sniff", "file", "iterable", "callable"}
Over == {"ended", "crashed", "closed"}

CaptureInit ==
    /\ backend \in Backends
    /\ running = FALSE /\ bound = FALSE /\ stopping = FALSE
    /\ gen = "ended"
    /\ arrived = IF backend \in {"nfqueue", "sniff"} THEN 0 ELSE MaxPackets
    /\ fetched = 0 /\ batch = << >> /\ hand = << >>
    /\ captured = 0 /\ dropped = 0
    /\ live = {} /\ accepted = {} /\ unjudged = {} /\ stranded = {}
    /\ given = << >> /\ discarded = {} /\ sessions = 0

-----------------------------------------------------------------------------
(* Variants with a plausible bug; the properties notice each of them.      *)
NextOf_Youngest(list) == Len(list)
Looks_Never == FALSE
-----------------------------------------------------------------------------
Move(from, to) == gen = from /\ gen' = to

\* The kernel queues packets while the queue is bound; a live capture sees those
\* that pass during a sniff.
Arrive ==
    /\ arrived < MaxPackets
    /\ (backend = "nfqueue" /\ bound) \/ (backend = "sniff" /\ gen = "selected")
    /\ arrived' = arrived + 1
    /\ UNCHANGED <<backend, lifecycle, gen, fetched, batch, hand, stats, verdicts,
                   given, discarded, sessions>>

\* start(), before a new loop calls packets(), once the last one is over.  A pcap file
\* would be read from its beginning again, so it is opened once; an iterable is
\* one that goes on where it stopped.
Start ==
    /\ gen \in Over /\ ~stopping /\ ~running
    /\ sessions < (IF backend = "file" THEN 1 ELSE MaxSessions)
    /\ running' = TRUE
    /\ bound' = (backend = "nfqueue")
    /\ gen' = "opened"
    /\ sessions' = sessions + 1
    /\ UNCHANGED <<backend, stopping, arrived, fetched, batch, hand, stats, verdicts,
                   given, discarded>>

\* stop(), by any thread: first the flag ...
Stop ==
    /\ running /\ ~stopping
    /\ running' = FALSE /\ stopping' = TRUE
    /\ UNCHANGED <<backend, bound, gen, arrived, fetched, batch, hand, stats, verdicts,
                   given, discarded, sessions>>

\* ... then the queue is unbound: what the kernel still held is gone, and no
\* verdict on what it has handed out will reach it.
Unbind ==
    /\ stopping
    /\ bound' = FALSE /\ stopping' = FALSE
    /\ arrived' = IF backend = "nfqueue" THEN fetched ELSE arrived
    /\ live' = {}
    /\ stranded' = IF backend = "nfqueue" THEN stranded \cup ToSet(batch) \cup ToSet(hand)
                                          ELSE stranded
    /\ UNCHANGED <<backend, running, gen, fetched, batch, hand, stats, accepted, unjudged,
                   given, discarded, sessions>>

\* The first next(): packets() begins, and raises RuntimeError when stop() has
\* already unbound the queue.
Begin ==
    /\ Move("opened", IF backend = "nfqueue" /\ ~bound THEN "crashed" ELSE "waiting")
    /\ UNCHANGED <<backend, lifecycle, arrived, fetched, batch, hand, stats, verdicts,
                   given, discarded, sessions>>

\* The loops "while self._running" look at the flag when they come around.
Looks == backend # "file"
MustEnd == Looks /\ ~running

EndLoop ==
    /\ MustEnd
    /\ backend # "iterable"
    /\ Move("waiting", "ended")
    /\ UNCHANGED <<backend, lifecycle, arrived, fetched, batch, hand, stats, verdicts,
                   given, discarded, sessions>>

\* The source is exhausted: the end of the file or of the simulated stream.
Exhausted ==
    /\ backend \in {"file", "iterable", "callable"} /\ fetched = arrived
    /\ Move("waiting", "ended")
    /\ UNCHANGED <<backend, lifecycle, arrived, fetched, batch, hand, stats, verdicts,
                   given, discarded, sessions>>

Numbers(from, to) == [i \in 1..(to - from) |-> from + i]

\* The packets of a set, as they arrived.
InOrder(S) == {list \in [1..Cardinality(S) -> S] :
                  \A i, j \in DOMAIN list : i < j => list[i] < list[j]}

\* A sniff begins ...
Sniff ==
    /\ backend = "sniff" /\ ~MustEnd
    /\ Move("waiting", "selected")
    /\ UNCHANGED <<backend, lifecycle, arrived, fetched, batch, hand, stats, verdicts,
                   given, discarded, sessions>>

\* ... and times out with what it has seen, or a file is read; one packet of a
\* simulated source, which if iterable is pulled before the flag is looked at.
Pull ==
    /\ CASE backend = "sniff" -> Move("selected", "draining") /\ fetched' = arrived
         [] backend = "file" ->
              Move("waiting", "draining") /\ fetched < arrived /\ fetched' = arrived
         [] backend = "iterable" \/ (backend = "callable" /\ ~MustEnd) ->
              Move("waiting", "draining") /\ fetched < arrived /\ fetched' = fetched + 1
         [] OTHER -> FALSE
    /\ batch' = Numbers(fetched, fetched')
    /\ UNCHANGED <<backend, lifecycle, arrived, hand, stats, verdicts, given, discarded, sessions>>

\* select() with its timeout; the queue may be closed meanwhile, and then it
\* may raise.
Select ==
    /\ backend = "nfqueue" /\ ~MustEnd
    /\ \/ Move("waiting", "selected") /\ bound /\ fetched < arrived
       \/ Move("waiting", "draining")
       \/ Move("waiting", "crashed") /\ ~bound
    /\ UNCHANGED <<backend, lifecycle, arrived, fetched, batch, hand, stats, verdicts,
                   given, discarded, sessions>>

\* self._nfqueue is None by now: AttributeError.
SocketGone ==
    /\ backend = "nfqueue" /\ ~bound
    /\ Move("selected", "crashed")
    /\ UNCHANGED <<backend, lifecycle, arrived, fetched, batch, hand, stats, verdicts,
                   given, discarded, sessions>>

\* run_socket(): _callback() for each packet the kernel has ready.
RunSocket ==
    /\ bound
    /\ Move("selected", "draining")
    /\ fetched' = arrived
    /\ LET new == (fetched + 1)..arrived
       IN  /\ accepted' = accepted \cup (new \cap Unparsable)
           /\ dropped' = dropped + Cardinality(new \cap Unparsable)
           /\ captured' = captured + Cardinality(new \ Unparsable)
           /\ live' = live \cup (new \ Unparsable)
           /\ \E parsed \in InOrder(new \ Unparsable) : batch' = batch \o parsed
    /\ UNCHANGED <<backend, lifecycle, arrived, hand, unjudged, stranded, given, discarded,
                   sessions>>

\* pop(0), and the for loops over a batch
NextOf(list) == 1

GiveUp ==  \* "if not self._running: return", a packet or more in hand
    /\ backend \in {"sniff", "file", "iterable"} /\ ~running /\ batch # << >>
    /\ Move("draining", "ended")
    /\ discarded' = discarded \cup ToSet(batch)
    /\ batch' = << >>
    /\ UNCHANGED <<backend, lifecycle, arrived, fetched, hand, stats, verdicts, given, sessions>>

MayGoOn == backend \in {"nfqueue", "callable"} \/ running

Skip ==
    /\ gen = "draining" /\ batch # << >> /\ MayGoOn
    /\ backend \in {"sniff", "file"} /\ batch[NextOf(batch)] \in Unparsable
    /\ dropped' = dropped + 1
    /\ batch' = RemoveAt(batch, NextOf(batch))
    /\ UNCHANGED <<backend, lifecycle, gen, arrived, fetched, hand, captured, verdicts,
                   given, discarded, sessions>>

Yield ==
    /\ batch # << >> /\ MayGoOn
    /\ backend \in {"sniff", "file"} => batch[NextOf(batch)] \notin Unparsable
    /\ Move("draining", "yielded")
    /\ captured' = captured + (IF backend = "nfqueue" THEN 0 ELSE 1)
    /\ hand' = <<batch[NextOf(batch)]>>
    /\ given' = Append(given, batch[NextOf(batch)])
    /\ batch' = RemoveAt(batch, NextOf(batch))
    /\ UNCHANGED <<backend, lifecycle, arrived, fetched, dropped, verdicts, discarded, sessions>>

Drained ==
    /\ batch = << >>
    /\ Move("draining", "waiting")
    /\ UNCHANGED <<backend, lifecycle, arrived, fetched, batch, hand, stats, verdicts,
                   given, discarded, sessions>>

\* The loop's body: process(), and accept() unless the optimizer dropped it.
Accept == accepted' = accepted \cup (ToSet(hand) \cap live) /\ UNCHANGED unjudged
Refrain == unjudged' = unjudged \cup ToSet(hand) /\ UNCHANGED accepted

Handle ==
    /\ Move("yielded", "draining")
    /\ IF backend = "nfqueue" THEN Accept \/ Refrain ELSE UNCHANGED <<accepted, unjudged>>
    /\ hand' = << >>
    /\ UNCHANGED <<backend, lifecycle, arrived, fetched, batch, stats, live, stranded, given,
                   discarded, sessions>>

\* The loop is left by break or an exception (and __exit__() is Stop).  A list
\* of the generator's own goes with it, self._pending stays.
Leave ==
    /\ Move("yielded", "closed")
    /\ hand' = << >>
    /\ IF backend = "nfqueue"
         THEN Refrain /\ UNCHANGED <<discarded, batch>>
         ELSE /\ discarded' = discarded \cup ToSet(batch) /\ batch' = << >>
              /\ UNCHANGED <<accepted, unjudged>>
    /\ UNCHANGED <<backend, lifecycle, arrived, fetched, stats, live, stranded, given, sessions>>

Generator ==
    \/ Begin \/ EndLoop \/ Exhausted \/ Sniff \/ Pull \/ Select \/ SocketGone \/ RunSocket
    \/ GiveUp \/ Skip \/ Yield \/ Drained

CaptureNext == Arrive \/ Start \/ Stop \/ Unbind \/ Generator \/ Handle \/ Leave

\* select() and sniff() time out, sources return, and the loop's body ends.
Fairness == WF_captureVars(Generator) /\ WF_captureVars(Handle) /\ WF_captureVars(Unbind)

CaptureSpec == CaptureInit /\ [][CaptureNext]_captureVars /\ Fairness

-----------------------------------------------------------------------------
\* Packets are handed out in the order of arrival, each once, whatever threads
\* stop the capture and however often it is started; the counters say what
\* became of them.  Only stop() or leaving the loop loses a packet, and NFQUEUE,
\* where the kernel waits for a verdict, loses none at all: what is captured has
\* been handed out once packets() is over, by itself or by an exception, unless
\* an earlier loop was left and its packets wait for the next.  The verdicts
\* reach the kernel: what nobody has seen yet has not been re-injected, and what
\* the loop accepted has been, except exactly the packets that waited or were
\* in its hand when stop() unbound their queue.
CaptureAccounts ==
    LET out == ToSet(given)
        left == ToSet(batch)
        unread == (1..fetched) \ (out \cup left \cup discarded)
    IN  /\ \A i, j \in DOMAIN given : i < j => given[i] < given[j]
        /\ out \cap (left \cup discarded) = {} /\ left \cap discarded = {}
        /\ unread \subseteq Unparsable /\ dropped = Cardinality(unread)
        /\ captured = Len(given) + (IF backend = "nfqueue" THEN Len(batch) ELSE 0)
        /\ discarded # {} => sessions > 0 /\ backend # "nfqueue"
        /\ backend = "callable" => discarded = {}
        /\ backend = "nfqueue" =>
             /\ unread \subseteq accepted
             /\ accepted \cap (left \cup stranded) = {}
             /\ out \ (ToSet(hand) \cup unjudged \cup stranded) \subseteq accepted
             /\ gen \in {"ended", "crashed"} /\ sessions = 1 => batch = << >>

\* "This generator runs until stop() is called or the source is exhausted"
\* (base.py 96-97): once stop() has been called for good, it is over.
StopEndsCapture == <>[](~running) => <>[](gen \in Over)
=============================================================================
