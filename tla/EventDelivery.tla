--------------------------- MODULE EventDelivery ---------------------------
(***************************************************************************)
(* How an event travels from the server's log to the sinks and back into   *)
(* the resume cursor: the channel's dispatch, acknowledge and resetCursor  *)
(* (packages/channel/src/lifecycle/channel.ts), the event router with its  *)
(* bounded queue and single drain (packages/channel/src/events/router.ts). *)
(*                                                                         *)
(* Events are the positions 1, 2, ... of one server epoch; a server that   *)
(* lost its epoch or its replay answers a resume with "reset".  The        *)
(* connection is reduced to what delivery depends on: the cursor an        *)
(* attempt captured, the position it is served from, and whether its       *)
(* boundary frame arrived.  ChannelLifecycle models the rest of it.        *)
(***************************************************************************)
EXTENDS Integers, Sequences, FiniteSets

CONSTANTS
    Capacity,    \* the queue's bound
    Overflows,   \* what a full queue may be set to do: "drop-oldest", "drop-new" or "reject"
    Sinks,       \* how many sinks the router feeds, in order
    Seed,        \* the event id the channel is created with, 0 for none
    MaxEvents,   \* bound on the server's log
    MaxDrops,    \* bound on connections that end and are retried
    MaxFaults,   \* bound on decode failures, sink failures, lost replays and server resets
    MaxCloses    \* bound on close() calls, of the channel or of the router

ASSUME DeliveryAssumption ==
    /\ Capacity \in Nat \ {0}
    /\ Overflows \subseteq {"drop-oldest", "drop-new", "reject"} /\ Overflows # {}
    /\ Sinks \in Nat \ {0}
    /\ Seed \in 0 .. MaxEvents
    /\ MaxEvents \in Nat /\ MaxDrops \in Nat /\ MaxFaults \in Nat /\ MaxCloses \in Nat

VARIABLES
    logged,      \* the server's log holds events 1 .. logged
    conn,        \* the connection attempt, and the position it is served from
    boundary,    \* hasBoundary: a control frame has arrived on this connection
    cgen,        \* the channel's delivery generation
    cursor,      \* lastEventId, 0 for undefined
    order,       \* the channel's receipt counter
    ackOrder,    \* acknowledgedOrder
    closed,      \* the router is closed
    rgen,        \* the router's delivery generation
    pendingIds,  \* ids queued or in delivery
    overflow,    \* what the queue does when it is full
    queue,       \* the bounded queue
    drain,       \* where the router's drain loop stands
    drops, faults, closes,
    applied,     \* history: the events each sink has applied
    ignored,     \* history: the events the decoder told the router to drop
    recovered,   \* history: the log position a snapshot asked of the sinks covers
    finished,    \* history: the <<generation, event>> pairs every sink has applied
    overtaken    \* history: a stream that is served from now on passed deliveries still under way

connVars == <<logged, conn, boundary>>
channelVars == <<cgen, cursor, order, ackOrder>>
routerVars == <<closed, rgen, pendingIds, queue, drain>>
bounds == <<drops, faults, closes>>
history == <<applied, ignored, recovered, finished, overtaken>>
vars == <<connVars, channelVars, overflow, routerVars, bounds, history>>

Event == 1 .. MaxEvents

Delivery == [id : Event, order : Nat, cgen : Nat, rgen : Nat, routed : BOOLEAN]

\* off: no session; down: between attempts; opening: attempt started; open: the transport is open.
Connection == [state : {"off", "down", "opening", "open"}, resume : 0 .. MaxEvents,
               position : 0 .. MaxEvents, control : {"connected", "reset"}]

\* waiting for an item; popped one not yet looked at; delivering to sink number sink; stopped.
Waiting == [phase |-> "waiting"]
Stopped == [phase |-> "stopped"]
Popped(d) == [phase |-> "popped", delivery |-> d]
Delivering(d, s) == [phase |-> "delivering", delivery |-> d, sink |-> s]

Offline == [state |-> "off", resume |-> 0, position |-> 0, control |-> "connected"]

Init ==
    /\ logged = Seed
    /\ conn = Offline
    /\ boundary = FALSE
    /\ cgen = 0 /\ cursor = Seed /\ order = 0 /\ ackOrder = 0
    /\ overflow \in Overflows
    /\ closed = FALSE /\ rgen = 0 /\ pendingIds = {} /\ queue = <<>> /\ drain = Waiting
    /\ drops = 0 /\ faults = 0 /\ closes = 0
    /\ applied = [s \in 1 .. Sinks |-> {}]
    /\ ignored = {}
    /\ recovered = Seed
    /\ finished = {}
    /\ overtaken = FALSE

-----------------------------------------------------------------------------
(* Generations *)

\* A gap: the router discards what it holds, the channel forgets resume, the sinks reset.
RouterReset ==
    /\ rgen' = rgen + 1
    /\ pendingIds' = {}
    /\ cgen' = cgen + 1
    /\ cursor' = 0
    /\ recovered' = logged

\* Only the newest unacknowledged delivery of the current generation moves the cursor.
Acknowledge(d) ==
    IF d.cgen = cgen /\ d.order > ackOrder
      THEN cursor' = d.id /\ ackOrder' = d.order
      ELSE UNCHANGED <<cursor, ackOrder>>

\* The signal a delivery runs under is replaced by a reset and aborted by close().
SignalAborted(d) == closed \/ d.rgen # rgen

-----------------------------------------------------------------------------
(* The server and the connection *)

Log ==
    /\ logged < MaxEvents
    /\ logged' = logged + 1
    /\ UNCHANGED <<conn, boundary, channelVars, routerVars, bounds, history>>

Connect ==
    /\ conn.state = "off"
    /\ conn' = [Offline EXCEPT !.state = "down"]
    /\ UNCHANGED <<logged, boundary, channelVars, routerVars, bounds, history>>

\* An attempt captures the cursor it will resume from.
StartAttempt ==
    /\ conn.state = "down"
    /\ conn' = [Offline EXCEPT !.state = "opening", !.resume = cursor]
    /\ boundary' = FALSE
    /\ UNCHANGED <<logged, channelVars, routerVars, bounds, history>>

\* The server replays after a cursor it still holds, else it serves from now on.  Deliveries of the
\* connection before may then be under way, or have been acknowledged since the attempt began.
Open ==
    /\ conn.state = "opening"
    /\ \/ /\ conn.resume = 0
          /\ conn' = [conn EXCEPT !.state = "open", !.position = logged]
          /\ overtaken' = (overtaken \/ cursor # 0 \/ pendingIds # {})
          /\ UNCHANGED faults
       \/ /\ conn.resume # 0
          /\ conn' = [conn EXCEPT !.state = "open", !.position = conn.resume]
          /\ UNCHANGED <<faults, overtaken>>
       \/ /\ conn.resume # 0
          /\ faults < MaxFaults
          /\ faults' = faults + 1
          /\ conn' = [conn EXCEPT !.state = "open", !.position = logged, !.control = "reset"]
          /\ UNCHANGED overtaken
    /\ UNCHANGED <<logged, boundary, channelVars, routerVars, drops, closes, applied, ignored,
                   recovered, finished>>

\* A reset frame resets the channel's cursor, then the router, which resets it once more.
ResetFrame ==
    /\ cursor' = 0
    /\ IF closed
         THEN cgen' = cgen + 1 /\ UNCHANGED <<rgen, pendingIds, recovered>>
         ELSE /\ cgen' = cgen + 2
              /\ rgen' = rgen + 1
              /\ pendingIds' = {}
              /\ recovered' = logged

\* The first control frame.  Only a connection without a cursor counts as needing a snapshot.
Boundary ==
    /\ conn.state = "open" /\ ~boundary
    /\ boundary' = TRUE
    /\ \/ /\ conn.control = "connected"
          /\ recovered' = IF ~closed /\ conn.resume = 0 THEN logged ELSE recovered
          /\ UNCHANGED <<channelVars, rgen, pendingIds>>
       \/ conn.control = "reset" /\ ResetFrame /\ UNCHANGED <<order, ackOrder>>
    /\ UNCHANGED <<logged, conn, closed, queue, drain, bounds, applied, ignored, finished,
                   overtaken>>

\* The server lost part of this subscription's events and says so.
ServerReset ==
    /\ conn.state = "open" /\ boundary
    /\ faults < MaxFaults
    /\ faults' = faults + 1
    /\ conn' = [conn EXCEPT !.position = logged]
    /\ ResetFrame
    /\ UNCHANGED <<logged, boundary, order, ackOrder, closed, queue, drain, drops, closes,
                   applied, ignored, finished, overtaken>>

\* The stream ends and the reconnect loop will retry: the generation stays.
Drop ==
    /\ conn.state \in {"opening", "open"}
    /\ drops < MaxDrops
    /\ drops' = drops + 1
    /\ conn' = [Offline EXCEPT !.state = "down"]
    /\ UNCHANGED <<logged, boundary, channelVars, routerVars, faults, closes, history>>

\* close(): outstanding acknowledgements are void, the cursor stays.
Close ==
    /\ conn.state # "off"
    /\ closes < MaxCloses
    /\ closes' = closes + 1
    /\ conn' = Offline
    /\ cgen' = cgen + 1
    /\ UNCHANGED <<logged, boundary, cursor, order, ackOrder, routerVars, drops, faults,
                   history>>

-----------------------------------------------------------------------------
(* A data frame, from the transport through dispatch and the router onto the queue *)

\* Slips: what a full queue sheds is not treated as a gap, or nothing is shed.
Push_NoReset(d) ==
    /\ \/ drain = Waiting /\ drain' = Popped(d) /\ UNCHANGED queue
       \/ /\ drain # Waiting
          /\ queue' = Append(IF Len(queue) < Capacity THEN queue ELSE Tail(queue), d)
          /\ UNCHANGED drain
    /\ pendingIds' = pendingIds \union {d.id}
    /\ UNCHANGED <<rgen, cgen, cursor, recovered>>
Push_Unbounded(d) ==
    /\ \/ drain = Waiting /\ drain' = Popped(d) /\ UNCHANGED queue
       \/ drain # Waiting /\ queue' = Append(queue, d) /\ UNCHANGED drain
    /\ pendingIds' = pendingIds \union {d.id}
    /\ UNCHANGED <<rgen, cgen, cursor, recovered>>

\* A waiting drain is handed the item; a full queue sheds one and the loss is a gap.
Push(d) ==
    \/ /\ \/ drain = Waiting /\ drain' = Popped(d) /\ UNCHANGED queue
          \/ drain # Waiting /\ Len(queue) < Capacity /\ queue' = Append(queue, d) /\ UNCHANGED drain
       /\ pendingIds' = pendingIds \union {d.id}
       /\ UNCHANGED <<rgen, cgen, cursor, recovered>>
    \/ /\ drain # Waiting /\ Len(queue) >= Capacity
       /\ queue' = IF overflow = "drop-oldest" THEN Append(Tail(queue), d) ELSE queue
       /\ RouterReset
       /\ UNCHANGED drain

\* Slip: a frame at or below the cursor is dispatched again.
AlreadyApplied_Never(id) == FALSE

\* Applied in this epoch already: the channel drops the frame before any listener hears it.
AlreadyApplied(id) == cursor # 0 /\ id <= cursor

\* Slip: the router does not remember what it is still working on.
AlreadyPending_Never(id) == FALSE

AlreadyPending(id) == id \in pendingIds

Received(id, isRouted) ==
    [id |-> id, order |-> order + 1, cgen |-> cgen, rgen |-> rgen, routed |-> isRouted]

\* Nobody takes the frame: it was applied, no router listens, or the router still holds it.
SkipFrame(id) ==
    \/ AlreadyApplied(id) /\ UNCHANGED order
    \/ ~AlreadyApplied(id) /\ (closed \/ AlreadyPending(id)) /\ order' = order + 1

Frame ==
    /\ conn.state = "open" /\ boundary
    /\ conn.position < logged
    /\ LET id == conn.position + 1 IN
         /\ conn' = [conn EXCEPT !.position = id]
         /\ \/ /\ SkipFrame(id)
               /\ UNCHANGED <<cgen, cursor, rgen, pendingIds, queue, drain, faults, recovered>>
            \/ /\ ~AlreadyApplied(id) /\ ~closed /\ ~AlreadyPending(id)
               /\ order' = order + 1
               /\ \/ /\ \E isRouted \in BOOLEAN : Push(Received(id, isRouted))
                     /\ UNCHANGED faults
                  \/ /\ faults < MaxFaults      \* the decoder throws
                     /\ faults' = faults + 1
                     /\ RouterReset
                     /\ UNCHANGED <<queue, drain>>
    /\ UNCHANGED <<logged, boundary, ackOrder, closed, drops, closes, applied, ignored,
                   finished, overtaken>>

-----------------------------------------------------------------------------
(* The drain *)

\* The loop's next turn: stop when closed, else take the head or wait.
NextTurn ==
    \/ closed /\ drain' = Stopped /\ UNCHANGED queue
    \/ ~closed /\ queue = <<>> /\ drain' = Waiting /\ UNCHANGED queue
    \/ ~closed /\ queue # <<>> /\ drain' = Popped(Head(queue)) /\ queue' = Tail(queue)

Outdated(d) == d.rgen # rgen

\* The drain looks at the item it was handed.
TakeItem ==
    /\ drain.phase = "popped"
    /\ LET d == drain.delivery IN
         \/ /\ Outdated(d)
            /\ NextTurn
            /\ UNCHANGED <<cursor, ackOrder, pendingIds, ignored>>
         \/ /\ ~Outdated(d) /\ ~d.routed
            /\ pendingIds' = pendingIds \ {d.id}
            /\ Acknowledge(d)
            /\ ignored' = ignored \union {d.id}
            /\ NextTurn
         \/ /\ ~Outdated(d) /\ d.routed /\ ~closed
            /\ drain' = Delivering(d, 1)
            /\ UNCHANGED <<cursor, ackOrder, pendingIds, queue, ignored>>
         \/ /\ ~Outdated(d) /\ d.routed /\ closed
            /\ pendingIds' = pendingIds \ {d.id}
            /\ NextTurn
            /\ UNCHANGED <<cursor, ackOrder, ignored>>
    /\ UNCHANGED <<connVars, cgen, order, closed, rgen, bounds, applied, recovered, finished,
                   overtaken>>

\* A sink applies the event: the next one gets it, and after the last it is acknowledged.
SinkApplies ==
    /\ drain.phase = "delivering"
    /\ LET d == drain.delivery
           s == drain.sink IN
         /\ ~SignalAborted(d)
         /\ applied' = [applied EXCEPT ![s] = @ \union {d.id}]
         /\ \/ /\ s < Sinks
               /\ drain' = Delivering(d, s + 1)
               /\ UNCHANGED <<cursor, ackOrder, pendingIds, queue, finished>>
            \/ /\ s = Sinks
               /\ pendingIds' = pendingIds \ {d.id}
               /\ Acknowledge(d)
               /\ finished' = finished \union {<<d.cgen, d.id>>}
               /\ NextTurn
    /\ UNCHANGED <<connVars, cgen, order, closed, rgen, bounds, ignored, recovered, overtaken>>

\* A sink rejects the event: the sinks before it have applied it, so the gap is recovered.
SinkFails ==
    /\ drain.phase = "delivering"
    /\ ~SignalAborted(drain.delivery)
    /\ faults < MaxFaults
    /\ faults' = faults + 1
    /\ RouterReset
    /\ NextTurn
    /\ UNCHANGED <<connVars, order, ackOrder, closed, drops, closes, applied, ignored,
                   finished, overtaken>>

\* raceAbort gives up on a sink whose signal aborted; the sink may still apply the event.
AbandonSink ==
    /\ drain.phase = "delivering"
    /\ LET d == drain.delivery IN
         /\ SignalAborted(d)
         /\ applied' \in {applied, [applied EXCEPT ![drain.sink] = @ \union {d.id}]}
         /\ pendingIds' = IF Outdated(d) THEN pendingIds ELSE pendingIds \ {d.id}
         /\ NextTurn
    /\ UNCHANGED <<connVars, channelVars, closed, rgen, bounds, ignored, recovered, finished,
                   overtaken>>

-----------------------------------------------------------------------------
(* The router's own lifetime *)

\* close() empties the router; a waiting drain is rejected, a busy one stops at its next turn.
CloseRouter ==
    /\ closed' = TRUE
    /\ pendingIds' = {}
    /\ drain' = IF drain = Waiting THEN Stopped ELSE drain
    /\ UNCHANGED <<rgen, queue>>

RouterClose ==
    /\ ~closed
    /\ closes < MaxCloses
    /\ closes' = closes + 1
    /\ CloseRouter
    /\ UNCHANGED <<connVars, channelVars, drops, faults, history>>

\* The channel dies with an error, which the router takes as its own end.
TerminalFailure ==
    /\ conn.state \in {"down", "opening", "open"}
    /\ closes < MaxCloses
    /\ closes' = closes + 1
    /\ conn' = Offline
    /\ cgen' = cgen + 1
    /\ \/ ~closed /\ CloseRouter
       \/ closed /\ UNCHANGED routerVars
    /\ UNCHANGED <<logged, boundary, cursor, order, ackOrder, drops, faults, history>>

\* Slip: a router created on a live stream does not ask its sinks for a snapshot.
NewRouter_NoAdoption ==
    /\ closed /\ drain = Stopped
    /\ closed' = FALSE /\ rgen' = 0 /\ pendingIds' = {} /\ queue' = <<>> /\ drain' = Waiting
    /\ UNCHANGED <<connVars, channelVars, bounds, history>>

\* A new router on the same channel and sinks; on a ready channel it adopts the stream by
\* telling its sinks they are connected.  What is left of the old drain after a close is a few
\* microtasks: it stops, rejects its delivery or acknowledges an item that is now ignored.  They
\* write nothing a new router starts from and commute with its creation, so they come first.
NewRouter ==
    /\ closed /\ drain = Stopped
    /\ closed' = FALSE /\ rgen' = 0 /\ pendingIds' = {} /\ queue' = <<>> /\ drain' = Waiting
    /\ recovered' = IF conn.state = "open" /\ boundary THEN logged ELSE recovered
    /\ UNCHANGED <<connVars, channelVars, bounds, applied, ignored, finished, overtaken>>

-----------------------------------------------------------------------------
\* The overflow policy is an option: no step changes it.
Network == (Connect \/ StartAttempt \/ Open \/ Boundary \/ Frame) /\ UNCHANGED overflow
Drain == (TakeItem \/ SinkApplies \/ AbandonSink) /\ UNCHANGED overflow
Host == (Log \/ NewRouter) /\ UNCHANGED overflow
Faulty ==
    /\ Drop \/ ServerReset \/ SinkFails \/ Close \/ RouterClose \/ TerminalFailure
    /\ UNCHANGED overflow

Next == Host \/ Network \/ Drain \/ Faulty

\* Promise continuations run, sinks settle, the reconnect loop retries and the server answers.
\* Nobody has to log an event, fail or close; the host that closed connects and mounts again.
Fairness ==
    /\ WF_vars(Network)
    /\ WF_vars(Drain)
    /\ WF_vars(NewRouter /\ UNCHANGED overflow)

Spec == Init /\ [][Next]_vars
FairSpec == Spec /\ Fairness

-----------------------------------------------------------------------------
TypeOK ==
    /\ logged \in 0 .. MaxEvents
    /\ conn \in Connection
    /\ boundary \in BOOLEAN
    /\ cgen \in Nat /\ order \in Nat /\ ackOrder \in 0 .. order
    /\ cursor \in 0 .. logged
    /\ closed \in BOOLEAN
    /\ rgen \in Nat
    /\ pendingIds \subseteq Event
    /\ overflow \in Overflows
    /\ queue \in Seq(Delivery) /\ Len(queue) <= Capacity
    /\ drain \in {Waiting, Stopped} \union [phase : {"popped"}, delivery : Delivery]
                 \union [phase : {"delivering"}, delivery : Delivery, sink : 1 .. Sinks]
    /\ recovered \in 0 .. logged
    /\ overtaken \in BOOLEAN

\* An event is settled when every sink applied it, the decoder dropped it, or the sinks were
\* told to take a snapshot after it was logged.
Settled(k) == k <= recovered \/ k \in ignored \/ \A s \in 1 .. Sinks : k \in applied[s]

\* The resume cursor never passes an event that is not settled: a reconnect skips no gap.
CursorSkipsNothing == \A k \in 1 .. cursor : Settled(k)

\* Nobody closed the channel or the router, and no stream passed deliveries still under way.
Undisturbed == closes = 0 /\ ~overtaken

\* Within one channel generation no sink is given an event that all of them already applied,
\* however often a reconnect replays it, as long as nothing disturbed the router.
AppliedOncePerGeneration ==
    Undisturbed /\ drain.phase = "delivering" /\ ~SignalAborted(drain.delivery) =>
        <<drain.delivery.cgen, drain.delivery.id>> \notin finished

\* "Sinks fed every decoded event, in order": no sink is given an event after a later one,
\* unless a snapshot it was told to take covers the later one.
SinksSeeLogOrder ==
    drain.phase = "delivering" /\ ~SignalAborted(drain.delivery) =>
        \A k \in applied[drain.sink] : k <= drain.delivery.id \/ k <= recovered

\* The same as long as nothing disturbed the router: drops and the replays of resumed streams
\* never reorder what a sink is given.
ReplaysKeepLogOrder == Undisturbed => SinksSeeLogOrder

InFlight == (IF drain.phase \in {"popped", "delivering"} THEN <<drain.delivery>> ELSE <<>>)
            \o queue

\* Every logged event is settled in the end, once faults stop.
EverythingSettles == \A k \in Event : [](k <= logged => <>Settled(k))
=============================================================================
