------------------------ MODULE EventDeliveryProofs ------------------------
(***************************************************************************)
(* The safety of EventDelivery for logs and queues of any length, and any  *)
(* number of sinks and faults.  What is in flight, the item the drain      *)
(* holds and then the queue, is looked at as one sequence: a step keeps    *)
(* it, shortens it at either end, extends it, or outdates all of it at a   *)
(* gap.  Everything the cursor or the stream has passed is settled or in   *)
(* that sequence, and while nothing disturbs the router it is a run of     *)
(* events that starts right behind the cursor.                             *)
(***************************************************************************)
EXTENDS EventDelivery, TLAPS

\* An item the router received in its present generation.
Current(d) == d.rgen = rgen

\* An event is on its way to the sinks, ahead of item i.
Ahead(k, i) == \E j \in 1 .. i - 1 : InFlight[j].id = k /\ Current(InFlight[j])
Underway(k) == Ahead(k, Len(InFlight) + 1)

\* The history's values.
Past ==
    /\ applied \in [1 .. Sinks -> SUBSET (1 .. logged)] /\ ignored \subseteq Event
    /\ finished \subseteq Nat \X Nat
    /\ drops \in Nat /\ faults \in Nat /\ closes \in Nat
    /\ conn.position <= logged /\ conn.resume <= logged

\* A drain waits only for an empty queue, and stops only for a closed router.
Turns ==
    /\ drain = Waiting => queue = <<>>
    /\ drain = Stopped => closed
    /\ drain.phase = "delivering" => \A s \in 1 .. drain.sink - 1 : drain.delivery.id \in applied[s]

\* An outdated item has been recovered; the current ones are behind what was acknowledged, in the
\* order of receipt.
Items ==
    \A i \in 1 .. Len(InFlight) :
        /\ InFlight[i].id <= logged /\ InFlight[i].order <= order /\ InFlight[i].rgen <= rgen
        /\ ~Current(InFlight[i]) => InFlight[i].id <= recovered
        /\ Current(InFlight[i]) => ackOrder < InFlight[i].order
        /\ \A j \in 1 .. i - 1 : Current(InFlight[i]) /\ Current(InFlight[j]) =>
               InFlight[j].order < InFlight[i].order /\ InFlight[j].id # InFlight[i].id

\* The pending ids are those of the current items.
Pending == ~closed => pendingIds = {k \in Event : Underway(k)}

\* What an item, or the stream, has passed is settled or ahead.
Behind ==
    drain # Stopped => \A i \in 1 .. Len(InFlight) : Current(InFlight[i]) =>
        \A k \in 1 .. InFlight[i].id - 1 : Settled(k) \/ Ahead(k, i)

Stream ==
    /\ conn.state = "opening" => ~boundary
    /\ conn.state \in {"opening", "open"} => \A k \in 1 .. conn.resume : Settled(k)
    /\ conn.state = "open" /\ ~boundary /\ conn.control = "connected" /\ conn.resume # 0 =>
         conn.position = conn.resume
    /\ conn.state = "open" /\ boundary /\ ~closed =>
         \A k \in 1 .. conn.position : Settled(k) \/ Underway(k)

Nobody == \A i \in 1 .. Len(InFlight) : ~Current(InFlight[i])

\* As long as nothing disturbed the router, the current items are a run of events that starts right
\* behind the cursor.
RunItems ==
    \A i \in 1 .. Len(InFlight) : Current(InFlight[i]) =>
        /\ cursor < InFlight[i].id /\ InFlight[i].cgen = cgen
        /\ \A j \in 1 .. i - 1 : Current(InFlight[j]) => InFlight[j].id < InFlight[i].id
        /\ \A k \in 1 .. InFlight[i].id - 1 :
             \/ cursor # 0 /\ cursor < k
             \/ \E j \in 1 .. i - 1 : Current(InFlight[j]) /\ InFlight[j].id < k
             => Ahead(k, i)

\* The stream stands at the end of the run or replays it.
RunStream ==
    /\ conn.state = "open" /\ boundary =>
         /\ cursor # 0 \/ ~Nobody =>
              \/ conn.position <= cursor
              \/ \E i \in 1 .. Len(InFlight) :
                   Current(InFlight[i]) /\ conn.position <= InFlight[i].id
         /\ cursor = 0 => \A i \in 1 .. Len(InFlight) :
                            Current(InFlight[i]) => InFlight[i].id <= conn.position
    /\ conn.state = "opening" \/ (conn.state = "open" /\ ~boundary /\ conn.control = "connected") =>
         conn.resume <= cursor \/ (cursor = 0 /\ Nobody)
    /\ conn.state = "open" /\ ~boundary /\ conn.control = "connected" /\ conn.resume = 0 =>
         cursor = 0 /\ Nobody

\* No sink is ahead of the run, but for the item it is being given.
RunSinks ==
    /\ \A s \in 1 .. Sinks : \A k \in applied[s] :
         \/ k <= recovered \/ k <= cursor
         \/ /\ drain.phase = "delivering" /\ Current(drain.delivery)
            /\ k = drain.delivery.id /\ s < drain.sink
    /\ \A p \in finished : p[1] <= cgen /\ (p[1] = cgen => p[2] <= cursor)

Run == ~closed /\ RunItems /\ RunStream /\ RunSinks

IInv ==
    /\ TypeOK /\ Past /\ Turns /\ Items /\ Pending
    /\ CursorSkipsNothing /\ Behind /\ Stream
    /\ Undisturbed => Run

-----------------------------------------------------------------------------
(* The flight: the item the drain holds, and the queue behind it *)

DrainType ==
    {Waiting, Stopped} \union [phase : {"popped"}, delivery : Delivery]
        \union [phase : {"delivering"}, delivery : Delivery, sink : 1 .. Sinks]

Held == drain.phase \in {"popped", "delivering"}

LEMMA DrainPhases ==
    ASSUME drain \in DrainType
    PROVE  /\ drain = Waiting <=> drain.phase = "waiting"
           /\ drain = Stopped <=> drain.phase = "stopped"
           /\ drain.phase \in {"waiting", "stopped", "popped", "delivering"}
           /\ Held => drain.delivery \in Delivery
           /\ drain.phase = "delivering" => drain.sink \in 1 .. Sinks
<1>1. CASE drain = Waiting \/ drain = Stopped
  BY <1>1 DEF Waiting, Stopped, Held
<1>2. CASE drain \in [phase : {"popped"}, delivery : Delivery]
  BY <1>2 DEF Waiting, Stopped, Held
<1>3. CASE drain \in [phase : {"delivering"}, delivery : Delivery, sink : 1 .. Sinks]
  BY <1>3 DEF Waiting, Stopped, Held
<1>. QED
  BY <1>1, <1>2, <1>3 DEF DrainType

LEMMA PhaseTypes ==
    ASSUME NEW d \in Delivery
    PROVE  /\ Popped(d) \in DrainType /\ Popped(d).phase = "popped" /\ Popped(d).delivery = d
           /\ \A s \in 1 .. Sinks : Delivering(d, s) \in DrainType
           /\ \A s : /\ Delivering(d, s).phase = "delivering" /\ Delivering(d, s).delivery = d
                     /\ Delivering(d, s).sink = s
           /\ Waiting \in DrainType /\ Stopped \in DrainType
           /\ Waiting.phase = "waiting" /\ Stopped.phase = "stopped" /\ Waiting # Stopped
  BY DEF DrainType, Popped, Delivering, Waiting, Stopped

\* What the queue and the drain's item are together.
LEMMA Flight ==
    ASSUME queue \in Seq(Delivery), drain \in DrainType
    PROVE  /\ InFlight \in Seq(Delivery)
           /\ ~Held => InFlight = queue
           /\ Held => /\ InFlight # <<>> /\ Len(InFlight) = Len(queue) + 1
                      /\ InFlight[1] = drain.delivery /\ Tail(InFlight) = queue
<1>1. CASE ~Held
  <2>1. <<>> \o queue = queue
    OBVIOUS
  <2>. QED
    BY <1>1, <2>1 DEF InFlight, Held
<1>2. CASE Held
  <2>1. drain.delivery \in Delivery
    BY <1>2, DrainPhases
  <2>2. InFlight = <<drain.delivery>> \o queue
    BY <1>2 DEF InFlight, Held
  <2>. DEFINE f == <<drain.delivery>> \o queue
  <2>3. f \in Seq(Delivery) /\ Len(f) = Len(queue) + 1 /\ f # <<>> /\ f[1] = drain.delivery
    BY <2>1
  <2>4. Tail(f) = queue
    <3>1. Len(Tail(f)) = Len(queue) /\ Tail(f) \in Seq(Delivery)
      BY <2>3
    <3>2. ASSUME NEW i \in 1 .. Len(queue) PROVE Tail(f)[i] = queue[i]
      <4>1. Tail(f)[i] = f[i + 1]
        BY <2>3, <3>1
      <4>2. f[i + 1] = queue[i]
        BY <2>1
      <4>. QED
        BY <4>1, <4>2
    <3>. HIDE DEF f
    <3>. QED
      BY <3>1, <3>2
  <2>. QED
    BY <1>2, <2>2, <2>3, <2>4
<1>. QED
  BY <1>1, <1>2

\* The loop's next turn takes the head off the flight.
LEMMA Turned ==
    ASSUME queue \in Seq(Delivery), Len(queue) <= Capacity, drain \in DrainType, Held, NextTurn
    PROVE  /\ queue' \in Seq(Delivery) /\ Len(queue') <= Capacity /\ drain' \in DrainType
           /\ InFlight' = Tail(InFlight) /\ drain'.phase # "delivering"
           /\ drain' = Waiting => queue' = <<>>
           /\ drain' = Stopped => closed
           /\ closed => drain' = Stopped
<1>1. Tail(InFlight) = queue
  BY Flight
<1>2. CASE closed /\ drain' = Stopped /\ UNCHANGED queue
  <2>1. drain' \in DrainType /\ drain'.phase = "stopped"
    BY <1>2 DEF DrainType, Stopped
  <2>2. <<>> \o queue = queue
    OBVIOUS
  <2>3. InFlight' = queue
    BY <1>2, <2>1, <2>2 DEF InFlight
  <2>. QED
    BY <1>1, <1>2, <2>1, <2>3 DEF Waiting
<1>3. CASE ~closed /\ queue = <<>> /\ drain' = Waiting /\ UNCHANGED queue
  <2>1. drain' \in DrainType /\ drain'.phase = "waiting"
    BY <1>3 DEF DrainType, Waiting
  <2>2. <<>> \o queue = queue
    OBVIOUS
  <2>3. InFlight' = queue
    BY <1>3, <2>1, <2>2 DEF InFlight
  <2>. QED
    BY <1>1, <1>3, <2>1, <2>3 DEF Stopped
<1>4. CASE ~closed /\ queue # <<>> /\ drain' = Popped(Head(queue)) /\ queue' = Tail(queue)
  <2>1. Head(queue) \in Delivery /\ queue' \in Seq(Delivery) /\ Len(queue') <= Capacity
    <3>1. Head(queue) \in Delivery /\ Tail(queue) \in Seq(Delivery)
      BY <1>4
    <3>2. Len(Tail(queue)) = Len(queue) - 1 /\ Len(queue) \in Nat
      BY <1>4
    <3>3. Len(queue') <= Capacity
      <4>. DEFINE n == Len(queue)
      <4>1. n \in Nat /\ n <= Capacity /\ Capacity \in Nat /\ Len(queue') = n - 1
        BY <1>4, <3>2, DeliveryAssumption DEF DeliveryAssumption
      <4>. HIDE DEF n
      <4>. QED
        BY ONLY <4>1
    <3>. QED
      BY <1>4, <3>1, <3>3
  <2>2. /\ drain' \in DrainType /\ drain'.phase = "popped" /\ drain'.delivery = Head(queue)
        /\ drain' # Waiting /\ drain' # Stopped
    BY <1>4, <2>1, PhaseTypes
  <2>3. InFlight' = <<Head(queue)>> \o Tail(queue)
    BY <1>4, <2>2 DEF InFlight
  <2>4. <<Head(queue)>> \o Tail(queue) = queue
    BY <1>4
  <2>. QED
    BY <1>1, <1>4, <2>1, <2>2, <2>3, <2>4
<1>. QED
  BY <1>2, <1>3, <1>4 DEF NextTurn

LEMMA ItemTypes ==
    ASSUME TypeOK
    PROVE  /\ InFlight \in Seq(Delivery) /\ Len(InFlight) \in Nat
           /\ \A i \in 1 .. Len(InFlight) :
                /\ InFlight[i] \in Delivery
                /\ InFlight[i].id \in Event /\ InFlight[i].id \in Nat /\ InFlight[i].order \in Nat
                /\ InFlight[i].cgen \in Nat /\ InFlight[i].rgen \in Nat
           /\ rgen \in Nat /\ cgen \in Nat /\ order \in Nat /\ ackOrder \in Nat /\ cursor \in Nat
           /\ logged \in Nat /\ recovered \in Nat
<1>1. /\ InFlight \in Seq(Delivery)
      /\ queue \in Seq(Delivery) /\ drain \in DrainType
  BY Flight DEF TypeOK, DrainType
<1>2. ASSUME NEW i \in 1 .. Len(InFlight)
      PROVE  /\ InFlight[i] \in Delivery
             /\ InFlight[i].id \in Event /\ InFlight[i].id \in Nat /\ InFlight[i].order \in Nat
             /\ InFlight[i].cgen \in Nat /\ InFlight[i].rgen \in Nat
  <2>1. InFlight[i] \in Delivery
    BY <1>1
  <2>. QED
    BY <2>1, DeliveryAssumption DEF Delivery, Event, DeliveryAssumption
<1>3. /\ rgen \in Nat /\ cgen \in Nat /\ order \in Nat /\ ackOrder \in Nat /\ cursor \in Nat
      /\ logged \in Nat /\ recovered \in Nat
  BY DeliveryAssumption DEF TypeOK, DeliveryAssumption
<1>. QED
  BY <1>1, <1>2, <1>3

-----------------------------------------------------------------------------
(* Steps after which the flight is what it was, less its first item or not *)

Moves(c) ==
    /\ c \in {0, 1} /\ c <= Len(InFlight) /\ Len(InFlight') = Len(InFlight) - c
    /\ \A i \in 1 .. Len(InFlight') : InFlight'[i] = InFlight[i + c]

\* The first item is taken off, and it is a current one.
Takes(c) == c = 1 /\ Current(InFlight[1])

LEMMA SameFlight ==
    ASSUME TypeOK, InFlight' = InFlight
    PROVE  Moves(0)
  BY ItemTypes DEF Moves

LEMMA LessFlight ==
    ASSUME TypeOK, InFlight # <<>>, InFlight' = Tail(InFlight)
    PROVE  Moves(1)
<1>. DEFINE f == InFlight
<1>1. f \in Seq(Delivery) /\ f # <<>>
  BY ItemTypes
<1>2. Len(f) \in Nat /\ Len(Tail(f)) = Len(f) - 1 /\ 1 <= Len(f)
  BY <1>1
<1>3. \A i \in 1 .. Len(Tail(f)) : Tail(f)[i] = f[i + 1]
  BY <1>1
<1>. QED
  BY <1>2, <1>3 DEF Moves

LEMMA MovedItem ==
    ASSUME TypeOK, NEW c, Moves(c), rgen' = rgen, NEW i \in 1 .. Len(InFlight')
    PROVE  /\ i + c \in 1 .. Len(InFlight) /\ InFlight'[i] = InFlight[i + c]
           /\ Current(InFlight[i])' <=> Current(InFlight[i + c])
<1>1. i + c \in 1 .. Len(InFlight) /\ InFlight'[i] = InFlight[i + c]
  BY ItemTypes DEF Moves
<1>. QED
  BY <1>1 DEF Current

LEMMA MovedAhead ==
    ASSUME TypeOK, Items, NEW c, Moves(c), rgen' = rgen, NEW k, NEW i \in 1 .. Len(InFlight') + 1
    PROVE  Ahead(k, i)' <=> Ahead(k, i + c) /\ ~(Takes(c) /\ InFlight[1].id = k)
<1>1. c \in {0, 1} /\ Len(InFlight) \in Nat /\ Len(InFlight') = Len(InFlight) - c /\ c <= Len(InFlight)
  BY ItemTypes DEF Moves
<1>2. ASSUME NEW j \in 1 .. i - 1
      PROVE  /\ j \in 1 .. Len(InFlight') /\ j + c \in 1 .. (i + c) - 1 /\ j + c \in 1 .. Len(InFlight)
             /\ InFlight'[j] = InFlight[j + c]
  BY <1>1 DEF Moves
<1>3. ASSUME Ahead(k, i)' PROVE Ahead(k, i + c) /\ ~(Takes(c) /\ InFlight[1].id = k)
  <2>1. PICK j \in 1 .. i - 1 : InFlight'[j].id = k /\ InFlight'[j].rgen = rgen'
    BY <1>3 DEF Ahead, Current
  <2>2. /\ j + c \in 1 .. (i + c) - 1 /\ j + c \in 1 .. Len(InFlight)
        /\ InFlight[j + c].id = k /\ Current(InFlight[j + c])
    BY <1>2, <2>1 DEF Current
  <2>3. c = 1 => 1 \in 1 .. (j + c) - 1
    BY <2>1
  <2>4. c = 1 /\ Current(InFlight[1]) => InFlight[1].id # k
    BY <2>2, <2>3 DEF Items
  <2>. QED
    BY <2>2, <2>4 DEF Ahead, Takes
<1>4. ASSUME Ahead(k, i + c), ~(Takes(c) /\ InFlight[1].id = k) PROVE Ahead(k, i)'
  <2>1. PICK j \in 1 .. (i + c) - 1 : InFlight[j].id = k /\ Current(InFlight[j])
    BY <1>4 DEF Ahead
  <2>2. ~(c = 1 /\ j = 1)
    BY <1>4, <2>1 DEF Takes
  <2>3. j - c \in 1 .. i - 1 /\ (j - c) + c = j
    BY <1>1, <2>1, <2>2
  <2>4. InFlight'[j - c] = InFlight[j]
    BY <1>2, <2>3
  <2>5. InFlight'[j - c].id = k /\ InFlight'[j - c].rgen = rgen'
    BY <2>1, <2>4 DEF Current
  <2>. QED
    BY <2>3, <2>5 DEF Ahead, Current
<1>. QED
  BY <1>3, <1>4

LEMMA MovedUnderway ==
    ASSUME TypeOK, Items, NEW c, Moves(c), rgen' = rgen, NEW k
    PROVE  Underway(k)' <=> Underway(k) /\ ~(Takes(c) /\ InFlight[1].id = k)
<1>. DEFINE n == Len(InFlight')
<1>1. n \in Nat /\ n + 1 \in 1 .. n + 1 /\ (n + 1) + c = Len(InFlight) + 1
  BY ItemTypes DEF Moves
<1>2. \A i \in 1 .. n + 1 : Ahead(k, i)' <=> Ahead(k, i + c) /\ ~(Takes(c) /\ InFlight[1].id = k)
  BY MovedAhead
<1>3. Underway(k)' <=> \E j \in 1 .. n : InFlight'[j].id = k /\ InFlight'[j].rgen = rgen'
  BY <1>1 DEF Underway, Ahead, Current
<1>4. \A i : i = n + 1 =>
        (Ahead(k, i)' <=> \E j \in 1 .. n : InFlight'[j].id = k /\ InFlight'[j].rgen = rgen')
  BY <1>1 DEF Ahead, Current
<1>. QED
  BY <1>1, <1>2, <1>3, <1>4 DEF Underway

\* What is settled stays settled.
LEMMA SettledKept ==
    ASSUME TypeOK, recovered' \in Nat, recovered <= recovered', ignored \subseteq ignored',
           \A s \in 1 .. Sinks : applied[s] \subseteq applied'[s]
    PROVE  \A k \in Nat : Settled(k) => Settled(k)'
  BY ItemTypes DEF Settled

LEMMA MovedItems ==
    ASSUME TypeOK, Items, NEW c, Moves(c), rgen' = rgen,
           logged' \in Nat, logged <= logged', order' \in Nat, order <= order',
           recovered' \in Nat, recovered <= recovered',
           \A i \in 1 .. Len(InFlight) : i > c /\ Current(InFlight[i]) => ackOrder' < InFlight[i].order
    PROVE  Items'
<1>1. c \in {0, 1} /\ Len(InFlight) \in Nat /\ Len(InFlight') = Len(InFlight) - c /\ c <= Len(InFlight)
  BY ItemTypes DEF Moves
<1>. SUFFICES ASSUME NEW i \in 1 .. Len(InFlight')
     PROVE  /\ InFlight'[i].id <= logged' /\ InFlight'[i].order <= order' /\ InFlight'[i].rgen <= rgen'
            /\ ~Current(InFlight[i])' => InFlight'[i].id <= recovered'
            /\ Current(InFlight[i])' => ackOrder' < InFlight'[i].order
            /\ \A j \in 1 .. i - 1 : Current(InFlight[i])' /\ Current(InFlight[j])' =>
                 InFlight'[j].order < InFlight'[i].order /\ InFlight'[j].id # InFlight'[i].id
  BY DEF Items, Current
<1>2. /\ i + c \in 1 .. Len(InFlight) /\ InFlight'[i] = InFlight[i + c]
      /\ Current(InFlight[i])' <=> Current(InFlight[i + c])
  BY MovedItem
<1>3. i + c > c
  BY <1>1
<1>4. /\ InFlight[i + c].id <= logged' /\ InFlight[i + c].order <= order' /\ InFlight[i + c].rgen <= rgen'
      /\ ~Current(InFlight[i + c]) => InFlight[i + c].id <= recovered'
  <2>1. /\ InFlight[i + c].id <= logged /\ InFlight[i + c].order <= order /\ InFlight[i + c].rgen <= rgen
        /\ ~Current(InFlight[i + c]) => InFlight[i + c].id <= recovered
    BY <1>2 DEF Items
  <2>2. InFlight[i + c].id \in Nat /\ InFlight[i + c].order \in Nat
    BY <1>2, ItemTypes
  <2>3. /\ logged \in Nat /\ logged' \in Nat /\ logged <= logged' /\ order \in Nat /\ order' \in Nat /\ order <= order'
        /\ rgen' = rgen /\ recovered \in Nat /\ recovered' \in Nat /\ recovered <= recovered'
    BY ItemTypes
  <2>. QED
    BY ONLY <2>1, <2>2, <2>3
<1>5. ASSUME NEW j \in 1 .. i - 1, Current(InFlight[i])', Current(InFlight[j])'
      PROVE  InFlight'[j].order < InFlight'[i].order /\ InFlight'[j].id # InFlight'[i].id
  <2>1. j \in 1 .. Len(InFlight') /\ j + c \in 1 .. (i + c) - 1
    BY <1>1
  <2>2. InFlight'[j] = InFlight[j + c] /\ Current(InFlight[j + c])
    BY <1>5, <2>1, MovedItem
  <2>. QED
    BY <1>2, <1>5, <2>1, <2>2 DEF Items
<1>. QED
  BY <1>2, <1>3, <1>4, <1>5

LEMMA MovedPending ==
    ASSUME TypeOK, Items, Pending, NEW c, Moves(c), rgen' = rgen,
           ~closed' => ~closed /\ pendingIds' = IF Takes(c) THEN pendingIds \ {InFlight[1].id} ELSE pendingIds
    PROVE  Pending'
<1>. SUFFICES ASSUME ~closed' PROVE pendingIds' = {k \in Event : Underway(k)'}
  BY DEF Pending
<1>1. \A k : Underway(k)' <=> Underway(k) /\ ~(Takes(c) /\ InFlight[1].id = k)
  BY MovedUnderway
<1>2. pendingIds = {k \in Event : Underway(k)}
  BY DEF Pending
<1>. QED
  BY <1>1, <1>2

\* Nothing unsettled is lost when the item taken off was settled or outdated.
LEMMA MovedBehind ==
    ASSUME TypeOK, Items, Behind, NEW c, Moves(c), rgen' = rgen,
           \A k \in Nat : Settled(k) => Settled(k)',
           drain' # Stopped => drain # Stopped,
           drain' # Stopped /\ Takes(c) => \A k : k = InFlight[1].id => Settled(k)'
    PROVE  Behind'
<1>. SUFFICES ASSUME drain' # Stopped, NEW i \in 1 .. Len(InFlight'), Current(InFlight[i])',
                     NEW k \in 1 .. InFlight'[i].id - 1
     PROVE  Settled(k)' \/ Ahead(k, i)'
  BY DEF Behind
<1>1. i + c \in 1 .. Len(InFlight) /\ InFlight'[i] = InFlight[i + c] /\ Current(InFlight[i + c])
  BY MovedItem
<1>2. Settled(k) \/ Ahead(k, i + c)
  BY <1>1 DEF Behind
<1>3. k \in Nat /\ i \in 1 .. Len(InFlight') + 1
  BY ItemTypes DEF Moves
<1>4. Ahead(k, i)' <=> Ahead(k, i + c) /\ ~(Takes(c) /\ InFlight[1].id = k)
  BY <1>3, MovedAhead
<1>. QED
  BY <1>2, <1>3, <1>4

LEMMA MovedStream ==
    ASSUME TypeOK, Past, Items, Stream, NEW c, Moves(c), rgen' = rgen, UNCHANGED <<conn, boundary>>,
           \A k \in Nat : Settled(k) => Settled(k)',
           ~closed' => ~closed,
           ~closed' /\ Takes(c) => \A k : k = InFlight[1].id => Settled(k)'
    PROVE  Stream'
<1>1. conn.state \in {"opening", "open"} => \A k \in 1 .. conn.resume : Settled(k)'
  <2>. SUFFICES ASSUME conn.state \in {"opening", "open"}, NEW k \in 1 .. conn.resume PROVE Settled(k)'
    OBVIOUS
  <2>. QED
    BY DEF Stream
<1>2. conn.state = "open" /\ boundary /\ ~closed' =>
        \A k \in 1 .. conn.position : Settled(k)' \/ Underway(k)'
  <2>. SUFFICES ASSUME conn.state = "open", boundary, ~closed', NEW k \in 1 .. conn.position
       PROVE  Settled(k)' \/ Underway(k)'
    OBVIOUS
  <2>1. Settled(k) \/ Underway(k)
    BY DEF Stream
  <2>2. Underway(k)' <=> Underway(k) /\ ~(Takes(c) /\ InFlight[1].id = k)
    BY MovedUnderway
  <2>. QED
    BY <2>1, <2>2
<1>. QED
  BY <1>1, <1>2 DEF Stream

\* The cursor follows the item that is taken off the run.
LEMMA MovedRunItems ==
    ASSUME TypeOK, Items, RunItems, NEW c, Moves(c), UNCHANGED <<rgen, cgen>>,
           cursor' = IF Takes(c) THEN InFlight[1].id ELSE cursor
    PROVE  RunItems'
<1>1. c \in {0, 1} /\ Len(InFlight) \in Nat /\ Len(InFlight') = Len(InFlight) - c /\ c <= Len(InFlight)
  BY ItemTypes DEF Moves
<1>. SUFFICES ASSUME NEW i \in 1 .. Len(InFlight'), Current(InFlight[i])'
     PROVE  /\ cursor' < InFlight'[i].id /\ InFlight'[i].cgen = cgen'
            /\ \A j \in 1 .. i - 1 : Current(InFlight[j])' => InFlight'[j].id < InFlight'[i].id
            /\ \A k \in 1 .. InFlight'[i].id - 1 :
                 \/ cursor' # 0 /\ cursor' < k
                 \/ \E j \in 1 .. i - 1 : Current(InFlight[j])' /\ InFlight'[j].id < k
                 => Ahead(k, i)'
  BY DEF RunItems
<1>2. /\ i + c \in 1 .. Len(InFlight) /\ InFlight'[i] = InFlight[i + c] /\ Current(InFlight[i + c])
      /\ i \in 1 .. Len(InFlight') + 1
  BY <1>1, MovedItem
<1>3. /\ cursor < InFlight[i + c].id /\ InFlight[i + c].cgen = cgen
      /\ \A j \in 1 .. (i + c) - 1 : Current(InFlight[j]) => InFlight[j].id < InFlight[i + c].id
      /\ \A k \in 1 .. InFlight[i + c].id - 1 :
           \/ cursor # 0 /\ cursor < k
           \/ \E j \in 1 .. (i + c) - 1 : Current(InFlight[j]) /\ InFlight[j].id < k
           => Ahead(k, i + c)
  BY <1>2 DEF RunItems
<1>4. Takes(c) => c = 1 /\ 1 \in 1 .. (i + c) - 1 /\ Current(InFlight[1])
  BY <1>1 DEF Takes
<1>5. cursor' < InFlight'[i].id
  BY <1>2, <1>3, <1>4
<1>6. ASSUME NEW j \in 1 .. i - 1, Current(InFlight[j])'
      PROVE  j + c \in 1 .. (i + c) - 1 /\ InFlight'[j] = InFlight[j + c] /\ Current(InFlight[j + c])
  <2>1. j \in 1 .. Len(InFlight') /\ j + c \in 1 .. (i + c) - 1
    BY <1>1
  <2>. QED
    BY <1>6, <2>1, MovedItem
<1>7. ASSUME NEW k \in 1 .. InFlight'[i].id - 1,
             \/ cursor' # 0 /\ cursor' < k
             \/ \E j \in 1 .. i - 1 : Current(InFlight[j])' /\ InFlight'[j].id < k
      PROVE  Ahead(k, i)'
  <2>1. Ahead(k, i)' <=> Ahead(k, i + c) /\ ~(Takes(c) /\ InFlight[1].id = k)
    BY <1>2, MovedAhead
  <2>2. Takes(c) => InFlight[1].id \in Nat
    BY <1>1, <1>4, ItemTypes
  <2>3. CASE cursor' # 0 /\ cursor' < k
    <3>1. CASE Takes(c)
      <4>1. InFlight[1].id < k
        BY <2>3, <3>1
      <4>2. Ahead(k, i + c)
        BY <1>2, <1>3, <1>4, <3>1, <4>1
      <4>. QED
        BY <2>1, <2>2, <4>1, <4>2
    <3>2. CASE ~Takes(c)
      BY <1>2, <1>3, <2>1, <2>3, <3>2
    <3>. QED
      BY <3>1, <3>2
  <2>4. CASE \E j \in 1 .. i - 1 : Current(InFlight[j])' /\ InFlight'[j].id < k
    <3>1. PICK j \in 1 .. i - 1 : Current(InFlight[j])' /\ InFlight'[j].id < k
      BY <2>4
    <3>2. j + c \in 1 .. (i + c) - 1 /\ Current(InFlight[j + c]) /\ InFlight[j + c].id < k
      BY <1>6, <3>1
    <3>3. Ahead(k, i + c)
      BY <1>2, <1>3, <3>2
    <3>4. Takes(c) => InFlight[1].id # k
      <4>. SUFFICES ASSUME Takes(c) PROVE InFlight[1].id # k
        OBVIOUS
      <4>1. j + c \in 1 .. Len(InFlight) /\ 1 \in 1 .. (j + c) - 1
        BY <1>1, <1>2, <1>4, <3>2
      <4>2. InFlight[1].id < InFlight[j + c].id
        BY <1>4, <3>2, <4>1 DEF RunItems
      <4>3. InFlight[1].id \in Nat /\ InFlight[j + c].id \in Nat
        BY <2>2, <4>1, ItemTypes
      <4>. QED
        BY <3>2, <4>2, <4>3
    <3>. QED
      BY <2>1, <3>3, <3>4
  <2>. QED
    BY <1>7, <2>3, <2>4
<1>8. InFlight'[i].cgen = cgen' /\
      \A j \in 1 .. i - 1 : Current(InFlight[j])' => InFlight'[j].id < InFlight'[i].id
  BY <1>2, <1>3, <1>6
<1>. QED
  BY <1>5, <1>7, <1>8

LEMMA MovedRunStream ==
    ASSUME TypeOK, Items, RunItems, RunStream, NEW c, Moves(c), UNCHANGED <<rgen, conn, boundary>>,
           cursor' = IF Takes(c) THEN InFlight[1].id ELSE cursor
    PROVE  RunStream' /\ cursor <= cursor' /\ cursor' \in Nat
<1>1. c \in {0, 1} /\ Len(InFlight) \in Nat /\ Len(InFlight') = Len(InFlight) - c /\ c <= Len(InFlight)
  BY ItemTypes DEF Moves
<1>2. ASSUME Takes(c)
      PROVE  /\ c = 1 /\ 1 \in 1 .. Len(InFlight) /\ Current(InFlight[1]) /\ ~Nobody
             /\ cursor < InFlight[1].id /\ InFlight[1].id \in Event /\ cursor' = InFlight[1].id
  <2>1. c = 1 /\ 1 \in 1 .. Len(InFlight) /\ Current(InFlight[1])
    BY <1>1, <1>2 DEF Takes
  <2>. QED
    BY <1>2, <2>1, ItemTypes DEF RunItems, Nobody
<1>3. cursor \in Nat /\ cursor' \in Nat /\ cursor <= cursor' /\ (Takes(c) => cursor' # 0)
  BY <1>2, ItemTypes DEF Event
<1>4. ASSUME Nobody PROVE Nobody'
  BY <1>4, MovedItem DEF Nobody
<1>5. ASSUME conn.state = "open", boundary, cursor' # 0 \/ ~Nobody'
      PROVE  \/ conn.position <= cursor'
             \/ \E i \in 1 .. Len(InFlight') : Current(InFlight[i])' /\ conn.position <= InFlight'[i].id
  <2>1. cursor # 0 \/ ~Nobody
    BY <1>2, <1>4, <1>5
  <2>2. CASE conn.position <= cursor
    <3>1. conn.position \in Int
      BY DEF TypeOK, Connection
    <3>. QED
      BY <1>3, <2>2, <3>1
  <2>3. CASE \E i \in 1 .. Len(InFlight) : Current(InFlight[i]) /\ conn.position <= InFlight[i].id
    <3>1. PICK i \in 1 .. Len(InFlight) : Current(InFlight[i]) /\ conn.position <= InFlight[i].id
      BY <2>3
    <3>2. CASE i = 1 /\ c = 1
      BY <1>2, <3>1, <3>2 DEF Takes
    <3>3. CASE ~(i = 1 /\ c = 1)
      <4>1. i - c \in 1 .. Len(InFlight') /\ (i - c) + c = i
        BY <1>1, <3>3
      <4>2. InFlight'[i - c] = InFlight[i] /\ (Current(InFlight[i - c])' <=> Current(InFlight[i]))
        <5>. DEFINE m == i - c
        <5>1. m \in 1 .. Len(InFlight') /\ m + c = i
          BY <4>1
        <5>. HIDE DEF m
        <5>2. InFlight'[m] = InFlight[i] /\ InFlight'[m].rgen = InFlight[i].rgen
          BY <5>1, MovedItem
        <5>. QED
          BY <5>2 DEF m, Current
      <4>. QED
        BY <3>1, <4>1, <4>2 DEF Current
    <3>. QED
      BY <3>2, <3>3
  <2>. QED
    BY <1>5, <2>1, <2>2, <2>3 DEF RunStream
<1>6. ASSUME conn.state = "open", boundary, cursor' = 0, NEW i \in 1 .. Len(InFlight'), Current(InFlight[i])'
      PROVE  InFlight'[i].id <= conn.position
  <2>1. cursor = 0
    BY <1>3, <1>6
  <2>2. i + c \in 1 .. Len(InFlight) /\ InFlight'[i] = InFlight[i + c] /\ Current(InFlight[i + c])
    BY <1>6, MovedItem
  <2>. QED
    BY <1>6, <2>1, <2>2 DEF RunStream
<1>7. conn.resume <= cursor => conn.resume <= cursor'
  BY <1>3 DEF TypeOK, Connection
<1>8. cursor = 0 /\ Nobody => cursor' = 0 /\ Nobody'
  BY <1>2, <1>4
<1>9. RunStream'
  BY <1>5, <1>6, <1>7, <1>8 DEF RunStream
<1>. QED
  BY <1>3, <1>9

-----------------------------------------------------------------------------
(* A gap *)

LEMMA Resets ==
    ASSUME TypeOK, Past, rgen' = rgen + 1, cursor' = 0, pendingIds' = {}, recovered' = logged,
           logged' = logged, order' \in Nat, Len(InFlight') \in Nat,
           \A i \in 1 .. Len(InFlight') :
               /\ InFlight'[i].id <= logged /\ InFlight'[i].order <= order'
               /\ InFlight'[i].rgen \in Nat /\ InFlight'[i].rgen <= rgen
    PROVE  /\ Nobody' /\ Items' /\ Pending' /\ CursorSkipsNothing' /\ Behind' /\ RunItems'
           /\ \A k \in 1 .. logged : Settled(k)'
<1>1. \A i \in 1 .. Len(InFlight') : ~Current(InFlight[i])' /\ InFlight'[i].rgen <= rgen'
  BY ItemTypes DEF Current
<1>2. Nobody' /\ Behind' /\ RunItems'
  BY <1>1 DEF Nobody, Behind, RunItems
<1>3. Items'
  BY <1>1 DEF Items
<1>4. \A k : ~Underway(k)'
  <2>1. (Len(InFlight') + 1) - 1 = Len(InFlight')
    OBVIOUS
  <2>. QED
    BY <1>1, <2>1 DEF Underway, Ahead
<1>5. Pending'
  BY <1>4 DEF Pending
<1>6. CursorSkipsNothing' /\ \A k \in 1 .. logged : Settled(k)'
  BY DEF CursorSkipsNothing, Settled
<1>. QED
  BY <1>2, <1>3, <1>5, <1>6

LEMMA ResetsStream ==
    ASSUME TypeOK, Past, Nobody', cursor' = 0, \A k \in 1 .. logged : Settled(k)',
           conn'.position \in 0 .. logged, conn'.resume \in 0 .. logged,
           conn'.state = "opening" => ~boundary',
           conn'.state = "open" /\ ~boundary' /\ conn'.control = "connected" /\ conn'.resume # 0 =>
               conn'.position = conn'.resume
    PROVE  Stream'
<1>1. (\A k \in 1 .. conn'.resume : Settled(k)') /\ (\A k \in 1 .. conn'.position : Settled(k)')
  <2>1. 1 .. conn'.resume \subseteq 1 .. logged /\ 1 .. conn'.position \subseteq 1 .. logged
    BY ItemTypes
  <2>. QED
    BY <2>1
<1>. QED
  BY <1>1 DEF Stream

\* What the sinks have applied was logged, and the acknowledgements of older generations are void.
LEMMA ResetsRun ==
    ASSUME TypeOK, Past, RunSinks, Nobody', cursor' = 0, recovered' = logged, cgen' \in Nat, cgen < cgen',
           UNCHANGED <<applied, finished>>
    PROVE  RunStream' /\ RunSinks'
<1>1. RunStream'
  BY DEF RunStream, Nobody
<1>2. RunSinks'
  <2>1. \A s \in 1 .. Sinks : \A k \in applied[s] : k <= logged
    BY ItemTypes DEF Past
  <2>2. ASSUME NEW p \in finished PROVE p[1] <= cgen' /\ p[1] # cgen'
    BY ItemTypes DEF Past, RunSinks
  <2>. QED
    BY <2>1, <2>2 DEF RunSinks
<1>. QED
  BY <1>1, <1>2

-----------------------------------------------------------------------------
(* A data frame the router takes *)

\* The flight grows by d, an event right behind the stream that nobody has seen yet.
Grows(d) ==
    /\ Len(InFlight') = Len(InFlight) + 1 /\ InFlight'[Len(InFlight) + 1] = d
    /\ \A i \in 1 .. Len(InFlight) : InFlight'[i] = InFlight[i]

TakesIn(d) ==
    /\ conn.state = "open" /\ boundary /\ ~closed /\ boundary' = boundary /\ closed' = closed
    /\ conn' = [conn EXCEPT !.position = d.id]
    /\ d.id = conn.position + 1 /\ d.id \in Event /\ d.id <= logged
    /\ d.id \notin pendingIds /\ (cursor = 0 \/ cursor < d.id)
    /\ d.rgen = rgen /\ d.cgen = cgen /\ d.order = order + 1 /\ order' = order + 1
    /\ pendingIds' = pendingIds \union {d.id}
    /\ UNCHANGED <<logged, rgen, cgen, cursor, ackOrder, recovered, ignored, applied>>

LEMMA GrownItem ==
    ASSUME TypeOK, NEW d, Grows(d), rgen' = rgen, NEW i \in 1 .. Len(InFlight')
    PROVE  \/ /\ i \in 1 .. Len(InFlight) /\ InFlight'[i] = InFlight[i]
              /\ Current(InFlight[i])' <=> Current(InFlight[i])
           \/ i = Len(InFlight) + 1 /\ InFlight'[i] = d /\ (Current(InFlight[i])' <=> Current(d))
<1>1. Len(InFlight) \in Nat /\ Len(InFlight') = Len(InFlight) + 1
  BY ItemTypes DEF Grows
<1>2. CASE i \in 1 .. Len(InFlight)
  BY <1>2 DEF Grows, Current
<1>3. CASE i = Len(InFlight) + 1
  BY <1>3 DEF Grows, Current
<1>. QED
  BY <1>1, <1>2, <1>3

LEMMA GrownAhead ==
    ASSUME TypeOK, NEW d, Grows(d), rgen' = rgen, NEW k, NEW i \in 1 .. Len(InFlight) + 1
    PROVE  Ahead(k, i)' <=> Ahead(k, i)
<1>1. \A j \in 1 .. i - 1 : InFlight'[j] = InFlight[j]
  BY ItemTypes DEF Grows
<1>. QED
  BY <1>1 DEF Ahead, Current

LEMMA GrownUnderway ==
    ASSUME TypeOK, NEW d, Grows(d), rgen' = rgen, d.rgen = rgen, NEW k
    PROVE  Underway(k)' <=> Underway(k) \/ k = d.id
<1>1. Len(InFlight) \in Nat /\ Len(InFlight') = Len(InFlight) + 1
  BY ItemTypes DEF Grows
<1>2. Underway(k)' <=> \E j \in 1 .. Len(InFlight) + 1 : InFlight'[j].id = k /\ InFlight'[j].rgen = rgen
  <2>1. (Len(InFlight') + 1) - 1 = Len(InFlight) + 1
    BY <1>1
  <2>. QED
    BY <2>1 DEF Underway, Ahead, Current
<1>3. Underway(k) <=> \E j \in 1 .. Len(InFlight) : InFlight[j].id = k /\ InFlight[j].rgen = rgen
  <2>1. (Len(InFlight) + 1) - 1 = Len(InFlight)
    BY <1>1
  <2>. QED
    BY <2>1 DEF Underway, Ahead, Current
<1>4. \A j \in 1 .. Len(InFlight) + 1 : j \in 1 .. Len(InFlight) \/ j = Len(InFlight) + 1
  BY <1>1
<1>5. Len(InFlight) + 1 \in 1 .. Len(InFlight) + 1 /\ 1 .. Len(InFlight) \subseteq 1 .. Len(InFlight) + 1
  BY <1>1
<1>. QED
  BY <1>2, <1>3, <1>4, <1>5 DEF Grows

LEMMA GrownItems ==
    ASSUME TypeOK, Items, Pending, NEW d, Grows(d), TakesIn(d)
    PROVE  Items'
<1>1. Len(InFlight) \in Nat
  BY ItemTypes
<1>. SUFFICES ASSUME NEW i \in 1 .. Len(InFlight')
     PROVE  /\ InFlight'[i].id <= logged' /\ InFlight'[i].order <= order' /\ InFlight'[i].rgen <= rgen'
            /\ ~Current(InFlight[i])' => InFlight'[i].id <= recovered'
            /\ Current(InFlight[i])' => ackOrder' < InFlight'[i].order
            /\ \A j \in 1 .. i - 1 : Current(InFlight[i])' /\ Current(InFlight[j])' =>
                 InFlight'[j].order < InFlight'[i].order /\ InFlight'[j].id # InFlight'[i].id
  BY DEF Items, Current
<1>2. ASSUME NEW j \in 1 .. Len(InFlight)
      PROVE  /\ InFlight'[j] = InFlight[j] /\ (Current(InFlight[j])' <=> Current(InFlight[j]))
             /\ InFlight[j].order \in Nat /\ InFlight[j].order <= order
             /\ Current(InFlight[j]) => InFlight[j].id # d.id
  <2>1. InFlight'[j] = InFlight[j] /\ (Current(InFlight[j])' <=> Current(InFlight[j]))
    BY DEF Grows, TakesIn, Current
  <2>2. /\ InFlight[j].order \in Nat /\ InFlight[j].order <= order /\ InFlight[j].id \in Event
    BY ItemTypes DEF Items
  <2>3. ASSUME Current(InFlight[j]), InFlight[j].id = d.id PROVE FALSE
    <3>1. j \in 1 .. (Len(InFlight) + 1) - 1
      BY <1>1
    <3>2. Underway(d.id)
      BY <2>3, <3>1 DEF Underway, Ahead
    <3>. QED
      BY <2>2, <2>3, <3>2 DEF Pending, TakesIn
  <2>. QED
    BY <2>1, <2>2, <2>3
<1>3. CASE i \in 1 .. Len(InFlight)
  <2>1. \A j \in 1 .. i - 1 : j \in 1 .. Len(InFlight)
    BY <1>1, <1>3
  <2>2. InFlight[i].order <= order'
    BY <1>2, <1>3, ItemTypes DEF TakesIn
  <2>. QED
    BY <1>2, <1>3, <2>1, <2>2 DEF Items, TakesIn
<1>4. CASE i = Len(InFlight) + 1
  <2>1. \A j \in 1 .. i - 1 : j \in 1 .. Len(InFlight)
    BY <1>1, <1>4
  <2>2. InFlight'[i] = d /\ Current(InFlight[i])'
    BY <1>4 DEF Grows, TakesIn, Current
  <2>3. /\ d.id <= logged' /\ d.order <= order' /\ d.rgen <= rgen' /\ ackOrder' < d.order
        /\ \A n \in Nat : n <= order => n < d.order
    BY ItemTypes DEF TakesIn, TypeOK
  <2>4. \A j \in 1 .. i - 1 : Current(InFlight[j])' =>
          InFlight'[j].order < d.order /\ InFlight'[j].id # d.id
    BY <1>2, <2>1, <2>3
  <2>. QED
    BY <2>2, <2>3, <2>4
<1>5. i \in 1 .. Len(InFlight) \/ i = Len(InFlight) + 1
  BY GrownItem DEF TakesIn
<1>. QED
  BY ONLY <1>3, <1>4, <1>5

LEMMA GrownBehind ==
    ASSUME TypeOK, Past, Turns, Pending, Behind, Stream, NEW d, Grows(d), TakesIn(d)
    PROVE  Pending' /\ Behind' /\ Stream'
<1>1. Len(InFlight) \in Nat /\ d.id \in Nat /\ conn.position \in Nat
  <2>1. conn.position \in Nat
    BY DEF TypeOK, Connection
  <2>2. d.id \in Nat
    BY <2>1 DEF TakesIn
  <2>. QED
    BY <2>1, <2>2, ItemTypes
<1>2. \A k : Settled(k)' <=> Settled(k)
  BY DEF Settled, TakesIn
<1>3. \A k : Underway(k)' <=> Underway(k) \/ k = d.id
  BY GrownUnderway DEF TakesIn
<1>4. Pending'
  <2>1. pendingIds = {k \in Event : Underway(k)} /\ ~closed'
    BY DEF Pending, TakesIn
  <2>. QED
    BY <1>3, <2>1 DEF Pending, TakesIn
<1>5. \A k \in 1 .. conn.position : Settled(k) \/ Underway(k)
  BY DEF Stream, TakesIn
<1>6. Behind'
  <2>. SUFFICES ASSUME NEW i \in 1 .. Len(InFlight'), Current(InFlight[i])', NEW k \in 1 .. InFlight'[i].id - 1
       PROVE  Settled(k)' \/ Ahead(k, i)'
    BY DEF Behind
  <2>1. CASE i \in 1 .. Len(InFlight)
    <3>1. InFlight'[i] = InFlight[i] /\ Current(InFlight[i])
      BY <2>1 DEF Grows, TakesIn, Current
    <3>2. Settled(k) \/ Ahead(k, i)
      BY <2>1, <3>1 DEF Behind, Turns, TakesIn
    <3>3. Ahead(k, i)' <=> Ahead(k, i)
      <4>1. i \in 1 .. Len(InFlight) + 1
        BY <1>1, <2>1
      <4>. QED
        BY <4>1, GrownAhead DEF TakesIn
    <3>. QED
      BY <1>2, <3>2, <3>3
  <2>2. CASE i = Len(InFlight) + 1
    <3>1. k \in 1 .. conn.position
      BY <1>1, <2>2 DEF Grows, TakesIn
    <3>2. Settled(k) \/ Ahead(k, i)
      BY <1>5, <2>2, <3>1 DEF Underway
    <3>3. Ahead(k, i)' <=> Ahead(k, i)
      <4>1. i \in 1 .. Len(InFlight) + 1
        BY <1>1, <2>2
      <4>. QED
        BY <4>1, GrownAhead DEF TakesIn
    <3>. QED
      BY <1>2, <3>2, <3>3
  <2>. QED
    BY <2>1, <2>2, GrownItem DEF TakesIn
<1>7. Stream'
  <2>1. \A k \in 1 .. d.id : k \in 1 .. conn.position \/ k = d.id
    BY <1>1 DEF TakesIn
  <2>2. conn'.state = "open" /\ boundary' /\ conn'.position = d.id /\ conn'.resume = conn.resume
    BY DEF TakesIn, TypeOK, Connection
  <2>. QED
    BY <1>2, <1>3, <1>5, <2>1, <2>2 DEF Stream, TakesIn
<1>. QED
  BY <1>4, <1>6, <1>7

\* As long as nothing disturbed the router, the frame continues the run.
LEMMA GrownRun ==
    ASSUME TypeOK, Pending, RunItems, RunStream, NEW d, Grows(d), TakesIn(d)
    PROVE  RunItems' /\ RunStream'
<1>1. /\ Len(InFlight) \in Nat /\ d.id \in Nat \ {0} /\ conn.position \in Nat /\ cursor \in Nat
      /\ d.id = conn.position + 1
      /\ \A i \in 1 .. Len(InFlight) : InFlight[i].id \in Nat /\ InFlight[i].id \in Event
  <2>1. d.id \in Event /\ conn.position \in 0 .. MaxEvents /\ d.id = conn.position + 1
    BY DEF TakesIn, TypeOK, Connection
  <2>2. d.id \in Nat \ {0} /\ conn.position \in Nat
    BY <2>1, DeliveryAssumption DEF Event, DeliveryAssumption
  <2>. QED
    BY <2>1, <2>2, ItemTypes
<1>2. cursor < d.id
  BY <1>1 DEF TakesIn
<1>3. ~Underway(d.id)
  BY DEF Pending, TakesIn
<1>4. /\ cursor # 0 \/ ~Nobody =>
           \/ conn.position <= cursor
           \/ \E i \in 1 .. Len(InFlight) : Current(InFlight[i]) /\ conn.position <= InFlight[i].id
      /\ cursor = 0 => \A i \in 1 .. Len(InFlight) : Current(InFlight[i]) => InFlight[i].id <= conn.position
  BY DEF RunStream, TakesIn
<1>5. \A k, i : i \in 1 .. Len(InFlight) + 1 /\ Ahead(k, i) => Underway(k)
  BY <1>1 DEF Underway, Ahead
<1>6. ASSUME NEW i \in 1 .. Len(InFlight), Current(InFlight[i]) PROVE Underway(InFlight[i].id)
  <2>1. i \in 1 .. (Len(InFlight) + 1) - 1
    BY <1>1
  <2>. QED
    BY <1>6, <2>1 DEF Underway, Ahead
\* All of the run is before the new event.
<1>7. ASSUME NEW i \in 1 .. Len(InFlight), Current(InFlight[i]) PROVE InFlight[i].id < d.id
  <2>1. CASE cursor = 0
    BY <1>1, <1>4, <1>7, <2>1
  <2>2. CASE cursor # 0
    <3>. SUFFICES ASSUME ~(InFlight[i].id < d.id) PROVE FALSE
      OBVIOUS
    <3>1. InFlight[i].id # d.id
      BY <1>3, <1>6, <1>7
    <3>2. d.id \in 1 .. InFlight[i].id - 1
      BY <1>1, <3>1
    <3>3. Ahead(d.id, i)
      BY <1>2, <1>7, <2>2, <3>2 DEF RunItems
    <3>. QED
      BY <1>1, <1>3, <1>5, <3>3
  <2>. QED
    BY <2>1, <2>2
\* Whatever lies between the cursor, or the run, and the new event is on its way.
<1>8. ASSUME NEW k \in 1 .. d.id - 1,
             \/ cursor # 0 /\ cursor < k
             \/ \E j \in 1 .. Len(InFlight) : Current(InFlight[j]) /\ InFlight[j].id < k
      PROVE  Underway(k)
  <2>1. k \in Nat /\ k <= conn.position /\ cursor < k
    <3>1. k \in Nat /\ k <= conn.position
      BY <1>1
    <3>2. cursor < k
      <4>1. CASE \E j \in 1 .. Len(InFlight) : Current(InFlight[j]) /\ InFlight[j].id < k
        <5>1. PICK j \in 1 .. Len(InFlight) : Current(InFlight[j]) /\ InFlight[j].id < k
          BY <4>1
        <5>2. cursor < InFlight[j].id /\ InFlight[j].id \in Nat
          BY <1>1, <5>1 DEF RunItems
        <5>. QED
          BY <1>1, <3>1, <5>1, <5>2
      <4>. QED
        BY <1>8, <4>1
    <3>. QED
      BY <3>1, <3>2
  <2>2. cursor # 0 \/ ~Nobody
    BY <1>8 DEF Nobody
  <2>3. ~(conn.position <= cursor)
    BY <1>1, <2>1
  <2>4. PICK i \in 1 .. Len(InFlight) : Current(InFlight[i]) /\ conn.position <= InFlight[i].id
    BY <1>4, <2>2, <2>3
  <2>5. InFlight[i].id \in Nat /\ k <= InFlight[i].id
    BY <1>1, <2>1, <2>4
  <2>6. CASE k = InFlight[i].id
    BY <1>6, <2>4, <2>6
  <2>7. CASE k # InFlight[i].id
    <3>1. k \in 1 .. InFlight[i].id - 1
      BY <2>1, <2>5, <2>7, <1>1
    <3>2. \/ cursor # 0 /\ cursor < k
          \/ \E j \in 1 .. i - 1 : Current(InFlight[j]) /\ InFlight[j].id < k
      <4>1. CASE \E j \in 1 .. Len(InFlight) : Current(InFlight[j]) /\ InFlight[j].id < k
        <5>1. PICK j \in 1 .. Len(InFlight) : Current(InFlight[j]) /\ InFlight[j].id < k
          BY <4>1
        <5>2. InFlight[j].id \in Nat /\ InFlight[j].id < InFlight[i].id
          BY <1>1, <2>1, <2>5, <5>1
        <5>3. ~(i \in 1 .. j - 1)
          <6>1. i \in 1 .. j - 1 => InFlight[i].id < InFlight[j].id
            BY <2>4, <5>1 DEF RunItems
          <6>. QED
            BY <2>5, <5>2, <6>1
        <5>4. j # i
          BY <2>5, <5>2
        <5>5. j \in 1 .. i - 1
          BY <5>3, <5>4
        <5>. QED
          BY <5>1, <5>5
      <4>. QED
        BY <1>8, <4>1
    <3>3. Ahead(k, i)
      BY <2>4, <3>1, <3>2 DEF RunItems
    <3>. QED
      BY <1>1, <1>5, <2>4, <3>3
  <2>. QED
    BY <2>6, <2>7
<1>9. RunItems'
  <2>. SUFFICES ASSUME NEW i \in 1 .. Len(InFlight'), Current(InFlight[i])'
       PROVE  /\ cursor < InFlight'[i].id /\ InFlight'[i].cgen = cgen
              /\ \A j \in 1 .. i - 1 : Current(InFlight[j])' => InFlight'[j].id < InFlight'[i].id
              /\ \A k \in 1 .. InFlight'[i].id - 1 :
                   \/ cursor # 0 /\ cursor < k
                   \/ \E j \in 1 .. i - 1 : Current(InFlight[j])' /\ InFlight'[j].id < k
                   => Ahead(k, i)'
    BY DEF RunItems, TakesIn
  <2>1. i \in 1 .. Len(InFlight) \/ i = Len(InFlight) + 1
    BY GrownItem DEF TakesIn
  <2>2. i \in 1 .. Len(InFlight) + 1 /\ \A j \in 1 .. i - 1 : j \in 1 .. Len(InFlight)
    BY <1>1, <2>1
  <2>3. \A j \in 1 .. i - 1 : InFlight'[j] = InFlight[j] /\ (Current(InFlight[j])' <=> Current(InFlight[j]))
    BY <2>2 DEF Grows, TakesIn, Current
  <2>4. \A k : Ahead(k, i)' <=> Ahead(k, i)
    BY <2>2, GrownAhead DEF TakesIn
  <2>5. CASE i \in 1 .. Len(InFlight)
    <3>1. InFlight'[i] = InFlight[i] /\ Current(InFlight[i])
      BY <2>5 DEF Grows, TakesIn, Current
    <3>. QED
      BY <2>3, <2>4, <2>5, <3>1 DEF RunItems
  <2>6. CASE i = Len(InFlight) + 1
    <3>1. InFlight'[i] = d
      BY <2>6 DEF Grows
    <3>2. ASSUME NEW k \in 1 .. d.id - 1,
                 \/ cursor # 0 /\ cursor < k
                 \/ \E j \in 1 .. i - 1 : Current(InFlight[j])' /\ InFlight'[j].id < k
          PROVE  Ahead(k, i)'
      <4>1. \/ cursor # 0 /\ cursor < k
            \/ \E j \in 1 .. Len(InFlight) : Current(InFlight[j]) /\ InFlight[j].id < k
        BY <2>2, <2>3, <3>2
      <4>2. Underway(k)
        BY <1>8, <4>1
      <4>. QED
        BY <2>4, <2>6, <4>2 DEF Underway
    <3>. QED
      BY <1>2, <1>7, <2>2, <2>3, <3>1, <3>2 DEF TakesIn
  <2>. QED
    BY <2>1, <2>5, <2>6
<1>10. RunStream'
  <2>1. Len(InFlight) + 1 \in 1 .. Len(InFlight') /\ InFlight'[Len(InFlight) + 1] = d
    BY <1>1 DEF Grows
  <2>2. conn'.state = "open" /\ boundary' /\ conn'.position = d.id
    BY DEF TakesIn, TypeOK, Connection
  <2>3. d.rgen = rgen'
    BY DEF TakesIn
  <2>4. \E i \in 1 .. Len(InFlight') : InFlight'[i].rgen = rgen' /\ conn'.position <= InFlight'[i].id
    BY <1>1, <2>1, <2>2, <2>3
  <2>5. ASSUME NEW i \in 1 .. Len(InFlight'), Current(InFlight[i])' PROVE InFlight'[i].id <= d.id
    <3>1. CASE i \in 1 .. Len(InFlight)
      <4>1. InFlight'[i] = InFlight[i] /\ Current(InFlight[i])
        BY <2>5, <3>1 DEF Grows, TakesIn, Current
      <4>. QED
        BY <1>1, <1>7, <3>1, <4>1
    <3>2. CASE i = Len(InFlight) + 1
      BY <1>1, <2>1, <3>2
    <3>. QED
      BY <3>1, <3>2, GrownItem DEF TakesIn
  <2>. QED
    BY <2>2, <2>4, <2>5 DEF RunStream, Current
<1>. QED
  BY <1>9, <1>10

-----------------------------------------------------------------------------
(* What the actions do to the flight *)

LEMMA DrainTyped ==
    ASSUME TypeOK
    PROVE  /\ queue \in Seq(Delivery) /\ Len(queue) <= Capacity /\ drain \in DrainType
           /\ Len(queue) \in Nat /\ Capacity \in Nat /\ Capacity # 0
  BY DeliveryAssumption DEF TypeOK, DrainType, DeliveryAssumption

\* The item the drain holds is the first of the flight.
LEMMA HeldItem ==
    ASSUME TypeOK, Held
    PROVE  /\ InFlight # <<>> /\ 1 \in 1 .. Len(InFlight) /\ InFlight[1] = drain.delivery
           /\ drain.delivery \in Delivery /\ Len(InFlight) = Len(queue) + 1
  BY Flight, DrainTyped, DrainPhases

LEMMA Kept ==
    ASSUME TypeOK, UNCHANGED <<queue, drain>>
    PROVE  Moves(0) /\ InFlight' = InFlight
<1>1. InFlight' = InFlight
  BY DEF InFlight
<1>. QED
  BY <1>1, SameFlight

\* The drain goes on with the item it holds.
LEMMA GoesOn ==
    ASSUME TypeOK, Held, NEW s \in 1 .. Sinks, drain' = Delivering(drain.delivery, s), queue' = queue
    PROVE  /\ Moves(0) /\ InFlight' = InFlight /\ drain' \in DrainType
           /\ drain'.phase = "delivering" /\ drain'.delivery = drain.delivery /\ drain'.sink = s
           /\ drain' # Waiting /\ drain' # Stopped
<1>1. drain.delivery \in Delivery
  BY HeldItem
<1>2. /\ drain' \in DrainType /\ drain'.phase = "delivering" /\ drain'.delivery = drain.delivery
      /\ drain'.sink = s /\ drain' # Waiting /\ drain' # Stopped
  BY <1>1, PhaseTypes
<1>3. InFlight' = InFlight
  BY <1>2 DEF InFlight, Held
<1>. QED
  BY <1>2, <1>3, SameFlight

\* The drain is done with the item it holds.
LEMMA TurnsTo ==
    ASSUME TypeOK, Held, NextTurn
    PROVE  /\ Moves(1) /\ queue' \in Seq(Delivery) /\ Len(queue') <= Capacity /\ drain' \in DrainType
           /\ drain'.phase # "delivering"
           /\ drain' = Waiting => queue' = <<>>
           /\ drain' = Stopped => closed
           /\ closed => drain' = Stopped
           /\ Takes(1) <=> Current(drain.delivery)
<1>1. InFlight' = Tail(InFlight) /\ InFlight # <<>> /\ InFlight[1] = drain.delivery
  BY Turned, DrainTyped, HeldItem
<1>. QED
  BY <1>1, LessFlight, Turned, DrainTyped DEF Takes

\* A waiting drain is handed the item, a busy one finds it at the end of its queue.
LEMMA PushedFlight ==
    ASSUME TypeOK, Turns, ~closed, NEW d \in Delivery,
           \/ drain = Waiting /\ drain' = Popped(d) /\ UNCHANGED queue
           \/ drain # Waiting /\ Len(queue) < Capacity /\ queue' = Append(queue, d) /\ UNCHANGED drain
    PROVE  /\ Grows(d) /\ queue' \in Seq(Delivery) /\ Len(queue') <= Capacity /\ drain' \in DrainType
           /\ drain' # Waiting /\ drain' # Stopped
           /\ drain'.phase = "delivering" => UNCHANGED drain
<1>1. CASE drain = Waiting /\ drain' = Popped(d) /\ UNCHANGED queue
  <2>1. queue = <<>> /\ ~Held
    BY <1>1 DEF Turns, Waiting, Held
  <2>2. InFlight = <<>>
    BY <1>1, <2>1, Flight, DrainTyped
  <2>3. drain' \in DrainType /\ drain'.phase = "popped" /\ drain'.delivery = d /\ drain' # Waiting /\ drain' # Stopped
    BY <1>1, PhaseTypes
  <2>4. InFlight' = <<d>>
    <3>1. <<d>> \o <<>> = <<d>>
      OBVIOUS
    <3>. QED
      BY <1>1, <2>1, <2>3, <3>1 DEF InFlight
  <2>. QED
    BY <1>1, <2>2, <2>3, <2>4, DrainTyped DEF Grows
<1>2. CASE drain # Waiting /\ Len(queue) < Capacity /\ queue' = Append(queue, d) /\ UNCHANGED drain
  <2>1. Held /\ drain # Stopped
    BY <1>2, DrainTyped, DrainPhases DEF Turns, Held
  <2>2. queue' \in Seq(Delivery) /\ Len(queue') = Len(queue) + 1
    BY <1>2, DrainTyped
  <2>. DEFINE h == drain.delivery
  <2>3. h \in Delivery /\ InFlight = <<h>> \o queue /\ InFlight' = <<h>> \o Append(queue, d)
    BY <1>2, <2>1, HeldItem DEF InFlight, Held
  <2>. HIDE DEF h
  <2>4. (<<h>> \o Append(queue, d)) = Append(<<h>> \o queue, d)
    BY <2>3, DrainTyped
  <2>5. Grows(d)
    <3>1. InFlight \in Seq(Delivery) /\ InFlight' = Append(InFlight, d)
      BY <2>3, <2>4, ItemTypes
    <3>. QED
      BY <3>1 DEF Grows
  <2>6. Len(queue') <= Capacity
    <3>. DEFINE n == Len(queue)
    <3>1. n \in Nat /\ n < Capacity /\ Capacity \in Nat /\ Len(queue') = n + 1
      BY <1>2, <2>2, DrainTyped
    <3>. HIDE DEF n
    <3>. QED
      BY ONLY <3>1
  <2>. QED
    BY <1>2, <2>1, <2>2, <2>5, <2>6, DrainTyped
<1>. QED
  BY <1>1, <1>2

LEMMA Consed ==
    ASSUME NEW S, NEW h \in S, NEW q \in Seq(S), NEW m \in 1 .. Len(q)
    PROVE  (<<h>> \o q)[m + 1] = q[m]
  OBVIOUS

LEMMA Appended ==
    ASSUME NEW S, NEW d \in S, NEW q \in Seq(S), NEW m \in 1 .. Len(q)
    PROVE  Append(q, d)[m] = q[m]
  OBVIOUS

\* A full queue sheds an item: what is left was there before, or is the new one.
LEMMA ShedFlight ==
    ASSUME TypeOK, Turns, ~closed, NEW d \in Delivery, drain # Waiting, Len(queue) >= Capacity, UNCHANGED drain,
           queue' = IF overflow = "drop-oldest" THEN Append(Tail(queue), d) ELSE queue
    PROVE  /\ queue' \in Seq(Delivery) /\ Len(queue') <= Capacity /\ Len(InFlight') \in Nat
           /\ \A i \in 1 .. Len(InFlight') :
                InFlight'[i] = d \/ \E j \in 1 .. Len(InFlight) : InFlight'[i] = InFlight[j]
<1>1. Held
  BY DrainTyped, DrainPhases DEF Turns, Held
<1>2. CASE overflow # "drop-oldest"
  <2>1. InFlight' = InFlight
    BY <1>2 DEF InFlight
  <2>. QED
    BY <1>2, <2>1, DrainTyped, ItemTypes
<1>3. CASE overflow = "drop-oldest"
  <2>. DEFINE h == drain.delivery
              n == Len(queue)
  <2>1. n \in Nat /\ n = Capacity /\ n # 0 /\ queue # <<>>
    BY DrainTyped
  <2>2. /\ h \in Delivery /\ InFlight = <<h>> \o queue /\ InFlight' = <<h>> \o Append(Tail(queue), d)
        /\ queue' = Append(Tail(queue), d) /\ Len(InFlight) = n + 1
    BY <1>1, <1>3, HeldItem DEF InFlight, Held
  <2>. HIDE DEF h
  <2>3. /\ Tail(queue) \in Seq(Delivery) /\ Len(Tail(queue)) = n - 1
        /\ \A i \in 1 .. n - 1 : Tail(queue)[i] = queue[i + 1]
    BY <2>1, DrainTyped
  <2>. DEFINE t == Tail(queue)
  <2>. HIDE DEF t, n
  <2>4. t \in Seq(Delivery) /\ Len(t) = n - 1 /\ \A i \in 1 .. n - 1 : t[i] = queue[i + 1]
    BY <2>3 DEF t
  <2>5. queue' \in Seq(Delivery) /\ Len(queue') = n
    BY <2>1, <2>2, <2>4 DEF t
  <2>6. InFlight' \in Seq(Delivery) /\ Len(InFlight') = n + 1
    BY <2>1, <2>2, <2>5
  <2>7. ASSUME NEW i \in 1 .. n + 1
        PROVE  InFlight'[i] = d \/ \E j \in 1 .. Len(InFlight) : InFlight'[i] = InFlight[j]
    <3>1. CASE i = 1
      <4>1. InFlight'[i] = h /\ InFlight[1] = h /\ 1 \in 1 .. Len(InFlight)
        BY <2>1, <2>2, <2>5, <3>1, DrainTyped
      <4>. QED
        BY <4>1
    <3>2. CASE i = n + 1
      <4>1. InFlight'[i] = queue'[n]
        BY <2>1, <2>2, <2>5, <3>2
      <4>2. queue'[n] = d
        BY <2>1, <2>2, <2>4 DEF t
      <4>. QED
        BY <4>1, <4>2
    <3>3. CASE i # 1 /\ i # n + 1
      <4>. DEFINE m == i - 1
      <4>1. m \in 1 .. n - 1 /\ i = m + 1 /\ m + 1 \in 1 .. n /\ i + 1 \in 1 .. Len(InFlight)
        BY <2>1, <2>2, <3>3
      <4>. HIDE DEF m
      <4>2. InFlight'[i] = queue'[m]
        <5>1. InFlight' = <<h>> \o queue' /\ queue' \in Seq(Delivery) /\ m \in 1 .. Len(queue')
          <6>1. InFlight' = <<h>> \o queue'
            BY ONLY <2>2
          <6>2. m \in 1 .. n
            BY ONLY <2>1, <4>1
          <6>. QED
            BY ONLY <2>5, <6>1, <6>2
        <5>2. (<<h>> \o queue')[m + 1] = queue'[m]
          BY <2>2, <5>1, Consed
        <5>. QED
          BY <4>1, <5>1, <5>2
      <4>3. queue'[m] = t[m]
        <5>1. queue' = Append(t, d) /\ m \in 1 .. Len(t)
          BY <2>2, <2>4, <4>1 DEF t
        <5>2. Append(t, d)[m] = t[m]
          BY <2>4, <5>1, Appended
        <5>. QED
          BY <5>1, <5>2
      <4>4. t[m] = queue[m + 1]
        BY <2>4, <4>1
      <4>5. InFlight[i + 1] = queue[m + 1]
        BY <2>1, <2>2, <4>1, DrainTyped DEF n
      <4>. QED
        BY <4>1, <4>2, <4>3, <4>4, <4>5
    <3>. QED
      BY <3>1, <3>2, <3>3
  <2>. QED
    BY <2>1, <2>5, <2>6, <2>7, DrainTyped
<1>. QED
  BY <1>2, <1>3

-----------------------------------------------------------------------------
(* The server and the connection *)

\* A step that leaves the router alone, and the cursor unless it forgets it.
LEMMA Still ==
    ASSUME IInv, UNCHANGED <<queue, drain, rgen, closed, pendingIds, ackOrder, applied, ignored>>,
           cursor' = cursor \/ cursor' = 0,
           recovered' \in Nat, recovered <= recovered', logged' \in Nat, logged <= logged',
           order' \in Nat, order <= order'
    PROVE  /\ Moves(0) /\ ~Takes(0) /\ InFlight' = InFlight
           /\ Turns' /\ Items' /\ Pending' /\ CursorSkipsNothing' /\ Behind'
           /\ \A k \in Nat : Settled(k) => Settled(k)'
           /\ \A k : Underway(k) => Underway(k)'
           /\ Nobody' <=> Nobody
           /\ RunItems /\ cgen' = cgen /\ cursor' = cursor => RunItems'
<1>1. TypeOK /\ Moves(0) /\ ~Takes(0) /\ InFlight' = InFlight
  BY Kept DEF IInv, Takes
<1>2. \A k \in Nat : Settled(k) => Settled(k)'
  BY <1>1, SettledKept
<1>3. Items'
  BY <1>1, MovedItems DEF IInv, Items
<1>4. Pending'
  BY <1>1, MovedPending DEF IInv
<1>5. Behind'
  BY <1>1, <1>2, MovedBehind DEF IInv
<1>6. CursorSkipsNothing'
  BY <1>1, <1>2, ItemTypes DEF IInv, CursorSkipsNothing
<1>7. \A k : Underway(k) => Underway(k)'
  BY <1>1, MovedUnderway DEF IInv
<1>8. RunItems /\ cgen' = cgen /\ cursor' = cursor => RunItems'
  BY <1>1, MovedRunItems DEF IInv
<1>9. Turns' /\ (Nobody' <=> Nobody)
  BY <1>1 DEF IInv, Turns, Nobody, Current
<1>. QED
  BY <1>1, <1>2, <1>3, <1>4, <1>5, <1>6, <1>7, <1>8, <1>9

LEMMA ConnTyped ==
    ASSUME TypeOK
    PROVE  /\ Offline \in Connection /\ Offline.state = "off" /\ Offline.resume = 0 /\ Offline.position = 0
           /\ Offline.control = "connected"
           /\ conn \in Connection /\ conn.resume \in 0 .. MaxEvents /\ conn.position \in 0 .. MaxEvents
           /\ conn.resume \in Nat /\ conn.position \in Nat
           /\ conn.state \in {"off", "down", "opening", "open"} /\ conn.control \in {"connected", "reset"}
           /\ MaxEvents \in Nat /\ logged \in 0 .. MaxEvents
  BY DeliveryAssumption DEF TypeOK, Connection, Offline, DeliveryAssumption

LEMMA StepLog ==
    ASSUME IInv, Log, overflow' = overflow
    PROVE  IInv'
<1>1. logged' = logged + 1 /\ logged' \in 0 .. MaxEvents /\ logged \in Nat /\ logged' \in Nat
  BY ConnTyped DEF IInv, Log, TypeOK
<1>2. UNCHANGED <<conn, boundary, cgen, cursor, order, ackOrder, closed, rgen, pendingIds, queue, drain,
                  drops, faults, closes, applied, ignored, recovered, finished, overtaken>>
  BY DEF Log, channelVars, routerVars, bounds, history
<1>3. TypeOK /\ recovered \in Nat /\ order \in Nat
  BY ItemTypes DEF IInv
<1>4. /\ Moves(0) /\ ~Takes(0) /\ Turns' /\ Items' /\ Pending' /\ CursorSkipsNothing' /\ Behind'
      /\ \A k \in Nat : Settled(k) => Settled(k)'
      /\ RunItems /\ cgen' = cgen => RunItems'
  BY <1>1, <1>2, <1>3, Still
<1>5. Stream'
  BY <1>2, <1>3, <1>4, MovedStream DEF IInv
<1>6. TypeOK'
  BY <1>1, <1>2, <1>3 DEF TypeOK
<1>7. Past'
  BY <1>1, <1>2, <1>3, ConnTyped DEF IInv, Past
<1>8. ASSUME Undisturbed' PROVE Run'
  <2>1. Run
    BY <1>2, <1>8 DEF IInv, Undisturbed
  <2>2. RunStream'
    BY <1>2, <1>3, <1>4, <2>1, MovedRunStream DEF IInv, Run
  <2>3. RunSinks'
    BY <1>2, <2>1 DEF Run, RunSinks, Current
  <2>. QED
    BY <1>2, <1>4, <2>1, <2>2, <2>3 DEF Run
<1>. QED
  BY <1>4, <1>5, <1>6, <1>7, <1>8 DEF IInv

\* A new connection that is not open yet owes nothing.
LEMMA StepConnection ==
    ASSUME IInv,
           UNCHANGED <<logged, cursor, order, ackOrder, closed, rgen, pendingIds, overflow, queue, drain,
                       applied, ignored, recovered, finished>>,
           overtaken' \in BOOLEAN, cgen' \in Nat, Undisturbed' => Undisturbed /\ cgen' = cgen,
           drops' \in Nat, faults' \in Nat, closes' \in Nat,
           conn' \in Connection, conn'.position <= logged, conn'.resume <= logged, boundary' \in BOOLEAN,
           Stream', Undisturbed' => RunStream'
    PROVE  IInv'
<1>1. TypeOK /\ recovered \in Nat /\ order \in Nat /\ logged \in Nat
  BY ItemTypes DEF IInv
<1>2. /\ Turns' /\ Items' /\ Pending' /\ CursorSkipsNothing' /\ Behind'
      /\ RunItems /\ cgen' = cgen => RunItems'
  BY <1>1, Still
<1>3. TypeOK'
  BY <1>1 DEF TypeOK
<1>4. Past'
  BY DEF IInv, Past
<1>5. ASSUME Undisturbed' PROVE Run'
  <2>1. Run
    BY <1>5 DEF IInv
  <2>2. RunSinks'
    BY <1>5, <2>1 DEF Run, RunSinks, Current
  <2>. QED
    BY <1>2, <1>5, <2>1, <2>2 DEF Run
<1>. QED
  BY <1>2, <1>3, <1>4, <1>5 DEF IInv

LEMMA StepConnect ==
    ASSUME IInv, Connect, overflow' = overflow
    PROVE  IInv'
<1>. DEFINE r == [Offline EXCEPT !.state = "down"]
<1>1. TypeOK
  BY DEF IInv
<1>2. r \in Connection /\ r.state = "down" /\ r.position = 0 /\ r.resume = 0
  BY <1>1, ConnTyped DEF Connection
<1>. HIDE DEF r
<1>3. conn' = r
  BY DEF Connect, r
<1>4. UNCHANGED <<logged, boundary, cgen, cursor, order, ackOrder, closed, rgen, pendingIds, queue, drain,
                  drops, faults, closes, applied, ignored, recovered, finished, overtaken>>
  BY DEF Connect, channelVars, routerVars, bounds, history
<1>5. Stream' /\ RunStream'
  BY <1>2, <1>3 DEF Stream, RunStream
<1>6. /\ overtaken' \in BOOLEAN /\ boundary' \in BOOLEAN /\ (Undisturbed' => Undisturbed) /\ cgen' \in Nat
      /\ drops' \in Nat /\ faults' \in Nat /\ closes' \in Nat
  BY <1>1, <1>4 DEF TypeOK, Undisturbed, IInv, Past
<1>7. conn' \in Connection /\ conn'.position <= logged /\ conn'.resume <= logged
  BY <1>1, <1>2, <1>3, ItemTypes
<1>. QED
  BY <1>4, <1>5, <1>6, <1>7, StepConnection

LEMMA StepDrop ==
    ASSUME IInv, Drop, overflow' = overflow
    PROVE  IInv'
<1>. DEFINE r == [Offline EXCEPT !.state = "down"]
<1>1. TypeOK
  BY DEF IInv
<1>2. r \in Connection /\ r.state = "down" /\ r.position = 0 /\ r.resume = 0
  BY <1>1, ConnTyped DEF Connection
<1>. HIDE DEF r
<1>3. conn' = r
  BY DEF Drop, r
<1>4. UNCHANGED <<logged, boundary, cgen, cursor, order, ackOrder, closed, rgen, pendingIds, queue, drain,
                  faults, closes, applied, ignored, recovered, finished, overtaken>>
  BY DEF Drop, channelVars, routerVars, bounds, history
<1>5. Stream' /\ RunStream'
  BY <1>2, <1>3 DEF Stream, RunStream
<1>6. /\ overtaken' \in BOOLEAN /\ boundary' \in BOOLEAN /\ (Undisturbed' => Undisturbed) /\ cgen' \in Nat
      /\ drops' \in Nat /\ faults' \in Nat /\ closes' \in Nat
  BY <1>1, <1>4 DEF TypeOK, Undisturbed, IInv, Past, Drop
<1>7. conn' \in Connection /\ conn'.position <= logged /\ conn'.resume <= logged
  BY <1>1, <1>2, <1>3, ItemTypes
<1>. QED
  BY <1>4, <1>5, <1>6, <1>7, StepConnection

\* Where an attempt will resume is settled, and behind the run.
LEMMA StepStartAttempt ==
    ASSUME IInv, StartAttempt, overflow' = overflow
    PROVE  IInv'
<1>. DEFINE r == [Offline EXCEPT !.state = "opening", !.resume = cursor]
<1>1. TypeOK
  BY DEF IInv
<1>2. cursor \in 0 .. MaxEvents /\ cursor \in Nat /\ cursor <= logged /\ logged \in Nat
  BY <1>1, ConnTyped DEF TypeOK
<1>3. r \in Connection /\ r.state = "opening" /\ r.position = 0 /\ r.resume = cursor
  BY <1>1, <1>2, ConnTyped DEF Connection
<1>. HIDE DEF r
<1>4. conn' = r /\ boundary' = FALSE
  BY DEF StartAttempt, r
<1>5. UNCHANGED <<logged, cgen, cursor, order, ackOrder, closed, rgen, pendingIds, queue, drain,
                  drops, faults, closes, applied, ignored, recovered, finished, overtaken>>
  BY DEF StartAttempt, channelVars, routerVars, bounds, history
<1>6. Stream'
  <2>1. \A k \in 1 .. cursor : Settled(k)'
    BY <1>5 DEF IInv, CursorSkipsNothing, Settled
  <2>. QED
    BY <1>3, <1>4, <2>1 DEF Stream
<1>7. RunStream'
  BY <1>2, <1>3, <1>4, <1>5 DEF RunStream
<1>8. /\ overtaken' \in BOOLEAN /\ boundary' \in BOOLEAN /\ (Undisturbed' => Undisturbed) /\ cgen' \in Nat
      /\ drops' \in Nat /\ faults' \in Nat /\ closes' \in Nat
  BY <1>1, <1>4, <1>5 DEF TypeOK, Undisturbed, IInv, Past
<1>9. conn' \in Connection /\ conn'.position <= logged /\ conn'.resume <= logged
  BY <1>2, <1>3, <1>4
<1>. QED
  BY <1>5, <1>6, <1>7, <1>8, <1>9, StepConnection

\* The transport opens: at a position of the log, after a lost replay or not.
LEMMA Opened ==
    ASSUME NEW r \in Connection, NEW p \in 0 .. MaxEvents
    PROVE  /\ [r EXCEPT !.state = "open", !.position = p] \in Connection
           /\ [r EXCEPT !.state = "open", !.position = p].state = "open"
           /\ [r EXCEPT !.state = "open", !.position = p].resume = r.resume
           /\ [r EXCEPT !.state = "open", !.position = p].position = p
  BY DEF Connection

LEMMA OpenedAnew ==
    ASSUME NEW r \in Connection, NEW p \in 0 .. MaxEvents
    PROVE  /\ [r EXCEPT !.state = "open", !.position = p, !.control = "reset"] \in Connection
           /\ [r EXCEPT !.state = "open", !.position = p, !.control = "reset"].state = "open"
           /\ [r EXCEPT !.state = "open", !.position = p, !.control = "reset"].resume = r.resume
           /\ [r EXCEPT !.state = "open", !.position = p, !.control = "reset"].position = p
           /\ [r EXCEPT !.state = "open", !.position = p, !.control = "reset"].control = "reset"
  BY DEF Connection

LEMMA Advanced ==
    ASSUME NEW r \in Connection, NEW p \in 0 .. MaxEvents
    PROVE  /\ [r EXCEPT !.position = p] \in Connection
           /\ [r EXCEPT !.position = p].state = r.state
           /\ [r EXCEPT !.position = p].resume = r.resume
           /\ [r EXCEPT !.position = p].position = p
           /\ [r EXCEPT !.position = p].control = r.control
  BY DEF Connection

\* A stream that resumes starts where the attempt captured the cursor; one without a cursor finds the
\* router idle, or is remembered as one that passed deliveries under way.
LEMMA StepOpen ==
    ASSUME IInv, Open, overflow' = overflow
    PROVE  IInv'
<1>1. /\ TypeOK /\ Pending /\ logged \in Nat
      /\ conn \in Connection /\ conn.state = "opening" /\ ~boundary /\ boundary' = boundary
      /\ \A k \in 1 .. conn.resume : Settled(k)
  BY ItemTypes, ConnTyped DEF IInv, Open, Stream
<1>2. /\ UNCHANGED <<logged, cgen, cursor, order, ackOrder, closed, rgen, pendingIds, queue, drain,
                     drops, closes, applied, ignored, recovered, finished>>
      /\ overtaken' \in BOOLEAN /\ (Undisturbed' => Undisturbed) /\ faults' \in Nat
  <2>1. UNCHANGED <<logged, cgen, cursor, order, ackOrder, closed, rgen, pendingIds, queue, drain,
                    drops, closes, applied, ignored, recovered, finished>>
    BY DEF Open, channelVars, routerVars
  <2>2. faults' \in Nat
    BY DEF Open, IInv, Past
  <2>3. CASE overtaken' = (overtaken \/ cursor # 0 \/ pendingIds # {})
    <3>1. overtaken' \in BOOLEAN /\ (~overtaken' => ~overtaken)
      BY <2>3, Zenon
    <3>. QED
      BY <2>1, <2>2, <3>1 DEF Undisturbed
  <2>4. CASE overtaken' = overtaken
    <3>1. overtaken \in BOOLEAN
      BY <1>1 DEF TypeOK
    <3>. QED
      BY <2>1, <2>2, <2>4, <3>1 DEF Undisturbed
  <2>. QED
    BY <2>1, <2>2, <2>3, <2>4 DEF Open
<1>3. /\ conn' \in Connection /\ conn'.state = "open" /\ conn'.resume = conn.resume
      /\ conn'.resume \in 0 .. MaxEvents /\ conn'.resume <= logged /\ conn'.position <= logged
      /\ conn'.control = "connected" /\ conn'.resume # 0 => conn'.position = conn'.resume
      /\ conn'.control = "connected" /\ conn'.resume = 0 /\ ~overtaken' => cursor = 0 /\ pendingIds = {}
  <2>1. conn.resume \in 0 .. MaxEvents /\ conn.resume <= logged /\ logged \in 0 .. MaxEvents
    BY <1>1, ConnTyped DEF IInv, Past
  <2>2. CASE /\ conn.resume = 0
             /\ conn' = [conn EXCEPT !.state = "open", !.position = logged]
             /\ overtaken' = (overtaken \/ cursor # 0 \/ pendingIds # {})
    <3>1. conn' \in Connection /\ conn'.state = "open" /\ conn'.resume = conn.resume /\ conn'.position = logged
      <4>1. conn' = [conn EXCEPT !.state = "open", !.position = logged]
        BY <2>2
      <4>. QED
        BY ONLY <1>1, <2>1, <4>1, Opened
    <3>2. ~overtaken' => cursor = 0 /\ pendingIds = {}
      BY <2>2
    <3>. QED
      BY <1>1, <2>1, <2>2, <3>1, <3>2
  <2>3. CASE conn.resume # 0 /\ conn' = [conn EXCEPT !.state = "open", !.position = conn.resume]
    <3>1. conn' \in Connection /\ conn'.state = "open" /\ conn'.resume = conn.resume /\ conn'.position = conn.resume
      <4>1. conn \in Connection /\ conn.resume \in 0 .. MaxEvents
        BY <1>1, <2>1
      <4>. QED
        BY <2>3, <4>1, Opened
    <3>. QED
      BY <2>1, <2>3, <3>1
  <2>4. CASE /\ conn.resume # 0
             /\ conn' = [conn EXCEPT !.state = "open", !.position = logged, !.control = "reset"]
    <3>1. /\ conn' \in Connection /\ conn'.state = "open" /\ conn'.resume = conn.resume
          /\ conn'.position = logged /\ conn'.control = "reset"
      <4>1. conn \in Connection /\ logged \in 0 .. MaxEvents
        BY <1>1, <2>1
      <4>. QED
        BY <2>4, <4>1, OpenedAnew
    <3>. QED
      BY <1>1, <2>1, <3>1
  <2>. QED
    BY <2>2, <2>3, <2>4 DEF Open
<1>4. Stream'
  <2>1. \A k \in 1 .. conn.resume : Settled(k)'
    BY <1>1, <1>2 DEF Settled
  <2>. QED
    BY <1>1, <1>3, <2>1 DEF Stream
<1>5. ASSUME Undisturbed' PROVE RunStream'
  <2>1. RunStream /\ ~closed
    BY <1>2, <1>5 DEF IInv, Run
  <2>2. conn.resume <= cursor \/ (cursor = 0 /\ Nobody)
    BY <1>1, <2>1 DEF RunStream
  <2>3. Nobody' <=> Nobody
    BY <1>1, <1>2, Kept DEF Nobody, Current
  <2>4. ASSUME pendingIds = {} PROVE Nobody
    <3>. SUFFICES ASSUME NEW i \in 1 .. Len(InFlight), Current(InFlight[i]) PROVE FALSE
      BY DEF Nobody
    <3>1. InFlight[i].id \in Event /\ i \in 1 .. (Len(InFlight) + 1) - 1
      BY <1>1, ItemTypes
    <3>2. Underway(InFlight[i].id)
      BY <3>1 DEF Underway, Ahead
    <3>. QED
      BY <1>1, <2>1, <2>4, <3>1, <3>2 DEF Pending
  <2>5. conn'.control = "connected" /\ conn'.resume = 0 => cursor = 0 /\ Nobody
    BY <1>3, <1>5, <2>4 DEF Undisturbed
  <2>. QED
    BY <1>1, <1>2, <1>3, <2>2, <2>3, <2>5 DEF RunStream
<1>6. boundary' \in BOOLEAN /\ drops' \in Nat /\ closes' \in Nat /\ cgen' \in Nat
  BY <1>1, <1>2 DEF TypeOK, IInv, Past
<1>. QED
  BY <1>2, <1>3, <1>4, <1>5, <1>6, StepConnection

LEMMA StepClose ==
    ASSUME IInv, Close, overflow' = overflow
    PROVE  IInv'
<1>1. TypeOK /\ closes \in Nat
  BY DEF IInv, Past
<1>2. UNCHANGED <<logged, boundary, cursor, order, ackOrder, closed, rgen, pendingIds, queue, drain,
                  drops, faults, applied, ignored, recovered, finished, overtaken>>
  BY DEF Close, routerVars, history
<1>3. conn' = Offline /\ closes' \in Nat /\ cgen' \in Nat /\ ~Undisturbed'
  BY <1>1 DEF Close, Undisturbed, TypeOK
<1>4. Stream'
  BY <1>1, <1>3, ConnTyped DEF Stream
<1>5. overtaken' \in BOOLEAN /\ boundary' \in BOOLEAN /\ drops' \in Nat /\ faults' \in Nat
  BY <1>1, <1>2 DEF TypeOK, IInv, Past
<1>6. conn' \in Connection /\ conn'.position <= logged /\ conn'.resume <= logged
  BY <1>1, <1>3, ConnTyped, ItemTypes
<1>. QED
  BY <1>2, <1>3, <1>4, <1>5, <1>6, StepConnection

\* The router and the channel discard what they hold, whatever becomes of the flight.
LEMMA StepReset ==
    ASSUME IInv, rgen' = rgen + 1, pendingIds' = {}, cursor' = 0, recovered' = logged,
           UNCHANGED <<logged, closed, overflow, applied, ignored, finished, overtaken, ackOrder, closes, drops>>,
           faults' \in Nat, cgen' \in Nat, cgen < cgen', order' \in Nat, order <= order',
           conn' \in Connection, conn'.position <= logged, conn'.resume <= logged, boundary' \in BOOLEAN,
           conn'.state = "opening" => ~boundary',
           conn'.state = "open" /\ ~boundary' /\ conn'.control = "connected" /\ conn'.resume # 0 =>
               conn'.position = conn'.resume,
           queue' \in Seq(Delivery), Len(queue') <= Capacity, drain' \in DrainType, Turns',
           Len(InFlight') \in Nat,
           \A i \in 1 .. Len(InFlight') :
               /\ InFlight'[i].id <= logged /\ InFlight'[i].order <= order'
               /\ InFlight'[i].rgen \in Nat /\ InFlight'[i].rgen <= rgen
    PROVE  IInv'
<1>1. TypeOK /\ Past /\ logged \in Nat /\ order \in Nat /\ rgen \in Nat
  BY ItemTypes DEF IInv
<1>2. /\ Nobody' /\ Items' /\ Pending' /\ CursorSkipsNothing' /\ Behind' /\ RunItems'
      /\ \A k \in 1 .. logged : Settled(k)'
  BY <1>1, Resets
<1>3. Stream'
  <2>1. conn'.position \in 0 .. MaxEvents /\ conn'.resume \in 0 .. MaxEvents
    BY DEF Connection
  <2>2. conn'.position \in 0 .. logged /\ conn'.resume \in 0 .. logged
    BY <1>1, <2>1, DeliveryAssumption DEF DeliveryAssumption
  <2>. QED
    BY <1>1, <1>2, <2>2, ResetsStream
<1>4. TypeOK'
  <2>1. ackOrder \in 0 .. order'
    BY <1>1 DEF TypeOK
  <2>2. /\ logged' \in 0 .. MaxEvents /\ cursor' \in 0 .. logged' /\ recovered' \in 0 .. logged'
        /\ rgen' \in Nat /\ closed' \in BOOLEAN /\ overflow' \in Overflows /\ overtaken' \in BOOLEAN
    BY <1>1 DEF TypeOK
  <2>. QED
    BY <2>1, <2>2 DEF TypeOK, DrainType
<1>5. Past'
  BY <1>1 DEF Past
<1>6. ASSUME Undisturbed' PROVE Run'
  <2>1. Run
    BY <1>6 DEF IInv, Undisturbed
  <2>2. RunStream' /\ RunSinks'
    BY <1>1, <1>2, <2>1, ResetsRun DEF Run
  <2>. QED
    BY <1>2, <2>1, <2>2 DEF Run
<1>. QED
  BY <1>2, <1>3, <1>4, <1>5, <1>6 DEF IInv

\* A flight no item of which is new is outdated by a reset.
LEMMA OldFlight ==
    ASSUME IInv, InFlight' = InFlight \/ Moves(1), order' \in Nat, order <= order'
    PROVE  /\ Len(InFlight') \in Nat
           /\ \A i \in 1 .. Len(InFlight') :
               /\ InFlight'[i].id <= logged /\ InFlight'[i].order <= order'
               /\ InFlight'[i].rgen \in Nat /\ InFlight'[i].rgen <= rgen
<1>1. TypeOK /\ Items
  BY DEF IInv
<1>2. ASSUME NEW j \in 1 .. Len(InFlight)
      PROVE  /\ InFlight[j].id <= logged /\ InFlight[j].order <= order'
             /\ InFlight[j].rgen \in Nat /\ InFlight[j].rgen <= rgen
  BY <1>1, ItemTypes DEF Items
<1>3. CASE InFlight' = InFlight
  BY <1>1, <1>2, <1>3, ItemTypes
<1>4. CASE Moves(1)
  <2>1. Len(InFlight') \in Nat /\ Len(InFlight) \in Nat /\ Len(InFlight') = Len(InFlight) - 1
    BY <1>1, <1>4, ItemTypes DEF Moves
  <2>2. ASSUME NEW i \in 1 .. Len(InFlight')
        PROVE  i + 1 \in 1 .. Len(InFlight) /\ InFlight'[i] = InFlight[i + 1]
    BY <1>4, <2>1 DEF Moves
  <2>. QED
    BY <1>2, <2>1, <2>2
<1>. QED
  BY <1>3, <1>4

\* Without a router a reset only makes the channel forget its cursor.
LEMMA StepForget ==
    ASSUME IInv, closed, cursor' = 0, cgen' \in Nat,
           UNCHANGED <<logged, order, ackOrder, closed, rgen, pendingIds, overflow, queue, drain, applied,
                       ignored, recovered, finished, overtaken, closes, drops>>,
           faults' \in Nat,
           conn.state = "open", conn' \in Connection, conn'.state = "open", conn'.resume = conn.resume,
           conn'.position <= logged, boundary' = TRUE
    PROVE  IInv'
<1>1. TypeOK /\ recovered \in Nat /\ order \in Nat /\ logged \in Nat
  BY ItemTypes DEF IInv
<1>2. /\ Turns' /\ Items' /\ Pending' /\ CursorSkipsNothing' /\ Behind'
      /\ \A k \in Nat : Settled(k) => Settled(k)'
  BY <1>1, Still
<1>3. Stream'
  <2>1. \A k \in 1 .. conn.resume : Settled(k)'
    BY <1>2 DEF IInv, Stream
  <2>. QED
    BY <2>1 DEF Stream
<1>4. TypeOK'
  BY <1>1 DEF TypeOK
<1>5. Past'
  BY DEF IInv, Past
<1>6. ~Undisturbed'
  BY DEF IInv, Undisturbed, Run
<1>. QED
  BY <1>2, <1>3, <1>4, <1>5, <1>6 DEF IInv

\* A control frame on a stream that resumed changes nothing; without a cursor the sinks take a snapshot.
LEMMA StepConnected ==
    ASSUME IInv, conn.state = "open", ~boundary, boundary' = TRUE, conn.control = "connected",
           recovered' = IF ~closed /\ conn.resume = 0 THEN logged ELSE recovered,
           UNCHANGED <<logged, conn, cgen, cursor, order, ackOrder, closed, rgen, pendingIds, overflow, queue,
                       drain, drops, faults, closes, applied, ignored, finished, overtaken>>
    PROVE  IInv'
<1>1. TypeOK /\ recovered \in Nat /\ order \in Nat /\ logged \in Nat /\ cursor \in Nat /\ recovered <= logged
  BY ItemTypes DEF IInv, TypeOK
<1>2. recovered' \in 0 .. logged /\ recovered' \in Nat /\ recovered <= recovered'
  BY <1>1
<1>3. conn.position \in Nat /\ conn.resume \in Nat /\ conn.position <= logged
  BY <1>1, ConnTyped DEF IInv, Past
<1>4. /\ InFlight' = InFlight
      /\ Turns' /\ Items' /\ Pending' /\ CursorSkipsNothing' /\ Behind'
      /\ \A k \in Nat : Settled(k) => Settled(k)'
      /\ Nobody' <=> Nobody
      /\ RunItems => RunItems'
  BY <1>1, <1>2, Still
<1>5. conn.resume # 0 => conn.position = conn.resume
  BY DEF IInv, Stream
<1>6. \A k \in 1 .. conn.resume : Settled(k)'
  BY <1>4 DEF IInv, Stream
<1>7. Stream'
  <2>1. ~closed /\ conn.resume = 0 => \A k \in 1 .. conn.position : Settled(k)'
    BY <1>1, <1>3 DEF Settled
  <2>. QED
    BY <1>5, <1>6, <2>1 DEF Stream
<1>8. TypeOK'
  BY <1>1, <1>2 DEF TypeOK
<1>9. Past'
  BY DEF IInv, Past
<1>10. ASSUME Undisturbed' PROVE Run'
  <2>1. Run
    BY <1>10 DEF IInv, Undisturbed
  <2>2. RunStream'
    <3>1. conn.resume <= cursor \/ (cursor = 0 /\ Nobody)
      BY <2>1 DEF Run, RunStream
    <3>2. conn.resume = 0 => cursor = 0 /\ Nobody
      BY <2>1 DEF Run, RunStream
    <3>3. (conn.position <= cursor /\ cursor # 0) \/ (cursor = 0 /\ Nobody)
      BY <1>1, <1>3, <1>5, <3>1, <3>2
    <3>4. CASE conn.position <= cursor /\ cursor # 0
      BY <3>4 DEF RunStream
    <3>5. CASE cursor = 0 /\ Nobody
      <4>1. \A i \in 1 .. Len(InFlight') : ~Current(InFlight[i])'
        BY <1>4, <3>5 DEF Nobody
      <4>. QED
        BY <1>4, <3>5, <4>1 DEF RunStream
    <3>. QED
      BY <3>3, <3>4, <3>5
  <2>3. RunSinks'
    <3>1. ASSUME NEW s \in 1 .. Sinks, NEW k \in applied[s], k <= recovered PROVE k <= recovered'
      <4>1. k \in 1 .. logged
        BY <3>1 DEF IInv, Past
      <4>. QED
        BY <1>1, <1>2, <3>1, <4>1
    <3>. QED
      BY <2>1, <3>1 DEF Run, RunSinks, Current
  <2>. QED
    BY <1>4, <2>1, <2>2, <2>3 DEF Run
<1>. QED
  BY <1>4, <1>7, <1>8, <1>9, <1>10 DEF IInv

LEMMA StepBoundary ==
    ASSUME IInv, Boundary, overflow' = overflow
    PROVE  IInv'
<1>1. /\ TypeOK /\ conn.state = "open" /\ ~boundary /\ boundary' = TRUE
      /\ UNCHANGED <<logged, conn, closed, queue, drain, drops, faults, closes, applied, ignored, finished,
                     overtaken>>
  BY DEF IInv, Boundary, bounds
<1>2. CASE /\ conn.control = "connected"
           /\ recovered' = IF ~closed /\ conn.resume = 0 THEN logged ELSE recovered
           /\ UNCHANGED <<channelVars, rgen, pendingIds>>
  BY <1>1, <1>2, StepConnected DEF channelVars
<1>3. CASE conn.control = "reset" /\ ResetFrame /\ UNCHANGED <<order, ackOrder>>
  <2>1. /\ conn' \in Connection /\ conn'.position <= logged /\ conn'.resume <= logged
        /\ faults' \in Nat /\ order \in Nat /\ cgen \in Nat
    BY <1>1, ConnTyped, ItemTypes DEF IInv, Past
  <2>2. CASE closed
    BY <1>1, <1>3, <2>1, <2>2, StepForget DEF ResetFrame
  <2>3. CASE ~closed
    <3>1. /\ InFlight' = InFlight /\ Turns' /\ order' \in Nat /\ order <= order'
          /\ queue' \in Seq(Delivery) /\ Len(queue') <= Capacity /\ drain' \in DrainType
      BY <1>1, <1>3, <2>1, Kept, DrainTyped DEF IInv, Turns
    <3>2. /\ Len(InFlight') \in Nat
          /\ \A i \in 1 .. Len(InFlight') :
              /\ InFlight'[i].id <= logged /\ InFlight'[i].order <= order'
              /\ InFlight'[i].rgen \in Nat /\ InFlight'[i].rgen <= rgen
      BY <3>1, OldFlight
    <3>3. /\ rgen' = rgen + 1 /\ pendingIds' = {} /\ cursor' = 0 /\ recovered' = logged
          /\ cgen' \in Nat /\ cgen < cgen' /\ ackOrder' = ackOrder /\ boundary' \in BOOLEAN
      BY <1>1, <1>3, <2>1, <2>3 DEF ResetFrame
    <3>. QED
      BY <1>1, <2>1, <3>1, <3>2, <3>3, StepReset
  <2>. QED
    BY <2>2, <2>3
<1>. QED
  BY <1>2, <1>3 DEF Boundary

LEMMA StepServerReset ==
    ASSUME IInv, ServerReset, overflow' = overflow
    PROVE  IInv'
<1>1. /\ TypeOK /\ conn.state = "open" /\ boundary /\ boundary' = boundary
      /\ conn' = [conn EXCEPT !.position = logged] /\ ResetFrame /\ faults' = faults + 1
      /\ UNCHANGED <<logged, closed, queue, drain, drops, closes, applied, ignored, finished,
                     overtaken, order, ackOrder>>
  BY DEF IInv, ServerReset
<1>2. /\ conn' \in Connection /\ conn'.position = logged /\ conn'.resume = conn.resume /\ conn'.state = "open"
  <2>1. conn \in Connection /\ logged \in 0 .. MaxEvents
    BY <1>1, ConnTyped
  <2>. QED
    BY <1>1, <2>1, Advanced
<1>3. /\ conn'.position <= logged /\ conn'.resume <= logged
      /\ faults' \in Nat /\ order \in Nat /\ cgen \in Nat /\ boundary' = TRUE /\ boundary' \in BOOLEAN
  BY <1>1, <1>2, ItemTypes DEF IInv, Past, TypeOK
<1>4. CASE closed
  BY <1>1, <1>2, <1>3, <1>4, StepForget DEF ResetFrame
<1>5. CASE ~closed
  <2>1. /\ InFlight' = InFlight /\ Turns' /\ order' \in Nat /\ order <= order'
        /\ queue' \in Seq(Delivery) /\ Len(queue') <= Capacity /\ drain' \in DrainType
    BY <1>1, <1>3, Kept, DrainTyped DEF IInv, Turns
  <2>2. /\ Len(InFlight') \in Nat
        /\ \A i \in 1 .. Len(InFlight') :
            /\ InFlight'[i].id <= logged /\ InFlight'[i].order <= order'
            /\ InFlight'[i].rgen \in Nat /\ InFlight'[i].rgen <= rgen
    BY <2>1, OldFlight
  <2>3. /\ rgen' = rgen + 1 /\ pendingIds' = {} /\ cursor' = 0 /\ recovered' = logged
        /\ cgen' \in Nat /\ cgen < cgen'
    BY <1>1, <1>3, <1>5 DEF ResetFrame
  <2>. QED
    BY <1>1, <1>2, <1>3, <2>1, <2>2, <2>3, StepReset
<1>. QED
  BY <1>4, <1>5

-----------------------------------------------------------------------------
(* A data frame *)

LEMMA FrameFacts ==
    ASSUME IInv, Frame
    PROVE  /\ conn.state = "open" /\ boundary /\ boundary' = boundary /\ closed' = closed
           /\ conn.position + 1 \in Event /\ conn.position + 1 \in Nat /\ conn.position + 1 <= logged
           /\ conn' = [conn EXCEPT !.position = conn.position + 1]
           /\ conn' \in Connection /\ conn'.state = "open" /\ conn'.resume = conn.resume
           /\ conn'.position = conn.position + 1 /\ conn'.control = conn.control
           /\ conn'.position <= logged /\ conn'.resume <= logged
           /\ UNCHANGED <<logged, boundary, ackOrder, closed, drops, closes, applied, ignored, finished, overtaken>>
<1>1. TypeOK /\ conn \in Connection /\ conn.position \in Nat /\ MaxEvents \in Nat
      /\ logged \in Nat /\ logged <= MaxEvents /\ conn.resume <= logged
  BY ConnTyped DEF IInv, Past
<1>2. conn.position < logged /\ conn' = [conn EXCEPT !.position = conn.position + 1]
  BY DEF Frame
<1>3. conn.position + 1 \in 0 .. MaxEvents /\ conn.position + 1 \in Event /\ conn.position + 1 <= logged
  BY <1>1, <1>2 DEF Event
<1>4. /\ conn' \in Connection /\ conn'.state = conn.state /\ conn'.resume = conn.resume
      /\ conn'.position = conn.position + 1 /\ conn'.control = conn.control
  BY <1>1, <1>2, <1>3, Advanced
<1>. QED
  BY <1>1, <1>2, <1>3, <1>4 DEF Frame

\* A frame nobody takes: it was applied, it is pending, or there is no router.
LEMMA StepSkip ==
    ASSUME IInv, Frame, overflow' = overflow, SkipFrame(conn.position + 1),
           UNCHANGED <<cgen, cursor, rgen, pendingIds, queue, drain, faults, recovered>>
    PROVE  IInv'
<1>. DEFINE id == conn.position + 1
<1>1. /\ TypeOK /\ recovered \in Nat /\ order \in Nat /\ logged \in Nat /\ cursor \in Nat /\ conn.position \in Nat
      /\ id \in Nat /\ id \in Event /\ id <= logged
  BY FrameFacts, ItemTypes, ConnTyped DEF IInv
<1>2. /\ conn.state = "open" /\ boundary /\ boundary' = boundary /\ conn' \in Connection /\ conn'.state = "open"
      /\ conn'.resume = conn.resume /\ conn'.position = id /\ conn'.control = conn.control
      /\ conn'.position <= logged /\ conn'.resume <= logged
      /\ UNCHANGED <<logged, ackOrder, closed, drops, closes, applied, ignored, finished, overtaken>>
  BY FrameFacts
<1>3. /\ order' \in Nat /\ order <= order'
      /\ (cursor # 0 /\ id <= cursor) \/ closed \/ (~closed /\ id \in pendingIds)
  BY <1>1 DEF SkipFrame, AlreadyApplied, AlreadyPending
<1>. HIDE DEF id
<1>4. /\ InFlight' = InFlight
      /\ Turns' /\ Items' /\ Pending' /\ CursorSkipsNothing' /\ Behind'
      /\ \A k \in Nat : Settled(k) => Settled(k)'
      /\ \A k : Underway(k) => Underway(k)'
      /\ Nobody' <=> Nobody
      /\ RunItems => RunItems'
  BY <1>1, <1>2, <1>3, Still
<1>5. ~closed /\ id \in pendingIds => Underway(id)
  BY DEF IInv, Pending
<1>6. Stream'
  <2>1. \A k \in 1 .. conn.resume : Settled(k)'
    BY <1>2, <1>4 DEF IInv, Stream
  <2>2. ASSUME ~closed, NEW k \in 1 .. id PROVE Settled(k)' \/ Underway(k)'
    <3>1. CASE k = id /\ cursor # 0 /\ id <= cursor
      <4>1. k \in 1 .. cursor /\ k \in Nat
        BY <1>1, <3>1
      <4>. QED
        BY <1>4, <4>1 DEF IInv, CursorSkipsNothing
    <3>2. CASE k = id /\ id \in pendingIds
      BY <1>4, <1>5, <2>2, <3>2
    <3>3. CASE k # id
      <4>1. k \in 1 .. conn.position /\ k \in Nat
        BY <1>1, <3>3 DEF id
      <4>2. Settled(k) \/ Underway(k)
        BY <1>2, <2>2, <4>1 DEF IInv, Stream
      <4>. QED
        BY <1>4, <4>1, <4>2
    <3>. QED
      BY <1>3, <2>2, <3>1, <3>2, <3>3
  <2>. QED
    BY <1>2, <2>1, <2>2 DEF Stream
<1>7. TypeOK'
  <2>1. ackOrder' \in 0 .. order'
    BY <1>1, <1>2, <1>3 DEF TypeOK
  <2>. QED
    BY <1>1, <1>2, <1>3, <2>1 DEF TypeOK
<1>8. Past'
  BY <1>2 DEF IInv, Past
<1>9. ASSUME Undisturbed' PROVE Run'
  <2>1. Run
    BY <1>2, <1>9 DEF IInv, Undisturbed
  <2>2. RunStream'
    <3>1. CASE cursor # 0 /\ id <= cursor
      BY <1>2, <3>1 DEF RunStream
    <3>2. CASE id \in pendingIds
      <4>1. Underway(id)
        BY <1>5, <2>1, <3>2 DEF Run
      <4>2. \E i \in 1 .. Len(InFlight) : InFlight[i].rgen = rgen /\ InFlight[i].id = id
        <5>1. (Len(InFlight) + 1) - 1 = Len(InFlight)
          BY <1>1, ItemTypes
        <5>. QED
          BY <4>1, <5>1 DEF Underway, Ahead, Current
      <4>3. \E i \in 1 .. Len(InFlight') : InFlight'[i].rgen = rgen' /\ id <= InFlight'[i].id
        BY <1>1, <1>4, <4>2
      <4>4. ASSUME cursor = 0, NEW i \in 1 .. Len(InFlight), InFlight[i].rgen = rgen PROVE InFlight[i].id <= id
        <5>1. InFlight[i].id <= conn.position /\ InFlight[i].id \in Nat
          BY <1>1, <1>2, <2>1, <4>4, ItemTypes DEF Run, RunStream, Current
        <5>. QED
          BY <1>1, <5>1 DEF id
      <4>. QED
        BY <1>2, <1>4, <4>3, <4>4 DEF RunStream, Current
    <3>. QED
      BY <1>3, <2>1, <3>1, <3>2 DEF Run
  <2>3. RunSinks'
    BY <1>2, <2>1 DEF Run, RunSinks, Current
  <2>. QED
    BY <1>2, <1>4, <2>1, <2>2, <2>3 DEF Run
<1>. QED
  BY <1>4, <1>6, <1>7, <1>8, <1>9 DEF IInv

\* A frame the router queues continues the flight, and the run.
LEMMA StepAccept ==
    ASSUME IInv, Frame, overflow' = overflow, ~closed, NEW d \in Delivery,
           d.id = conn.position + 1, d.order = order + 1, d.cgen = cgen, d.rgen = rgen,
           order' = order + 1, ~AlreadyApplied(d.id), ~AlreadyPending(d.id), faults' = faults,
           \/ drain = Waiting /\ drain' = Popped(d) /\ UNCHANGED queue
           \/ drain # Waiting /\ Len(queue) < Capacity /\ queue' = Append(queue, d) /\ UNCHANGED drain,
           pendingIds' = pendingIds \union {d.id},
           UNCHANGED <<rgen, cgen, cursor, recovered>>
    PROVE  IInv'
<1>1. /\ TypeOK /\ Turns /\ order \in Nat /\ cursor \in Nat /\ d.id \in Nat /\ d.id \in Event /\ d.id <= logged
      /\ conn.state = "open" /\ boundary /\ boundary' = boundary /\ closed' = closed
      /\ conn' = [conn EXCEPT !.position = d.id] /\ conn' \in Connection
      /\ conn'.position <= logged /\ conn'.resume <= logged
      /\ UNCHANGED <<logged, boundary, ackOrder, closed, drops, closes, applied, ignored, finished, overtaken>>
  BY FrameFacts, ItemTypes DEF IInv
<1>2. /\ Grows(d) /\ queue' \in Seq(Delivery) /\ Len(queue') <= Capacity /\ drain' \in DrainType
      /\ drain' # Waiting /\ drain' # Stopped
      /\ drain'.phase = "delivering" => UNCHANGED drain
  BY <1>1, PushedFlight
<1>3. TakesIn(d)
  <2>1. d.id \notin pendingIds /\ (cursor = 0 \/ cursor < d.id)
    BY <1>1 DEF AlreadyApplied, AlreadyPending
  <2>. QED
    BY <1>1, <2>1 DEF TakesIn
<1>4. Items' /\ Pending' /\ Behind' /\ Stream'
  BY <1>1, <1>2, <1>3, GrownItems, GrownBehind DEF IInv
<1>5. CursorSkipsNothing'
  BY <1>1 DEF IInv, CursorSkipsNothing, Settled
<1>6. Turns'
  <2>1. drain'.phase = "delivering" =>
          \A s \in 1 .. drain'.sink - 1 : drain'.delivery.id \in applied'[s]
    BY <1>1, <1>2 DEF Turns
  <2>. QED
    BY <1>2, <2>1 DEF Turns
<1>7. TypeOK'
  <2>1. ackOrder' \in 0 .. order' /\ order' \in Nat
    BY <1>1 DEF TypeOK
  <2>2. pendingIds' \subseteq Event
    BY <1>1 DEF TypeOK
  <2>. QED
    BY <1>1, <1>2, <2>1, <2>2 DEF TypeOK, DrainType
<1>8. Past'
  BY <1>1 DEF IInv, Past
<1>9. ASSUME Undisturbed' PROVE Run'
  <2>1. Run
    BY <1>1, <1>9 DEF IInv, Undisturbed
  <2>2. RunItems' /\ RunStream'
    BY <1>1, <1>2, <1>3, <2>1, GrownRun DEF IInv, Run
  <2>3. RunSinks'
    <3>1. drain.phase = "delivering" => UNCHANGED drain
      <4>1. Waiting.phase = "waiting"
        BY DEF Waiting
      <4>. QED
        BY <4>1
    <3>2. \A s \in 1 .. Sinks : \A k \in applied[s] :
            \/ k <= recovered \/ k <= cursor
            \/ /\ drain.phase = "delivering" /\ drain.delivery.rgen = rgen
               /\ k = drain.delivery.id /\ s < drain.sink
      BY <2>1 DEF Run, RunSinks, Current
    <3>3. \A s \in 1 .. Sinks : \A k \in applied'[s] :
            \/ k <= recovered' \/ k <= cursor'
            \/ /\ drain'.phase = "delivering" /\ drain'.delivery.rgen = rgen'
               /\ k = drain'.delivery.id /\ s < drain'.sink
      BY <1>1, <3>1, <3>2
    <3>. QED
      BY <1>1, <2>1, <3>3 DEF Run, RunSinks, Current
  <2>. QED
    BY <1>1, <2>1, <2>2, <2>3 DEF Run
<1>. QED
  BY <1>4, <1>5, <1>6, <1>7, <1>8, <1>9 DEF IInv

\* A full queue, or a decoder that throws, is a gap.
LEMMA StepGap ==
    ASSUME IInv, Frame, overflow' = overflow, ~closed, NEW d \in Delivery,
           d.id = conn.position + 1, d.order = order + 1, d.rgen = rgen, order' = order + 1,
           RouterReset, faults' \in Nat, UNCHANGED drain,
           \/ UNCHANGED queue
           \/ /\ drain # Waiting /\ Len(queue) >= Capacity
              /\ queue' = IF overflow = "drop-oldest" THEN Append(Tail(queue), d) ELSE queue
    PROVE  IInv'
<1>1. /\ TypeOK /\ Turns /\ order \in Nat /\ rgen \in Nat /\ cgen \in Nat /\ d.id <= logged
      /\ conn.state = "open" /\ boundary' /\ closed' = closed
      /\ conn' \in Connection /\ conn'.state = "open" /\ conn'.position <= logged /\ conn'.resume <= logged
      /\ UNCHANGED <<logged, ackOrder, closed, drops, closes, applied, ignored, finished, overtaken>>
      /\ boundary' \in BOOLEAN
  BY FrameFacts, ItemTypes DEF IInv, TypeOK
<1>2. order' \in Nat /\ order <= order'
  BY <1>1
<1>3. /\ rgen' = rgen + 1 /\ pendingIds' = {} /\ cursor' = 0 /\ recovered' = logged
      /\ cgen' \in Nat /\ cgen < cgen'
  BY <1>1 DEF RouterReset
<1>4. /\ queue' \in Seq(Delivery) /\ Len(queue') <= Capacity /\ drain' \in DrainType /\ Turns'
      /\ Len(InFlight') \in Nat
      /\ \A i \in 1 .. Len(InFlight') :
          /\ InFlight'[i].id <= logged /\ InFlight'[i].order <= order'
          /\ InFlight'[i].rgen \in Nat /\ InFlight'[i].rgen <= rgen
  <2>1. CASE UNCHANGED queue
    <3>1. InFlight' = InFlight /\ Turns'
      BY <1>1, <2>1, Kept DEF Turns
    <3>. QED
      BY <1>1, <1>2, <2>1, <3>1, OldFlight, DrainTyped
  <2>2. CASE /\ drain # Waiting /\ Len(queue) >= Capacity
             /\ queue' = IF overflow = "drop-oldest" THEN Append(Tail(queue), d) ELSE queue
    <3>1. /\ queue' \in Seq(Delivery) /\ Len(queue') <= Capacity /\ Len(InFlight') \in Nat
          /\ \A i \in 1 .. Len(InFlight') :
               InFlight'[i] = d \/ \E j \in 1 .. Len(InFlight) : InFlight'[i] = InFlight[j]
      BY <1>1, <2>2, ShedFlight
    <3>2. d.id <= logged /\ d.order <= order' /\ d.rgen \in Nat /\ d.rgen <= rgen
      BY <1>1, <1>2
    <3>3. ASSUME NEW j \in 1 .. Len(InFlight)
          PROVE  /\ InFlight[j].id <= logged /\ InFlight[j].order <= order'
                 /\ InFlight[j].rgen \in Nat /\ InFlight[j].rgen <= rgen
      BY <1>1, <1>2, ItemTypes DEF IInv, Items
    <3>4. Turns'
      BY <1>1, <2>2 DEF Turns
    <3>. QED
      BY <1>1, <3>1, <3>2, <3>3, <3>4, DrainTyped
  <2>. QED
    BY <2>1, <2>2
<1>. QED
  BY <1>1, <1>2, <1>3, <1>4, StepReset

LEMMA StepFrame ==
    ASSUME IInv, Frame, overflow' = overflow
    PROVE  IInv'
<1>. DEFINE id == conn.position + 1
<1>1. TypeOK /\ id \in Event /\ order + 1 \in Nat /\ cgen \in Nat /\ rgen \in Nat /\ faults \in Nat
  BY FrameFacts, ItemTypes DEF IInv, Past
<1>2. ASSUME NEW isRouted \in BOOLEAN
      PROVE  /\ Received(id, isRouted) \in Delivery /\ Received(id, isRouted).id = id
             /\ Received(id, isRouted).order = order + 1 /\ Received(id, isRouted).cgen = cgen
             /\ Received(id, isRouted).rgen = rgen
  BY <1>1 DEF Received, Delivery
<1>3. CASE /\ SkipFrame(id)
           /\ UNCHANGED <<cgen, cursor, rgen, pendingIds, queue, drain, faults, recovered>>
  BY <1>3, StepSkip
<1>4. CASE /\ ~AlreadyApplied(id) /\ ~closed /\ ~AlreadyPending(id)
           /\ order' = order + 1
           /\ \E isRouted \in BOOLEAN : Push(Received(id, isRouted))
           /\ UNCHANGED faults
  <2>1. PICK isRouted \in BOOLEAN : Push(Received(id, isRouted))
    BY <1>4
  <2>. DEFINE d == Received(id, isRouted)
  <2>2. d \in Delivery /\ d.id = id /\ d.order = order + 1 /\ d.cgen = cgen /\ d.rgen = rgen
    BY <1>2
  <2>3. Push(d)
    BY <2>1
  <2>. HIDE DEF d
  <2>4. CASE /\ \/ drain = Waiting /\ drain' = Popped(d) /\ UNCHANGED queue
                \/ drain # Waiting /\ Len(queue) < Capacity /\ queue' = Append(queue, d) /\ UNCHANGED drain
             /\ pendingIds' = pendingIds \union {d.id}
             /\ UNCHANGED <<rgen, cgen, cursor, recovered>>
    BY <1>4, <2>2, <2>4, StepAccept
  <2>5. CASE /\ drain # Waiting /\ Len(queue) >= Capacity
             /\ queue' = IF overflow = "drop-oldest" THEN Append(Tail(queue), d) ELSE queue
             /\ RouterReset
             /\ UNCHANGED drain
    <3>1. faults' \in Nat
      BY <1>1, <1>4
    <3>. QED
      BY <1>4, <2>2, <2>5, <3>1, StepGap
  <2>. QED
    BY <2>3, <2>4, <2>5 DEF Push
<1>5. CASE /\ ~AlreadyApplied(id) /\ ~closed /\ ~AlreadyPending(id)
           /\ order' = order + 1
           /\ faults' = faults + 1 /\ RouterReset /\ UNCHANGED <<queue, drain>>
  <2>. DEFINE d == Received(id, TRUE)
  <2>1. d \in Delivery /\ d.id = id /\ d.order = order + 1 /\ d.rgen = rgen
    BY <1>2
  <2>. HIDE DEF d
  <2>2. faults' \in Nat
    BY <1>1, <1>5
  <2>. QED
    BY <1>5, <2>1, <2>2, StepGap
<1>. QED
  BY <1>3, <1>4, <1>5 DEF Frame

-----------------------------------------------------------------------------
(* The drain *)

\* The drain moves on: what it takes off the flight is settled, or outdated, or the router is closed.
LEMMA StepMove ==
    ASSUME IInv, NEW c, Moves(c),
           UNCHANGED <<logged, conn, boundary, cgen, order, closed, rgen, overflow, recovered, drops, faults,
                       closes, overtaken>>,
           queue' \in Seq(Delivery), Len(queue') <= Capacity, drain' \in DrainType, Turns',
           applied' \in [1 .. Sinks -> SUBSET (1 .. logged)], \A s \in 1 .. Sinks : applied[s] \subseteq applied'[s],
           ignored' \subseteq Event, ignored \subseteq ignored', finished' \subseteq Nat \X Nat,
           cursor' \in 0 .. logged, ackOrder' \in 0 .. order, pendingIds' \subseteq Event,
           ~closed => pendingIds' = IF Takes(c) THEN pendingIds \ {InFlight[1].id} ELSE pendingIds,
           drain # Stopped, closed => drain' = Stopped,
           ~closed /\ Takes(c) => \A k : k = InFlight[1].id => Settled(k)',
           CursorSkipsNothing',
           \A i \in 1 .. Len(InFlight) : i > c /\ Current(InFlight[i]) => ackOrder' < InFlight[i].order,
           Undisturbed => /\ cursor' = IF Takes(c) THEN InFlight[1].id ELSE cursor
                          /\ RunSinks'
    PROVE  IInv'
<1>1. TypeOK /\ logged \in Nat /\ order \in Nat /\ recovered \in Nat
  BY ItemTypes DEF IInv
<1>2. \A k \in Nat : Settled(k) => Settled(k)'
  BY <1>1, SettledKept
<1>3. Items'
  BY <1>1, MovedItems DEF IInv
<1>4. Pending'
  BY <1>1, MovedPending DEF IInv
<1>5. Behind'
  BY <1>1, <1>2, MovedBehind DEF IInv
<1>6. Stream'
  BY <1>1, <1>2, MovedStream DEF IInv
<1>7. TypeOK'
  BY <1>1 DEF TypeOK, DrainType
<1>8. Past'
  BY DEF IInv, Past
<1>9. ASSUME Undisturbed' PROVE Run'
  <2>1. Run /\ Undisturbed
    BY <1>9 DEF IInv, Undisturbed
  <2>2. RunItems'
    BY <1>1, <2>1, MovedRunItems DEF IInv, Run
  <2>3. RunStream'
    BY <1>1, <2>1, MovedRunStream DEF IInv, Run
  <2>. QED
    BY <2>1, <2>2, <2>3 DEF Run
<1>. QED
  BY <1>3, <1>4, <1>5, <1>6, <1>7, <1>8, <1>9 DEF IInv

\* What is known of the item the drain holds.
LEMMA HeldFacts ==
    ASSUME IInv, Held
    PROVE  LET d == drain.delivery IN
             /\ drain # Stopped /\ 1 \in 1 .. Len(InFlight) /\ InFlight[1] = d /\ d \in Delivery
             /\ d.id \in Event /\ d.id \in 1 .. logged /\ d.id \in Nat /\ d.cgen \in Nat
             /\ d.order \in 0 .. order /\ (Takes(1) <=> ~Outdated(d))
             /\ Outdated(d) => d.id <= recovered
             /\ ~Outdated(d) =>
                  /\ ackOrder < d.order
                  /\ \A k \in 1 .. d.id - 1 : Settled(k)
                  /\ \A i \in 1 .. Len(InFlight) : i > 1 /\ Current(InFlight[i]) => d.order < InFlight[i].order
             /\ \A i \in 1 .. Len(InFlight) : Current(InFlight[i]) => ackOrder < InFlight[i].order
             /\ RunItems /\ ~Outdated(d) => d.cgen = cgen /\ cursor < d.id
<1>. DEFINE d == drain.delivery
<1>1. TypeOK /\ drain # Stopped
  BY DrainTyped, DrainPhases DEF IInv, Held
<1>2. 1 \in 1 .. Len(InFlight) /\ InFlight[1] = d /\ d \in Delivery
  BY <1>1, HeldItem
<1>3. d.id \in Event /\ d.id \in Nat /\ d.order \in Nat /\ d.cgen \in Nat
  BY <1>1, <1>2, ItemTypes
<1>4. d.id <= logged /\ d.order <= order /\ (Outdated(d) => d.id <= recovered) /\ (Takes(1) <=> ~Outdated(d))
  BY <1>2 DEF IInv, Items, Outdated, Current, Takes
<1>5. d.id \in 1 .. logged /\ d.order \in 0 .. order
  BY <1>1, <1>3, <1>4, ItemTypes DEF Event
<1>6. \A i \in 1 .. Len(InFlight) : Current(InFlight[i]) => ackOrder < InFlight[i].order
  BY DEF IInv, Items
<1>7. ASSUME ~Outdated(d)
      PROVE  /\ ackOrder < d.order
             /\ \A k \in 1 .. d.id - 1 : Settled(k)
             /\ \A i \in 1 .. Len(InFlight) : i > 1 /\ Current(InFlight[i]) => d.order < InFlight[i].order
  <2>1. Current(InFlight[1])
    BY <1>2, <1>7 DEF Outdated, Current
  <2>2. \A k : ~Ahead(k, 1)
    BY DEF Ahead
  <2>3. \A k \in 1 .. d.id - 1 : Settled(k)
    BY <1>1, <1>2, <2>1, <2>2 DEF IInv, Behind
  <2>4. ASSUME NEW i \in 1 .. Len(InFlight), i > 1, Current(InFlight[i]) PROVE d.order < InFlight[i].order
    <3>1. 1 \in 1 .. i - 1
      BY <2>4
    <3>. QED
      BY <1>2, <2>1, <2>4, <3>1 DEF IInv, Items
  <2>. QED
    BY <1>2, <1>6, <2>1, <2>3, <2>4
<1>8. RunItems /\ ~Outdated(d) => d.cgen = cgen /\ cursor < d.id
  BY <1>2 DEF RunItems, Outdated, Current
<1>. QED
  BY <1>1, <1>2, <1>3, <1>4, <1>5, <1>6, <1>7, <1>8

\* An item that is done moves the cursor to itself, unless close() voided its acknowledgement.
LEMMA Acknowledged ==
    ASSUME IInv, Held, ~Outdated(drain.delivery), Acknowledge(drain.delivery),
           UNCHANGED <<logged, order, recovered, rgen>>, ignored \subseteq ignored',
           \A s \in 1 .. Sinks : applied[s] \subseteq applied'[s],
           \A k : k = drain.delivery.id => Settled(k)'
    PROVE  /\ cursor' \in 0 .. logged /\ ackOrder' \in 0 .. order /\ CursorSkipsNothing'
           /\ \A i \in 1 .. Len(InFlight) : i > 1 /\ Current(InFlight[i]) => ackOrder' < InFlight[i].order
           /\ RunItems => cursor' = drain.delivery.id
<1>. DEFINE d == drain.delivery
<1>1. TypeOK /\ recovered \in Nat /\ cursor \in 0 .. logged /\ ackOrder \in 0 .. order /\ logged \in Nat
  BY ItemTypes DEF IInv, TypeOK
<1>2. /\ d.id \in 1 .. logged /\ d.order \in 0 .. order /\ ackOrder < d.order
      /\ \A k \in 1 .. d.id - 1 : Settled(k)
      /\ \A i \in 1 .. Len(InFlight) : i > 1 /\ Current(InFlight[i]) => d.order < InFlight[i].order
      /\ \A i \in 1 .. Len(InFlight) : Current(InFlight[i]) => ackOrder < InFlight[i].order
      /\ RunItems => d.cgen = cgen
  BY HeldFacts
<1>3. \A k \in Nat : Settled(k) => Settled(k)'
  BY <1>1, SettledKept
<1>. HIDE DEF d
<1>4. CASE d.cgen = cgen
  <2>1. cursor' = d.id /\ ackOrder' = d.order
    BY <1>2, <1>4 DEF Acknowledge, d
  <2>2. ASSUME NEW k \in 1 .. d.id PROVE Settled(k)'
    <3>1. CASE k = d.id
      BY <3>1 DEF d
    <3>2. CASE k # d.id
      <4>1. k \in 1 .. d.id - 1 /\ k \in Nat
        BY <1>2, <3>2
      <4>. QED
        BY <1>2, <1>3, <4>1
    <3>. QED
      BY <3>1, <3>2
  <2>3. CursorSkipsNothing'
    BY <2>1, <2>2 DEF CursorSkipsNothing
  <2>4. cursor' \in 0 .. logged
    BY <1>2, <2>1
  <2>. QED
    BY <1>2, <2>1, <2>3, <2>4 DEF d
<1>5. CASE d.cgen # cgen
  <2>1. UNCHANGED <<cursor, ackOrder>>
    BY <1>5 DEF Acknowledge, d
  <2>2. CursorSkipsNothing'
    BY <1>1, <1>3, <2>1 DEF IInv, CursorSkipsNothing
  <2>. QED
    BY <1>1, <1>2, <1>5, <2>1, <2>2 DEF d
<1>. QED
  BY <1>4, <1>5

LEMMA CursorKept ==
    ASSUME IInv, UNCHANGED <<logged, recovered, cursor, ackOrder>>, ignored \subseteq ignored',
           \A s \in 1 .. Sinks : applied[s] \subseteq applied'[s]
    PROVE  /\ cursor' \in 0 .. logged /\ ackOrder' \in 0 .. order /\ CursorSkipsNothing'
           /\ \A i \in 1 .. Len(InFlight) : Current(InFlight[i]) => ackOrder' < InFlight[i].order
<1>1. TypeOK /\ recovered \in Nat /\ cursor \in 0 .. logged /\ ackOrder \in 0 .. order
  BY ItemTypes DEF IInv, TypeOK
<1>2. \A k \in Nat : Settled(k) => Settled(k)'
  BY <1>1, SettledKept
<1>3. CursorSkipsNothing'
  BY <1>1, <1>2 DEF IInv, CursorSkipsNothing
<1>. QED
  BY <1>1, <1>3 DEF IInv, Items

\* A cursor that moves up keeps ahead of what the sinks have been given.
LEMMA SinksKeptUp ==
    ASSUME IInv, RunSinks, cursor' \in Nat, cursor <= cursor', recovered' \in Nat, recovered <= recovered',
           UNCHANGED <<cgen, applied, finished>>, drain.phase # "delivering"
    PROVE  RunSinks'
<1>1. cursor \in Nat /\ recovered \in Nat /\ logged \in Nat
  BY ItemTypes DEF IInv
<1>2. ASSUME NEW s \in 1 .. Sinks, NEW k \in applied[s] PROVE k <= recovered' \/ k <= cursor'
  <2>1. k \in 1 .. logged
    BY <1>2 DEF IInv, Past
  <2>2. k <= recovered \/ k <= cursor
    BY <1>2 DEF RunSinks
  <2>. QED
    BY <1>1, <2>1, <2>2
<1>3. ASSUME NEW p \in finished PROVE p[1] <= cgen /\ (p[1] = cgen => p[2] <= cursor')
  <2>1. p[1] <= cgen /\ (p[1] = cgen => p[2] <= cursor) /\ p[2] \in Nat
    BY <1>3 DEF RunSinks, IInv, Past
  <2>. QED
    BY <1>1, <2>1
<1>. QED
  BY <1>2, <1>3 DEF RunSinks

\* An item of an older generation, or one for a closed router, is dropped.
LEMMA StepDiscard ==
    ASSUME IInv, Held, drain.phase # "delivering", Outdated(drain.delivery) \/ closed, NextTurn, overflow' = overflow,
           UNCHANGED <<connVars, cgen, order, closed, rgen, bounds, applied, recovered, finished, overtaken,
                       cursor, ackOrder, ignored>>,
           pendingIds' \subseteq pendingIds, Outdated(drain.delivery) => pendingIds' = pendingIds
    PROVE  IInv'
<1>1. TypeOK
  BY DEF IInv
<1>2. /\ Moves(1) /\ queue' \in Seq(Delivery) /\ Len(queue') <= Capacity /\ drain' \in DrainType
      /\ drain'.phase # "delivering" /\ (drain' = Waiting => queue' = <<>>) /\ (drain' = Stopped => closed)
      /\ closed => drain' = Stopped
  BY <1>1, TurnsTo
<1>3. drain # Stopped /\ (Takes(1) <=> ~Outdated(drain.delivery))
  BY HeldFacts
<1>4. Turns'
  BY <1>2 DEF Turns
<1>5. /\ cursor' \in 0 .. logged /\ ackOrder' \in 0 .. order /\ CursorSkipsNothing'
      /\ \A i \in 1 .. Len(InFlight) : Current(InFlight[i]) => ackOrder' < InFlight[i].order
  BY CursorKept DEF connVars
<1>6. /\ applied' \in [1 .. Sinks -> SUBSET (1 .. logged)] /\ ignored' \subseteq Event /\ finished' \subseteq Nat \X Nat
      /\ pendingIds' \subseteq Event
  BY <1>1 DEF IInv, Past, TypeOK
<1>7. ASSUME Undisturbed PROVE cursor' = (IF Takes(1) THEN InFlight[1].id ELSE cursor) /\ RunSinks'
  <2>1. RunSinks /\ ~closed /\ cursor \in Nat /\ recovered \in Nat
    BY <1>1, <1>7, ItemTypes DEF IInv, Run
  <2>2. RunSinks'
    BY <2>1, SinksKeptUp
  <2>. QED
    BY <1>3, <2>1, <2>2
<1>8. UNCHANGED <<logged, conn, boundary, cgen, order, closed, rgen, overflow, recovered, drops, faults,
                  closes, overtaken>>
  BY DEF connVars, bounds
<1>9. ~closed => pendingIds' = IF Takes(1) THEN pendingIds \ {InFlight[1].id} ELSE pendingIds
  BY <1>3
<1>10. ~closed /\ Takes(1) => \A k : k = InFlight[1].id => Settled(k)'
  BY <1>3
<1>. QED
  BY <1>2, <1>3, <1>4, <1>5, <1>6, <1>7, <1>8, <1>9, <1>10, StepMove

\* The decoder dropped the event: it is acknowledged without any sink.
LEMMA StepIgnore ==
    ASSUME IInv, Held, drain.phase # "delivering", ~Outdated(drain.delivery), NextTurn, overflow' = overflow,
           pendingIds' = pendingIds \ {drain.delivery.id}, Acknowledge(drain.delivery),
           ignored' = ignored \union {drain.delivery.id},
           UNCHANGED <<connVars, cgen, order, closed, rgen, bounds, applied, recovered, finished, overtaken>>
    PROVE  IInv'
<1>1. TypeOK
  BY DEF IInv
<1>2. /\ Moves(1) /\ queue' \in Seq(Delivery) /\ Len(queue') <= Capacity /\ drain' \in DrainType
      /\ drain'.phase # "delivering" /\ (drain' = Waiting => queue' = <<>>) /\ (drain' = Stopped => closed)
      /\ closed => drain' = Stopped
  BY <1>1, TurnsTo
<1>3. /\ drain # Stopped /\ Takes(1) /\ InFlight[1] = drain.delivery
      /\ drain.delivery.id \in Event /\ drain.delivery.id \in Nat
      /\ RunItems => cursor < drain.delivery.id
  BY HeldFacts
<1>4. Turns'
  BY <1>2 DEF Turns
<1>5. \A k : k = drain.delivery.id => Settled(k)'
  BY DEF Settled
<1>6. UNCHANGED <<logged, conn, boundary, cgen, order, closed, rgen, overflow, recovered, drops, faults,
                  closes, overtaken>>
  BY DEF connVars, bounds
<1>7. /\ cursor' \in 0 .. logged /\ ackOrder' \in 0 .. order /\ CursorSkipsNothing'
      /\ \A i \in 1 .. Len(InFlight) : i > 1 /\ Current(InFlight[i]) => ackOrder' < InFlight[i].order
      /\ RunItems => cursor' = drain.delivery.id
  BY <1>5, <1>6, Acknowledged
<1>8. /\ applied' \in [1 .. Sinks -> SUBSET (1 .. logged)] /\ ignored' \subseteq Event /\ finished' \subseteq Nat \X Nat
      /\ pendingIds' \subseteq Event
  BY <1>1, <1>3 DEF IInv, Past, TypeOK
<1>9. ASSUME Undisturbed PROVE cursor' = (IF Takes(1) THEN InFlight[1].id ELSE cursor) /\ RunSinks'
  <2>1. RunSinks /\ RunItems /\ cursor \in Nat /\ recovered \in Nat
    BY <1>1, <1>9, ItemTypes DEF IInv, Run
  <2>2. cursor' \in Nat /\ cursor <= cursor'
    BY <1>3, <1>7, <2>1
  <2>3. RunSinks'
    BY <2>1, <2>2, SinksKeptUp
  <2>. QED
    BY <1>3, <1>7, <2>1, <2>3
<1>10. ~closed => pendingIds' = IF Takes(1) THEN pendingIds \ {InFlight[1].id} ELSE pendingIds
  BY <1>3
<1>11. ~closed /\ Takes(1) => \A k : k = InFlight[1].id => Settled(k)'
  BY <1>3, <1>5
<1>. QED
  BY <1>2, <1>3, <1>4, <1>6, <1>7, <1>8, <1>9, <1>10, <1>11, StepMove

\* The first sink is given the event.
LEMMA StepDeliver ==
    ASSUME IInv, Held, drain.phase # "delivering", ~closed, drain' = Delivering(drain.delivery, 1), overflow' = overflow,
           UNCHANGED <<connVars, cgen, order, closed, rgen, bounds, applied, recovered, finished, overtaken,
                       cursor, ackOrder, pendingIds, queue, ignored>>
    PROVE  IInv'
<1>1. TypeOK /\ 1 \in 1 .. Sinks
  BY DeliveryAssumption DEF IInv, DeliveryAssumption
<1>2. /\ Moves(0) /\ drain' \in DrainType /\ drain'.phase = "delivering" /\ drain'.sink = 1
      /\ drain' # Waiting /\ drain' # Stopped
  BY <1>1, GoesOn
<1>3. drain # Stopped /\ ~Takes(0)
  BY HeldFacts DEF Takes
<1>4. Turns'
  BY <1>2 DEF Turns
<1>5. /\ cursor' \in 0 .. logged /\ ackOrder' \in 0 .. order /\ CursorSkipsNothing'
      /\ \A i \in 1 .. Len(InFlight) : Current(InFlight[i]) => ackOrder' < InFlight[i].order
  BY CursorKept DEF connVars
<1>6. /\ applied' \in [1 .. Sinks -> SUBSET (1 .. logged)] /\ ignored' \subseteq Event /\ finished' \subseteq Nat \X Nat
      /\ pendingIds' \subseteq Event /\ queue' \in Seq(Delivery) /\ Len(queue') <= Capacity
  BY <1>1 DEF IInv, Past, TypeOK
<1>7. ASSUME Undisturbed PROVE cursor' = cursor /\ RunSinks'
  <2>1. RunSinks /\ cursor \in Nat /\ recovered \in Nat
    BY <1>1, <1>7, ItemTypes DEF IInv, Run
  <2>. QED
    BY <2>1, SinksKeptUp
<1>8. UNCHANGED <<logged, conn, boundary, cgen, order, closed, rgen, overflow, recovered, drops, faults,
                  closes, overtaken>>
  BY DEF connVars, bounds
<1>. QED
  BY <1>2, <1>3, <1>4, <1>5, <1>6, <1>7, <1>8, StepMove

LEMMA StepTakeItem ==
    ASSUME IInv, TakeItem, overflow' = overflow
    PROVE  IInv'
<1>. DEFINE d == drain.delivery
<1>1. Held /\ drain.phase # "delivering"
  BY DEF TakeItem, Held
<1>2. UNCHANGED <<connVars, cgen, order, closed, rgen, bounds, applied, recovered, finished, overtaken>>
  BY DEF TakeItem
<1>3. CASE Outdated(d) /\ NextTurn /\ UNCHANGED <<cursor, ackOrder, pendingIds, ignored>>
  BY <1>1, <1>2, <1>3, StepDiscard
<1>4. CASE /\ ~Outdated(d) /\ pendingIds' = pendingIds \ {d.id} /\ Acknowledge(d)
           /\ ignored' = ignored \union {d.id} /\ NextTurn
  BY <1>1, <1>2, <1>4, StepIgnore
<1>5. CASE ~closed /\ drain' = Delivering(d, 1) /\ UNCHANGED <<cursor, ackOrder, pendingIds, queue, ignored>>
  BY <1>1, <1>2, <1>5, StepDeliver
<1>6. CASE /\ ~Outdated(d) /\ closed /\ pendingIds' = pendingIds \ {d.id} /\ NextTurn
           /\ UNCHANGED <<cursor, ackOrder, ignored>>
  BY <1>1, <1>2, <1>6, StepDiscard
<1>. QED
  BY <1>3, <1>4, <1>5, <1>6 DEF TakeItem

\* A sink that applies an event adds a logged one to its own.
LEMMA SinkGrows ==
    ASSUME IInv, Held, drain.phase = "delivering",
           applied' = [applied EXCEPT ![drain.sink] = @ \union {drain.delivery.id}]
    PROVE  /\ applied' \in [1 .. Sinks -> SUBSET (1 .. logged)]
           /\ drain.sink \in 1 .. Sinks
           /\ \A s \in 1 .. Sinks :
                applied'[s] = IF s = drain.sink THEN applied[s] \union {drain.delivery.id} ELSE applied[s]
<1>1. drain.sink \in 1 .. Sinks /\ drain.delivery.id \in 1 .. logged
  BY HeldFacts, DrainTyped, DrainPhases DEF IInv
<1>2. applied \in [1 .. Sinks -> SUBSET (1 .. logged)]
  BY DEF IInv, Past
<1>. QED
  BY <1>1, <1>2

\* The next sink is given the event.
LEMMA StepNextSink ==
    ASSUME IInv, Held, drain.phase = "delivering", ~SignalAborted(drain.delivery), drain.sink < Sinks,
           applied' = [applied EXCEPT ![drain.sink] = @ \union {drain.delivery.id}],
           drain' = Delivering(drain.delivery, drain.sink + 1), overflow' = overflow,
           UNCHANGED <<connVars, cgen, order, closed, rgen, bounds, ignored, recovered, overtaken,
                       cursor, ackOrder, pendingIds, queue, finished>>
    PROVE  IInv'
<1>. DEFINE d == drain.delivery
            t == drain.sink
<1>1. /\ TypeOK /\ ~closed /\ ~Outdated(d) /\ d.id \in Nat
      /\ applied' \in [1 .. Sinks -> SUBSET (1 .. logged)] /\ t \in 1 .. Sinks
      /\ \A s \in 1 .. Sinks : applied'[s] = IF s = t THEN applied[s] \union {d.id} ELSE applied[s]
  BY SinkGrows, HeldFacts DEF IInv, SignalAborted, Outdated
<1>2. t + 1 \in 1 .. Sinks
  BY <1>1, DeliveryAssumption DEF DeliveryAssumption
<1>3. /\ Moves(0) /\ drain' \in DrainType /\ drain'.phase = "delivering" /\ drain'.delivery = d
      /\ drain'.sink = t + 1 /\ drain' # Waiting /\ drain' # Stopped
  BY <1>1, <1>2, GoesOn
<1>4. \A s \in 1 .. Sinks : applied[s] \subseteq applied'[s]
  BY <1>1
<1>5. Turns'
  <2>. SUFFICES ASSUME NEW s \in 1 .. t PROVE d.id \in applied'[s]
    BY <1>1, <1>3 DEF Turns
  <2>1. s \in 1 .. Sinks /\ (s = t \/ s \in 1 .. t - 1)
    BY <1>1, DeliveryAssumption DEF DeliveryAssumption
  <2>. QED
    BY <1>1, <2>1 DEF IInv, Turns
<1>6. /\ cursor' \in 0 .. logged /\ ackOrder' \in 0 .. order /\ CursorSkipsNothing'
      /\ \A i \in 1 .. Len(InFlight) : Current(InFlight[i]) => ackOrder' < InFlight[i].order
  BY <1>4, CursorKept DEF connVars
<1>7. /\ ignored' \subseteq Event /\ finished' \subseteq Nat \X Nat
      /\ pendingIds' \subseteq Event /\ queue' \in Seq(Delivery) /\ Len(queue') <= Capacity
  BY <1>1 DEF IInv, Past, TypeOK
<1>8. UNCHANGED <<logged, conn, boundary, cgen, order, closed, rgen, overflow, recovered, drops, faults,
                  closes, overtaken>>
  BY DEF connVars, bounds
<1>9. ASSUME Undisturbed PROVE cursor' = cursor /\ RunSinks'
  <2>1. RunSinks
    BY <1>9 DEF IInv, Run
  <2>2. d.rgen = rgen
    BY <1>1 DEF Outdated
  <2>3. ASSUME NEW s \in 1 .. Sinks, NEW k \in applied'[s]
        PROVE  k <= recovered \/ k <= cursor \/ (k = d.id /\ s < t + 1)
    <3>1. CASE k \in applied[s]
      <4>1. k <= recovered \/ k <= cursor \/ (k = d.id /\ s < t)
        BY <2>1, <3>1 DEF RunSinks
      <4>. QED
        BY <1>1, <4>1
    <3>2. CASE k \notin applied[s]
      <4>1. s = t /\ k = d.id
        BY <1>1, <2>3, <3>2
      <4>. QED
        BY <1>1, <4>1
    <3>. QED
      BY <3>1, <3>2
  <2>. QED
    BY <1>3, <1>8, <2>1, <2>2, <2>3 DEF RunSinks, Current
<1>10. drain # Stopped /\ ~Takes(0)
  BY HeldFacts DEF Takes
<1>. QED
  BY <1>1, <1>3, <1>4, <1>5, <1>6, <1>7, <1>8, <1>9, <1>10, StepMove

\* The last sink has applied the event: it is acknowledged.
LEMMA StepLastSink ==
    ASSUME IInv, Held, drain.phase = "delivering", ~SignalAborted(drain.delivery), drain.sink = Sinks,
           applied' = [applied EXCEPT ![drain.sink] = @ \union {drain.delivery.id}],
           pendingIds' = pendingIds \ {drain.delivery.id}, Acknowledge(drain.delivery),
           finished' = finished \union {<<drain.delivery.cgen, drain.delivery.id>>}, NextTurn, overflow' = overflow,
           UNCHANGED <<connVars, cgen, order, closed, rgen, bounds, ignored, recovered, overtaken>>
    PROVE  IInv'
<1>. DEFINE d == drain.delivery
            t == drain.sink
<1>1. /\ TypeOK /\ ~closed /\ ~Outdated(d) /\ d.id \in Nat /\ d.id \in Event /\ d.cgen \in Nat
      /\ applied' \in [1 .. Sinks -> SUBSET (1 .. logged)] /\ t \in 1 .. Sinks
      /\ \A s \in 1 .. Sinks : applied'[s] = IF s = t THEN applied[s] \union {d.id} ELSE applied[s]
  BY SinkGrows, HeldFacts DEF IInv, SignalAborted, Outdated
<1>2. /\ Moves(1) /\ queue' \in Seq(Delivery) /\ Len(queue') <= Capacity /\ drain' \in DrainType
      /\ drain'.phase # "delivering" /\ (drain' = Waiting => queue' = <<>>) /\ (drain' = Stopped => closed)
      /\ closed => drain' = Stopped
  BY <1>1, TurnsTo
<1>3. /\ drain # Stopped /\ Takes(1) /\ InFlight[1] = d
      /\ RunItems => cursor < d.id /\ d.cgen = cgen
  BY <1>1, HeldFacts
<1>4. Turns'
  BY <1>2 DEF Turns
<1>5. \A s \in 1 .. Sinks : applied[s] \subseteq applied'[s]
  BY <1>1
<1>6. \A k : k = d.id => Settled(k)'
  <2>. SUFFICES ASSUME NEW s \in 1 .. Sinks PROVE d.id \in applied'[s]
    BY DEF Settled
  <2>1. s = t \/ s \in 1 .. t - 1
    BY <1>1
  <2>. QED
    BY <1>1, <2>1 DEF IInv, Turns
<1>7. UNCHANGED <<logged, conn, boundary, cgen, order, closed, rgen, overflow, recovered, drops, faults,
                  closes, overtaken>>
  BY DEF connVars, bounds
<1>8. /\ cursor' \in 0 .. logged /\ ackOrder' \in 0 .. order /\ CursorSkipsNothing'
      /\ \A i \in 1 .. Len(InFlight) : i > 1 /\ Current(InFlight[i]) => ackOrder' < InFlight[i].order
      /\ RunItems => cursor' = d.id
  BY <1>1, <1>5, <1>6, <1>7, Acknowledged
<1>9. /\ ignored' \subseteq Event /\ finished' \subseteq Nat \X Nat /\ pendingIds' \subseteq Event
  BY <1>1 DEF IInv, Past, TypeOK
<1>10. ASSUME Undisturbed PROVE cursor' = (IF Takes(1) THEN InFlight[1].id ELSE cursor) /\ RunSinks'
  <2>1. RunSinks /\ RunItems /\ cursor \in Nat /\ recovered \in Nat
    BY <1>1, <1>10, ItemTypes DEF IInv, Run
  <2>2. cursor' = d.id /\ cursor < d.id /\ d.cgen = cgen
    BY <1>3, <1>8, <2>1
  <2>3. ASSUME NEW s \in 1 .. Sinks, NEW k \in applied'[s] PROVE k <= recovered \/ k <= d.id
    <3>1. CASE k \in applied[s]
      <4>1. k <= recovered \/ k <= cursor \/ k = d.id
        BY <2>1, <3>1 DEF RunSinks
      <4>2. k \in 1 .. logged
        BY <3>1 DEF IInv, Past
      <4>. QED
        BY <1>1, <2>1, <2>2, <4>1, <4>2
    <3>2. CASE k \notin applied[s]
      <4>1. k = d.id
        BY <1>1, <2>3, <3>2
      <4>. QED
        BY <1>1, <4>1
    <3>. QED
      BY <3>1, <3>2
  <2>4. ASSUME NEW p \in finished' PROVE p[1] <= cgen /\ (p[1] = cgen => p[2] <= d.id)
    <3>1. CASE p \in finished
      <4>1. p[1] <= cgen /\ (p[1] = cgen => p[2] <= cursor) /\ p[2] \in Nat
        BY <2>1, <3>1 DEF RunSinks, IInv, Past
      <4>. QED
        BY <1>1, <2>1, <2>2, <4>1
    <3>2. CASE p \notin finished
      <4>1. p = <<d.cgen, d.id>>
        BY <2>4, <3>2
      <4>. QED
        BY <1>1, <2>2, <4>1
    <3>. QED
      BY <3>1, <3>2
  <2>5. RunSinks'
    BY <1>7, <2>2, <2>3, <2>4 DEF RunSinks
  <2>. QED
    BY <1>3, <2>2, <2>5
<1>11. ~closed => pendingIds' = IF Takes(1) THEN pendingIds \ {InFlight[1].id} ELSE pendingIds
  BY <1>3
<1>12. ~closed /\ Takes(1) => \A k : k = InFlight[1].id => Settled(k)'
  BY <1>3, <1>6
<1>. QED
  BY <1>1, <1>2, <1>3, <1>4, <1>5, <1>7, <1>8, <1>9, <1>10, <1>11, <1>12, StepMove

LEMMA StepSinkApplies ==
    ASSUME IInv, SinkApplies, overflow' = overflow
    PROVE  IInv'
<1>1. /\ Held /\ drain.phase = "delivering" /\ ~SignalAborted(drain.delivery)
      /\ applied' = [applied EXCEPT ![drain.sink] = @ \union {drain.delivery.id}]
      /\ UNCHANGED <<connVars, cgen, order, closed, rgen, bounds, ignored, recovered, overtaken>>
  BY DEF SinkApplies, Held
<1>2. CASE /\ drain.sink < Sinks /\ drain' = Delivering(drain.delivery, drain.sink + 1)
           /\ UNCHANGED <<cursor, ackOrder, pendingIds, queue, finished>>
  BY <1>1, <1>2, StepNextSink
<1>3. CASE /\ drain.sink = Sinks /\ pendingIds' = pendingIds \ {drain.delivery.id} /\ Acknowledge(drain.delivery)
           /\ finished' = finished \union {<<drain.delivery.cgen, drain.delivery.id>>} /\ NextTurn
  BY <1>1, <1>3, StepLastSink
<1>. QED
  BY <1>2, <1>3 DEF SinkApplies

\* A sink that rejects an event leaves a gap.
LEMMA StepSinkFails ==
    ASSUME IInv, SinkFails, overflow' = overflow
    PROVE  IInv'
<1>1. /\ TypeOK /\ Held /\ ~closed /\ RouterReset /\ NextTurn /\ faults' = faults + 1
      /\ UNCHANGED <<logged, conn, boundary, order, ackOrder, closed, drops, closes, applied, ignored,
                     finished, overtaken>>
  BY DEF SinkFails, Held, SignalAborted, IInv, connVars
<1>2. /\ Moves(1) /\ queue' \in Seq(Delivery) /\ Len(queue') <= Capacity /\ drain' \in DrainType
      /\ drain'.phase # "delivering" /\ (drain' = Waiting => queue' = <<>>) /\ (drain' = Stopped => closed)
  BY <1>1, TurnsTo
<1>3. Turns'
  BY <1>1, <1>2 DEF Turns
<1>4. /\ order' \in Nat /\ order <= order' /\ cgen \in Nat /\ boundary \in BOOLEAN /\ faults' \in Nat
      /\ conn' \in Connection /\ conn'.position <= logged /\ conn'.resume <= logged
      /\ conn'.state = "opening" => ~boundary'
      /\ conn'.state = "open" /\ ~boundary' /\ conn'.control = "connected" /\ conn'.resume # 0 =>
           conn'.position = conn'.resume
  BY <1>1, ItemTypes DEF IInv, Past, Stream, TypeOK
<1>5. /\ Len(InFlight') \in Nat
      /\ \A i \in 1 .. Len(InFlight') :
          /\ InFlight'[i].id <= logged /\ InFlight'[i].order <= order'
          /\ InFlight'[i].rgen \in Nat /\ InFlight'[i].rgen <= rgen
  BY <1>2, <1>4, OldFlight
<1>6. /\ rgen' = rgen + 1 /\ pendingIds' = {} /\ cursor' = 0 /\ recovered' = logged
      /\ cgen' \in Nat /\ cgen < cgen' /\ boundary' \in BOOLEAN
  BY <1>1, <1>4 DEF RouterReset
<1>. QED
  BY <1>1, <1>2, <1>3, <1>4, <1>5, <1>6, StepReset

\* A sink that was given up on may still have applied the event, which is outdated or for nobody.
LEMMA StepAbandonSink ==
    ASSUME IInv, AbandonSink, overflow' = overflow
    PROVE  IInv'
<1>. DEFINE d == drain.delivery
<1>1. /\ TypeOK /\ Held /\ drain.phase = "delivering" /\ (closed \/ Outdated(d)) /\ NextTurn
      /\ applied' \in {applied, [applied EXCEPT ![drain.sink] = @ \union {d.id}]}
      /\ pendingIds' = (IF Outdated(d) THEN pendingIds ELSE pendingIds \ {d.id})
      /\ UNCHANGED <<connVars, channelVars, closed, rgen, bounds, ignored, recovered, finished, overtaken>>
  BY DEF AbandonSink, Held, SignalAborted, IInv, Outdated
<1>2. /\ Moves(1) /\ queue' \in Seq(Delivery) /\ Len(queue') <= Capacity /\ drain' \in DrainType
      /\ drain'.phase # "delivering" /\ (drain' = Waiting => queue' = <<>>) /\ (drain' = Stopped => closed)
      /\ closed => drain' = Stopped
  BY <1>1, TurnsTo
<1>3. drain # Stopped /\ (Takes(1) <=> ~Outdated(d)) /\ (Outdated(d) => d.id <= recovered)
  BY <1>1, HeldFacts
<1>4. Turns'
  BY <1>1, <1>2 DEF Turns
<1>5. /\ applied' \in [1 .. Sinks -> SUBSET (1 .. logged)]
      /\ \A s \in 1 .. Sinks : applied[s] \subseteq applied'[s] /\ applied'[s] \subseteq applied[s] \union {d.id}
  <2>1. CASE applied' = applied
    BY <2>1 DEF IInv, Past
  <2>2. CASE applied' = [applied EXCEPT ![drain.sink] = @ \union {d.id}]
    BY <1>1, <2>2, SinkGrows
  <2>. QED
    BY <1>1, <2>1, <2>2
<1>6. UNCHANGED <<logged, conn, boundary, cgen, cursor, order, ackOrder, closed, rgen, overflow, recovered, drops,
                  faults, closes, overtaken>>
  BY <1>1 DEF connVars, channelVars, bounds
<1>7. /\ cursor' \in 0 .. logged /\ ackOrder' \in 0 .. order /\ CursorSkipsNothing'
      /\ \A i \in 1 .. Len(InFlight) : Current(InFlight[i]) => ackOrder' < InFlight[i].order
  BY <1>1, <1>5, <1>6, CursorKept
<1>8. ignored' \subseteq Event /\ finished' \subseteq Nat \X Nat /\ pendingIds' \subseteq Event
  BY <1>1 DEF IInv, Past, TypeOK
<1>9. ASSUME Undisturbed PROVE cursor' = (IF Takes(1) THEN InFlight[1].id ELSE cursor) /\ RunSinks'
  <2>1. RunSinks /\ Outdated(d)
    BY <1>1, <1>9 DEF IInv, Run
  <2>2. ASSUME NEW s \in 1 .. Sinks, NEW k \in applied'[s] PROVE k <= recovered \/ k <= cursor
    <3>1. CASE k \in applied[s]
      BY <2>1, <3>1 DEF RunSinks, Current, Outdated
    <3>2. CASE k \notin applied[s]
      <4>1. k = d.id
        BY <1>5, <2>2, <3>2
      <4>. QED
        BY <1>3, <2>1, <4>1
    <3>. QED
      BY <3>1, <3>2
  <2>3. RunSinks'
    BY <1>1, <1>6, <2>1, <2>2 DEF RunSinks
  <2>. QED
    BY <1>3, <1>6, <2>1, <2>3
<1>10. ~closed => pendingIds' = IF Takes(1) THEN pendingIds \ {InFlight[1].id} ELSE pendingIds
  BY <1>1, <1>3
<1>11. ~closed /\ Takes(1) => \A k : k = InFlight[1].id => Settled(k)'
  BY <1>1, <1>3
<1>. QED
  BY <1>1, <1>2, <1>3, <1>4, <1>5, <1>6, <1>7, <1>8, <1>9, <1>10, <1>11, StepMove

-----------------------------------------------------------------------------
(* The router's own lifetime *)

\* A router that closes, with or without its channel, keeps what is in flight until it is looked at.
LEMMA StepCloses ==
    ASSUME IInv, overflow' = overflow, closes' = closes + 1,
           UNCHANGED <<logged, boundary, cursor, order, ackOrder, rgen, queue, drops, faults, applied, ignored,
                       recovered, finished, overtaken>>,
           conn' = conn \/ conn' = Offline, cgen' \in Nat,
           closed' = TRUE, pendingIds' \subseteq Event,
           drain' = drain \/ (drain = Waiting /\ drain' = Stopped)
    PROVE  IInv'
<1>1. /\ TypeOK /\ closes \in Nat /\ recovered \in Nat /\ order \in Nat /\ logged \in Nat
  BY ItemTypes DEF IInv, Past
<1>2. /\ InFlight' = InFlight /\ drain' \in DrainType /\ Turns'
      /\ drain' # Stopped => drain # Stopped
  <2>1. CASE drain' = drain
    BY <1>1, <2>1, Kept, DrainTyped DEF IInv, Turns
  <2>2. CASE drain = Waiting /\ drain' = Stopped
    <3>1. /\ drain.phase = "waiting" /\ drain'.phase = "stopped" /\ drain' \in DrainType /\ drain' # Waiting
      BY <2>2 DEF Waiting, Stopped, DrainType
    <3>2. InFlight' = InFlight
      BY <3>1 DEF InFlight
    <3>3. Turns'
      BY <2>2, <3>1 DEF Turns
    <3>. QED
      BY <2>2, <3>1, <3>2, <3>3
  <2>. QED
    BY <2>1, <2>2
<1>3. Moves(0) /\ ~Takes(0)
  BY <1>1, <1>2, SameFlight DEF Takes
<1>4. \A k \in Nat : Settled(k) => Settled(k)'
  BY <1>1, SettledKept
<1>5. Items'
  BY <1>1, <1>3, MovedItems DEF IInv, Items
<1>6. Behind'
  BY <1>1, <1>2, <1>3, <1>4, MovedBehind DEF IInv
<1>7. Pending' /\ ~Undisturbed'
  BY <1>1 DEF Pending, Undisturbed
<1>8. CursorSkipsNothing'
  BY DEF IInv, CursorSkipsNothing, Settled
<1>9. Stream'
  <2>1. conn.state \in {"opening", "open"} => \A k \in 1 .. conn.resume : Settled(k)'
    BY DEF IInv, Stream, Settled
  <2>. QED
    BY <1>1, <2>1, ConnTyped DEF IInv, Stream
<1>10. /\ conn' \in Connection /\ conn'.position <= logged /\ conn'.resume <= logged
  BY <1>1, ConnTyped DEF IInv, Past
<1>11. TypeOK'
  BY <1>1, <1>2, <1>10 DEF TypeOK, DrainType
<1>12. Past'
  BY <1>1, <1>10 DEF IInv, Past
<1>. QED
  BY <1>2, <1>5, <1>6, <1>7, <1>8, <1>9, <1>11, <1>12 DEF IInv

LEMMA StepRouterClose ==
    ASSUME IInv, RouterClose, overflow' = overflow
    PROVE  IInv'
<1>1. CloseRouter /\ closes' = closes + 1 /\ UNCHANGED <<connVars, channelVars, drops, faults, history>>
  BY DEF RouterClose
<1>2. /\ pendingIds' \subseteq Event /\ cgen' \in Nat
      /\ UNCHANGED <<logged, conn, boundary, cursor, order, ackOrder, drops, faults, applied, ignored,
                     recovered, finished, overtaken>>
  BY <1>1 DEF CloseRouter, connVars, channelVars, history, IInv, TypeOK
<1>. QED
  BY <1>1, <1>2, StepCloses DEF CloseRouter

LEMMA StepTerminalFailure ==
    ASSUME IInv, TerminalFailure, overflow' = overflow
    PROVE  IInv'
<1>1. /\ closes' = closes + 1 /\ conn' = Offline /\ cgen' \in Nat
      /\ UNCHANGED <<logged, boundary, cursor, order, ackOrder, drops, faults, applied, ignored,
                     recovered, finished, overtaken>>
      /\ (~closed /\ CloseRouter) \/ (closed /\ UNCHANGED <<closed, rgen, pendingIds, queue, drain>>)
  BY DEF TerminalFailure, history, routerVars, IInv, TypeOK
<1>2. CASE CloseRouter
  <2>1. pendingIds' \subseteq Event
    BY <1>2 DEF CloseRouter
  <2>. QED
    BY <1>1, <1>2, <2>1, StepCloses DEF CloseRouter
<1>3. CASE closed /\ UNCHANGED <<closed, rgen, pendingIds, queue, drain>>
  <2>1. pendingIds' \subseteq Event /\ closed' = TRUE
    BY <1>3 DEF IInv, TypeOK
  <2>. QED
    BY <1>1, <1>3, <2>1, StepCloses
<1>. QED
  BY <1>1, <1>2, <1>3

\* A new router starts empty; on a live stream its sinks take a snapshot of what they missed.
LEMMA StepNewRouter ==
    ASSUME IInv, NewRouter, overflow' = overflow
    PROVE  IInv'
<1>1. /\ TypeOK /\ logged \in Nat /\ recovered \in Nat /\ recovered <= logged /\ closed
  BY ItemTypes DEF IInv, TypeOK, NewRouter
<1>2. /\ closed' = FALSE /\ rgen' = 0 /\ pendingIds' = {} /\ queue' = <<>> /\ drain' = Waiting
      /\ recovered' = (IF conn.state = "open" /\ boundary THEN logged ELSE recovered)
      /\ UNCHANGED <<logged, conn, boundary, cgen, cursor, order, ackOrder, drops, faults, closes,
                     applied, ignored, finished, overtaken>>
  BY DEF NewRouter, connVars, channelVars, bounds
<1>3. /\ recovered' \in 0 .. logged /\ recovered' \in Nat /\ recovered <= recovered'
      /\ conn.state = "open" /\ boundary => recovered' = logged
  BY <1>1, <1>2
<1>4. /\ drain' \in DrainType /\ drain'.phase = "waiting" /\ drain' # Stopped /\ queue' \in Seq(Delivery)
      /\ Len(queue') = 0
  BY <1>2 DEF DrainType, Waiting, Stopped
<1>5. Len(InFlight') = 0
  <2>1. <<>> \o <<>> = <<>>
    OBVIOUS
  <2>. QED
    BY <1>2, <1>4, <2>1 DEF InFlight
<1>6. \A k \in Nat : Settled(k) => Settled(k)'
  BY <1>1, <1>2, <1>3, SettledKept
<1>7. Turns' /\ Items' /\ Behind'
  BY <1>2, <1>4, <1>5 DEF Turns, Items, Behind
<1>8. Pending'
  <2>1. (Len(InFlight') + 1) - 1 = 0
    BY <1>5
  <2>2. \A k : ~Underway(k)'
    BY <2>1 DEF Underway, Ahead
  <2>. QED
    BY <1>2, <2>2 DEF Pending
<1>9. CursorSkipsNothing'
  BY <1>1, <1>2, <1>6, ItemTypes DEF IInv, CursorSkipsNothing
<1>10. Stream'
  <2>1. conn.state \in {"opening", "open"} => \A k \in 1 .. conn.resume : Settled(k)'
    BY <1>6 DEF IInv, Stream
  <2>2. conn.state = "open" /\ boundary => \A k \in 1 .. conn.position : Settled(k)'
    <3>1. conn.position \in Nat /\ conn.position <= logged
      BY <1>1, ConnTyped DEF IInv, Past
    <3>. QED
      BY <1>1, <1>3, <3>1 DEF Settled
  <2>. QED
    BY <1>2, <2>1, <2>2 DEF IInv, Stream
<1>11. TypeOK'
  <2>1. Len(queue') <= Capacity
    BY <1>4, DeliveryAssumption DEF DeliveryAssumption
  <2>. QED
    BY <1>1, <1>2, <1>3, <1>4, <2>1 DEF TypeOK, DrainType
<1>12. Past'
  BY <1>2 DEF IInv, Past
<1>13. ~Undisturbed'
  BY <1>1, <1>2 DEF IInv, Undisturbed, Run
<1>. QED
  BY <1>7, <1>8, <1>9, <1>10, <1>11, <1>12, <1>13 DEF IInv

-----------------------------------------------------------------------------
(* The theorems *)

LEMMA StepStutter ==
    ASSUME IInv, UNCHANGED vars
    PROVE  IInv'
<1>1. UNCHANGED <<logged, conn, boundary, cgen, cursor, order, ackOrder, overflow, closed, rgen, pendingIds, queue,
                  drain, drops, faults, closes, applied, ignored, recovered, finished, overtaken>>
  BY DEF vars, connVars, channelVars, routerVars, bounds, history
<1>2. /\ overtaken' \in BOOLEAN /\ boundary' \in BOOLEAN /\ (Undisturbed' => Undisturbed) /\ cgen' \in Nat
      /\ drops' \in Nat /\ faults' \in Nat /\ closes' \in Nat
      /\ conn' \in Connection /\ conn'.position <= logged /\ conn'.resume <= logged
  BY <1>1 DEF IInv, TypeOK, Past, Undisturbed
<1>3. TypeOK /\ Moves(0) /\ ~Takes(0) /\ \A k \in Nat : Settled(k) => Settled(k)'
  BY <1>1, Kept, SettledKept, ItemTypes DEF IInv, Takes
<1>4. Stream'
  BY <1>1, <1>3, MovedStream DEF IInv
<1>5. ASSUME Undisturbed' PROVE RunStream'
  BY <1>1, <1>2, <1>3, <1>5, MovedRunStream DEF IInv, Run
<1>. QED
  BY <1>1, <1>2, <1>4, <1>5, StepConnection

LEMMA InitIInv ==
    ASSUME Init
    PROVE  IInv
<1>1. /\ Seed \in 0 .. MaxEvents /\ Seed \in Nat /\ MaxEvents \in Nat /\ Capacity \in Nat
      /\ Offline \in Connection /\ Offline.state = "off" /\ Offline.resume = 0 /\ Offline.position = 0
  BY DeliveryAssumption DEF DeliveryAssumption, Connection, Offline
<1>2. drain \in DrainType /\ drain.phase = "waiting" /\ drain # Stopped /\ queue \in Seq(Delivery) /\ Len(queue) = 0
  BY DEF Init, DrainType, Waiting, Stopped
<1>3. Len(InFlight) = 0
  <2>1. <<>> \o <<>> = <<>>
    OBVIOUS
  <2>. QED
    BY <1>2, <2>1 DEF Init, InFlight
<1>4. TypeOK
  <2>1. /\ logged = Seed /\ conn = Offline /\ boundary = FALSE /\ cgen = 0 /\ cursor = Seed /\ order = 0
        /\ ackOrder = 0 /\ overflow \in Overflows /\ closed = FALSE /\ rgen = 0 /\ pendingIds = {}
        /\ drain = Waiting /\ recovered = Seed /\ overtaken = FALSE
    BY DEF Init
  <2>2. logged \in 0 .. MaxEvents /\ conn \in Connection /\ boundary \in BOOLEAN
    BY <1>1, <2>1
  <2>3. cgen \in Nat /\ order \in Nat /\ ackOrder \in 0 .. order /\ rgen \in Nat
    BY <2>1
  <2>4. cursor \in 0 .. logged /\ recovered \in 0 .. logged
    BY <1>1, <2>1
  <2>5. closed \in BOOLEAN /\ pendingIds \subseteq Event /\ overflow \in Overflows /\ overtaken \in BOOLEAN
    BY <2>1
  <2>6. Len(queue) <= Capacity
    BY <1>1, <1>2
  <2>. QED
    BY <1>2, <2>2, <2>3, <2>4, <2>5, <2>6 DEF TypeOK, DrainType
<1>5. Past
  BY <1>1 DEF Init, Past
<1>6. Turns /\ Items /\ Behind
  BY <1>2, <1>3 DEF Init, Turns, Items, Behind
<1>7. Pending
  <2>1. (Len(InFlight) + 1) - 1 = 0
    BY <1>3
  <2>2. \A k : ~Underway(k)
    BY <2>1 DEF Underway, Ahead
  <2>. QED
    BY <2>2 DEF Init, Pending
<1>8. CursorSkipsNothing /\ Stream
  BY <1>1 DEF Init, CursorSkipsNothing, Settled, Stream
<1>9. Run
  BY <1>1, <1>2, <1>3 DEF Init, Run, RunItems, RunStream, RunSinks
<1>. QED
  BY <1>4, <1>5, <1>6, <1>7, <1>8, <1>9 DEF IInv

LEMMA StepIInv ==
    ASSUME IInv, [Next]_vars
    PROVE  IInv'
<1>1. CASE Host
  BY <1>1, StepLog, StepNewRouter DEF Host
<1>2. CASE Network
  BY <1>2, StepConnect, StepStartAttempt, StepOpen, StepBoundary, StepFrame DEF Network
<1>3. CASE Drain
  BY <1>3, StepTakeItem, StepSinkApplies, StepAbandonSink DEF Drain
<1>4. CASE Faulty
  BY <1>4, StepDrop, StepServerReset, StepSinkFails, StepClose, StepRouterClose, StepTerminalFailure DEF Faulty
<1>5. CASE UNCHANGED vars
  BY <1>5, StepStutter
<1>. QED
  BY <1>1, <1>2, <1>3, <1>4, <1>5 DEF Next

\* The inductive invariant: what is in flight is settled, outdated or still to come, and the stream has
\* passed nothing else (channel.ts, router.ts).
THEOREM Invariance == Spec => []IInv
<1>1. Init => IInv
  BY InitIInv
<1>2. IInv /\ [Next]_vars => IInv'
  BY StepIInv
<1>. QED
  BY <1>1, <1>2, PTL DEF Spec

\* Every variable keeps its type: in particular the router's queue stays within its capacity under each
\* overflow policy, and no acknowledgement is newer than the last receipt.
THEOREM TypeCorrect == Spec => []TypeOK
<1>1. IInv => TypeOK
  BY DEF IInv
<1>. QED
  BY <1>1, Invariance, PTL

\* The resume cursor never passes an event that is not settled, through any drops, closes, resets,
\* overflows, sink failures and new routers: a reconnect skips no gap (channel.ts acknowledge).
THEOREM CursorIsSafe == Spec => []CursorSkipsNothing
<1>1. IInv => CursorSkipsNothing
  BY DEF IInv
<1>. QED
  BY <1>1, Invariance, PTL

\* As long as nothing disturbed the router, no sink is given an event that all of them applied in the same
\* generation, however often a reconnect replays it (channel.ts dispatch, router.ts pendingIds).
THEOREM AppliedOnce == Spec => []AppliedOncePerGeneration
<1>1. IInv => AppliedOncePerGeneration
  <2>. SUFFICES ASSUME IInv, Undisturbed, drain.phase = "delivering", ~SignalAborted(drain.delivery),
                       <<drain.delivery.cgen, drain.delivery.id>> \in finished
       PROVE  FALSE
    BY DEF AppliedOncePerGeneration
  <2>1. Run /\ Held /\ ~Outdated(drain.delivery) /\ cursor \in Nat
    BY ItemTypes DEF IInv, Held, SignalAborted, Outdated
  <2>2. drain.delivery.cgen = cgen /\ cursor < drain.delivery.id /\ drain.delivery.id \in Nat
    BY <2>1, HeldFacts DEF Run
  <2>3. drain.delivery.id <= cursor
    <3>. DEFINE p == <<drain.delivery.cgen, drain.delivery.id>>
    <3>1. p \in finished /\ p[1] = cgen /\ p[2] = drain.delivery.id
      BY <2>2
    <3>. HIDE DEF p
    <3>2. p[2] <= cursor
      BY <2>1, <3>1 DEF Run, RunSinks
    <3>. QED
      BY <3>1, <3>2
  <2>. QED
    BY <2>1, <2>2, <2>3
<1>. QED
  BY <1>1, Invariance, PTL

\* As long as nothing disturbed the router, no sink is given an event after a later one, unless a
\* snapshot covers the later one: drops and the replays of resumed streams never reorder deliveries.
THEOREM ReplaysInOrder == Spec => []ReplaysKeepLogOrder
<1>1. IInv => ReplaysKeepLogOrder
  <2>. SUFFICES ASSUME IInv, Undisturbed, drain.phase = "delivering", ~SignalAborted(drain.delivery),
                       NEW k \in applied[drain.sink]
       PROVE  k <= drain.delivery.id \/ k <= recovered
    BY DEF ReplaysKeepLogOrder, SinksSeeLogOrder
  <2>1. Run /\ Held /\ ~Outdated(drain.delivery) /\ cursor \in Nat /\ drain.sink \in 1 .. Sinks
    BY ItemTypes, DrainTyped, DrainPhases DEF IInv, Held, SignalAborted, Outdated
  <2>2. cursor < drain.delivery.id /\ drain.delivery.id \in Nat
    BY <2>1, HeldFacts DEF Run
  <2>3. k \in 1 .. logged
    BY <2>1 DEF IInv, Past
  <2>4. k <= recovered \/ k <= cursor \/ k = drain.delivery.id
    BY <2>1 DEF Run, RunSinks
  <2>. QED
    BY <2>1, <2>2, <2>3, <2>4
<1>. QED
  BY <1>1, Invariance, PTL
=============================================================================
