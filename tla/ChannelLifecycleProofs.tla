----------------------- MODULE ChannelLifecycleProofs -----------------------
(***************************************************************************)
(* The safety of ChannelLifecycle for any number of sessions, closes,      *)
(* frames and retries.  What carries it is the shape of the stack: while a *)
(* handler that ends the installed session is under way, nothing but       *)
(* notifications stands above it, so no observer can end or replace that   *)
(* session twice; and each loop that is busy has one frame at most.        *)
(***************************************************************************)
EXTENDS ChannelLifecycle, FiniteSetTheorems, SequenceTheorems, TLAPS

SessionType ==
    [loop : Loop, attempt : Attempt, closed : BOOLEAN, failures : 0 .. MaxRetries,
     lease : BOOLEAN, idle : BOOLEAN]

Rests == {"notify", "attempt", "close", "finish", "retry", "invalid", "idle", "flap"}
FrameType == [rest : Rests, session : {0} \union Session, outcome : Attempt]

Leases == {s \in Session : sessions[s].lease}

\* The handlers that end the installed session, and those a busy loop waits for.
Ends == {"close", "finish"}
Loops == {"attempt", "retry", "invalid"}

Frames(st) == {st[i] : i \in 1 .. Len(st)}

\* A handler that ends the session has only notifications above it; a loop has one frame.
Ordered(st) ==
    \A i \in 1 .. Len(st) : \A j \in 1 .. (i - 1) :
        /\ st[i].rest \in Ends => st[j].rest = "notify"
        /\ st[i].rest \in Loops /\ st[j].rest \in Loops => st[j].session # st[i].session

\* What is known of session s whatever handler runs: only the installed one is neither closed nor
\* unused, and has an attempt under way.
SessionGood(s) ==
    /\ sessions[s].loop = "unused" =>
         /\ sessions[s].attempt = "none" /\ ~sessions[s].closed
         /\ ~sessions[s].lease /\ ~sessions[s].idle
    /\ sessions[s].loop # "unused" /\ ~sessions[s].closed => active = s
    /\ sessions[s].loop = "done" => sessions[s].closed
    /\ Live(s) => sessions[s].loop = "attempt" /\ active = s
    /\ sessions[s].lease \/ sessions[s].idle => Live(s)
    /\ sessions[s].lease => sessions[s].attempt # "admitting"

SessionsGood == \A s \in Session : SessionGood(s)

\* Status and the installed session agree, but for an attempt whose end is being announced.
StatusGood ==
    /\ active = 0 => status \in {"idle", "closed"}
    /\ active # 0 =>
         /\ sessions[active].loop # "unused"
         /\ ~sessions[active].closed => status \in {"connecting", "open", "reconnecting"}
         /\ sessions[active].closed => \E f \in Frames(stack) : f.rest \in Ends
         /\ status \in {"connecting", "reconnecting"} /\ sessions[active].attempt = "open" =>
              \E f \in Frames(stack) : f.rest = "flap" /\ f.session = active
    /\ status = "open" =>
         /\ active # 0
         /\ sessions[active].loop = "attempt"
         /\ sessions[active].attempt \notin {"admitting", "connecting"}

\* The handler that frame f stands for still finds what it left.
FrameGood(f) ==
    /\ f.rest # "notify" => f.session \in Session
    /\ f.rest \in Ends => active = f.session /\ sessions[f.session].closed
    /\ f.rest = "close" => status = "closing"
    /\ f.rest = "finish" => status = "closed" /\ sessions[f.session].loop = "done"
    /\ f.rest \in Loops => sessions[f.session].loop = "busy"
    /\ f.rest \in {"idle", "flap"} => sessions[f.session].loop = "attempt"
    /\ f.rest = "flap" => f.outcome = "retryable"

StackGood == Ordered(stack) /\ \A f \in Frames(stack) : FrameGood(f)

LeasesCounted == IsFiniteSet(Leases) /\ leased = Cardinality(Leases)

IInv == TypeOK /\ SessionsGood /\ StatusGood /\ StackGood /\ LeasesCounted /\ ~strays

-----------------------------------------------------------------------------
(* The stack *)

\* What the top of a stack says of what is below it.
LEMMA Popped ==
    ASSUME NEW st \in Seq(FrameType), st # <<>>, Ordered(st)
    PROVE  /\ Head(st) \in FrameType
           /\ Tail(st) \in Seq(FrameType)
           /\ Ordered(Tail(st))
           /\ Frames(st) = {Head(st)} \union Frames(Tail(st))
           /\ Head(st).rest # "notify" => \A f \in Frames(Tail(st)) : f.rest \notin Ends
           /\ Head(st).rest \in Loops =>
                \A f \in Frames(Tail(st)) : f.rest \in Loops => f.session # Head(st).session
  <1>1. /\ Head(st) = st[1] /\ Head(st) \in FrameType /\ Tail(st) \in Seq(FrameType)
        /\ Len(st) \in Nat \ {0} /\ Len(Tail(st)) = Len(st) - 1
        /\ \A i \in 1 .. Len(Tail(st)) : Tail(st)[i] = st[i + 1]
    OBVIOUS
  <1>2. Ordered(Tail(st))
    <2> SUFFICES ASSUME NEW i \in 1 .. Len(Tail(st)), NEW j \in 1 .. (i - 1)
                 PROVE  /\ Tail(st)[i].rest \in Ends => Tail(st)[j].rest = "notify"
                        /\ Tail(st)[i].rest \in Loops /\ Tail(st)[j].rest \in Loops =>
                             Tail(st)[j].session # Tail(st)[i].session
      BY DEF Ordered
    <2>1. /\ i + 1 \in 1 .. Len(st) /\ j + 1 \in 1 .. ((i + 1) - 1)
          /\ Tail(st)[i] = st[i + 1] /\ Tail(st)[j] = st[j + 1]
      BY <1>1
    <2> QED
      BY <2>1 DEF Ordered
  <1>3. \A f \in Frames(Tail(st)) : \E i \in 1 .. Len(st) : 1 \in 1 .. (i - 1) /\ f = st[i]
    <2> SUFFICES ASSUME NEW i \in 1 .. Len(Tail(st))
                 PROVE  i + 1 \in 1 .. Len(st) /\ 1 \in 1 .. ((i + 1) - 1) /\ Tail(st)[i] = st[i + 1]
      BY DEF Frames
    <2> QED
      BY <1>1
  <1>4. Frames(st) = {Head(st)} \union Frames(Tail(st))
    <2>1. ASSUME NEW i \in 1 .. Len(st), i # 1 PROVE st[i] \in Frames(Tail(st))
      <3>1. i - 1 \in 1 .. Len(Tail(st)) /\ st[i] = Tail(st)[i - 1]
        BY <1>1, <2>1
      <3> QED
        BY <3>1 DEF Frames
    <2>2. 1 \in 1 .. Len(st)
      BY <1>1
    <2> QED
      BY <1>1, <1>3, <2>1, <2>2 DEF Frames
  <1>5. Head(st).rest # "notify" => \A f \in Frames(Tail(st)) : f.rest \notin Ends
    BY <1>1, <1>3 DEF Ordered
  <1>6. Head(st).rest \in Loops =>
          \A f \in Frames(Tail(st)) : f.rest \in Loops => f.session # Head(st).session
    BY <1>1, <1>3 DEF Ordered
  <1> QED
    BY <1>1, <1>2, <1>4, <1>5, <1>6

\* Anything but a notification goes on a stack without the handlers it would bury.
LEMMA Pushed ==
    ASSUME NEW st \in Seq(FrameType), NEW f \in FrameType, Ordered(st),
           f.rest # "notify" => \A g \in Frames(st) : g.rest \notin Ends,
           f.rest \in Loops => \A g \in Frames(st) : g.rest \in Loops => g.session # f.session
    PROVE  /\ <<f>> \o st \in Seq(FrameType)
           /\ Ordered(<<f>> \o st)
           /\ Frames(<<f>> \o st) = {f} \union Frames(st)
  <1> DEFINE up == <<f>> \o st
  <1>1. /\ up \in Seq(FrameType) /\ Len(st) \in Nat /\ Len(up) = Len(st) + 1 /\ up[1] = f
        /\ \A i \in 2 .. Len(up) : up[i] = st[i - 1]
    OBVIOUS
  <1>2. ASSUME NEW i \in 1 .. Len(up), i # 1
        PROVE  i \in 2 .. Len(up) /\ i - 1 \in 1 .. Len(st) /\ up[i] = st[i - 1]
               /\ st[i - 1] \in Frames(st)
    <2>1. i \in 2 .. Len(up) /\ i - 1 \in 1 .. Len(st)
      BY <1>1, <1>2
    <2> QED
      BY <1>1, <2>1 DEF Frames
  <1>3. Ordered(up)
    <2> SUFFICES ASSUME NEW i \in 1 .. Len(up), NEW j \in 1 .. (i - 1)
                 PROVE  /\ up[i].rest \in Ends => up[j].rest = "notify"
                        /\ up[i].rest \in Loops /\ up[j].rest \in Loops =>
                             up[j].session # up[i].session
      BY DEF Ordered
    <2>1. i # 1 /\ j \in 1 .. Len(up)
      BY <1>1
    <2>2. i - 1 \in 1 .. Len(st) /\ up[i] = st[i - 1] /\ st[i - 1] \in Frames(st)
      BY <1>2, <2>1
    <2>3. CASE j = 1
      BY <1>1, <2>2, <2>3
    <2>4. CASE j # 1
      <3>1. j - 1 \in 1 .. ((i - 1) - 1) /\ up[j] = st[j - 1]
        BY <1>2, <2>1, <2>4
      <3> QED
        BY <2>2, <3>1 DEF Ordered
    <2> QED
      BY <2>3, <2>4
  <1>4. Frames(up) = {f} \union Frames(st)
    <2>1. ASSUME NEW i \in 1 .. Len(st) PROVE st[i] \in Frames(up)
      <3>1. i + 1 \in 1 .. Len(up) /\ up[i + 1] = st[i]
        BY <1>1
      <3> QED
        BY <3>1 DEF Frames
    <2>2. 1 \in 1 .. Len(up)
      BY <1>1
    <2>3. f \in Frames(up)
      BY <1>1, <2>2 DEF Frames
    <2>4. \A g \in Frames(up) : g = f \/ g \in Frames(st)
      BY <1>1, <1>2 DEF Frames
    <2> QED
      BY <2>1, <2>3, <2>4 DEF Frames
  <1> QED
    BY <1>1, <1>3, <1>4

\* A notification buries nothing.
LEMMA Notified ==
    ASSUME NEW st \in Seq(FrameType), Ordered(st)
    PROVE  /\ <<Notification>> \o st \in Seq(FrameType)
           /\ Ordered(<<Notification>> \o st)
           /\ Frames(<<Notification>> \o st) = {Notification} \union Frames(st)
  <1>1. Notification \in FrameType /\ Notification.rest = "notify"
    BY DEF Notification, Frame, FrameType, Rests, Attempt
  <1> QED
    BY <1>1, Pushed DEF Loops

\* A handler's rest stands below the notifications it gives out.
LEMMA Announced ==
    ASSUME NEW st \in Seq(FrameType), NEW f \in FrameType, Ordered(st), f.rest # "notify",
           \A g \in Frames(st) : g.rest \notin Ends,
           f.rest \in Loops => \A g \in Frames(st) : g.rest \in Loops => g.session # f.session,
           NEW rest \in {<<f>>, <<>> \o <<f>>, <<Notification>> \o <<f>>}, NEW next,
           SetStatus(next, rest, st)
    PROVE  /\ status' = next
           /\ stack' \in Seq(FrameType)
           /\ Ordered(stack')
           /\ {f} \union Frames(st) \subseteq Frames(stack')
           /\ Frames(stack') \subseteq {Notification, f} \union Frames(st)
  <1> DEFINE up == <<f>> \o st
  <1>1. up \in Seq(FrameType) /\ Ordered(up) /\ Frames(up) = {f} \union Frames(st)
    BY Pushed
  <1> DEFINE one == <<Notification>> \o up
             two == <<Notification>> \o one
  <1>2. one \in Seq(FrameType) /\ Ordered(one) /\ Frames(one) = {Notification} \union Frames(up)
    <2> HIDE DEF up
    <2> QED
      BY <1>1, Notified
  <1>3. two \in Seq(FrameType) /\ Ordered(two) /\ Frames(two) = {Notification} \union Frames(one)
    <2> HIDE DEF one
    <2> QED
      BY <1>2, Notified
  <1>4. /\ <<f>> \in Seq(FrameType) /\ <<Notification>> \in Seq(FrameType)
        /\ <<>> \in Seq(FrameType)
    BY DEF Notification, Frame, FrameType, Rests, Attempt
  <1>5. stack' \in {up, one, two}
    <2>1. /\ (<<>> \o <<f>>) = <<f>>
          /\ \A s \in Seq(FrameType) : <<>> \o s = s
      BY <1>4
    <2>2. \/ stack' = (<<>> \o rest) \o st
          \/ stack' = (<<Notification>> \o rest) \o st
      BY DEF SetStatus
    <2>3. CASE rest = <<f>>
      <3>1. (<<Notification>> \o <<f>>) \o st = one
        BY <1>4, ConcatAssociative
      <3> QED
        BY <2>1, <2>2, <2>3, <3>1, <1>4
    <2>4. CASE rest = <<Notification>> \o <<f>>
      <3>1. (<<Notification>> \o <<f>>) \o st = one
        BY <1>4, ConcatAssociative
      <3>2. rest \in Seq(FrameType) /\ <<>> \o rest = rest
        BY <1>4, <2>4
      <3>3. (<<Notification>> \o rest) \o st = <<Notification>> \o (rest \o st)
        BY <1>4, <3>2, ConcatAssociative
      <3> QED
        BY <2>2, <2>4, <3>1, <3>2, <3>3
    <2> QED
      BY <2>1, <2>3, <2>4
  <1>6. status' = next
    BY DEF SetStatus
  <1> HIDE DEF up, one, two
  <1> QED
    BY <1>1, <1>2, <1>3, <1>5, <1>6

-----------------------------------------------------------------------------
(* The sessions *)

\* One session's record is replaced.
LEMMA Updated ==
    ASSUME sessions \in [Session -> SessionType], NEW s \in Session, NEW r \in SessionType,
           sessions' = [sessions EXCEPT ![s] = r]
    PROVE  /\ sessions' \in [Session -> SessionType]
           /\ sessions'[s] = r
           /\ \A t \in Session : t # s => sessions'[t] = sessions[t]
  OBVIOUS

\* The leases held are those of before when no session's lease changes.
LEMMA LeasesKept ==
    ASSUME LeasesCounted, leased' = leased,
           \A t \in Session : sessions'[t].lease = sessions[t].lease
    PROVE  LeasesCounted'
  <1>1. Leases' = Leases
    BY DEF Leases
  <1> QED
    BY <1>1 DEF LeasesCounted

\* What the invariant says of the types.
LEMMA Typed ==
    ASSUME TypeOK
    PROVE  /\ sessions \in [Session -> SessionType]
           /\ stack \in Seq(FrameType)
           /\ \A s \in Session :
                /\ sessions[s] \in SessionType
                /\ sessions[s].loop \in Loop /\ sessions[s].attempt \in Attempt
                /\ sessions[s].closed \in BOOLEAN /\ sessions[s].failures \in 0 .. MaxRetries
                /\ sessions[s].lease \in BOOLEAN /\ sessions[s].idle \in BOOLEAN
  BY DEF TypeOK, SessionType, FrameType, Rests

\* Settling an attempt returns its lease and disarms its timer, and nothing else of it changes.
LEMMA Settling ==
    ASSUME IInv, NEW s \in Session, NEW outcome \in {"resolved", "retryable", "fatal"},
           Settle(s, outcome)
    PROVE  /\ sessions' \in [Session -> SessionType]
           /\ \A t \in Session : t # s => sessions'[t] = sessions[t]
           /\ sessions'[s].loop = sessions[s].loop /\ sessions'[s].closed = sessions[s].closed
           /\ sessions'[s].attempt = IF Live(s) THEN outcome ELSE sessions[s].attempt
           /\ sessions'[s].attempt \notin Unsettled
           /\ ~sessions'[s].lease /\ ~sessions'[s].idle
           /\ leased' \in Nat /\ late' \in Nat
           /\ LeasesCounted'
  <1> DEFINE old == sessions[s]
             r == Settled(old, outcome)
  <1>1. TypeOK /\ SessionGood(s) /\ LeasesCounted
    BY DEF IInv, SessionsGood
  <1>2. /\ old \in SessionType /\ sessions \in [Session -> SessionType]
        /\ old.attempt \in Attempt /\ old.lease \in BOOLEAN /\ old.idle \in BOOLEAN
    BY <1>1, Typed
  <1>5. /\ r \in SessionType /\ r.loop = old.loop /\ r.closed = old.closed
        /\ r.attempt = (IF Live(s) THEN outcome ELSE old.attempt)
        /\ r.attempt \notin Unsettled /\ ~r.lease /\ ~r.idle
    <2>1. CASE Live(s)
      <3>1. r = [old EXCEPT !.attempt = outcome, !.lease = FALSE, !.idle = FALSE]
        BY <2>1 DEF Settled, Live
      <3> QED
        BY <1>2, <2>1, <3>1 DEF SessionType, Attempt, Unsettled
    <2>2. CASE ~Live(s)
      <3>1. r = old /\ old.attempt \notin Unsettled
        BY <2>2 DEF Settled, Live
      <3> QED
        BY <1>1, <1>2, <2>2, <3>1 DEF SessionGood
    <2> QED
      BY <2>1, <2>2
  <1>6. sessions' = [sessions EXCEPT ![s] = r]
    BY <1>2 DEF Settle
  <1> HIDE DEF r
  <1>7. /\ sessions' \in [Session -> SessionType] /\ sessions'[s] = r
        /\ \A t \in Session : t # s => sessions'[t] = sessions[t]
    BY <1>2, <1>5, <1>6, Updated
  <1>8. leased' = (IF old.lease THEN leased - 1 ELSE leased)
    BY DEF Settle
  <1>9. LeasesCounted' /\ leased' \in Nat
    <2>1. IsFiniteSet(Leases) /\ leased = Cardinality(Leases) /\ leased \in Nat
      BY <1>1 DEF LeasesCounted, TypeOK
    <2>2. Leases' = Leases \ {s}
      BY <1>5, <1>7 DEF Leases
    <2>3. /\ IsFiniteSet(Leases \ {s})
          /\ Cardinality(Leases \ {s}) = IF s \in Leases THEN leased - 1 ELSE leased
          /\ Cardinality(Leases \ {s}) \in Nat
      BY <2>1, FS_RemoveElement, FS_CardinalityType
    <2>4. s \in Leases <=> old.lease
      BY DEF Leases
    <2> QED
      BY <1>8, <2>1, <2>2, <2>3, <2>4 DEF LeasesCounted
  <1>10. late' \in Nat
    BY <1>1 DEF TypeOK, Settle
  <1> QED
    BY <1>5, <1>7, <1>9, <1>10

-----------------------------------------------------------------------------
(* connect() and close() *)

\* A notification promises nothing.
LEMMA NotificationGood == FrameGood(Notification) /\ FrameGood(Notification)'
  <1>1. Notification.rest = "notify"
    BY DEF Notification, Frame
  <1> QED
    BY <1>1 DEF FrameGood, Ends, Loops

\* No handler that ends a session is under way while the installed one, if any, is open.
LEMMA NothingEnds ==
    ASSUME StackGood, active = 0 \/ ~sessions[active].closed
    PROVE  \A f \in Frames(stack) : f.rest \notin Ends
  <1> SUFFICES ASSUME NEW f \in Frames(stack), f.rest \in Ends PROVE FALSE
    OBVIOUS
  <1>1. f.session \in Session /\ active = f.session /\ sessions[f.session].closed
    BY DEF StackGood, FrameGood, Ends, Loops
  <1> QED
    BY <1>1 DEF Session

LEMMA StepConnect == IInv /\ Connect => IInv'
  <1> SUFFICES ASSUME IInv, Connect PROVE IInv'
    OBVIOUS
  <1> USE DEF IInv
  <1>1. PICK s \in Session :
          /\ sessions[s].loop = "unused"
          /\ sessions' = [sessions EXCEPT ![s].loop = "busy"]
          /\ active' = s
          /\ Announce(s, TRUE, stack)
    BY DEF Connect
  <1> DEFINE r == [sessions[s] EXCEPT !.loop = "busy"]
             f == Frame("attempt", s, "none")
  <1>2. /\ sessions \in [Session -> SessionType] /\ stack \in Seq(FrameType)
        /\ sessions[s] \in SessionType /\ sessions[s].closed \in BOOLEAN
        /\ sessions[s].lease \in BOOLEAN /\ sessions[s].idle \in BOOLEAN
    BY Typed
  <1>3. sessions[s].attempt = "none" /\ ~sessions[s].closed /\ ~sessions[s].lease /\ ~sessions[s].idle
    BY <1>1 DEF SessionsGood, SessionGood
  <1>4. /\ r \in SessionType /\ r.loop = "busy" /\ r.attempt = "none" /\ ~r.closed
        /\ ~r.lease /\ ~r.idle
    BY <1>2, <1>3 DEF SessionType, Loop
  <1>5. /\ sessions' \in [Session -> SessionType] /\ sessions'[s] = r
        /\ \A t \in Session : t # s => sessions'[t] = sessions[t]
    BY <1>1, <1>2, <1>4, Updated
  <1> HIDE DEF r
  <1>6. active = 0 /\ s # 0
    BY DEF Connect, CanConnect, Session
  <1>7. \A g \in Frames(stack) : g.rest \notin Ends
    BY <1>6, NothingEnds
  <1>8. \A g \in Frames(stack) : g.rest \in Loops \union {"idle", "flap"} => g.session # s
    BY <1>1 DEF StackGood, FrameGood
  <1>9. f \in FrameType /\ f.rest = "attempt" /\ f.session = s /\ SetStatus("connecting", <<f>>, stack)
    BY <1>1 DEF Announce, Frame, FrameType, Rests, Attempt
  <1>10. /\ status' = "connecting" /\ stack' \in Seq(FrameType) /\ Ordered(stack')
         /\ Frames(stack') \subseteq {Notification, f} \union Frames(stack)
    <2> HIDE DEF f
    <2>1. Ordered(stack)
      BY DEF StackGood
    <2>2. \A g \in Frames(stack) : g.rest \in Loops => g.session # f.session
      BY <1>8, <1>9
    <2>3. f.rest # "notify"
      BY <1>9
    <2> QED
      BY <1>2, <1>7, <1>9, <2>1, <2>2, <2>3, Announced
  <1>11. TypeOK'
    BY <1>1, <1>5, <1>10 DEF TypeOK, Connect, SessionType, FrameType, Rests
  <1>12. SessionsGood'
    <2> SUFFICES ASSUME NEW t \in Session PROVE SessionGood(t)'
      BY DEF SessionsGood
    <2>1. CASE t = s
      BY <1>1, <1>4, <1>5, <2>1 DEF SessionGood, Live, Unsettled
    <2>2. CASE t # s
      <3>1. SessionGood(t) /\ active # t
        BY <1>6 DEF SessionsGood, Session
      <3>2. sessions'[t] = sessions[t]
        BY <1>5, <2>2
      <3> QED
        BY <3>1, <3>2 DEF SessionGood, Live
    <2> QED
      BY <2>1, <2>2
  <1>13. StatusGood'
    BY <1>1, <1>4, <1>5, <1>6, <1>10 DEF StatusGood
  <1>14. StackGood'
    <2>1. FrameGood(f)'
      BY <1>4, <1>5, <1>9 DEF FrameGood, Ends, Loops
    <2>2. FrameGood(Notification)'
      BY NotificationGood
    <2>3. \A g \in Frames(stack) : FrameGood(g)'
      BY <1>5, <1>7, <1>8, <1>10 DEF StackGood, FrameGood, Ends, Loops
    <2> QED
      BY <1>10, <2>1, <2>2, <2>3 DEF StackGood
  <1>15. LeasesCounted' /\ ~strays'
    BY <1>3, <1>4, <1>5, LeasesKept DEF Connect
  <1> QED
    BY <1>11, <1>12, <1>13, <1>14, <1>15

LEMMA StepClose == IInv /\ Close => IInv'
  <1> SUFFICES ASSUME IInv, Close PROVE IInv'
    OBVIOUS
  <1> USE DEF IInv
  <1>0. PICK s \in Session : s = active
    BY DEF Close, TypeOK
  <1> DEFINE r == [sessions[s] EXCEPT !.closed = TRUE]
             f == Frame("close", s, "none")
  <1>1. /\ s = active /\ ~sessions[s].closed /\ active' = s
        /\ sessions' = [sessions EXCEPT ![s].closed = TRUE]
        /\ SetStatus("closing", <<f>>, stack)
    BY <1>0 DEF Close
  <1>2. /\ sessions \in [Session -> SessionType] /\ stack \in Seq(FrameType)
        /\ sessions[s] \in SessionType
    BY <1>1, Typed
  <1>3. /\ r \in SessionType /\ r.closed /\ r.loop = sessions[s].loop
        /\ r.attempt = sessions[s].attempt /\ r.lease = sessions[s].lease
        /\ r.idle = sessions[s].idle
    BY <1>2 DEF SessionType
  <1>4. /\ sessions' \in [Session -> SessionType] /\ sessions'[s] = r
        /\ \A t \in Session : t # s => sessions'[t] = sessions[t]
    BY <1>1, <1>2, <1>3, Updated
  <1>5. sessions[s].loop # "unused" /\ s # 0
    BY <1>1 DEF StatusGood, Session
  <1>6. \A g \in Frames(stack) : g.rest \notin Ends
    BY <1>1, NothingEnds
  <1>7. f \in FrameType /\ f.rest = "close" /\ f.session = s
    BY <1>1 DEF Frame, FrameType, Rests, Attempt
  <1> HIDE DEF r
  <1>8. /\ status' = "closing" /\ stack' \in Seq(FrameType) /\ Ordered(stack')
        /\ {f} \union Frames(stack) \subseteq Frames(stack')
        /\ Frames(stack') \subseteq {Notification, f} \union Frames(stack)
    <2> HIDE DEF f
    <2>1. Ordered(stack)
      BY DEF StackGood
    <2>2. f.rest # "notify" /\ f.rest \notin Loops
      BY <1>7 DEF Loops
    <2> QED
      BY <1>1, <1>2, <1>6, <1>7, <2>1, <2>2, Announced
  <1>9. TypeOK'
    BY <1>1, <1>4, <1>8, LifecycleAssumption DEF TypeOK, Close, SessionType, FrameType, Rests
  <1>10. SessionsGood'
    BY <1>1, <1>3, <1>4, <1>5 DEF SessionsGood, SessionGood, Live
  <1>11. StatusGood'
    BY <1>1, <1>3, <1>4, <1>5, <1>7, <1>8 DEF StatusGood, Ends
  <1>12. StackGood'
    <2>1. FrameGood(f)'
      BY <1>1, <1>3, <1>4, <1>7, <1>8 DEF FrameGood, Ends, Loops
    <2>2. FrameGood(Notification)'
      BY NotificationGood
    <2>3. \A g \in Frames(stack) : FrameGood(g)'
      BY <1>1, <1>3, <1>4, <1>6, <1>8 DEF StackGood, FrameGood, Ends, Loops
    <2> QED
      BY <1>8, <2>1, <2>2, <2>3 DEF StackGood
  <1>13. LeasesCounted' /\ ~strays'
    BY <1>3, <1>4, LeasesKept DEF Close
  <1> QED
    BY <1>9, <1>10, <1>11, <1>12, <1>13

-----------------------------------------------------------------------------
(* The rest of a handler *)

\* The handler that resumes, and those it leaves on the stack.
LEMMA Resumed ==
    ASSUME IInv, NEW rest, Resting(rest)
    PROVE  /\ Head(stack) \in Frames(stack) /\ FrameGood(Head(stack)) /\ Head(stack).rest = rest
           /\ Head(stack) \in FrameType
           /\ Tail(stack) \in Seq(FrameType) /\ Ordered(Tail(stack))
           /\ Frames(stack) = {Head(stack)} \union Frames(Tail(stack))
           /\ \A f \in Frames(Tail(stack)) : FrameGood(f)
           /\ rest # "notify" => \A f \in Frames(Tail(stack)) : f.rest \notin Ends
           /\ rest \in Loops =>
                \A f \in Frames(Tail(stack)) : f.rest \in Loops => f.session # Head(stack).session
  <1>1. stack \in Seq(FrameType) /\ stack # <<>> /\ Ordered(stack) /\ Head(stack).rest = rest
    BY Typed DEF IInv, StackGood, Resting
  <1>2. \A f \in Frames(stack) : FrameGood(f)
    BY DEF IInv, StackGood
  <1> QED
    BY <1>1, <1>2, Popped

\* While another handler resumes, the installed session is open.
LEMMA InstalledIsOpen ==
    ASSUME IInv, \A f \in Frames(stack) : f.rest \notin Ends
    PROVE  active # 0 => ~sessions[active].closed
  BY DEF IInv, StatusGood

LEMMA StepObserverReturns == IInv /\ ObserverReturns => IInv'
  <1> SUFFICES ASSUME IInv, ObserverReturns PROVE IInv'
    OBVIOUS
  <1>1. /\ Resting("notify") /\ stack' = Tail(stack)
        /\ UNCHANGED <<sessions, active, status, started, failed, leased, late, closes, stable,
                       frames, strays>>
    BY DEF ObserverReturns
  <1>2. /\ Tail(stack) \in Seq(FrameType) /\ Ordered(Tail(stack))
        /\ Head(stack).rest = "notify"
        /\ Frames(stack) = {Head(stack)} \union Frames(Tail(stack))
        /\ \A f \in Frames(Tail(stack)) : FrameGood(f)
    BY <1>1, Resumed
  <1>3. TypeOK'
    BY <1>1, <1>2 DEF IInv, TypeOK, FrameType, Rests
  <1>4. SessionsGood' /\ LeasesCounted' /\ ~strays'
    BY <1>1 DEF IInv, SessionsGood, SessionGood, Live, LeasesCounted, Leases
  <1>5. StatusGood'
    <2>1. StatusGood
      BY DEF IInv
    <2> QED
      BY <1>1, <1>2, <2>1 DEF StatusGood, Ends
  <1>6. StackGood'
    BY <1>1, <1>2 DEF StackGood, FrameGood
  <1> QED
    BY <1>3, <1>4, <1>5, <1>6 DEF IInv

LEMMA StepCloseRest == IInv /\ CloseRest => IInv'
  <1> SUFFICES ASSUME IInv, CloseRest PROVE IInv'
    OBVIOUS
  <1>1. PICK s \in Session : s = Head(stack).session /\ s = active /\ sessions[s].closed
    <2>1. FrameGood(Head(stack)) /\ Head(stack).rest = "close"
      BY Resumed DEF CloseRest
    <2> QED
      BY <2>1 DEF FrameGood, Ends
  <1>2. /\ Tail(stack) \in Seq(FrameType) /\ Ordered(Tail(stack))
        /\ \A f \in Frames(Tail(stack)) : FrameGood(f) /\ f.rest \notin Ends
    BY Resumed DEF CloseRest
  <1>3. /\ Settle(s, "fatal") /\ active' = 0 /\ SetStatus("closed", <<>>, Tail(stack))
        /\ UNCHANGED <<started, failed, closes, stable, frames, strays>>
    BY <1>1 DEF CloseRest
  <1>4. /\ sessions' \in [Session -> SessionType]
        /\ \A t \in Session : t # s => sessions'[t] = sessions[t]
        /\ sessions'[s].loop = sessions[s].loop /\ sessions'[s].closed = sessions[s].closed
        /\ sessions'[s].attempt \notin Unsettled /\ ~sessions'[s].lease /\ ~sessions'[s].idle
        /\ leased' \in Nat /\ late' \in Nat /\ LeasesCounted'
    BY <1>3, Settling
  <1>5. /\ status' = "closed" /\ stack' \in Seq(FrameType) /\ Ordered(stack')
        /\ Frames(stack') \subseteq {Notification} \union Frames(Tail(stack))
    <2> DEFINE below == Tail(stack)
    <2>1. stack' = below \/ stack' = <<Notification>> \o below
      <3>1. <<>> \o below = below /\ <<Notification>> \o <<>> = <<Notification>>
            /\ <<>> \o <<>> = <<>>
        BY <1>2
      <3>2. stack' = (<<>> \o <<>>) \o below \/ stack' = (<<Notification>> \o <<>>) \o below
        BY <1>3 DEF SetStatus
      <3> QED
        BY <3>1, <3>2
    <2>2. status' = "closed"
      BY <1>3 DEF SetStatus
    <2> HIDE DEF below
    <2>3. below \in Seq(FrameType) /\ Ordered(below)
      BY <1>2 DEF below
    <2>4. /\ <<Notification>> \o below \in Seq(FrameType)
          /\ Ordered(<<Notification>> \o below)
          /\ Frames(<<Notification>> \o below) = {Notification} \union Frames(below)
      BY <2>3, Notified
    <2> QED
      BY <2>1, <2>2, <2>3, <2>4 DEF below
  <1>6. SessionsGood /\ TypeOK
    BY DEF IInv
  <1>7. TypeOK'
    BY <1>3, <1>4, <1>5, <1>6 DEF TypeOK, SessionType, FrameType, Rests
  <1>8. SessionsGood'
    <2> SUFFICES ASSUME NEW t \in Session PROVE SessionGood(t)'
      BY DEF SessionsGood
    <2>1. CASE t = s
      <3>1. sessions[s].loop # "unused"
        BY <1>1, <1>6 DEF SessionsGood, SessionGood
      <3> QED
        BY <1>1, <1>4, <2>1, <3>1 DEF SessionGood, Live
    <2>2. CASE t # s
      <3>1. SessionGood(t) /\ sessions'[t] = sessions[t] /\ active # t
        BY <1>1, <1>4, <1>6, <2>2 DEF SessionsGood
      <3> QED
        BY <3>1 DEF SessionGood, Live
    <2> QED
      BY <2>1, <2>2
  <1>9. StatusGood'
    BY <1>3, <1>5 DEF StatusGood
  <1>10. StackGood'
    <2>1. \A f \in Frames(Tail(stack)) : FrameGood(f)'
      <3> SUFFICES ASSUME NEW f \in Frames(Tail(stack)) PROVE FrameGood(f)'
        OBVIOUS
      <3>1. FrameGood(f) /\ f.rest \notin Ends
        BY <1>2
      <3>2. f.session \in Session => sessions'[f.session].loop = sessions[f.session].loop
        BY <1>4
      <3> QED
        BY <3>1, <3>2 DEF FrameGood, Ends, Loops
    <2> QED
      BY <1>5, <2>1, NotificationGood DEF StackGood
  <1>11. ~strays'
    BY <1>3 DEF IInv
  <1> QED
    BY <1>4, <1>7, <1>8, <1>9, <1>10, <1>11 DEF IInv

LEMMA StepFinishRest == IInv /\ FinishRest => IInv'
  <1> SUFFICES ASSUME IInv, FinishRest PROVE IInv'
    OBVIOUS
  <1>1. PICK s \in Session : s = active /\ sessions[s].closed /\ status = "closed"
                             /\ sessions[s].loop = "done"
    <2>1. FrameGood(Head(stack)) /\ Head(stack).rest = "finish"
      BY Resumed DEF FinishRest
    <2> QED
      BY <2>1 DEF FrameGood, Ends
  <1>2. /\ Tail(stack) \in Seq(FrameType) /\ Ordered(Tail(stack))
        /\ \A f \in Frames(Tail(stack)) : FrameGood(f) /\ f.rest \notin Ends
    BY Resumed DEF FinishRest
  <1>3. /\ active' = 0 /\ stack' = Tail(stack)
        /\ UNCHANGED <<sessions, status, started, failed, leased, late, closes, stable, frames,
                       strays>>
    BY DEF FinishRest
  <1>4. SessionsGood /\ TypeOK /\ LeasesCounted /\ ~strays
    BY DEF IInv
  <1>5. TypeOK'
    BY <1>2, <1>3, <1>4 DEF TypeOK, FrameType, Rests
  <1>6. SessionsGood'
    <2> SUFFICES ASSUME NEW t \in Session PROVE SessionGood(t)'
      BY DEF SessionsGood
    <2>1. SessionGood(t) /\ (t = s \/ active # t)
      BY <1>1, <1>4 DEF SessionsGood
    <2> QED
      BY <1>1, <1>3, <2>1 DEF SessionGood, Live
  <1>7. StatusGood'
    BY <1>1, <1>3 DEF StatusGood
  <1>8. StackGood'
    BY <1>2, <1>3 DEF StackGood, FrameGood, Ends
  <1>9. LeasesCounted' /\ ~strays'
    BY <1>3, <1>4, LeasesKept
  <1> QED
    BY <1>5, <1>6, <1>7, <1>8, <1>9 DEF IInv

\* A loop, or the arming of an idle timer, goes on in its own session alone.
LEMMA Resuming ==
    ASSUME IInv, NEW rest \in {"attempt", "retry", "idle"}, Resting(rest),
           NEW s \in Session, s = Head(stack).session,
           NEW r \in SessionType, sessions' = [sessions EXCEPT ![s] = r],
           stack' = Tail(stack), started' \in BOOLEAN,
           UNCHANGED <<active, status, failed, leased, late, closes, stable, frames, strays>>,
           r.closed = sessions[s].closed, r.lease = sessions[s].lease,
           r.loop \notin {"unused", "done"},
           rest = "idle" => r.loop = sessions[s].loop /\ r.attempt = sessions[s].attempt,
           rest # "idle" => r.attempt # "open",
           r.attempt \in Unsettled => r.loop = "attempt" /\ ~r.closed,
           r.lease \/ r.idle => r.attempt \in Unsettled,
           r.lease => r.attempt # "admitting"
    PROVE  IInv'
  <1> DEFINE below == Tail(stack)
  <1>1. /\ below \in Seq(FrameType) /\ Ordered(below)
        /\ Frames(stack) = {Head(stack)} \union Frames(below)
        /\ Head(stack).rest = rest /\ FrameGood(Head(stack))
        /\ \A f \in Frames(below) : FrameGood(f) /\ f.rest \notin Ends
        /\ rest \in Loops => \A f \in Frames(below) : f.rest \in Loops => f.session # s
    BY Resumed
  <1>2. sessions \in [Session -> SessionType]
    BY Typed DEF IInv
  <1>3. /\ sessions' \in [Session -> SessionType] /\ sessions'[s] = r
        /\ \A t \in Session : t # s => sessions'[t] = sessions[t]
    BY <1>2, Updated
  <1>4. /\ rest = "idle" => sessions[s].loop = "attempt"
        /\ rest # "idle" => sessions[s].loop = "busy"
    BY <1>1 DEF FrameGood, Loops
  <1>5. active # 0 => ~sessions[active].closed
    <2>1. rest \notin Ends
      BY DEF Ends
    <2> QED
      BY <1>1, <2>1, InstalledIsOpen
  <1>6. TypeOK'
    BY <1>1, <1>3 DEF IInv, TypeOK, SessionType, FrameType, Rests
  <1>7. SessionsGood'
    <2> SUFFICES ASSUME NEW t \in Session PROVE SessionGood(t)'
      BY DEF SessionsGood
    <2>1. SessionGood(t) /\ active' = active
      BY DEF IInv, SessionsGood
    <2>2. CASE t = s
      <3>1. ~sessions[s].closed => active = s
        BY <1>4, <2>1, <2>2 DEF SessionGood
      <3> QED
        BY <1>3, <2>1, <2>2, <3>1 DEF SessionGood, Live
    <2>3. CASE t # s
      <3>1. sessions'[t] = sessions[t]
        BY <1>3, <2>3
      <3> QED
        BY <2>1, <3>1 DEF SessionGood, Live
    <2> QED
      BY <2>2, <2>3
  <1>8. StatusGood'
    <2>1. StatusGood /\ active' = active /\ status' = status /\ stack' = below
      BY DEF IInv
    <2>2. \A f \in Frames(stack) : f.rest = "flap" => f \in Frames(below)
      BY <1>1
    <2>3. CASE active = s
      <3>1. s # 0 /\ ~sessions[s].closed
        BY <1>5, <2>3 DEF Session
      <3>2. CASE rest = "idle"
        <4>1. /\ sessions'[s].loop = sessions[s].loop /\ sessions'[s].attempt = sessions[s].attempt
              /\ sessions'[s].closed = sessions[s].closed
          BY <1>3, <3>2
        <4> QED
          BY <2>1, <2>2, <2>3, <3>1, <4>1 DEF StatusGood
      <3>3. CASE rest # "idle"
        <4>1. status # "open"
          BY <1>4, <2>1, <2>3, <3>3 DEF StatusGood
        <4>2. sessions'[s].attempt # "open" /\ ~sessions'[s].closed /\ sessions'[s].loop # "unused"
          BY <1>3, <3>1, <3>3
        <4> QED
          BY <2>1, <2>3, <3>1, <4>1, <4>2 DEF StatusGood
      <3> QED
        BY <3>2, <3>3
    <2>4. CASE active # s
      <3>1. active # 0 => sessions'[active] = sessions[active]
        <4>1. active \in {0} \union Session
          BY DEF IInv, TypeOK
        <4> QED
          BY <1>3, <2>4, <4>1
      <3> QED
        BY <1>5, <2>1, <2>2, <3>1 DEF StatusGood
    <2> QED
      BY <2>3, <2>4
  <1>9. StackGood'
    <2> SUFFICES ASSUME NEW f \in Frames(below) PROVE FrameGood(f)'
      BY <1>1 DEF StackGood
    <2>1. FrameGood(f) /\ f.rest \notin Ends /\ active' = active /\ status' = status
      BY <1>1
    <2>2. CASE rest = "idle"
      <3>1. f.session \in Session => sessions'[f.session].loop = sessions[f.session].loop
        BY <1>3, <2>2
      <3> QED
        BY <2>1, <3>1 DEF FrameGood, Ends, Loops
    <2>3. CASE rest # "idle"
      <3>1. f.rest \in Loops \union {"idle", "flap"} => f.session \in Session /\ f.session # s
        BY <1>1, <1>4, <2>1, <2>3 DEF FrameGood, Loops
      <3>2. f.session \in Session /\ f.session # s =>
              sessions'[f.session].loop = sessions[f.session].loop
        BY <1>3
      <3> QED
        BY <2>1, <3>1, <3>2 DEF FrameGood, Ends, Loops
    <2> QED
      BY <2>2, <2>3
  <1>10. LeasesCounted' /\ ~strays'
    <2>1. LeasesCounted /\ ~strays
      BY DEF IInv
    <2>2. \A t \in Session : sessions'[t].lease = sessions[t].lease
      BY <1>3
    <2> QED
      BY <2>1, <2>2, LeasesKept
  <1> QED
    BY <1>6, <1>7, <1>8, <1>9, <1>10 DEF IInv

\* A busy loop has no attempt under way.
LEMMA BusyIsIdle ==
    ASSUME IInv, NEW s \in Session, sessions[s].loop \notin {"unused", "attempt"}
    PROVE  /\ sessions[s].attempt \notin Unsettled
           /\ ~sessions[s].lease /\ ~sessions[s].idle
           /\ ~sessions[s].closed => active = s
  BY DEF IInv, SessionsGood, SessionGood, Live

LEMMA StepAttemptRest == IInv /\ AttemptRest => IInv'
  <1> SUFFICES ASSUME IInv, AttemptRest PROVE IInv'
    OBVIOUS
  <1>1. Resting("attempt")
    BY DEF AttemptRest
  <1>2. PICK s \in Session : s = Head(stack).session /\ sessions[s].loop = "busy"
    <2>1. FrameGood(Head(stack)) /\ Head(stack).rest = "attempt"
      BY <1>1, Resumed
    <2> QED
      BY <2>1 DEF FrameGood, Loops
  <1>3. /\ sessions \in [Session -> SessionType] /\ sessions[s] \in SessionType
        /\ sessions[s].closed \in BOOLEAN
    BY Typed DEF IInv
  <1> DEFINE r == [sessions[s] EXCEPT !.loop = "attempt", !.attempt = Admission(sessions[s])]
  <1>4. ~sessions[s].lease /\ ~sessions[s].idle
    BY <1>2, BusyIsIdle
  <1>5. /\ Admission(sessions[s]) \in Attempt \ {"open"}
        /\ Admission(sessions[s]) \in Unsettled => ~sessions[s].closed
    BY DEF Admission, Attempt, Unsettled
  <1>6. /\ r \in SessionType /\ r.loop = "attempt" /\ r.attempt = Admission(sessions[s])
        /\ r.closed = sessions[s].closed /\ r.lease = sessions[s].lease
        /\ r.idle = sessions[s].idle
    BY <1>3, <1>5 DEF SessionType, Loop
  <1>7. /\ sessions' = [sessions EXCEPT ![s] = r] /\ stack' = Tail(stack) /\ started' \in BOOLEAN
        /\ UNCHANGED <<active, status, failed, leased, late, closes, stable, frames, strays>>
    BY <1>2, <1>3 DEF AttemptRest
  <1> HIDE DEF r
  <1> QED
    BY <1>1, <1>2, <1>4, <1>5, <1>6, <1>7, Resuming

LEMMA StepRetryRest == IInv /\ RetryRest => IInv'
  <1> SUFFICES ASSUME IInv, RetryRest PROVE IInv'
    OBVIOUS
  <1>1. Resting("retry")
    BY DEF RetryRest
  <1>2. PICK s \in Session : s = Head(stack).session /\ sessions[s].loop = "busy"
    <2>1. FrameGood(Head(stack)) /\ Head(stack).rest = "retry"
      BY <1>1, Resumed
    <2> QED
      BY <2>1 DEF FrameGood, Loops
  <1>3. sessions \in [Session -> SessionType] /\ sessions[s] \in SessionType
    BY Typed DEF IInv
  <1> DEFINE loop == IF Protected THEN "check" ELSE "backoff"
             r == [sessions[s] EXCEPT !.loop = loop]
  <1>4. sessions[s].attempt \notin Unsettled /\ ~sessions[s].lease /\ ~sessions[s].idle
    BY <1>2, BusyIsIdle
  <1>5. loop \in {"check", "backoff"}
    OBVIOUS
  <1>6. /\ sessions' = [sessions EXCEPT ![s] = r] /\ stack' = Tail(stack)
        /\ UNCHANGED <<active, status, failed, leased, late, closes, stable, frames, strays>>
        /\ started' \in BOOLEAN
    BY <1>2, <1>3 DEF RetryRest, IInv, TypeOK
  <1> HIDE DEF loop
  <1>7. /\ r \in SessionType /\ r.loop = loop /\ r.attempt = sessions[s].attempt
        /\ r.closed = sessions[s].closed /\ r.lease = sessions[s].lease
        /\ r.idle = sessions[s].idle
    BY <1>3, <1>5 DEF SessionType, Loop
  <1> HIDE DEF r
  <1>8. r.attempt \notin Unsettled /\ r.attempt # "open" /\ ~r.lease /\ ~r.idle
    BY <1>4, <1>7 DEF Unsettled
  <1> QED
    BY <1>1, <1>2, <1>5, <1>6, <1>7, <1>8, Resuming

LEMMA StepIdleRest == IInv /\ IdleRest => IInv'
  <1> SUFFICES ASSUME IInv, IdleRest PROVE IInv'
    OBVIOUS
  <1>1. Resting("idle")
    BY DEF IdleRest
  <1>2. PICK s \in Session : s = Head(stack).session /\ sessions[s].loop = "attempt"
    <2>1. FrameGood(Head(stack)) /\ Head(stack).rest = "idle"
      BY <1>1, Resumed
    <2> QED
      BY <2>1 DEF FrameGood
  <1>3. /\ sessions \in [Session -> SessionType] /\ sessions[s] \in SessionType
        /\ sessions[s].idle \in BOOLEAN /\ sessions[s].lease \in BOOLEAN
    BY Typed DEF IInv
  <1> DEFINE idle == sessions[s].idle \/ ArmIdle(sessions[s])
             r == [sessions[s] EXCEPT !.idle = idle]
  <1>4. /\ sessions' = [sessions EXCEPT ![s] = r] /\ stack' = Tail(stack)
        /\ UNCHANGED <<active, status, failed, leased, late, closes, stable, frames, strays>>
        /\ started' \in BOOLEAN
    BY <1>2, <1>3 DEF IdleRest, IInv, TypeOK
  <1>5. /\ Live(s) => ~sessions[s].closed
        /\ sessions[s].lease \/ idle => sessions[s].attempt \in Unsettled
        /\ sessions[s].lease => sessions[s].attempt # "admitting"
    <2>1. SessionGood(s) /\ (s # 0)
      BY DEF IInv, SessionsGood, Session
    <2>2. active # 0 => ~sessions[active].closed
      <3>1. \A f \in Frames(stack) : f.rest \notin Ends
        BY <1>1, Resumed DEF Ends
      <3> QED
        BY <3>1, InstalledIsOpen
    <2> QED
      BY <2>1, <2>2 DEF SessionGood, Live, ArmIdle
  <1>6. idle \in BOOLEAN
    BY <1>3 DEF ArmIdle
  <1> HIDE DEF idle
  <1>7. /\ r \in SessionType /\ r.loop = sessions[s].loop /\ r.attempt = sessions[s].attempt
        /\ r.closed = sessions[s].closed /\ r.lease = sessions[s].lease /\ r.idle = idle
    BY <1>3, <1>6 DEF SessionType
  <1> HIDE DEF r
  <1>8. /\ r.attempt \in Unsettled => r.loop = "attempt" /\ ~r.closed
        /\ r.lease \/ r.idle => r.attempt \in Unsettled
        /\ r.lease => r.attempt # "admitting"
        /\ r.loop \notin {"unused", "done"}
    BY <1>2, <1>5, <1>7 DEF Live
  <1> QED
    BY <1>1, <1>2, <1>4, <1>7, <1>8, Resuming

\* Settling an attempt of session s leaves the invariant, above a stack that may wait for its end.
LEMMA SettlingIsGood ==
    ASSUME IInv, NEW s \in Session, NEW outcome \in {"resolved", "retryable", "fatal"},
           Settle(s, outcome), sessions[s].loop = "attempt",
           stack' \in Seq(FrameType), Ordered(stack'),
           Frames(stack') \subseteq {Notification} \union Frames(stack),
           \A f \in Frames(stack) :
             /\ f.rest \notin Ends
             /\ f.rest = "flap" => f \in Frames(stack') \/ f.session = s,
           UNCHANGED <<active, status, started, failed, closes, frames>>,
           stable' \in 0 .. MaxStable, strays' = FALSE
    PROVE  IInv'
  <1>1. /\ sessions' \in [Session -> SessionType]
        /\ \A t \in Session : t # s => sessions'[t] = sessions[t]
        /\ sessions'[s].loop = sessions[s].loop /\ sessions'[s].closed = sessions[s].closed
        /\ sessions'[s].attempt = (IF Live(s) THEN outcome ELSE sessions[s].attempt)
        /\ sessions'[s].attempt \notin Unsettled
        /\ ~sessions'[s].lease /\ ~sessions'[s].idle
        /\ leased' \in Nat /\ late' \in Nat /\ LeasesCounted'
    BY Settling
  <1>2. active # 0 => ~sessions[active].closed
    BY InstalledIsOpen
  <1>3. TypeOK'
    BY <1>1 DEF IInv, TypeOK, SessionType, FrameType, Rests
  <1>4. SessionsGood'
    <2> SUFFICES ASSUME NEW t \in Session PROVE SessionGood(t)'
      BY DEF SessionsGood
    <2>1. SessionGood(t) /\ active' = active
      BY DEF IInv, SessionsGood
    <2>2. CASE t = s
      BY <1>1, <2>1, <2>2 DEF SessionGood, Live
    <2>3. CASE t # s
      <3>1. sessions'[t] = sessions[t]
        BY <1>1, <2>3
      <3> QED
        BY <2>1, <3>1 DEF SessionGood, Live
    <2> QED
      BY <2>2, <2>3
  <1>5. StatusGood'
    <2>1. StatusGood /\ active' = active /\ status' = status
      BY DEF IInv
    <2>2. CASE active = s
      <3>1. /\ sessions'[s].loop = "attempt" /\ ~sessions'[s].closed /\ s # 0
            /\ sessions'[s].attempt \notin {"admitting", "connecting", "open"}
        BY <1>1, <1>2, <2>2 DEF Session, Unsettled
      <3> QED
        BY <1>2, <2>1, <2>2, <3>1 DEF StatusGood
    <2>3. CASE active # s
      <3>1. active # 0 => sessions'[active] = sessions[active]
        <4>1. active \in {0} \union Session
          BY DEF IInv, TypeOK
        <4> QED
          BY <1>1, <2>3, <4>1
      <3> QED
        BY <1>2, <2>1, <2>3, <3>1 DEF StatusGood
    <2> QED
      BY <2>2, <2>3
  <1>6. StackGood'
    <2>1. ASSUME NEW f \in Frames(stack) PROVE FrameGood(f)'
      <3>1. FrameGood(f) /\ f.rest \notin Ends /\ active' = active /\ status' = status
        BY DEF IInv, StackGood
      <3>2. f.session \in Session => sessions'[f.session].loop = sessions[f.session].loop
        BY <1>1
      <3> QED
        BY <3>1, <3>2 DEF FrameGood, Ends, Loops
    <2> QED
      BY <2>1, NotificationGood DEF StackGood
  <1> QED
    BY <1>1, <1>3, <1>4, <1>5, <1>6 DEF IInv

LEMMA StepFlapRest == IInv /\ FlapRest => IInv'
  <1> SUFFICES ASSUME IInv, FlapRest PROVE IInv'
    OBVIOUS
  <1>1. Resting("flap")
    BY DEF FlapRest
  <1>2. PICK s \in Session : s = Head(stack).session /\ sessions[s].loop = "attempt"
                             /\ Head(stack).outcome = "retryable"
    <2>1. FrameGood(Head(stack)) /\ Head(stack).rest = "flap"
      BY <1>1, Resumed
    <2> QED
      BY <2>1 DEF FrameGood
  <1>3. /\ Tail(stack) \in Seq(FrameType) /\ Ordered(Tail(stack))
        /\ Frames(stack) = {Head(stack)} \union Frames(Tail(stack))
        /\ Head(stack).rest = "flap"
        /\ \A f \in Frames(Tail(stack)) : f.rest \notin Ends
    BY <1>1, Resumed
  <1>4. /\ Settle(s, "retryable") /\ stack' = Tail(stack)
        /\ UNCHANGED <<active, status, started, failed, closes, stable, frames, strays>>
    BY <1>2 DEF FlapRest
  <1>5. \A f \in Frames(stack) :
          f.rest \notin Ends /\ (f.rest = "flap" => f \in Frames(stack') \/ f.session = s)
    BY <1>2, <1>3, <1>4 DEF Ends
  <1>6. stable' \in 0 .. MaxStable /\ strays' = FALSE
    BY <1>4 DEF IInv, TypeOK
  <1>7. stack' \in Seq(FrameType) /\ Ordered(stack') /\ Frames(stack') \subseteq Frames(stack)
    BY <1>3, <1>4
  <1> QED
    BY <1>2, <1>4, <1>5, <1>6, <1>7, SettlingIsGood

\* The end of a loop: the installed session is closed for good before anyone hears of it.
LEMMA Finishing ==
    ASSUME IInv, NEW s \in Session, NEW isFailure \in BOOLEAN, NEW below \in Seq(FrameType),
           Finish(s, isFailure, below), Ordered(below), Frames(below) \subseteq Frames(stack),
           \A f \in Frames(stack) :
             f.rest \notin Ends /\ (f.rest = "flap" => f \in Frames(below)),
           \A f \in Frames(below) : f.rest \in Loops \union {"idle", "flap"} => f.session # s,
           sessions[s].loop # "unused", ~Live(s),
           UNCHANGED <<active, started, leased, late, closes, stable, frames>>, strays' = FALSE
    PROVE  IInv'
  <1>1. /\ sessions \in [Session -> SessionType] /\ sessions[s] \in SessionType
    BY Typed DEF IInv
  <1>2. active # 0 => ~sessions[active].closed
    BY InstalledIsOpen
  <1>3. /\ SessionGood(s) /\ ~sessions[s].lease /\ ~sessions[s].idle
    BY DEF IInv, SessionsGood, SessionGood
  <1>4. \A f \in Frames(below) : FrameGood(f) /\ f.rest \notin Ends
    BY DEF IInv, StackGood
  <1>5. s # 0 /\ active \in {0} \union Session
    BY DEF Session, IInv, TypeOK
  <1>6. /\ closes' \in 0 .. MaxCloses /\ stable' \in 0 .. MaxStable /\ frames' \in 0 .. MaxFrames
        /\ leased' \in Nat /\ late' \in Nat /\ started' \in BOOLEAN
        /\ active' \in {0} \union Session
    BY DEF IInv, TypeOK
  <1>7. CASE Installed(s)
    <2> DEFINE r == [sessions[s] EXCEPT !.closed = TRUE, !.loop = "done"]
               f == Frame("finish", s, "none")
    <2>1. /\ active = s /\ failed' = isFailure
          /\ SetStatus("closed", (IF isFailure THEN <<Notification>> ELSE <<>>) \o <<f>>, below)
          /\ sessions' = [sessions EXCEPT ![s].closed = TRUE, ![s].loop = "done"]
      BY <1>7 DEF Finish, Installed
    <2>2. sessions' = [sessions EXCEPT ![s] = r]
      BY <1>1, <2>1
    <2>3. /\ r \in SessionType /\ r.closed /\ r.loop = "done"
          /\ r.attempt = sessions[s].attempt /\ r.lease = sessions[s].lease
          /\ r.idle = sessions[s].idle
      BY <1>1 DEF SessionType, Loop
    <2> HIDE DEF r
    <2>4. /\ sessions' \in [Session -> SessionType] /\ sessions'[s] = r
          /\ \A t \in Session : t # s => sessions'[t] = sessions[t]
      BY <1>1, <2>2, <2>3, Updated
    <2>5. f \in FrameType /\ f.rest = "finish" /\ f.session = s
      BY DEF Frame, FrameType, Rests, Attempt
    <2>6. /\ status' = "closed" /\ stack' \in Seq(FrameType) /\ Ordered(stack')
          /\ {f} \union Frames(below) \subseteq Frames(stack')
          /\ Frames(stack') \subseteq {Notification, f} \union Frames(below)
      <3> DEFINE rest == (IF isFailure THEN <<Notification>> ELSE <<>>) \o <<f>>
      <3> HIDE DEF f
      <3>1. rest \in {<<f>>, <<>> \o <<f>>, <<Notification>> \o <<f>>}
        OBVIOUS
      <3>2. f.rest # "notify" /\ f.rest \notin Loops
        BY <2>5 DEF Loops
      <3>3. SetStatus("closed", rest, below)
        BY <2>1
      <3> HIDE DEF rest
      <3>4. /\ below \in Seq(FrameType) /\ Ordered(below) /\ f \in FrameType
            /\ \A g \in Frames(below) : g.rest \notin Ends
            /\ f.rest # "notify"
            /\ f.rest \in Loops => \A g \in Frames(below) : g.rest \in Loops => g.session # f.session
        BY <1>4, <2>5, <3>2
      <3> QED
        BY ONLY <3>1, <3>3, <3>4, Announced, ZenonT(40)
    <2>7. TypeOK'
      BY <1>6, <2>1, <2>4, <2>6 DEF TypeOK, SessionType, FrameType, Rests
    <2>8. SessionsGood'
      <3> SUFFICES ASSUME NEW t \in Session PROVE SessionGood(t)'
        BY DEF SessionsGood
      <3>1. SessionGood(t) /\ active' = active
        BY DEF IInv, SessionsGood
      <3>2. CASE t = s
        BY <1>3, <2>3, <2>4, <3>2 DEF SessionGood, Live
      <3>3. CASE t # s
        <4>1. sessions'[t] = sessions[t]
          BY <2>4, <3>3
        <4> QED
          BY <3>1, <4>1 DEF SessionGood, Live
      <3> QED
        BY <3>2, <3>3
    <2>9. StatusGood'
      BY <1>5, <2>1, <2>3, <2>4, <2>5, <2>6 DEF StatusGood, Ends
    <2>10. StackGood'
      <3>1. FrameGood(f)'
        BY <2>1, <2>3, <2>4, <2>5, <2>6 DEF FrameGood, Ends, Loops
      <3>2. ASSUME NEW g \in Frames(below) PROVE FrameGood(g)'
        <4>1. FrameGood(g) /\ g.rest \notin Ends
          BY <1>4
        <4>2. g.session \in Session /\ g.session # s => sessions'[g.session] = sessions[g.session]
          BY <2>4
        <4>3. g.rest \in Loops \union {"idle", "flap"} => g.session # s
          OBVIOUS
        <4> QED
          BY <4>1, <4>2, <4>3 DEF FrameGood, Ends, Loops
      <3> QED
        BY <2>6, <3>1, <3>2, NotificationGood DEF StackGood
    <2>11. LeasesCounted'
      <3>1. \A t \in Session : sessions'[t].lease = sessions[t].lease
        BY <2>3, <2>4
      <3> QED
        BY <3>1, LeasesKept DEF IInv
    <2> QED
      BY <2>7, <2>8, <2>9, <2>10, <2>11 DEF IInv
  <1>8. CASE ~Installed(s)
    <2> DEFINE r == [sessions[s] EXCEPT !.loop = "done"]
    <2>1. /\ active # s /\ stack' = below /\ failed' = failed /\ status' = status
          /\ sessions' = [sessions EXCEPT ![s] = r]
      BY <1>1, <1>8 DEF Finish, Installed
    <2>2. sessions[s].closed
      BY <1>3, <2>1 DEF SessionGood
    <2>3. /\ r \in SessionType /\ r.closed = sessions[s].closed /\ r.loop = "done"
          /\ r.attempt = sessions[s].attempt /\ r.lease = sessions[s].lease
          /\ r.idle = sessions[s].idle
      BY <1>1 DEF SessionType, Loop
    <2> HIDE DEF r
    <2>4. /\ sessions' \in [Session -> SessionType] /\ sessions'[s] = r
          /\ \A t \in Session : t # s => sessions'[t] = sessions[t]
      BY <1>1, <2>1, <2>3, Updated
    <2>5. TypeOK'
      BY <1>6, <2>1, <2>4 DEF IInv, TypeOK, SessionType, FrameType, Rests
    <2>6. SessionsGood'
      <3> SUFFICES ASSUME NEW t \in Session PROVE SessionGood(t)'
        BY DEF SessionsGood
      <3>1. SessionGood(t) /\ active' = active
        BY DEF IInv, SessionsGood
      <3>2. CASE t = s
        BY <1>3, <2>2, <2>3, <2>4, <3>2 DEF SessionGood, Live
      <3>3. CASE t # s
        <4>1. sessions'[t] = sessions[t]
          BY <2>4, <3>3
        <4> QED
          BY <3>1, <4>1 DEF SessionGood, Live
      <3> QED
        BY <3>2, <3>3
    <2>7. StatusGood'
      <3>1. active # 0 => sessions'[active] = sessions[active]
        BY <1>5, <2>1, <2>4
      <3>2. StatusGood /\ active' = active
        BY DEF IInv
      <3> QED
        BY <1>2, <2>1, <3>1, <3>2 DEF StatusGood
    <2>8. StackGood'
      <3>1. ASSUME NEW g \in Frames(below) PROVE FrameGood(g)'
        <4>1. FrameGood(g) /\ g.rest \notin Ends
          BY <1>4
        <4>2. g.session \in Session /\ g.session # s => sessions'[g.session] = sessions[g.session]
          BY <2>4
        <4>3. g.rest \in Loops \union {"idle", "flap"} => g.session # s
          OBVIOUS
        <4> QED
          BY <4>1, <4>2, <4>3 DEF FrameGood, Ends, Loops
      <3> QED
        BY <2>1, <3>1 DEF StackGood
    <2>9. LeasesCounted'
      <3>1. \A t \in Session : sessions'[t].lease = sessions[t].lease
        BY <2>3, <2>4
      <3> QED
        BY <3>1, LeasesKept DEF IInv
    <2> QED
      BY <2>5, <2>6, <2>7, <2>8, <2>9 DEF IInv
  <1> QED
    BY <1>7, <1>8

LEMMA StepInvalidRest == IInv /\ InvalidRest => IInv'
  <1> SUFFICES ASSUME IInv, InvalidRest PROVE IInv'
    OBVIOUS
  <1>1. Resting("invalid")
    BY DEF InvalidRest
  <1>2. /\ Tail(stack) \in Seq(FrameType) /\ Ordered(Tail(stack))
        /\ Frames(stack) = {Head(stack)} \union Frames(Tail(stack))
        /\ Head(stack).rest = "invalid" /\ FrameGood(Head(stack))
        /\ \A f \in Frames(Tail(stack)) : FrameGood(f) /\ f.rest \notin Ends
        /\ \A f \in Frames(Tail(stack)) : f.rest \in Loops => f.session # Head(stack).session
    BY <1>1, Resumed DEF Loops
  <1>3. PICK s \in Session : s = Head(stack).session /\ sessions[s].loop = "busy"
    BY <1>2 DEF FrameGood, Loops
  <1>4. /\ Finish(s, TRUE, Tail(stack))
        /\ UNCHANGED <<active, started, leased, late, closes, stable, frames, strays>>
    BY <1>3 DEF InvalidRest
  <1>5. ~Live(s)
    BY <1>3, BusyIsIdle DEF Live
  <1>6. \A f \in Frames(stack) :
          f.rest \notin Ends /\ (f.rest = "flap" => f \in Frames(Tail(stack)))
    BY <1>2 DEF Ends
  <1>7. \A f \in Frames(Tail(stack)) : f.rest \in Loops \union {"idle", "flap"} => f.session # s
    BY <1>2, <1>3 DEF FrameGood
  <1>8. strays' = FALSE /\ Frames(Tail(stack)) \subseteq Frames(stack)
    BY <1>2, <1>4 DEF IInv, TypeOK
  <1> QED
    BY <1>2, <1>3, <1>4, <1>5, <1>6, <1>7, <1>8, Finishing

-----------------------------------------------------------------------------
(* Handlers that start *)

\* Between handlers nothing waits, and the installed session is open.
LEMMA Quiet ==
    ASSUME IInv, stack = <<>>
    PROVE  /\ Frames(stack) = {} /\ stack \in Seq(FrameType) /\ Ordered(stack)
           /\ active # 0 => ~sessions[active].closed
           /\ active # 0 /\ status \in {"connecting", "reconnecting"} =>
                sessions[active].attempt # "open"
  <1>1. Frames(stack) = {} /\ stack \in Seq(FrameType)
    BY Typed DEF Frames, IInv
  <1>2. Ordered(stack) /\ StatusGood
    BY DEF IInv, StackGood
  <1> QED
    BY <1>1, <1>2 DEF StatusGood

\* A notification, a handler's rest, or one above the other.
LEMMA Started ==
    ASSUME NEW f \in FrameType, f.rest # "notify"
    PROVE  /\ <<f>> \in Seq(FrameType) /\ Ordered(<<f>>) /\ Frames(<<f>>) = {f}
           /\ <<Notification, f>> \in Seq(FrameType) /\ Ordered(<<Notification, f>>)
           /\ Frames(<<Notification, f>>) = {Notification, f}
           /\ <<Notification>> \in Seq(FrameType) /\ Ordered(<<Notification>>)
           /\ Frames(<<Notification>>) = {Notification}
  <1>1. <<>> \in Seq(FrameType) /\ Ordered(<<>>) /\ Frames(<<>>) = {}
    BY DEF Ordered, Frames
  <1>2. /\ <<f>> \o <<>> \in Seq(FrameType) /\ Ordered(<<f>> \o <<>>)
        /\ Frames(<<f>> \o <<>>) = {f} \union Frames(<<>>)
    BY <1>1, Pushed
  <1>3. <<f>> \o <<>> = <<f>>
    OBVIOUS
  <1>4. <<f>> \in Seq(FrameType) /\ Ordered(<<f>>) /\ Frames(<<f>>) = {f}
    BY <1>1, <1>2, <1>3
  <1>5. /\ <<Notification>> \o <<f>> \in Seq(FrameType) /\ Ordered(<<Notification>> \o <<f>>)
        /\ Frames(<<Notification>> \o <<f>>) = {Notification} \union Frames(<<f>>)
    BY <1>4, Notified
  <1>6. <<Notification>> \o <<f>> = <<Notification, f>>
    <2> DEFINE n == Notification
    <2> HIDE DEF n
    <2>1. n \in FrameType
      BY DEF n, Notification, Frame, FrameType, Rests, Attempt
    <2>2. <<n>> \in Seq(FrameType) /\ <<f>> \in Seq(FrameType) /\ <<n, f>> \in Seq(FrameType)
      BY <2>1
    <2>3. /\ Len(<<n>>) = 1 /\ Len(<<f>>) = 1 /\ Len(<<n, f>>) = 2
          /\ <<n>>[1] = n /\ <<f>>[1] = f /\ <<n, f>>[1] = n /\ <<n, f>>[2] = f
      OBVIOUS
    <2>4. /\ <<n>> \o <<f>> \in Seq(FrameType) /\ Len(<<n>> \o <<f>>) = 2
          /\ \A i \in 1 .. 2 : (<<n>> \o <<f>>)[i] = <<n, f>>[i]
      <3> DEFINE a == <<n>>  b == <<f>>  c == <<n, f>>
      <3> HIDE DEF a, b, c
      <3>1. /\ a \in Seq(FrameType) /\ b \in Seq(FrameType) /\ Len(a) = 1 /\ Len(b) = 1
            /\ a[1] = c[1] /\ b[1] = c[2]
        BY <2>2, <2>3 DEF a, b, c
      <3>2. a \o b \in Seq(FrameType) /\ Len(a \o b) = 2 /\ (a \o b)[1] = a[1] /\ (a \o b)[2] = b[1]
        <4>1. /\ a \o b \in Seq(FrameType) /\ Len(a \o b) = 1 + 1
              /\ \A i \in 1 .. (1 + 1) : (a \o b)[i] = IF i <= 1 THEN a[i] ELSE b[i - 1]
          BY <3>1, ConcatProperties
        <4> QED
          BY <4>1
      <3>3. \A i \in 1 .. 2 : (a \o b)[i] = c[i]
        BY <3>1, <3>2
      <3> QED
        BY <3>2, <3>3 DEF a, b, c
    <2>5. <<n>> \o <<f>> = <<n, f>>
      BY <2>2, <2>3, <2>4, SeqEqual
    <2> QED
      BY <2>5 DEF n
  <1>7. /\ <<Notification>> \o <<>> \in Seq(FrameType) /\ Ordered(<<Notification>> \o <<>>)
        /\ Frames(<<Notification>> \o <<>>) = {Notification} \union Frames(<<>>)
    BY <1>1, Notified
  <1>8. <<Notification>> \o <<>> = <<Notification>>
    OBVIOUS
  <1> QED
    BY <1>1, <1>4, <1>5, <1>6, <1>7, <1>8

\* The loop of the installed session moves on without an attempt.
LEMMA LoopMoves ==
    ASSUME IInv, stack = <<>>, NEW s \in Session, NEW r \in SessionType,
           sessions' = [sessions EXCEPT ![s] = r],
           sessions[s].loop # "unused", ~sessions[s].closed, ~Live(s),
           r.loop \notin {"unused", "done"}, r.closed = sessions[s].closed,
           r.attempt = sessions[s].attempt, r.lease = sessions[s].lease,
           r.idle = sessions[s].idle,
           \/ status' = status /\ sessions[s].loop # "attempt"
           \/ status' \in {"connecting", "reconnecting"},
           stack' \in Seq(FrameType), Ordered(stack'),
           \A f \in Frames(stack') :
             f = Notification \/ (f.rest \in Loops /\ f.session = s /\ r.loop = "busy"),
           UNCHANGED <<active, started, failed, leased, late, closes, stable, frames>>,
           strays' = FALSE
    PROVE  IInv'
  <1>1. sessions \in [Session -> SessionType]
    BY Typed DEF IInv
  <1>2. /\ sessions' \in [Session -> SessionType] /\ sessions'[s] = r
        /\ \A t \in Session : t # s => sessions'[t] = sessions[t]
    BY <1>1, Updated
  <1>3. active = s /\ s # 0 /\ SessionGood(s) /\ StatusGood
    BY DEF IInv, SessionsGood, SessionGood, Session
  <1>4. sessions[s].attempt \notin Unsettled
    BY DEF Live
  <1>5. TypeOK'
    BY <1>2 DEF IInv, TypeOK, SessionType, FrameType, Rests
  <1>6. SessionsGood'
    <2> SUFFICES ASSUME NEW t \in Session PROVE SessionGood(t)'
      BY DEF SessionsGood
    <2>1. SessionGood(t) /\ active' = active
      BY DEF IInv, SessionsGood
    <2>2. CASE t = s
      BY <1>2, <1>3, <1>4, <2>2 DEF SessionGood, Live
    <2>3. CASE t # s
      <3>1. sessions'[t] = sessions[t]
        BY <1>2, <2>3
      <3> QED
        BY <2>1, <3>1 DEF SessionGood, Live
    <2> QED
      BY <2>2, <2>3
  <1>7. StatusGood'
    <2>1. active' = s /\ ~sessions'[s].closed /\ sessions'[s].loop # "unused"
          /\ sessions'[s].attempt # "open"
      BY <1>2, <1>3, <1>4 DEF Unsettled
    <2>2. status \in {"connecting", "open", "reconnecting"}
          /\ (status = "open" => sessions[s].loop = "attempt")
      BY <1>3 DEF StatusGood
    <2>3. status' \in {"connecting", "reconnecting"}
      BY <2>2
    <2> QED
      BY <1>3, <2>1, <2>3 DEF StatusGood
  <1>8. StackGood'
    <2> SUFFICES ASSUME NEW f \in Frames(stack') PROVE FrameGood(f)'
      BY DEF StackGood
    <2>1. CASE f = Notification
      BY <2>1, NotificationGood
    <2>2. CASE f.rest \in Loops /\ f.session = s /\ r.loop = "busy"
      BY <1>2, <2>2 DEF FrameGood, Ends, Loops
    <2> QED
      BY <2>1, <2>2
  <1>9. LeasesCounted'
    <2>1. \A t \in Session : sessions'[t].lease = sessions[t].lease
      BY <1>2
    <2> QED
      BY <2>1, LeasesKept DEF IInv
  <1> QED
    BY <1>5, <1>6, <1>7, <1>8, <1>9 DEF IInv

\* A loop that ends between handlers.
LEMMA FinishingQuietly ==
    ASSUME IInv, stack = <<>>, NEW s \in Session, NEW isFailure \in BOOLEAN,
           Finish(s, isFailure, <<>>), sessions[s].loop # "unused", ~Live(s),
           UNCHANGED <<active, started, leased, late, closes, stable, frames, strays>>
    PROVE  IInv'
  <1>1. Frames(stack) = {} /\ <<>> \in Seq(FrameType) /\ Ordered(<<>>) /\ Frames(<<>>) = {}
    BY Quiet
  <1>2. strays' = FALSE
    BY DEF IInv, TypeOK
  <1> QED
    BY <1>1, <1>2, Finishing

LEMMA StepAttemptSettled ==
    ASSUME IInv, NEW s \in Session, AttemptSettled(s)
    PROVE  IInv'
  <1> DEFINE rejected == sessions[s].attempt # "resolved"
             failures == IF rejected THEN sessions[s].failures + 1 ELSE 0
             f == Frame("retry", s, "none")
  <1>1. /\ stack = <<>> /\ sessions[s].loop = "attempt"
        /\ sessions[s].attempt \in {"resolved", "retryable", "fatal"}
        /\ UNCHANGED <<active, started, leased, late, closes, stable, frames, strays>>
    BY DEF AttemptSettled
  <1>2. ~Live(s)
    BY <1>1 DEF Live, Unsettled
  <1>3. CASE Finish(s, FALSE, <<>>) \/ Finish(s, TRUE, <<>>)
    BY <1>1, <1>2, <1>3, FinishingQuietly
  <1>4. CASE /\ ~sessions[s].closed /\ ~RetriesSpent(failures)
             /\ sessions' = [sessions EXCEPT ![s].failures = failures, ![s].loop = "busy"]
             /\ SetStatus("reconnecting", <<f>>, <<>>)
             /\ UNCHANGED failed
    <2>1. /\ sessions \in [Session -> SessionType] /\ sessions[s] \in SessionType
          /\ sessions[s].failures \in 0 .. MaxRetries
      BY Typed DEF IInv
    <2> DEFINE r == [sessions[s] EXCEPT !.failures = failures, !.loop = "busy"]
    <2>2. failures \in 0 .. MaxRetries
      BY <1>4, <2>1, LifecycleAssumption DEF RetriesSpent
    <2> HIDE DEF failures
    <2>3. /\ r \in SessionType /\ r.loop = "busy" /\ r.closed = sessions[s].closed
          /\ r.attempt = sessions[s].attempt /\ r.lease = sessions[s].lease
          /\ r.idle = sessions[s].idle
      BY <2>1, <2>2 DEF SessionType, Loop
    <2>4. sessions' = [sessions EXCEPT ![s] = r]
      BY <1>4, <2>1
    <2> HIDE DEF r
    <2>5. f \in FrameType /\ f.rest = "retry" /\ f.session = s
      BY DEF Frame, FrameType, Rests, Attempt
    <2>6. /\ status' = "reconnecting" /\ stack' \in Seq(FrameType) /\ Ordered(stack')
          /\ Frames(stack') \subseteq {Notification, f}
      <3> HIDE DEF f
      <3>1. <<>> \in Seq(FrameType) /\ Ordered(<<>>) /\ Frames(<<>>) = {}
        BY <1>1, Quiet
      <3> QED
        BY <1>4, <2>5, <3>1, Announced
    <2>7. \A g \in Frames(stack') :
            g = Notification \/ (g.rest \in Loops /\ g.session = s /\ r.loop = "busy")
      BY <2>3, <2>5, <2>6 DEF Loops
    <2>8. strays' = FALSE
      BY <1>1 DEF IInv, TypeOK
    <2> QED
      BY <1>1, <1>2, <1>4, <2>3, <2>4, <2>6, <2>7, <2>8, LoopMoves
  <1> QED
    BY <1>3, <1>4 DEF AttemptSettled

LEMMA StepCheckPasses ==
    ASSUME IInv, NEW s \in Session, CheckPasses(s)
    PROVE  IInv'
  <1> DEFINE r == [sessions[s] EXCEPT !.loop = "backoff"]
  <1>1. /\ stack = <<>> /\ sessions[s].loop = "check" /\ ~sessions[s].closed
        /\ sessions' = [sessions EXCEPT ![s].loop = "backoff"]
        /\ UNCHANGED <<active, status, started, failed, stack, leased, late, closes, stable,
                       frames, strays>>
    BY DEF CheckPasses
  <1>2. sessions \in [Session -> SessionType] /\ sessions[s] \in SessionType
    BY Typed DEF IInv
  <1>3. /\ r \in SessionType /\ r.loop = "backoff" /\ r.closed = sessions[s].closed
        /\ r.attempt = sessions[s].attempt /\ r.lease = sessions[s].lease
        /\ r.idle = sessions[s].idle
    BY <1>2 DEF SessionType, Loop
  <1>4. sessions' = [sessions EXCEPT ![s] = r]
    BY <1>1, <1>2
  <1> HIDE DEF r
  <1>5. ~Live(s)
    BY <1>1, BusyIsIdle DEF Live
  <1>6. stack' \in Seq(FrameType) /\ Ordered(stack') /\ Frames(stack') = {}
    BY <1>1, Quiet
  <1>7. strays' = FALSE
    BY <1>1 DEF IInv, TypeOK
  <1> QED
    BY <1>1, <1>3, <1>4, <1>5, <1>6, <1>7, LoopMoves

LEMMA StepCheckFails ==
    ASSUME IInv, NEW s \in Session, CheckFails(s)
    PROVE  IInv'
  <1>1. /\ stack = <<>> /\ sessions[s].loop = "check"
        /\ UNCHANGED <<active, started, leased, late, closes, stable, frames>>
    BY DEF CheckFails
  <1>2. ~Live(s) /\ (~sessions[s].closed => active = s)
    BY <1>1, BusyIsIdle DEF Live
  <1>3. CASE MayInvalidate(s)
    <2> DEFINE r == [sessions[s] EXCEPT !.loop = "busy"]
               f == Frame("invalid", s, "none")
    <2>1. /\ ~sessions[s].closed /\ strays' = (strays \/ active # s)
          /\ stack' = <<Notification, f>>
          /\ sessions' = [sessions EXCEPT ![s].loop = "busy"]
          /\ UNCHANGED <<status, failed>>
      BY <1>3 DEF CheckFails, MayInvalidate
    <2>2. sessions \in [Session -> SessionType] /\ sessions[s] \in SessionType
      BY Typed DEF IInv
    <2>3. /\ r \in SessionType /\ r.loop = "busy" /\ r.closed = sessions[s].closed
          /\ r.attempt = sessions[s].attempt /\ r.lease = sessions[s].lease
          /\ r.idle = sessions[s].idle
      BY <2>2 DEF SessionType, Loop
    <2>4. sessions' = [sessions EXCEPT ![s] = r]
      BY <2>1, <2>2
    <2> HIDE DEF r
    <2>5. f \in FrameType /\ f.rest = "invalid" /\ f.session = s
      BY DEF Frame, FrameType, Rests, Attempt
    <2> HIDE DEF f
    <2>6. /\ stack' \in Seq(FrameType) /\ Ordered(stack')
          /\ Frames(stack') = {Notification, f}
      BY <2>1, <2>5, Started
    <2>7. \A g \in Frames(stack') :
            g = Notification \/ (g.rest \in Loops /\ g.session = s /\ r.loop = "busy")
      BY <2>3, <2>5, <2>6 DEF Loops
    <2>8. strays' = FALSE
      BY <1>2, <2>1 DEF IInv, TypeOK
    <2> QED
      BY <1>1, <1>2, <2>1, <2>3, <2>4, <2>6, <2>7, <2>8, LoopMoves
  <1>4. CASE ~MayInvalidate(s)
    <2>1. Finish(s, FALSE, <<>>) /\ UNCHANGED strays
      BY <1>4 DEF CheckFails
    <2> QED
      BY <1>1, <1>2, <2>1, FinishingQuietly
  <1> QED
    BY <1>3, <1>4

LEMMA StepBackoffEnds ==
    ASSUME IInv, NEW s \in Session, BackoffEnds(s)
    PROVE  IInv'
  <1>1. /\ stack = <<>> /\ sessions[s].loop = "backoff"
        /\ UNCHANGED <<active, started, leased, late, closes, stable, frames, strays>>
    BY DEF BackoffEnds
  <1>2. ~Live(s)
    BY <1>1, BusyIsIdle DEF Live
  <1>3. CASE Finish(s, FALSE, <<>>)
    BY <1>1, <1>2, <1>3, FinishingQuietly
  <1>4. CASE /\ ~sessions[s].closed
             /\ sessions' = [sessions EXCEPT ![s].loop = "busy"]
             /\ Announce(s, ~started, <<>>)
             /\ UNCHANGED failed
    <2> DEFINE r == [sessions[s] EXCEPT !.loop = "busy"]
               f == Frame("attempt", s, "none")
    <2>1. sessions \in [Session -> SessionType] /\ sessions[s] \in SessionType
      BY Typed DEF IInv
    <2>2. /\ r \in SessionType /\ r.loop = "busy" /\ r.closed = sessions[s].closed
          /\ r.attempt = sessions[s].attempt /\ r.lease = sessions[s].lease
          /\ r.idle = sessions[s].idle
      BY <2>1 DEF SessionType, Loop
    <2>3. sessions' = [sessions EXCEPT ![s] = r]
      BY <1>4, <2>1
    <2> HIDE DEF r
    <2>4. f \in FrameType /\ f.rest = "attempt" /\ f.session = s
      BY DEF Frame, FrameType, Rests, Attempt
    <2>5. PICK next \in {"connecting", "reconnecting"} : SetStatus(next, <<f>>, <<>>)
      BY <1>4 DEF Announce
    <2>6. /\ status' = next /\ stack' \in Seq(FrameType) /\ Ordered(stack')
          /\ Frames(stack') \subseteq {Notification, f}
      <3> HIDE DEF f
      <3>1. <<>> \in Seq(FrameType) /\ Ordered(<<>>) /\ Frames(<<>>) = {}
        BY <1>1, Quiet
      <3> QED
        BY <2>4, <2>5, <3>1, Announced
    <2>7. \A g \in Frames(stack') :
            g = Notification \/ (g.rest \in Loops /\ g.session = s /\ r.loop = "busy")
      BY <2>2, <2>4, <2>6 DEF Loops
    <2>8. strays' = FALSE
      BY <1>1 DEF IInv, TypeOK
    <2> QED
      BY <1>1, <1>2, <1>4, <2>2, <2>3, <2>6, <2>7, <2>8, LoopMoves
  <1> QED
    BY <1>3, <1>4 DEF BackoffEnds

LEMMA StepBudgetEnds ==
    ASSUME IInv, NEW s \in Session, BudgetEnds(s)
    PROVE  IInv'
  <1>1. /\ stack = <<>> /\ sessions[s].loop = "backoff" /\ Finish(s, TRUE, <<>>)
        /\ UNCHANGED <<active, started, leased, late, closes, stable, frames, strays>>
    BY DEF BudgetEnds
  <1>2. ~Live(s)
    BY <1>1, BusyIsIdle DEF Live
  <1> QED
    BY <1>1, <1>2, FinishingQuietly

-----------------------------------------------------------------------------
(* The attempt's handlers *)

\* A live attempt is the installed session's, and that session is open.
LEMMA LiveIsInstalled ==
    ASSUME IInv, stack = <<>>, NEW s \in Session, Live(s)
    PROVE  active = s /\ s # 0 /\ ~sessions[s].closed /\ sessions[s].loop = "attempt"
  <1>1. active = s /\ s # 0 /\ sessions[s].loop = "attempt"
    BY DEF IInv, SessionsGood, SessionGood, Session
  <1> QED
    BY <1>1, Quiet

\* A handler of a live attempt that announces its rest leaves the attempt live.
LEMMA Handling ==
    ASSUME IInv, stack = <<>>, NEW s \in Session, Live(s), NEW r \in SessionType,
           sessions' = [sessions EXCEPT ![s] = r],
           r.loop = sessions[s].loop, r.closed = sessions[s].closed,
           r.lease = sessions[s].lease, r.idle = sessions[s].idle,
           r.attempt \in Unsettled, r.lease => r.attempt # "admitting",
           NEW f \in FrameType, f.rest \in {"idle", "flap"}, f.session = s,
           f.rest = "flap" => f.outcome = "retryable",
           stack' \in Seq(FrameType), Ordered(stack'),
           f \in Frames(stack'), Frames(stack') \subseteq {Notification, f},
           \/ status' = status /\ r.attempt = sessions[s].attempt
           \/ status' = "open" /\ r.attempt = "open"
           \/ status' = "reconnecting" /\ f.rest = "flap",
           UNCHANGED <<active, started, failed, leased, late, closes, stable, strays>>,
           frames' \in 0 .. MaxFrames
    PROVE  IInv'
  <1>1. sessions \in [Session -> SessionType]
    BY Typed DEF IInv
  <1>2. /\ sessions' \in [Session -> SessionType] /\ sessions'[s] = r
        /\ \A t \in Session : t # s => sessions'[t] = sessions[t]
    BY <1>1, Updated
  <1>3. active = s /\ s # 0 /\ ~sessions[s].closed /\ sessions[s].loop = "attempt"
    BY LiveIsInstalled
  <1>4. TypeOK'
    BY <1>2 DEF IInv, TypeOK, SessionType, FrameType, Rests
  <1>5. SessionsGood'
    <2> SUFFICES ASSUME NEW t \in Session PROVE SessionGood(t)'
      BY DEF SessionsGood
    <2>1. SessionGood(t) /\ active' = active
      BY DEF IInv, SessionsGood
    <2>2. CASE t = s
      BY <1>2, <1>3, <2>1, <2>2 DEF SessionGood, Live
    <2>3. CASE t # s
      <3>1. sessions'[t] = sessions[t]
        BY <1>2, <2>3
      <3> QED
        BY <2>1, <3>1 DEF SessionGood, Live
    <2> QED
      BY <2>2, <2>3
  <1>6. StatusGood'
    <2>1. active' = s /\ ~sessions'[s].closed /\ sessions'[s].loop = "attempt"
          /\ sessions'[s].attempt = r.attempt
      BY <1>2, <1>3
    <2>2. CASE status' = status /\ r.attempt = sessions[s].attempt
      <3>1. StatusGood /\ (status \in {"connecting", "reconnecting"} => sessions[s].attempt # "open")
        BY <1>3, Quiet DEF IInv
      <3> QED
        BY <1>3, <2>1, <2>2, <3>1 DEF StatusGood
    <2>3. CASE status' = "open" /\ r.attempt = "open"
      BY <1>3, <2>1, <2>3 DEF StatusGood
    <2>4. CASE status' = "reconnecting" /\ f.rest = "flap"
      BY <1>3, <2>1, <2>4 DEF StatusGood
    <2> QED
      BY <2>2, <2>3, <2>4
  <1>7. StackGood'
    <2>1. FrameGood(f)'
      BY <1>2, <1>3 DEF FrameGood, Ends, Loops
    <2> QED
      BY <2>1, NotificationGood DEF StackGood
  <1>8. LeasesCounted' /\ ~strays'
    <2>1. \A t \in Session : sessions'[t].lease = sessions[t].lease
      BY <1>2
    <2> QED
      BY <2>1, LeasesKept DEF IInv
  <1> QED
    BY <1>4, <1>5, <1>6, <1>7, <1>8 DEF IInv

LEMMA StepOpens ==
    ASSUME IInv, NEW s \in Session, Opens(s)
    PROVE  IInv'
  <1> DEFINE r == [sessions[s] EXCEPT !.attempt = "open"]
             f == Frame("idle", s, "none")
  <1>1. /\ stack = <<>> /\ sessions[s].attempt = "connecting"
        /\ sessions' = [sessions EXCEPT ![s].attempt = "open"]
        /\ SetStatus("open", <<f>>, <<>>)
        /\ UNCHANGED <<active, started, failed, leased, late, closes, stable, frames, strays>>
    BY DEF Opens
  <1>2. sessions \in [Session -> SessionType] /\ sessions[s] \in SessionType
    BY Typed DEF IInv
  <1>3. /\ r \in SessionType /\ r.attempt = "open" /\ r.closed = sessions[s].closed
        /\ r.loop = sessions[s].loop /\ r.lease = sessions[s].lease
        /\ r.idle = sessions[s].idle
    BY <1>2 DEF SessionType, Attempt
  <1>4. sessions' = [sessions EXCEPT ![s] = r]
    BY <1>1, <1>2
  <1> HIDE DEF r
  <1>5. f \in FrameType /\ f.rest = "idle" /\ f.session = s
    BY DEF Frame, FrameType, Rests, Attempt
  <1>6. /\ status' = "open" /\ stack' \in Seq(FrameType) /\ Ordered(stack')
        /\ f \in Frames(stack') /\ Frames(stack') \subseteq {Notification, f}
    <2> HIDE DEF f
    <2>1. <<>> \in Seq(FrameType) /\ Ordered(<<>>) /\ Frames(<<>>) = {}
      BY <1>1, Quiet
    <2>2. f.rest # "notify" /\ f.rest \notin Loops
      BY <1>5 DEF Loops
    <2> QED
      BY <1>1, <1>5, <2>1, <2>2, Announced
  <1>7. Live(s) /\ r.attempt \in Unsettled
    BY <1>1, <1>3 DEF Live, Unsettled
  <1>8. frames' \in 0 .. MaxFrames
    BY <1>1 DEF IInv, TypeOK
  <1> HIDE DEF f
  <1> QED
    BY <1>1, <1>3, <1>4, <1>5, <1>6, <1>7, <1>8, Handling

\* A record that does not change is there to be replaced by itself.
LEMMA Untouched ==
    ASSUME IInv, NEW s \in Session, sessions' = sessions
    PROVE  /\ sessions[s] \in SessionType /\ sessions' = [sessions EXCEPT ![s] = sessions[s]]
           /\ sessions[s].lease => sessions[s].attempt # "admitting"
  <1>1. sessions \in [Session -> SessionType] /\ sessions[s] \in SessionType
    BY Typed DEF IInv
  <1> QED
    BY <1>1 DEF IInv, SessionsGood, SessionGood

LEMMA StepReceives ==
    ASSUME IInv, NEW s \in Session, Receives(s)
    PROVE  IInv'
  <1> DEFINE f == Frame("idle", s, "none")
  <1>1. /\ stack = <<>> /\ sessions[s].attempt = "open" /\ frames < MaxFrames
        /\ frames' = frames + 1 /\ stack' = <<Notification, f>>
        /\ UNCHANGED <<sessions, active, status, started, failed, leased, late, closes, stable,
                       strays>>
    BY DEF Receives
  <1>2. f \in FrameType /\ f.rest = "idle" /\ f.session = s
    BY DEF Frame, FrameType, Rests, Attempt
  <1> HIDE DEF f
  <1>3. stack' \in Seq(FrameType) /\ Ordered(stack') /\ Frames(stack') = {Notification, f}
    BY <1>1, <1>2, Started
  <1>4. Live(s) /\ sessions[s].attempt \in Unsettled
    BY <1>1 DEF Live, Unsettled
  <1>5. frames' \in 0 .. MaxFrames
    BY <1>1, LifecycleAssumption DEF IInv, TypeOK
  <1>6. /\ sessions[s] \in SessionType /\ sessions' = [sessions EXCEPT ![s] = sessions[s]]
        /\ sessions[s].lease => sessions[s].attempt # "admitting"
    BY <1>1, Untouched
  <1> DEFINE r == sessions[s]
  <1> QED
    BY <1>1, <1>2, <1>3, <1>4, <1>5, <1>6, Handling

LEMMA StepFlaps ==
    ASSUME IInv, NEW s \in Session, Flaps(s)
    PROVE  IInv'
  <1> DEFINE f == Frame("flap", s, "retryable")
  <1>1. /\ stack = <<>> /\ sessions[s].attempt \in Unsettled
        /\ \/ SetStatus("reconnecting", <<f>>, <<>>)
           \/ stack' = <<f>> /\ UNCHANGED status
        /\ UNCHANGED <<sessions, active, started, failed, leased, late, closes, stable, frames,
                       strays>>
    BY DEF Flaps, Flapping
  <1>2. f \in FrameType /\ f.rest = "flap" /\ f.session = s /\ f.outcome = "retryable"
    BY DEF Frame, FrameType, Rests, Attempt
  <1> HIDE DEF f
  <1>3. /\ stack' \in Seq(FrameType) /\ Ordered(stack')
        /\ f \in Frames(stack') /\ Frames(stack') \subseteq {Notification, f}
        /\ status' \in {status, "reconnecting"}
    <2>1. CASE SetStatus("reconnecting", <<f>>, <<>>)
      <3>1. <<>> \in Seq(FrameType) /\ Ordered(<<>>) /\ Frames(<<>>) = {}
        BY <1>1, Quiet
      <3>2. f.rest # "notify" /\ f.rest \notin Loops
        BY <1>2 DEF Loops
      <3> QED
        BY <1>2, <2>1, <3>1, <3>2, Announced
    <2>2. CASE stack' = <<f>> /\ UNCHANGED status
      BY <1>2, <2>2, Started
    <2> QED
      BY <1>1, <2>1, <2>2
  <1>4. Live(s)
    BY <1>1 DEF Live
  <1>5. frames' \in 0 .. MaxFrames
    BY <1>1 DEF IInv, TypeOK
  <1>6. /\ sessions[s] \in SessionType /\ sessions' = [sessions EXCEPT ![s] = sessions[s]]
        /\ sessions[s].lease => sessions[s].attempt # "admitting"
    BY <1>1, Untouched
  <1> QED
    BY <1>1, <1>2, <1>3, <1>4, <1>5, <1>6, Handling

LEMMA StepAdmitted ==
    ASSUME IInv, NEW s \in Session, Admitted(s)
    PROVE  IInv'
  <1> DEFINE r == [sessions[s] EXCEPT !.attempt = "connecting", !.lease = Protected]
  <1>1. /\ stack = <<>> /\ sessions[s].attempt = "admitting"
        /\ sessions' = [sessions EXCEPT ![s].attempt = "connecting", ![s].lease = Protected]
        /\ leased' = (IF Protected THEN leased + 1 ELSE leased)
        /\ UNCHANGED <<active, status, started, failed, stack, late, closes, stable, frames, strays>>
    BY DEF Admitted
  <1>2. sessions \in [Session -> SessionType] /\ sessions[s] \in SessionType
    BY Typed DEF IInv
  <1>3. /\ r \in SessionType /\ r.attempt = "connecting" /\ r.closed = sessions[s].closed
        /\ r.loop = sessions[s].loop /\ r.lease = Protected /\ r.idle = sessions[s].idle
    BY <1>2, LifecycleAssumption DEF SessionType, Attempt
  <1>4. sessions' = [sessions EXCEPT ![s] = r]
    BY <1>1, <1>2
  <1> HIDE DEF r
  <1>5. /\ sessions' \in [Session -> SessionType] /\ sessions'[s] = r
        /\ \A t \in Session : t # s => sessions'[t] = sessions[t]
    BY <1>2, <1>3, <1>4, Updated
  <1>6. Live(s)
    BY <1>1 DEF Live, Unsettled
  <1>7. active = s /\ s # 0 /\ ~sessions[s].closed /\ sessions[s].loop = "attempt"
    BY <1>1, <1>6, LiveIsInstalled
  <1>8. ~sessions[s].lease
    BY <1>1 DEF IInv, SessionsGood, SessionGood
  <1>9. LeasesCounted' /\ leased' \in Nat
    <2>1. IsFiniteSet(Leases) /\ leased = Cardinality(Leases) /\ leased \in Nat
      BY DEF IInv, LeasesCounted, TypeOK
    <2>2. s \notin Leases
      BY <1>8 DEF Leases
    <2>3. CASE Protected
      <3>1. Leases' = Leases \union {s}
        BY <1>3, <1>5, <2>3 DEF Leases
      <3>2. /\ IsFiniteSet(Leases \union {s})
            /\ Cardinality(Leases \union {s}) = leased + 1
        BY <2>1, <2>2, FS_AddElement
      <3> QED
        BY <1>1, <2>1, <2>3, <3>1, <3>2 DEF LeasesCounted
    <2>4. CASE ~Protected
      <3>1. Leases' = Leases
        BY <1>3, <1>5, <1>8, <2>4 DEF Leases
      <3> QED
        BY <1>1, <2>1, <2>4, <3>1 DEF LeasesCounted
    <2> QED
      BY <2>3, <2>4
  <1>10. TypeOK'
    BY <1>1, <1>5, <1>9 DEF IInv, TypeOK, SessionType, FrameType, Rests
  <1>11. SessionsGood'
    <2> SUFFICES ASSUME NEW t \in Session PROVE SessionGood(t)'
      BY DEF SessionsGood
    <2>1. SessionGood(t) /\ active' = active
      BY <1>1 DEF IInv, SessionsGood
    <2>2. CASE t = s
      BY <1>3, <1>5, <1>7, <2>1, <2>2 DEF SessionGood, Live, Unsettled
    <2>3. CASE t # s
      <3>1. sessions'[t] = sessions[t]
        BY <1>5, <2>3
      <3> QED
        BY <2>1, <3>1 DEF SessionGood, Live
    <2> QED
      BY <2>2, <2>3
  <1>12. StatusGood'
    <2>1. StatusGood /\ status # "open"
      BY <1>1, <1>7 DEF IInv, StatusGood
    <2> QED
      BY <1>1, <1>3, <1>5, <1>7, <2>1 DEF StatusGood
  <1>13. StackGood'
    BY <1>1, Quiet DEF StackGood
  <1>14. ~strays'
    BY <1>1 DEF IInv
  <1> QED
    BY <1>9, <1>10, <1>11, <1>12, <1>13, <1>14 DEF IInv

\* The lease of a late acquire is returned at once: the count does not change.
LEMMA StepLateAcquire == IInv /\ LateAcquire => IInv'
  <1> SUFFICES ASSUME IInv, LateAcquire PROVE IInv'
    OBVIOUS
  <1>1. /\ late > 0 /\ late' = late - 1 /\ leased' = leased + 0
        /\ UNCHANGED <<sessions, active, status, started, failed, stack, closes, stable, frames,
                       strays>>
    BY DEF LateAcquire, LateLease
  <1>2. late' \in Nat /\ leased' = leased
    BY <1>1 DEF IInv, TypeOK
  <1>3. TypeOK'
    BY <1>1, <1>2 DEF IInv, TypeOK
  <1>4. SessionsGood' /\ LeasesCounted' /\ ~strays'
    BY <1>1, <1>2 DEF IInv, SessionsGood, SessionGood, Live, LeasesCounted, Leases
  <1>5. StatusGood' /\ StackGood'
    BY <1>1 DEF IInv, StatusGood, StackGood, FrameGood
  <1> QED
    BY <1>3, <1>4, <1>5 DEF IInv

\* Between handlers an attempt settles without a notification, or with one.
LEMMA SettlingQuietly ==
    ASSUME IInv, stack = <<>>, NEW s \in Session, Live(s),
           NEW outcome \in {"resolved", "retryable", "fatal"}, Settle(s, outcome),
           stack' = <<>> \/ stack' = <<Notification>>,
           UNCHANGED <<active, status, started, failed, closes, frames>>,
           stable' \in 0 .. MaxStable, strays' = FALSE
    PROVE  IInv'
  <1>1. sessions[s].loop = "attempt" /\ Frames(stack) = {}
    BY LiveIsInstalled, Quiet
  <1>2. stack' \in Seq(FrameType) /\ Ordered(stack') /\ Frames(stack') \subseteq {Notification}
    <2>1. <<>> \in Seq(FrameType) /\ Ordered(<<>>) /\ Frames(<<>>) = {}
      BY Quiet
    <2>2. /\ <<Notification>> \o <<>> \in Seq(FrameType)
          /\ Ordered(<<Notification>> \o <<>>)
          /\ Frames(<<Notification>> \o <<>>) = {Notification} \union Frames(<<>>)
      BY <2>1, Notified
    <2>3. <<Notification>> \o <<>> = <<Notification>>
      OBVIOUS
    <2> QED
      BY <2>1, <2>2, <2>3
  <1> QED
    BY <1>1, <1>2, SettlingIsGood

LEMMA StepSettles ==
    ASSUME IInv, NEW s \in Session,
           EndsStable(s) \/ AdmissionFails(s) \/ Fails(s) \/ RejectsSession(s)
    PROVE  IInv'
  <1>1. strays \in BOOLEAN /\ ~strays /\ stable \in 0 .. MaxStable
    BY DEF IInv, TypeOK
  <1>2. stack = <<>> /\ Live(s) /\ active = s
    <2>1. stack = <<>> /\ Live(s)
      BY DEF EndsStable, AdmissionFails, Fails, RejectsSession, Live, Unsettled
    <2> QED
      BY <2>1, LiveIsInstalled
  <1>3. PICK outcome \in {"resolved", "retryable", "fatal"} : Settle(s, outcome)
    BY DEF EndsStable, AdmissionFails, Fails, RejectsSession
  <1>4. /\ stack' = <<>> \/ stack' = <<Notification>>
        /\ UNCHANGED <<active, status, started, failed, closes, frames>>
        /\ strays' = FALSE
    BY <1>1, <1>2 DEF EndsStable, AdmissionFails, Fails, RejectsSession
  <1>5. stable' \in 0 .. MaxStable
    BY <1>1, LifecycleAssumption DEF EndsStable, AdmissionFails, Fails, RejectsSession
  <1> QED
    BY <1>2, <1>3, <1>4, <1>5, SettlingQuietly

-----------------------------------------------------------------------------
(* The invariant and what follows from it *)

LEMMA InitIInv == Init => IInv
  <1> SUFFICES ASSUME Init PROVE IInv
    OBVIOUS
  <1> USE DEF Init
  <1>1. \A s \in Session : sessions[s] = Fresh /\ ~sessions[s].lease
    BY DEF Fresh
  <1>2. Frames(stack) = {} /\ <<>> \in Seq(FrameType) /\ Ordered(stack)
    BY DEF Frames, Ordered
  <1>3. Fresh \in SessionType
    BY LifecycleAssumption DEF Fresh, SessionType, Loop, Attempt
  <1>4. TypeOK
    <2>1. sessions \in [Session -> SessionType]
      BY <1>3
    <2>2. stack \in Seq(FrameType)
      BY <1>2
    <2>3. closes \in 0 .. MaxCloses /\ stable \in 0 .. MaxStable /\ frames \in 0 .. MaxFrames
      BY LifecycleAssumption
    <2> QED
      BY <2>1, <2>2, <2>3 DEF TypeOK, SessionType, FrameType, Rests
  <1>5. SessionsGood
    BY <1>1 DEF SessionsGood, SessionGood, Fresh, Live, Unsettled
  <1>6. StatusGood /\ StackGood
    BY <1>2 DEF StatusGood, StackGood
  <1>7. LeasesCounted
    <2>1. Leases = {}
      BY <1>1 DEF Leases
    <2> QED
      BY <2>1, FS_EmptySet DEF LeasesCounted
  <1> QED
    BY <1>4, <1>5, <1>6, <1>7 DEF IInv

LEMMA StepIInv == IInv /\ [Next]_vars => IInv'
  <1> SUFFICES ASSUME IInv, [Next]_vars PROVE IInv'
    OBVIOUS
  <1>1. CASE Connect
    BY <1>1, StepConnect
  <1>2. CASE Close
    BY <1>2, StepClose
  <1>3. CASE Rest
    BY <1>3, StepObserverReturns, StepCloseRest, StepFinishRest, StepAttemptRest, StepRetryRest,
       StepInvalidRest, StepIdleRest, StepFlapRest DEF Rest
  <1>4. CASE LateAcquire
    BY <1>4, StepLateAcquire
  <1>5. ASSUME NEW s \in Session, LoopRuns(s) PROVE IInv'
    BY <1>5, StepAttemptSettled, StepCheckPasses, StepCheckFails, StepBackoffEnds, StepBudgetEnds
       DEF LoopRuns
  <1>6. ASSUME NEW s \in Session, AttemptRuns(s) PROVE IInv'
    BY <1>6, StepAdmitted, StepOpens, StepFlaps, StepSettles DEF AttemptRuns
  <1>7. ASSUME NEW s \in Session, Streams(s) PROVE IInv'
    BY <1>7, StepReceives, StepSettles DEF Streams
  <1>8. CASE UNCHANGED vars
    <2>1. UNCHANGED <<sessions, active, status, started, failed, stack, leased, late, closes,
                      stable, frames, strays>>
      BY <1>8 DEF vars
    <2>2. TypeOK' /\ SessionsGood' /\ LeasesCounted' /\ ~strays'
      BY <2>1 DEF IInv, TypeOK, SessionsGood, SessionGood, Live, LeasesCounted, Leases
    <2>3. StatusGood' /\ StackGood'
      BY <2>1 DEF IInv, StatusGood, StackGood, FrameGood
    <2> QED
      BY <2>2, <2>3 DEF IInv
  <1> QED
    BY <1>1, <1>2, <1>3, <1>4, <1>5, <1>6, <1>7, <1>8 DEF Next

\* The inductive invariant: what is true of every session, its loop, its attempt and the handlers
\* an observer interrupted, at every call the observer can make (channel.ts).
THEOREM Invariance == Spec => []IInv
  BY InitIInv, StepIInv, PTL DEF Spec

\* Every variable keeps its type, and the bounds hold, in every behaviour of the lifecycle.
THEOREM TypeCorrect == Spec => []TypeOK
  <1>1. IInv => TypeOK
    BY DEF IInv
  <1> QED
    BY <1>1, Invariance, PTL

\* However an observer re-enters connect() and close(), an attempt is live for the installed session
\* alone: no abandoned loop keeps a second stream.
THEOREM OneStream == Spec => []OneLiveSession
  <1>1. IInv => OneLiveSession
    BY DEF IInv, SessionsGood, SessionGood, OneLiveSession
  <1> QED
    BY <1>1, Invariance, PTL

\* Whenever no handler is under way, the status observers see is that of the channel.
THEOREM StatusHolds == Spec => []StatusIsTrue
  <1>1. IInv => StatusIsTrue
    <2> SUFFICES ASSUME IInv, stack = <<>>
                 PROVE  /\ status \in {"idle", "closed"} <=> active = 0
                        /\ active # 0 => ~sessions[active].closed /\ sessions[active].loop # "done"
                        /\ status = "open" =>
                             sessions[active].loop = "attempt"
                             /\ sessions[active].attempt \notin {"admitting", "connecting"}
                        /\ status \in {"connecting", "reconnecting"} =>
                             sessions[active].attempt # "open"
      BY DEF StatusIsTrue
    <2>1. /\ active # 0 => ~sessions[active].closed
          /\ active # 0 /\ status \in {"connecting", "reconnecting"} =>
               sessions[active].attempt # "open"
      BY Quiet
    <2>2. StatusGood
      BY DEF IInv
    <2>3. active # 0 => sessions[active].loop # "done"
      <3>1. active # 0 => SessionGood(active)
        BY DEF IInv, SessionsGood, TypeOK
      <3> QED
        BY <2>1, <3>1 DEF SessionGood
    <2>4. active # 0 => status \in {"connecting", "open", "reconnecting"}
      BY <2>1, <2>2 DEF StatusGood
    <2> QED
      BY <2>1, <2>2, <2>3, <2>4 DEF StatusGood
  <1> QED
    BY <1>1, Invariance, PTL

\* Every lease held is that of a live attempt, and no idle timer outlives its attempt.
THEOREM LeasesReturn == Spec => []NothingLeaks
  <1>1. IInv => NothingLeaks
    BY DEF IInv, LeasesCounted, Leases, SessionsGood, SessionGood, NothingLeaks
  <1> QED
    BY <1>1, Invariance, PTL

\* A superseded attempt or status check never invalidates the session a later one relies on.
THEOREM NoStrays == Spec => []NoStrayInvalidation
  <1>1. IInv => NoStrayInvalidation
    BY DEF IInv, NoStrayInvalidation
  <1> QED
    BY <1>1, Invariance, PTL
=============================================================================
