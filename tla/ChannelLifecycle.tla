-------------------------- MODULE ChannelLifecycle --------------------------
(***************************************************************************)
(* The life of a channel (packages/channel/src/lifecycle/channel.ts):      *)
(* connect() and close() cycles, the reconnect loop each cycle runs, its   *)
(* attempts, the leases they borrow, and the notifications in between.     *)
(*                                                                         *)
(* JavaScript runs a handler to its end, but a handler that notifies an    *)
(* observer may be re-entered: the observer can call close() or connect()  *)
(* before the handler goes on.  "stack" holds what is left of the handlers *)
(* under way, innermost first, and nothing else moves until it is empty.   *)
(* Time is not modelled: timers and budgets may run out whenever they run. *)
(***************************************************************************)
EXTENDS Integers, Sequences, FiniteSets

CONSTANTS
    Reconnects,    \* the reconnect option
    Protected,     \* whether attempts borrow a protected session
    MaxRetries,    \* the maxRetries option
    MaxSessions,   \* bound on connect() calls that start a session
    MaxCloses,     \* bound on close() calls that end one
    MaxStable,     \* bound on attempts that end after they became stable
    MaxFrames      \* bound on frames whose listeners are observed

ASSUME LifecycleAssumption ==
    /\ Reconnects \in BOOLEAN /\ Protected \in BOOLEAN
    /\ MaxRetries \in Nat /\ MaxSessions \in Nat /\ MaxCloses \in Nat
    /\ MaxStable \in Nat /\ MaxFrames \in Nat

VARIABLES
    sessions,    \* one record for each connect() cycle
    active,      \* activeSession, 0 for undefined
    status,      \* the status observers see
    started,     \* attemptsStarted > 0
    failed,      \* terminalFailure is set
    stack,       \* what is left of the handlers under way, innermost first
    leased,      \* leases acquired and not released
    late,        \* acquires still under way for attempts that settled
    closes, stable, frames,
    strays       \* history: the session was invalidated for a session no longer active

vars == <<sessions, active, status, started, failed, stack, leased, late, closes, stable, frames,
          strays>>

Session == 1 .. MaxSessions

\* Where a loop stands: not begun, in a handler, awaiting an attempt, its status check or its
\* backoff, or done.
Loop == {"unused", "busy", "attempt", "check", "backoff", "done"}
Attempt == {"none", "admitting", "connecting", "open", "resolved", "retryable", "fatal"}
Unsettled == {"admitting", "connecting", "open"}

Fresh == [loop |-> "unused", attempt |-> "none", closed |-> FALSE, failures |-> 0,
          lease |-> FALSE, idle |-> FALSE]

\* A frame is a notification, or the rest of a handler with its session and attempt outcome.
Frame(rest, s, outcome) == [rest |-> rest, session |-> s, outcome |-> outcome]
Notification == Frame("notify", 0, "none")

Init ==
    /\ sessions = [s \in Session |-> Fresh]
    /\ active = 0 /\ status = "idle" /\ started = FALSE /\ failed = FALSE
    /\ stack = <<>> /\ leased = 0 /\ late = 0
    /\ closes = 0 /\ stable = 0 /\ frames = 0
    /\ strays = FALSE

-----------------------------------------------------------------------------
(* Notifications *)

\* The rest of the innermost handler runs once the observers it notified are done.
Resting(rest) == stack # <<>> /\ Head(stack).rest = rest

\* Only from an empty stack, or from an observer, is the outside heard.
Outside == stack = <<>> \/ Resting("notify")

\* setStatus(next) from a handler whose rest is given, above what is left of the stack.
SetStatus(next, rest, below) ==
    /\ status' = next
    /\ stack' = (IF status = next THEN <<>> ELSE <<Notification>>) \o rest \o below

ObserverReturns ==
    /\ Resting("notify")
    /\ stack' = Tail(stack)
    /\ UNCHANGED <<sessions, active, status, started, failed, leased, late, closes, stable,
                   frames, strays>>

-----------------------------------------------------------------------------
(* connect() and close() *)

\* The top of the loop: a new attempt announces itself first.
Announce(s, isFirst, below) ==
    SetStatus(IF isFirst THEN "connecting" ELSE "reconnecting", <<Frame("attempt", s, "none")>>,
              below)

\* Slip: a session being closed no longer counts as active.
CanConnect_Closing == IF active = 0 THEN TRUE ELSE sessions[active].closed

CanConnect == active = 0

\* A no-op while a session is installed.  The loop runs up to its first await.
Connect ==
    /\ Outside
    /\ CanConnect
    /\ \E s \in Session :
         /\ sessions[s].loop = "unused"
         /\ \A t \in 1 .. (s - 1) : sessions[t].loop # "unused"
         /\ sessions' = [sessions EXCEPT ![s].loop = "busy"]
         /\ active' = s
         /\ Announce(s, TRUE, stack)
    /\ failed' = FALSE
    /\ started' = FALSE
    /\ UNCHANGED <<leased, late, closes, stable, frames, strays>>

\* close() marks the session first; it stays installed while "closing" is announced.
Close ==
    /\ Outside
    /\ active # 0 /\ ~sessions[active].closed
    /\ closes < MaxCloses
    /\ closes' = closes + 1
    /\ sessions' = [sessions EXCEPT ![active].closed = TRUE]
    /\ SetStatus("closing", <<Frame("close", active, "none")>>, stack)
    /\ UNCHANGED <<active, started, failed, leased, late, stable, frames, strays>>

\* An attempt settles once: its timers are cancelled and its lease is released.
Settled(session, outcome) ==
    IF session.attempt \in Unsettled
      THEN [session EXCEPT !.attempt = outcome, !.lease = FALSE, !.idle = FALSE]
      ELSE session

\* An acquire still under way will find its attempt settled.
Settle(s, outcome) ==
    /\ sessions' = [sessions EXCEPT ![s] = Settled(@, outcome)]
    /\ leased' = IF sessions[s].lease THEN leased - 1 ELSE leased
    /\ late' = IF sessions[s].attempt = "admitting" /\ Protected THEN late + 1 ELSE late

\* Slip: close() forgets to abort the session's controller.
CloseRest_NoAbort ==
    /\ Resting("close")
    /\ active' = 0
    /\ SetStatus("closed", <<>>, Tail(stack))
    /\ UNCHANGED <<sessions, started, failed, leased, late, closes, stable, frames, strays>>

\* The rest of close(): the abort settles the attempt, and the session is uninstalled.
CloseRest ==
    /\ Resting("close")
    /\ Settle(Head(stack).session, "fatal")
    /\ active' = 0
    /\ SetStatus("closed", <<>>, Tail(stack))
    /\ UNCHANGED <<started, failed, closes, stable, frames, strays>>

-----------------------------------------------------------------------------
(* The reconnect loop *)

\* Slip: a loop that was superseded settles the channel all the same.
Installed_Always(s) == TRUE

Installed(s) == active = s

\* Only the active session settles what observers see; it stays installed while they hear of it.
Finish(s, isFailure, below) ==
    IF Installed(s)
      THEN /\ sessions' = [sessions EXCEPT ![s].closed = TRUE, ![s].loop = "done"]
           /\ failed' = isFailure
           /\ SetStatus("closed",
                        (IF isFailure THEN <<Notification>> ELSE <<>>) \o
                            <<Frame("finish", s, "none")>>,
                        below)
      ELSE /\ sessions' = [sessions EXCEPT ![s].loop = "done"]
           /\ stack' = below
           /\ UNCHANGED <<failed, status>>

FinishRest ==
    /\ Resting("finish")
    /\ active' = 0
    /\ stack' = Tail(stack)
    /\ UNCHANGED <<sessions, status, started, failed, leased, late, closes, stable, frames, strays>>

Admission(session) == IF session.closed THEN "fatal" ELSE "admitting"

\* The rest of runOneConnection: a session closed meanwhile settles at once.
AttemptRest ==
    /\ Resting("attempt")
    /\ LET s == Head(stack).session IN
         sessions' = [sessions EXCEPT
             ![s].loop = "attempt",
             ![s].attempt = Admission(sessions[s])]
    /\ started' = TRUE
    /\ stack' = Tail(stack)
    /\ UNCHANGED <<active, status, failed, leased, late, closes, stable, frames, strays>>

\* Slip: one retry too many.
RetriesSpent_OffByOne(failures) == failures > MaxRetries + 1

RetriesSpent(failures) == failures > MaxRetries

\* The attempt's promise settled: the loop gives up, or announces that it will retry.
AttemptSettled(s) ==
    /\ stack = <<>>
    /\ sessions[s].loop = "attempt" /\ sessions[s].attempt \in {"resolved", "retryable", "fatal"}
    /\ LET rejected == sessions[s].attempt # "resolved"
           failures == IF rejected THEN sessions[s].failures + 1 ELSE 0 IN
         \/ /\ sessions[s].closed \/ (~rejected /\ ~Reconnects)
            /\ Finish(s, FALSE, <<>>)
         \/ /\ ~sessions[s].closed /\ rejected
            /\ ~Reconnects \/ sessions[s].attempt = "fatal" \/ RetriesSpent(failures)
            /\ Finish(s, TRUE, <<>>)
         \/ /\ ~sessions[s].closed /\ Reconnects
            /\ sessions[s].attempt # "fatal" /\ ~RetriesSpent(failures)
            /\ sessions' = [sessions EXCEPT ![s].failures = failures, ![s].loop = "busy"]
            /\ SetStatus("reconnecting", <<Frame("retry", s, "none")>>, <<>>)
            /\ UNCHANGED failed
    /\ UNCHANGED <<active, started, leased, late, closes, stable, frames, strays>>

\* A protected session is checked before the backoff.
RetryRest ==
    /\ Resting("retry")
    /\ sessions' = [sessions EXCEPT
                       ![Head(stack).session].loop = IF Protected THEN "check" ELSE "backoff"]
    /\ stack' = Tail(stack)
    /\ UNCHANGED <<active, status, started, failed, leased, late, closes, stable, frames, strays>>

CheckPasses(s) ==
    /\ stack = <<>>
    /\ sessions[s].loop = "check" /\ ~sessions[s].closed
    /\ sessions' = [sessions EXCEPT ![s].loop = "backoff"]
    /\ UNCHANGED <<active, status, started, failed, stack, leased, late, closes, stable, frames,
                   strays>>

\* Slip: a check that a close() aborted invalidates the session too.
MayInvalidate_Always(s) == TRUE

MayInvalidate(s) == ~sessions[s].closed

\* A failed check invalidates the session, whose observers hear of it, and ends the loop.
CheckFails(s) ==
    /\ stack = <<>>
    /\ sessions[s].loop = "check"
    /\ IF MayInvalidate(s)
         THEN /\ strays' = (strays \/ active # s)
              /\ stack' = <<Notification, Frame("invalid", s, "none")>>
              /\ sessions' = [sessions EXCEPT ![s].loop = "busy"]
              /\ UNCHANGED <<status, failed>>
         ELSE Finish(s, FALSE, <<>>) /\ UNCHANGED strays
    /\ UNCHANGED <<active, started, leased, late, closes, stable, frames>>

InvalidRest ==
    /\ Resting("invalid")
    /\ Finish(Head(stack).session, TRUE, Tail(stack))
    /\ UNCHANGED <<active, started, leased, late, closes, stable, frames, strays>>

\* The wait is over: another attempt, unless the session was closed.
BackoffEnds(s) ==
    /\ stack = <<>>
    /\ sessions[s].loop = "backoff"
    /\ \/ /\ ~sessions[s].closed
          /\ sessions' = [sessions EXCEPT ![s].loop = "busy"]
          /\ Announce(s, ~started, <<>>)
          /\ UNCHANGED failed
       \/ sessions[s].closed /\ Finish(s, FALSE, <<>>)
    /\ UNCHANGED <<active, started, leased, late, closes, stable, frames, strays>>

\* The retry budget is spent, before the wait or after it, or the timer itself fails.
BudgetEnds(s) ==
    /\ stack = <<>>
    /\ sessions[s].loop = "backoff" /\ ~sessions[s].closed
    /\ Finish(s, TRUE, <<>>)
    /\ UNCHANGED <<active, started, leased, late, closes, stable, frames, strays>>

-----------------------------------------------------------------------------
(* The attempt *)

\* acquire() resolves, or without a protected session the headers are there.
Admitted(s) ==
    /\ stack = <<>>
    /\ sessions[s].attempt = "admitting"
    /\ sessions' = [sessions EXCEPT ![s].attempt = "connecting", ![s].lease = Protected]
    /\ leased' = IF Protected THEN leased + 1 ELSE leased
    /\ UNCHANGED <<active, status, started, failed, stack, late, closes, stable, frames, strays>>

\* The lease an acquire brings to a settled attempt is released at once.
LateLease == 0

LateAcquire ==
    /\ stack = <<>>
    /\ late > 0
    /\ late' = late - 1
    /\ leased' = leased + LateLease
    /\ UNCHANGED <<sessions, active, status, started, failed, stack, closes, stable, frames, strays>>

\* onOpen announces the open stream, then arms the idle timer.
Opens(s) ==
    /\ stack = <<>>
    /\ sessions[s].attempt = "connecting"
    /\ sessions' = [sessions EXCEPT ![s].attempt = "open"]
    /\ SetStatus("open", <<Frame("idle", s, "none")>>, <<>>)
    /\ UNCHANGED <<active, started, failed, leased, late, closes, stable, frames, strays>>

\* onFrame dispatches to the listeners, then arms the idle timer again.
Receives(s) ==
    /\ stack = <<>>
    /\ sessions[s].attempt = "open"
    /\ frames < MaxFrames
    /\ frames' = frames + 1
    /\ stack' = <<Notification, Frame("idle", s, "none")>>
    /\ UNCHANGED <<sessions, active, status, started, failed, leased, late, closes, stable, strays>>

\* Slip: the timer is armed although an observer closed the channel.
ArmIdle_Settled(session) == TRUE

ArmIdle(session) == session.attempt \in Unsettled

IdleRest ==
    /\ Resting("idle")
    /\ sessions' = [sessions EXCEPT
                       ![Head(stack).session].idle = @ \/ ArmIdle(sessions[Head(stack).session])]
    /\ stack' = Tail(stack)
    /\ UNCHANGED <<active, status, started, failed, leased, late, closes, stable, frames, strays>>

\* A stable stream ended, cleanly or by a retryable failure: the loop starts over.
EndsStable(s) ==
    /\ stack = <<>>
    /\ sessions[s].attempt = "open"
    /\ stable < MaxStable
    /\ stable' = stable + 1
    /\ Settle(s, "resolved")
    /\ UNCHANGED <<active, status, started, failed, stack, closes, frames, strays>>

\* Slip: nothing bounds an attempt that does not open.
Flapping_OpenOnly == {"open"}

Flapping == Unsettled

\* A timeout, a failed or a flapping stream: "reconnecting" is announced before it settles.
Flaps(s) ==
    /\ stack = <<>>
    /\ sessions[s].attempt \in Flapping
    /\ IF Reconnects /\ ~sessions[s].closed
         THEN SetStatus("reconnecting", <<Frame("flap", s, "retryable")>>, <<>>)
         ELSE stack' = <<Frame("flap", s, "retryable")>> /\ UNCHANGED status
    /\ UNCHANGED <<sessions, active, started, failed, leased, late, closes, stable, frames, strays>>

FlapRest ==
    /\ Resting("flap")
    /\ Settle(Head(stack).session, Head(stack).outcome)
    /\ stack' = Tail(stack)
    /\ UNCHANGED <<active, status, started, failed, closes, stable, frames, strays>>

\* Admission is refused or is cut short without a notification.
AdmissionFails(s) ==
    /\ stack = <<>>
    /\ sessions[s].attempt = "admitting"
    /\ \E outcome \in {"retryable", "fatal"} : Settle(s, outcome)
    /\ UNCHANGED <<active, status, started, failed, stack, closes, stable, frames, strays>>

\* A fatal failure, or the lifetime of the lease ends.
Fails(s) ==
    /\ stack = <<>>
    /\ sessions[s].attempt \in Unsettled
    /\ Settle(s, "fatal")
    /\ UNCHANGED <<active, status, started, failed, stack, closes, stable, frames, strays>>

\* The stream reports that the session ended: the attempt settles, then the session is invalidated.
RejectsSession(s) ==
    /\ stack = <<>>
    /\ Protected
    /\ sessions[s].attempt \in {"connecting", "open"}
    /\ Settle(s, "fatal")
    /\ strays' = (strays \/ active # s)
    /\ stack' = <<Notification>>
    /\ UNCHANGED <<active, status, started, failed, closes, stable, frames>>

-----------------------------------------------------------------------------
Rest ==
    ObserverReturns \/ CloseRest \/ FinishRest \/ AttemptRest \/ RetryRest \/ InvalidRest
        \/ IdleRest \/ FlapRest

LoopRuns(s) ==
    AttemptSettled(s) \/ CheckPasses(s) \/ CheckFails(s) \/ BackoffEnds(s) \/ BudgetEnds(s)

AttemptRuns(s) ==
    Admitted(s) \/ Opens(s) \/ Flaps(s) \/ AdmissionFails(s) \/ Fails(s) \/ RejectsSession(s)

Streams(s) == Receives(s) \/ EndsStable(s)

Next ==
    \/ Connect \/ Close \/ Rest \/ LateAcquire
    \/ \E s \in Session : LoopRuns(s) \/ AttemptRuns(s) \/ Streams(s)

\* Handlers end, acquires and checks are answered or time out, backoff timers elapse, and the
\* connect timeout ends an attempt that does not open.  Nobody has to admit, open or end a stream.
Fairness ==
    /\ WF_vars(Rest)
    /\ WF_vars(LateAcquire)
    /\ \A s \in Session :
         /\ WF_vars(LoopRuns(s))
         /\ WF_vars(sessions[s].attempt \in {"admitting", "connecting"} /\ Flaps(s))

Spec == Init /\ [][Next]_vars
FairSpec == Spec /\ Fairness

-----------------------------------------------------------------------------
TypeOK ==
    /\ sessions \in [Session -> [loop : Loop, attempt : Attempt, closed : BOOLEAN,
                                 failures : 0 .. MaxRetries, lease : BOOLEAN, idle : BOOLEAN]]
    /\ active \in {0} \union Session
    /\ status \in {"idle", "connecting", "open", "reconnecting", "closing", "closed"}
    /\ started \in BOOLEAN /\ failed \in BOOLEAN
    /\ stack \in Seq([rest : {"notify", "attempt", "close", "finish", "retry", "invalid", "idle",
                              "flap"},
                      session : {0} \union Session, outcome : Attempt])
    /\ leased \in Nat /\ late \in Nat
    /\ closes \in 0 .. MaxCloses /\ stable \in 0 .. MaxStable /\ frames \in 0 .. MaxFrames
    /\ strays \in BOOLEAN

Live(s) == sessions[s].attempt \in Unsettled

\* A stream is live for the installed session only: closing or reconnecting from within any
\* notification leaves no second one behind.
OneLiveSession == \A s \in Session : Live(s) => active = s

\* Between handlers, what observers see is what the channel does: open over an opened attempt (or
\* one that has just settled), connecting or reconnecting over a running loop, closed over none.
StatusIsTrue ==
    stack = <<>> =>
        /\ status \in {"idle", "closed"} <=> active = 0
        /\ active # 0 => ~sessions[active].closed /\ sessions[active].loop # "done"
        /\ status = "open" =>
             sessions[active].loop = "attempt"
             /\ sessions[active].attempt \notin {"admitting", "connecting"}
        /\ status \in {"connecting", "reconnecting"} => sessions[active].attempt # "open"

\* A borrowed lease is held by an unsettled attempt, and no timer outlives its attempt.
NothingLeaks ==
    /\ leased = Cardinality({s \in Session : sessions[s].lease})
    /\ \A s \in Session : sessions[s].lease \/ sessions[s].idle => Live(s)

\* Only the installed session's attempt or check may invalidate the shared session.
NoStrayInvalidation == ~strays

\* A session does not hang: it opens, or the channel settles as closed.
OpensOrCloses ==
    \A s \in Session : active = s ~> (active # s \/ sessions[s].attempt = "open")

\* Every loop ends once its session is closed, and returns every lease.
EveryEndIsComplete ==
    \A s \in Session :
        sessions[s].closed ~> (sessions[s].loop = "done" /\ ~sessions[s].lease)
=============================================================================
