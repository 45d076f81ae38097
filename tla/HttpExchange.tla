---------------------------- MODULE HttpExchange ----------------------------
(***************************************************************************)
(* One HTTP client, several of its requests, and the protected session     *)
(* they borrow: `request` of packages/http/src/exchange/client.ts over the *)
(* retry driver (packages/std/src/resilience/retry.ts), the per-attempt    *)
(* timeout and the abort race (resilience/timeout.ts).                     *)
(*                                                                         *)
(* A call is a sequence of attempts.  An attempt first acquires a lease on *)
(* the session (outside the try block: a rejected acquire invalidates      *)
(* nothing), then sends, then is answered, and always returns its lease.   *)
(* It is ABANDONED when its timeout, the total budget, the caller or the   *)
(* end of the leased session wins the race: the call goes on without it,   *)
(* but the work itself is not stopped, so an acquire can still succeed     *)
(* and an answer can still arrive for an attempt nobody listens to.        *)
(*                                                                         *)
(* Time is a set of countdown timers: Tick lowers them together, and never *)
(* passes a timer that is due.  A step ends with the promise continuations *)
(* it causes: the microtasks between a settled promise and the catch block *)
(* that awaits it are not split, since nothing else of this program runs   *)
(* between them (a timer or a response is a task of its own).              *)
(*                                                                         *)
(* Left out: building and guarding the URL, the codec, the interceptor     *)
(* chain (its outcome is one of the answers) and what an error carries.    *)
(***************************************************************************)
EXTENDS Naturals

CONSTANTS
  Calls,          \* requests made through the client
  MaxAttempts,    \* RetryPolicy.maxAttempts
  Budget,         \* RetryPolicy.budgetMs, in ticks
  AttemptTime,    \* timeoutMs of one attempt, in ticks
  Waits,          \* delays retryDelay can return: backoff, jitter, Retry-After
  MaxEpochs       \* bound: sessions that begin or end

ASSUME HttpAssumption ==
  /\ MaxAttempts \in Nat \ {0}
  /\ Budget \in Nat \ {0}
  /\ AttemptTime \in Nat \ {0}
  /\ Waits \subseteq Nat
  /\ MaxEpochs \in Nat

VARIABLES
  calls,      \* calls[c]: where a request stands
  attempts,   \* attempts[c][k]: its k-th attempt
  session     \* the protected session: its generation and whether it is alive

vars == <<calls, attempts, session>>

\* "single": no retry policy.  "write": a policy, but not idempotent.
\* "read": a policy and an idempotent method.
Policies == {"single", "write", "read"}
Answers  == {"data", "auth", "fatal", "transient"}
Outcomes == Answers \union {"none", "aborted"}
NoLease  == MaxEpochs + 1
Attempts == 1 .. MaxAttempts

-----------------------------------------------------------------------------
(* State *)

Call == [policy : Policies, at : {"idle", "attempting", "waiting", "over"},
         n : 0 .. MaxAttempts, left : 0 .. Budget, timer : Nat,
         outcome : Outcomes]

Attempt == [at : {"unused", "acquiring", "sent", "settled"},
            epoch : 0 .. MaxEpochs, lease : 0 .. NoLease, out : BOOLEAN]

Unused == [at |-> "unused", epoch |-> 0, lease |-> NoLease, out |-> FALSE]

Init ==
  /\ calls \in [Calls -> {[policy |-> p, at |-> "idle", n |-> 0, left |-> 0,
                           timer |-> 0, outcome |-> "none"] : p \in Policies}]
  /\ attempts = [c \in Calls |-> [k \in Attempts |-> Unused]]
  /\ session = [epoch |-> 0, alive |-> TRUE]

\* The attempt whose promise the call awaits.
Awaited(c, k) == calls[c].at = "attempting" /\ calls[c].n = k

Running(c) == calls[c].at \in {"attempting", "waiting"}

\* The total budget exists only under a retry policy.
Budgeted(c) == calls[c].policy # "single"

-----------------------------------------------------------------------------
(* What the helpers of the source do to a call and to its attempts *)

Begin(c, n, left) ==
  [calls[c] EXCEPT !.at = "attempting", !.n = n, !.left = left,
                   !.timer = AttemptTime]

Ended(c, outcome) ==
  [calls[c] EXCEPT !.at = "over", !.left = 0, !.timer = 0, !.outcome = outcome]

Acquiring == [Unused EXCEPT !.at = "acquiring", !.epoch = session.epoch]

\* The abandoned attempt: the abort reaches the race, whose loser runs the
\* catch and the finally block; an acquire under way is merely not awaited.
Abandoned(a) ==
  IF a.at = "sent" THEN [a EXCEPT !.at = "settled", !.lease = NoLease] ELSE a

\* The attempt that was answered or whose acquire rejected.
Settled(a) == [a EXCEPT !.at = "settled", !.lease = NoLease, !.out = FALSE]

\* A wait that would outlast the budget is not begun.
Worthwhile(c, w) == w < calls[c].left

\* Whether a retryable failure of the current attempt is retried.
Retries(c, w) ==
  /\ calls[c].policy = "read"
  /\ calls[c].n < MaxAttempts
  /\ Worthwhile(c, w)

\* The call after its current attempt failed with a retryable error.
AfterFailure(c, w) ==
  IF Retries(c, w)
  THEN [calls[c] EXCEPT !.at = "waiting", !.timer = w]
  ELSE Ended(c, "transient")

\* Slip: the lease's signal is not part of the attempt's signal.
CutOff_Nobody(c, epoch) == FALSE

\* A call whose attempt runs under the session that ends.
CutOff(c, epoch) ==
  /\ calls[c].at = "attempting"
  /\ attempts[c][calls[c].n].at = "sent"
  /\ attempts[c][calls[c].n].lease = epoch

\* The session moves to its next generation: the lifetime signal of the
\* old one aborts every attempt leased on it.  `ended`: the call, if any,
\* that the same step ends in its own way.
EndSession(alive, ended) ==
  /\ session.epoch < MaxEpochs
  /\ session' = [epoch |-> session.epoch + 1, alive |-> alive]
  /\ calls' = [c \in Calls |->
       IF c \in DOMAIN ended THEN ended[c]
       ELSE IF CutOff(c, session.epoch) THEN Ended(c, "aborted") ELSE calls[c]]
  /\ attempts' = [c \in Calls |-> [k \in Attempts |->
       LET a == attempts[c][k]
       IN  IF ~Awaited(c, k) THEN a
           ELSE IF c \in DOMAIN ended THEN Settled(a)
           ELSE IF CutOff(c, session.epoch) THEN Abandoned(a) ELSE a]]

-----------------------------------------------------------------------------
(* The call *)

\* request(): the first attempt starts with the deadline.
Start(c) ==
  /\ calls[c].at = "idle"
  /\ calls' = [calls EXCEPT ![c] =
                 Begin(c, 1, IF Budgeted(c) THEN Budget ELSE 0)]
  /\ attempts' = [attempts EXCEPT ![c][1] = Acquiring]
  /\ UNCHANGED session

\* The wait is over: the next attempt.
Wake(c) ==
  /\ calls[c].at = "waiting" /\ calls[c].timer = 0
  /\ calls' = [calls EXCEPT ![c] = Begin(c, calls[c].n + 1, calls[c].left)]
  /\ attempts' = [attempts EXCEPT ![c][calls[c].n + 1] = Acquiring]
  /\ UNCHANGED session

\* Slip: the attempt's clock starts only once its lease is there.
TimesOut_OnceSent(c) ==
  /\ calls[c].at = "attempting" /\ calls[c].timer = 0
  /\ attempts[c][calls[c].n].at = "sent"

TimesOut(c) == calls[c].at = "attempting" /\ calls[c].timer = 0

\* The attempt's own timeout: retryable, and the attempt is abandoned.
Timeout(c) ==
  /\ TimesOut(c)
  /\ \E w \in Waits : calls' = [calls EXCEPT ![c] = AfterFailure(c, w)]
  /\ attempts' = [attempts EXCEPT ![c][calls[c].n] = Abandoned(@)]
  /\ UNCHANGED session

\* The caller's signal or the deadline aborts an attempt or a wait.
Abort(c) ==
  /\ calls' = [calls EXCEPT ![c] = Ended(c, "aborted")]
  /\ attempts' = [attempts EXCEPT ![c][calls[c].n] = Abandoned(@)]
  /\ UNCHANGED session

Deadline(c) ==
  /\ Running(c) /\ Budgeted(c) /\ calls[c].left = 0
  /\ Abort(c)

CallerAbort(c) == Running(c) /\ Abort(c)

-----------------------------------------------------------------------------
(* The attempt *)

\* Slip: a lease that arrives late is used and kept.
Leased_Late(c, k) ==
  [attempts[c][k] EXCEPT !.at = "sent", !.lease = session.epoch, !.out = TRUE]

\* What an acquired lease becomes: the request goes out under it, unless
\* the attempt was abandoned meanwhile - the signal is already aborted,
\* fetch sends nothing and the finally block returns the lease.
Leased(c, k) ==
  IF Awaited(c, k)
  THEN [attempts[c][k] EXCEPT !.at = "sent", !.lease = session.epoch, !.out = TRUE]
  ELSE Settled(attempts[c][k])

\* protectedSession.acquire resolves, under the generation it began in.
Acquired(c, k) ==
  /\ attempts[c][k].at = "acquiring"
  /\ session.alive /\ attempts[c][k].epoch = session.epoch
  /\ attempts' = [attempts EXCEPT ![c][k] = Leased(c, k)]
  /\ UNCHANGED <<calls, session>>

\* acquire rejects: no session, a session that changed meanwhile, or a
\* failed revalidation, which may be worth a retry.
AcquireFails(c, k) ==
  /\ attempts[c][k].at = "acquiring"
  /\ attempts' = [attempts EXCEPT ![c][k] = Settled(@)]
  /\ IF Awaited(c, k)
     THEN \/ calls' = [calls EXCEPT ![c] = Ended(c, "fatal")]
          \/ \E w \in Waits : calls' = [calls EXCEPT ![c] = AfterFailure(c, w)]
     ELSE UNCHANGED calls
  /\ UNCHANGED session

\* Slip: an answer counts for the call it belongs to, abandoned or not.
Heard_Late(c, k) == Running(c)

\* The race is still on: the attempt is awaited and its signal not aborted.
Heard(c, k) == Awaited(c, k) /\ attempts[c][k].at = "sent"

\* The request of an abandoned attempt settles: nobody listens.
LateAnswer(c, k) ==
  /\ attempts[c][k].out /\ ~Heard(c, k)
  /\ attempts' = [attempts EXCEPT ![c][k].out = FALSE]
  /\ UNCHANGED <<calls, session>>

\* An answer the call sees: its value, a fatal or a retryable failure.
Answer(c, k) ==
  /\ attempts[c][k].out /\ Heard(c, k)
  /\ attempts' = [attempts EXCEPT ![c][k] = Settled(@)]
  /\ \/ \E outcome \in {"data", "fatal"} :
          calls' = [calls EXCEPT ![c] = Ended(c, outcome)]
     \/ \E w \in Waits : calls' = [calls EXCEPT ![c] = AfterFailure(c, w)]
  /\ UNCHANGED session

\* An authentication failure the call sees: it invalidates the session,
\* which aborts whatever else is leased on it, and ends the call.
Rejected(c, k) ==
  /\ attempts[c][k].out /\ Heard(c, k)
  /\ EndSession(FALSE, [x \in {c} |-> Ended(x, "auth")])

-----------------------------------------------------------------------------
(* The session store and the clock *)

NoCall == [x \in {} |-> Unused]

\* Another part of the program signs in, or ends the session.
Login      == EndSession(TRUE, NoCall)
SessionEnds == session.alive /\ EndSession(FALSE, NoCall)

Due(c) == Running(c) /\ (calls[c].timer = 0 \/ (Budgeted(c) /\ calls[c].left = 0))

Tick ==
  /\ \E c \in Calls : Running(c)
  /\ \A c \in Calls : ~Due(c)
  /\ calls' = [c \in Calls |->
       IF Running(c)
       THEN [calls[c] EXCEPT !.timer = @ - 1,
                             !.left = IF Budgeted(c) THEN @ - 1 ELSE @]
       ELSE calls[c]]
  /\ UNCHANGED <<attempts, session>>

Next ==
  \/ \E c \in Calls :
       \/ Start(c) \/ Wake(c) \/ Timeout(c) \/ Deadline(c) \/ CallerAbort(c)
       \/ \E k \in Attempts :
            \/ Acquired(c, k) \/ AcquireFails(c, k)
            \/ Answer(c, k) \/ LateAnswer(c, k) \/ Rejected(c, k)
  \/ Login \/ SessionEnds
  \/ Tick

Spec == Init /\ [][Next]_vars

\* The host's timers fire: nothing else has to happen.
Timers ==
  /\ WF_vars(Tick)
  /\ \A c \in Calls :
       WF_vars(Wake(c)) /\ WF_vars(Timeout(c)) /\ WF_vars(Deadline(c))

FairSpec == Spec /\ Timers

-----------------------------------------------------------------------------
(* Properties *)

\* Every variable keeps its shape.
TypeOK ==
  /\ calls \in [Calls -> Call]
  /\ attempts \in [Calls -> [Attempts -> Attempt]]
  /\ session \in [epoch : 0 .. MaxEpochs, alive : BOOLEAN]

\* A lease is held only by the attempt its call awaits, and only under the
\* session that is alive: every way out of an attempt - an answer, a
\* timeout, the budget, the caller, a lease that comes too late, the end
\* of the session - has given it back.
LeasesReturn ==
  \A c \in Calls, k \in Attempts :
    attempts[c][k].lease # NoLease =>
      /\ Awaited(c, k)
      /\ session.alive /\ attempts[c][k].lease = session.epoch

\* A wait always ends before the budget does: the driver never sleeps only
\* to be cut off by the deadline.
WaitsAreUseful ==
  \A c \in Calls : calls[c].at = "waiting" => calls[c].timer < calls[c].left

\* A call resolves with data only in the step that answers the attempt it
\* awaits, under the session that attempt was sent with and that is still
\* alive: no abandoned attempt and no ended session supplies the result.
NoStaleSuccess ==
  [][\A c \in Calls :
       (calls'[c].outcome = "data" /\ calls[c].outcome # "data") =>
         LET a == attempts[c][calls[c].n]
         IN  /\ calls[c].at = "attempting" /\ a.at = "sent"
             /\ session.alive /\ a.lease = session.epoch]_vars

\* An authentication failure ends only the session it was about: an answer
\* from an earlier session never signs the newer one out.
SparesNewerSession ==
  [][\A c \in Calls :
       (calls'[c].outcome = "auth" /\ calls[c].outcome # "auth") =>
         attempts[c][calls[c].n].lease = session.epoch /\ session.alive]_vars

\* Every call ends, whatever the server, the session and the caller do.
CallEnds ==
  \A c \in Calls : calls[c].at = "attempting" ~> calls[c].at = "over"
=============================================================================
