-------------------------- MODULE HttpExchangeProofs --------------------------
(***************************************************************************)
(* The safety of HttpExchange for any number of calls and attempts, any    *)
(* policy and any session life.  What carries it: an attempt that was sent *)
(* is the one its call awaits and holds the lease of the session that is   *)
(* alive; every step that makes one of the three false settles it.         *)
(***************************************************************************)
EXTENDS HttpExchange, TLAPS

\* A call under way has made an attempt; one that waits will make another, and in time.
GoodCall(call) ==
  /\ call.at \in {"attempting", "waiting"} => call.n \in Attempts
  /\ call.at = "waiting" =>
       call.policy = "read" /\ call.n < MaxAttempts /\ call.timer < call.left

\* The k-th attempt of a call: sent only while awaited, under the session that is alive.
GoodAttempt(call, k, a) ==
  IF a.at = "sent"
  THEN /\ call.at = "attempting" /\ call.n = k
       /\ session.alive /\ a.lease = session.epoch
  ELSE a.lease = NoLease

IInv ==
  /\ TypeOK
  /\ \A c \in Calls : GoodCall(calls[c])
  /\ \A c \in Calls, k \in Attempts : GoodAttempt(calls[c], k, attempts[c][k])

-----------------------------------------------------------------------------
LEMMA Sizes ==
  /\ MaxAttempts \in Nat /\ MaxAttempts > 0 /\ 1 \in Attempts
  /\ Budget \in Nat /\ AttemptTime \in Nat /\ Waits \subseteq Nat
  /\ MaxEpochs \in Nat /\ NoLease \notin 0 .. MaxEpochs /\ NoLease \in 0 .. NoLease
BY HttpAssumption DEF Attempts, NoLease

LEMMA InitIInv == Init => IInv
<1>. SUFFICES ASSUME Init PROVE IInv
  OBVIOUS
<1>1. Unused \in Attempt
  BY Sizes DEF Unused, Attempt
<1>2. ASSUME NEW p \in Policies
      PROVE  [policy |-> p, at |-> "idle", n |-> 0, left |-> 0, timer |-> 0, outcome |-> "none"]
               \in [policy : Policies, at : {"idle"}, n : {0}, left : {0}, timer : {0},
                   outcome : {"none"}]
  OBVIOUS
<1>3. calls \in [Calls -> [policy : Policies, at : {"idle"}, n : {0}, left : {0}, timer : {0},
                          outcome : {"none"}]]
  BY <1>2 DEF Init
<1>8. calls \in [Calls -> Call]
  BY <1>3, Sizes DEF Call, Outcomes
<1>4. TypeOK
  BY <1>1, <1>8, Sizes DEF Init, TypeOK
<1>5. \A c \in Calls : GoodCall(calls[c])
  BY <1>3 DEF GoodCall
<1>6. \A c \in Calls, k \in Attempts : GoodAttempt(calls[c], k, attempts[c][k])
  BY DEF Init, GoodAttempt, Unused
<1>. QED
  BY <1>4, <1>5, <1>6 DEF IInv

\* A step of one call: it and one of its attempts change, the session does not.
LEMMA OneCallStep ==
  ASSUME IInv, UNCHANGED session,
         NEW c \in Calls, NEW k \in Attempts, NEW call \in Call, NEW a \in Attempt,
         calls' = [calls EXCEPT ![c] = call],
         attempts' = [attempts EXCEPT ![c][k] = a],
         GoodCall(call), GoodAttempt(call, k, a),
         \A j \in Attempts \ {k} :
           attempts[c][j].at = "sent" => call.at = "attempting" /\ call.n = j
  PROVE  IInv'
<1>1. \A d \in Calls : calls'[d] = IF d = c THEN call ELSE calls[d]
  BY DEF IInv, TypeOK
<1>2. \A d \in Calls, j \in Attempts :
        attempts'[d][j] = IF d = c /\ j = k THEN a ELSE attempts[d][j]
  BY DEF IInv, TypeOK
<1>3. TypeOK'
  <2>1. calls' \in [Calls -> Call]
    BY DEF IInv, TypeOK
  <2>2. attempts' \in [Calls -> [Attempts -> Attempt]]
    BY DEF IInv, TypeOK
  <2>. QED
    BY <2>1, <2>2 DEF IInv, TypeOK
<1>4. \A d \in Calls : GoodCall(calls[d])'
  BY <1>1 DEF IInv, GoodCall
<1>5. \A d \in Calls, j \in Attempts : GoodAttempt(calls[d], j, attempts[d][j])'
  BY <1>1, <1>2 DEF IInv, GoodAttempt
<1>. QED
  BY <1>3, <1>4, <1>5 DEF IInv

\* The calls the helpers return.
LEMMA Endings ==
  ASSUME IInv, NEW c \in Calls, NEW outcome \in Outcomes
  PROVE  Ended(c, outcome) \in Call /\ Ended(c, outcome).at = "over"
<1>1. calls[c] \in Call
  BY DEF IInv, TypeOK
<1>2. 0 \in 0 .. Budget /\ 0 \in Nat
  BY Sizes
<1>. QED
  BY <1>1, <1>2 DEF Call, Ended

LEMMA Failures ==
  ASSUME IInv, NEW c \in Calls, NEW w \in Waits, calls[c].at = "attempting"
  PROVE  /\ AfterFailure(c, w) \in Call /\ GoodCall(AfterFailure(c, w))
         /\ AfterFailure(c, w).at # "attempting"
<1>1. CASE ~Retries(c, w)
  <2>1. "transient" \in Outcomes
    BY DEF Outcomes, Answers
  <2>. QED
    BY <1>1, <2>1, Endings DEF AfterFailure, GoodCall
<1>2. CASE Retries(c, w)
  <2>1. w \in Nat
    BY Sizes
  <2>2. AfterFailure(c, w) = [calls[c] EXCEPT !.at = "waiting", !.timer = w]
    BY <1>2 DEF AfterFailure
  <2>3. calls[c] \in Call /\ GoodCall(calls[c])
    BY DEF IInv, TypeOK
  <2>. QED
    BY <1>2, <2>1, <2>2, <2>3 DEF GoodCall, Call, Retries, Worthwhile
<1>. QED
  BY <1>1, <1>2

\* What an attempt becomes when nobody awaits it any more.
LEMMA Attempted ==
  ASSUME IInv, NEW c \in Calls, NEW k \in Attempts
  PROVE  /\ attempts[c][k] \in Attempt
         /\ Settled(attempts[c][k]) \in Attempt /\ Abandoned(attempts[c][k]) \in Attempt
         /\ Settled(attempts[c][k]).at # "sent" /\ Abandoned(attempts[c][k]).at # "sent"
         /\ Settled(attempts[c][k]).lease = NoLease /\ Abandoned(attempts[c][k]).lease = NoLease
<1>1. attempts[c][k] \in Attempt /\ GoodAttempt(calls[c], k, attempts[c][k])
  BY DEF IInv, TypeOK
<1>. QED
  BY <1>1, Sizes DEF Settled, Abandoned, Attempt, GoodAttempt

LEMMA OnlyTheAwaited ==
  ASSUME IInv, NEW c \in Calls, NEW k \in Attempts, attempts[c][k].at = "sent"
  PROVE  /\ calls[c].at = "attempting" /\ calls[c].n = k
         /\ session.alive /\ attempts[c][k].lease = session.epoch
BY DEF IInv, GoodAttempt

-----------------------------------------------------------------------------
\* The call leaves its current attempt, which is abandoned or settled.
LEMMA LeaveStep ==
  ASSUME IInv, UNCHANGED session, NEW c \in Calls, NEW call \in Call, NEW a \in Attempt,
         calls[c].n \in Attempts,
         calls' = [calls EXCEPT ![c] = call],
         attempts' = [attempts EXCEPT ![c][calls[c].n] = a],
         GoodCall(call), a.at # "sent", a.lease = NoLease
  PROVE  IInv'
<1>1. GoodAttempt(call, calls[c].n, a)
  BY DEF GoodAttempt
<1>2. \A j \in Attempts \ {calls[c].n} : attempts[c][j].at # "sent"
  BY OnlyTheAwaited
<1>. QED
  BY <1>1, <1>2, OneCallStep

LEMMA AbandonStep ==
  ASSUME IInv, UNCHANGED session, NEW c \in Calls, NEW call \in Call,
         calls[c].n \in Attempts,
         calls' = [calls EXCEPT ![c] = call], GoodCall(call),
         attempts' = [attempts EXCEPT ![c][calls[c].n] = Abandoned(@)]
  PROVE  IInv'
<1>. DEFINE a == Abandoned(attempts[c][calls[c].n])
<1>1. a \in Attempt /\ a.at # "sent" /\ a.lease = NoLease
  BY Attempted
<1>2. attempts' = [attempts EXCEPT ![c][calls[c].n] = a]
  BY DEF IInv, TypeOK
<1>. HIDE DEF a
<1>. QED
  BY <1>1, <1>2, LeaveStep

LEMMA SettleStep ==
  ASSUME IInv, UNCHANGED session, NEW c \in Calls, NEW call \in Call,
         calls[c].n \in Attempts,
         calls' = [calls EXCEPT ![c] = call], GoodCall(call),
         attempts' = [attempts EXCEPT ![c][calls[c].n] = Settled(@)]
  PROVE  IInv'
<1>. DEFINE a == Settled(attempts[c][calls[c].n])
<1>1. a \in Attempt /\ a.at # "sent" /\ a.lease = NoLease
  BY Attempted
<1>2. attempts' = [attempts EXCEPT ![c][calls[c].n] = a]
  BY DEF IInv, TypeOK
<1>. HIDE DEF a
<1>. QED
  BY <1>1, <1>2, LeaveStep

\* The call turns to a new attempt.
LEMMA BeginStep ==
  ASSUME IInv, UNCHANGED session, NEW c \in Calls, NEW n \in Attempts, NEW left \in 0 .. Budget,
         calls[c].at # "attempting",
         calls' = [calls EXCEPT ![c] = Begin(c, n, left)],
         attempts' = [attempts EXCEPT ![c][n] = Acquiring]
  PROVE  IInv'
<1>1. calls[c] \in Call
  BY DEF IInv, TypeOK
<1>5. n \in 0 .. MaxAttempts
  BY Sizes DEF Attempts
<1>2. Begin(c, n, left) \in Call /\ GoodCall(Begin(c, n, left))
  BY <1>1, <1>5, Sizes DEF Begin, Call, GoodCall
<1>3. Acquiring \in Attempt /\ GoodAttempt(Begin(c, n, left), n, Acquiring)
  BY Sizes DEF IInv, TypeOK, Acquiring, Unused, Attempt, GoodAttempt
<1>4. \A j \in Attempts : attempts[c][j].at # "sent"
  BY OnlyTheAwaited
<1>. QED
  BY <1>2, <1>3, <1>4, OneCallStep

\* The end of the session settles every attempt that was sent.
LEMMA EndSessionStep ==
  ASSUME IInv, NEW alive \in BOOLEAN, NEW ended,
         \A c \in Calls \intersect DOMAIN ended : ended[c] \in Call /\ ended[c].at = "over",
         EndSession(alive, ended)
  PROVE  IInv'
<1>. DEFINE call(c) == IF c \in DOMAIN ended THEN ended[c]
                       ELSE IF CutOff(c, session.epoch) THEN Ended(c, "aborted") ELSE calls[c]
            attempt(c, k) == IF ~Awaited(c, k) THEN attempts[c][k]
                             ELSE IF c \in DOMAIN ended THEN Settled(attempts[c][k])
                             ELSE IF CutOff(c, session.epoch) THEN Abandoned(attempts[c][k])
                             ELSE attempts[c][k]
<1>1. \A c \in Calls : call(c) \in Call /\ GoodCall(call(c))
  <2>1. "aborted" \in Outcomes
    BY DEF Outcomes
  <2>2. \A c \in Calls : calls[c] \in Call /\ GoodCall(calls[c])
    BY DEF IInv, TypeOK
  <2>. QED
    BY <2>1, <2>2, Endings DEF GoodCall
<1>2. \A c \in Calls, k \in Attempts :
        attempt(c, k) \in Attempt /\ attempt(c, k).at # "sent" /\ attempt(c, k).lease = NoLease
  <2>. SUFFICES ASSUME NEW c \in Calls, NEW k \in Attempts
                PROVE  /\ attempt(c, k) \in Attempt
                       /\ attempt(c, k).at # "sent" /\ attempt(c, k).lease = NoLease
    OBVIOUS
  <2>1. CASE attempts[c][k].at = "sent"
    <3>1. Awaited(c, k) /\ CutOff(c, session.epoch)
      BY <2>1, OnlyTheAwaited DEF Awaited, CutOff
    <3>. QED
      BY <3>1, Attempted
  <2>2. CASE attempts[c][k].at # "sent"
    <3>1. attempts[c][k] \in Attempt /\ attempts[c][k].lease = NoLease
      BY <2>2 DEF IInv, TypeOK, GoodAttempt
    <3>. QED
      BY <2>2, <3>1, Attempted
  <2>. QED
    BY <2>1, <2>2
<1>3. calls' = [c \in Calls |-> call(c)]
  BY DEF EndSession
<1>4. attempts' = [c \in Calls |-> [k \in Attempts |-> attempt(c, k)]]
  BY DEF EndSession
<1>. HIDE DEF call, attempt
<1>5. session' \in [epoch : 0 .. MaxEpochs, alive : BOOLEAN]
  BY Sizes DEF EndSession, IInv, TypeOK
<1>6. TypeOK'
  BY <1>1, <1>2, <1>3, <1>4, <1>5 DEF TypeOK
<1>7. \A c \in Calls : GoodCall(calls[c])'
  BY <1>1, <1>3 DEF GoodCall
<1>8. \A c \in Calls, k \in Attempts : GoodAttempt(calls[c], k, attempts[c][k])'
  BY <1>2, <1>4 DEF GoodAttempt
<1>. QED
  BY <1>6, <1>7, <1>8 DEF IInv

LEMMA TickStep == ASSUME IInv, Tick PROVE IInv'
<1>. DEFINE call(c) == IF Running(c)
                       THEN [calls[c] EXCEPT !.timer = @ - 1,
                                             !.left = IF Budgeted(c) THEN @ - 1 ELSE @]
                       ELSE calls[c]
<1>1. ASSUME NEW c \in Calls
      PROVE  /\ call(c) \in Call /\ GoodCall(call(c))
             /\ call(c).at = calls[c].at /\ call(c).n = calls[c].n
  <2>1. calls[c] \in Call /\ GoodCall(calls[c])
    BY DEF IInv, TypeOK
  <2>2. CASE ~Running(c)
    BY <2>1, <2>2
  <2>3. CASE Running(c)
    <3>1. calls[c].timer # 0 /\ (Budgeted(c) => calls[c].left # 0)
      BY <2>3 DEF Tick, Due
    <3>2. calls[c].timer - 1 \in Nat /\ (Budgeted(c) => calls[c].left - 1 \in 0 .. Budget)
      BY <2>1, <3>1, Sizes DEF Call
    <3>3. calls[c].at = "waiting" => Budgeted(c)
      BY <2>1 DEF GoodCall, Budgeted
    <3>4. calls[c].timer < calls[c].left => calls[c].timer - 1 < calls[c].left - 1
      BY <2>1, Sizes DEF Call
    <3>. QED
      BY <2>1, <2>3, <3>2, <3>3, <3>4 DEF Call, GoodCall
  <2>. QED
    BY <2>2, <2>3
<1>2. calls' = [c \in Calls |-> call(c)] /\ UNCHANGED <<attempts, session>>
  BY DEF Tick
<1>. HIDE DEF call
<1>3. TypeOK'
  BY <1>1, <1>2 DEF IInv, TypeOK
<1>4. \A c \in Calls : GoodCall(calls[c])'
  BY <1>1, <1>2 DEF GoodCall
<1>5. \A c \in Calls, k \in Attempts : GoodAttempt(calls[c], k, attempts[c][k])'
  BY <1>1, <1>2 DEF IInv, GoodAttempt
<1>. QED
  BY <1>3, <1>4, <1>5 DEF IInv

-----------------------------------------------------------------------------
LEMMA CallSteps ==
  ASSUME IInv, NEW c \in Calls,
         Start(c) \/ Wake(c) \/ Timeout(c) \/ Deadline(c) \/ CallerAbort(c)
  PROVE  IInv'
<1>1. calls[c] \in Call /\ GoodCall(calls[c])
  BY DEF IInv, TypeOK
<1>2. CASE Start(c)
  <2>1. (IF Budgeted(c) THEN Budget ELSE 0) \in 0 .. Budget
    BY Sizes
  <2>. QED
    BY <1>2, <2>1, BeginStep, Sizes DEF Start
<1>3. CASE Wake(c)
  <2>1. calls[c].n + 1 \in Attempts /\ calls[c].left \in 0 .. Budget
    BY <1>1, <1>3, Sizes DEF Wake, GoodCall, Attempts, Call
  <2>. QED
    BY <1>3, <2>1, BeginStep DEF Wake
<1>4. CASE Timeout(c)
  <2>1. calls[c].at = "attempting" /\ calls[c].n \in Attempts
    BY <1>1, <1>4 DEF Timeout, TimesOut, GoodCall
  <2>2. PICK w \in Waits : calls' = [calls EXCEPT ![c] = AfterFailure(c, w)]
    BY <1>4 DEF Timeout
  <2>3. AfterFailure(c, w) \in Call /\ GoodCall(AfterFailure(c, w))
    BY <2>1, Failures
  <2>. QED
    BY <1>4, <2>1, <2>2, <2>3, AbandonStep DEF Timeout
<1>5. CASE Running(c) /\ Abort(c)
  <2>1. calls[c].n \in Attempts
    BY <1>1, <1>5 DEF Running, GoodCall
  <2>2. "aborted" \in Outcomes
    BY DEF Outcomes
  <2>3. Ended(c, "aborted") \in Call /\ GoodCall(Ended(c, "aborted"))
    BY <2>2, Endings DEF GoodCall
  <2>. QED
    BY <1>5, <2>1, <2>3, AbandonStep DEF Abort
<1>. QED
  BY <1>2, <1>3, <1>4, <1>5 DEF Deadline, CallerAbort

LEMMA AttemptSteps ==
  ASSUME IInv, NEW c \in Calls, NEW k \in Attempts,
         Acquired(c, k) \/ AcquireFails(c, k) \/ Answer(c, k) \/ LateAnswer(c, k)
  PROVE  IInv'
<1>1. /\ calls[c] \in Call /\ GoodCall(calls[c])
      /\ attempts[c][k] \in Attempt /\ GoodAttempt(calls[c], k, attempts[c][k])
  BY DEF IInv, TypeOK
<1>2. \A j \in Attempts :
        attempts[c][j].at = "sent" => calls[c].at = "attempting" /\ calls[c].n = j
  BY OnlyTheAwaited
<1>3. ASSUME UNCHANGED calls PROVE calls' = [calls EXCEPT ![c] = calls[c]]
  BY <1>3 DEF IInv, TypeOK
<1>4. CASE Acquired(c, k)
  <2>1. Leased(c, k) \in Attempt /\ GoodAttempt(calls[c], k, Leased(c, k))
    <3>1. CASE Awaited(c, k)
      <4>1. session.epoch \in 0 .. NoLease /\ session.alive
        BY <1>4, Sizes DEF Acquired, IInv, TypeOK, NoLease
      <4>2. Leased(c, k) = [attempts[c][k] EXCEPT !.at = "sent", !.lease = session.epoch,
                                                  !.out = TRUE]
        BY <3>1 DEF Leased
      <4>. QED
        BY <1>1, <3>1, <4>1, <4>2 DEF Awaited, Attempt, GoodAttempt
    <3>2. CASE ~Awaited(c, k)
      BY <3>2, Attempted DEF Leased, GoodAttempt
    <3>. QED
      BY <3>1, <3>2
  <2>2. attempts' = [attempts EXCEPT ![c][k] = Leased(c, k)] /\ UNCHANGED <<calls, session>>
    BY <1>4 DEF Acquired
  <2>. QED
    BY <1>1, <1>2, <1>3, <2>1, <2>2, OneCallStep, ZenonT(40)
<1>5. CASE LateAnswer(c, k)
  <2>. DEFINE a == [attempts[c][k] EXCEPT !.out = FALSE]
  <2>1. a \in Attempt /\ GoodAttempt(calls[c], k, a)
    BY <1>1 DEF Attempt, GoodAttempt
  <2>2. attempts' = [attempts EXCEPT ![c][k] = a]
    BY <1>5 DEF LateAnswer, IInv, TypeOK
  <2>3. UNCHANGED <<calls, session>>
    BY <1>5 DEF LateAnswer
  <2>. QED
    BY <1>1, <1>2, <1>3, <2>1, <2>2, <2>3, OneCallStep, ZenonT(40)
<1>6. ASSUME attempts' = [attempts EXCEPT ![c][k] = Settled(@)],
             UNCHANGED session, Awaited(c, k),
             \/ \E outcome \in Outcomes : calls' = [calls EXCEPT ![c] = Ended(c, outcome)]
             \/ \E w \in Waits : calls' = [calls EXCEPT ![c] = AfterFailure(c, w)]
      PROVE  IInv'
  <2>1. k = calls[c].n /\ calls[c].at = "attempting"
    BY <1>6 DEF Awaited
  <2>2. ASSUME NEW outcome \in Outcomes
        PROVE  Ended(c, outcome) \in Call /\ GoodCall(Ended(c, outcome))
    BY Endings DEF GoodCall
  <2>3. ASSUME NEW w \in Waits
        PROVE  AfterFailure(c, w) \in Call /\ GoodCall(AfterFailure(c, w))
    BY <2>1, Failures
  <2>4. PICK call \in Call : calls' = [calls EXCEPT ![c] = call] /\ GoodCall(call)
    BY <1>6, <2>2, <2>3
  <2>. QED
    BY <1>6, <2>1, <2>4, SettleStep
<1>8. {"data", "fatal"} \subseteq Outcomes
  BY DEF Outcomes, Answers
<1>9. CASE Answer(c, k)
  BY <1>6, <1>8, <1>9 DEF Answer, Heard
<1>10. CASE AcquireFails(c, k)
  <2>1. CASE Awaited(c, k)
    BY <1>6, <1>8, <1>10, <2>1 DEF AcquireFails
  <2>2. CASE ~Awaited(c, k)
    <3>1. UNCHANGED <<calls, session>>
      BY <1>10, <2>2 DEF AcquireFails
    <3>2. Settled(attempts[c][k]) \in Attempt
          /\ GoodAttempt(calls[c], k, Settled(attempts[c][k]))
      BY Attempted DEF GoodAttempt
    <3>3. attempts' = [attempts EXCEPT ![c][k] = Settled(attempts[c][k])]
      BY <1>10 DEF AcquireFails, IInv, TypeOK
    <3>. QED
      BY <1>1, <1>2, <1>3, <3>1, <3>2, <3>3, OneCallStep, ZenonT(40)
  <2>. QED
    BY <2>1, <2>2
<1>. QED
  BY <1>4, <1>5, <1>9, <1>10

LEMMA SessionSteps ==
  ASSUME IInv,
         Login \/ SessionEnds \/ \E c \in Calls, k \in Attempts : Rejected(c, k)
  PROVE  IInv'
<1>1. CASE Login \/ SessionEnds
  BY <1>1, EndSessionStep DEF Login, SessionEnds, NoCall
<1>2. ASSUME NEW c \in Calls, NEW k \in Attempts, Rejected(c, k) PROVE IInv'
  <2>. DEFINE ended == [x \in {c} |-> Ended(x, "auth")]
  <2>1. "auth" \in Outcomes
    BY DEF Outcomes, Answers
  <2>2. \A x \in Calls \intersect DOMAIN ended : ended[x] \in Call /\ ended[x].at = "over"
    BY <2>1, Endings
  <2>3. EndSession(FALSE, ended)
    BY <1>2 DEF Rejected
  <2>. HIDE DEF ended
  <2>. QED
    BY <2>2, <2>3, EndSessionStep
<1>. QED
  BY <1>1, <1>2

LEMMA StepIInv == IInv /\ [Next]_vars => IInv'
<1>. SUFFICES ASSUME IInv, [Next]_vars PROVE IInv'
  OBVIOUS
<1>1. CASE UNCHANGED vars
  BY <1>1 DEF vars, IInv, TypeOK, GoodCall, GoodAttempt
<1>2. CASE Next
  BY <1>2, CallSteps, AttemptSteps, SessionSteps, TickStep DEF Next
<1>. QED
  BY <1>1, <1>2

LEMMA Invariance == Spec => []IInv
BY InitIInv, StepIInv, PTL DEF Spec

-----------------------------------------------------------------------------
\* Every variable of the HTTP client keeps its shape.
THEOREM HttpTyping == Spec => []TypeOK
<1>1. IInv => TypeOK
  BY DEF IInv
<1>. QED
  BY <1>1, Invariance, PTL

\* A lease on the session is held only by the attempt its call awaits, under the session that is
\* alive: timeouts, the budget, aborts and late acquires have all returned theirs.
THEOREM LeasesAreReturned == Spec => []LeasesReturn
<1>1. IInv => LeasesReturn
  BY DEF IInv, GoodAttempt, LeasesReturn, Awaited
<1>. QED
  BY <1>1, Invariance, PTL

\* The retry driver never sleeps past the total budget.
THEOREM WaitsFitTheBudget == Spec => []WaitsAreUseful
<1>1. IInv => WaitsAreUseful
  BY DEF IInv, GoodCall, WaitsAreUseful
<1>. QED
  BY <1>1, Invariance, PTL

\* A call resolves with data or with an authentication failure only when it is awaiting an attempt
\* that was sent.
LEMMA Verdicts ==
  ASSUME IInv, [Next]_vars, NEW c \in Calls,
         calls'[c].outcome # calls[c].outcome, calls'[c].outcome \in {"data", "auth"}
  PROVE  /\ calls[c].at = "attempting" /\ calls[c].n \in Attempts
         /\ attempts[c][calls[c].n].at = "sent"
<1>1. calls \in [Calls -> Call] /\ \A d \in Calls : calls[d] \in Call
  BY DEF IInv, TypeOK
<1>2. \A d \in Calls, o \in Outcomes : Ended(d, o).outcome = o
  BY <1>1 DEF Ended, Call
<1>3. \A d \in Calls, w \in Waits :
        AfterFailure(d, w).outcome \in {calls[d].outcome, "transient"}
  BY <1>1 DEF AfterFailure, Ended, Call
<1>4. \A d \in Calls : \A n, left : Begin(d, n, left).outcome = calls[d].outcome
  BY <1>1 DEF Begin, Call
<1>5. {"fatal", "aborted"} \subseteq Outcomes
  BY DEF Outcomes, Answers
<1>6. ASSUME NEW d \in Calls, NEW call, calls' = [calls EXCEPT ![d] = call],
             call.outcome \in {calls[d].outcome, "transient", "fatal", "aborted"}
      PROVE  FALSE
  BY <1>1, <1>6
<1>7. ASSUME NEW d \in Calls, Start(d) \/ Wake(d) PROVE FALSE
  BY <1>4, <1>6, <1>7 DEF Start, Wake
<1>8. ASSUME NEW d \in Calls, Timeout(d) PROVE FALSE
  BY <1>3, <1>6, <1>8 DEF Timeout
<1>9. ASSUME NEW d \in Calls, Deadline(d) \/ CallerAbort(d) PROVE FALSE
  BY <1>2, <1>5, <1>6, <1>9 DEF Deadline, CallerAbort, Abort
<1>10. ASSUME NEW d \in Calls, NEW k \in Attempts, AcquireFails(d, k) PROVE FALSE
  <2>1. \/ UNCHANGED calls
        \/ calls' = [calls EXCEPT ![d] = Ended(d, "fatal")]
        \/ \E w \in Waits : calls' = [calls EXCEPT ![d] = AfterFailure(d, w)]
    BY <1>10 DEF AcquireFails
  <2>. QED
    BY <1>2, <1>3, <1>5, <1>6, <2>1
<1>11. ASSUME NEW d \in Calls, NEW k \in Attempts, Acquired(d, k) \/ LateAnswer(d, k)
       PROVE  FALSE
  BY <1>11 DEF Acquired, LateAnswer
<1>12. ASSUME NEW d \in Calls, NEW k \in Attempts, Answer(d, k)
       PROVE  d = c /\ Heard(d, k)
  <2>1. \E call : calls' = [calls EXCEPT ![d] = call]
    BY <1>12 DEF Answer
  <2>. QED
    BY <1>1, <1>12, <2>1 DEF Answer
<1>13. ASSUME NEW alive, NEW ended, EndSession(alive, ended)
       PROVE  c \in DOMAIN ended
  BY <1>2, <1>5, <1>13 DEF EndSession
<1>14. ASSUME NEW d \in Calls, NEW k \in Attempts, Rejected(d, k)
       PROVE  d = c /\ Heard(d, k)
  <2>1. EndSession(FALSE, [x \in {d} |-> Ended(x, "auth")]) /\ Heard(d, k)
    BY <1>14 DEF Rejected
  <2>2. c \in DOMAIN [x \in {d} |-> Ended(x, "auth")]
    BY <1>13, <2>1
  <2>. QED
    BY <2>1, <2>2
<1>15. ~Login /\ ~SessionEnds
  <2>1. c \notin DOMAIN NoCall
    BY DEF NoCall
  <2>. QED
    BY <1>13, <2>1 DEF Login, SessionEnds
<1>16. ~Tick
  BY <1>1 DEF Tick, Call
<1>17. PICK k \in Attempts : Heard(c, k)
  BY <1>7, <1>8, <1>9, <1>10, <1>11, <1>12, <1>14, <1>15, <1>16 DEF Next, vars
<1>. QED
  BY <1>17 DEF Heard, Awaited

\* No abandoned attempt and no ended session supplies a call's data.
THEOREM SuccessIsCurrent == Spec => NoStaleSuccess
<1>1. IInv /\ [Next]_vars =>
        \A c \in Calls :
          (calls'[c].outcome = "data" /\ calls[c].outcome # "data") =>
            LET a == attempts[c][calls[c].n]
            IN  /\ calls[c].at = "attempting" /\ a.at = "sent"
                /\ session.alive /\ a.lease = session.epoch
  BY Verdicts, OnlyTheAwaited
<1>. QED
  BY <1>1, Invariance, PTL DEF Spec, NoStaleSuccess

\* An authentication failure that ends a session is about that session.
THEOREM NewerSessionsAreSpared == Spec => SparesNewerSession
<1>1. IInv /\ [Next]_vars =>
        \A c \in Calls :
          (calls'[c].outcome = "auth" /\ calls[c].outcome # "auth") =>
            attempts[c][calls[c].n].lease = session.epoch /\ session.alive
  BY Verdicts, OnlyTheAwaited
<1>. QED
  BY <1>1, Invariance, PTL DEF Spec, SparesNewerSession
=============================================================================
