----------------------- MODULE ProviderCustodyProofs -----------------------
(***************************************************************************)
(* The safety of ProviderCustody for any number of handles, calls and      *)
(* exchanges and any store capacity.  What carries it: as long as a handle *)
(* is not logged out and its chain of tokens was not cut, the exchange     *)
(* that has not settled owns the handle's slot, so that at most one is     *)
(* between reading the token and rotating it.                              *)
(***************************************************************************)
EXTENDS ProviderCustody, TLAPS

\* The chain of h's tokens is in the hands of refreshes alone.
Own(h) == h \notin disturbed /\ ~Left(h)

\* A handle has refreshes, and logouts, only after its login succeeded.
ExchangeInv ==
    \A x \in Exchange :
        /\ At(x, "unused") => exchanges[x].outcome = "none" /\ ~exchanges[x].aborted
        /\ ~At(x, "unused") => logins[HandleOf(x)].at = "in"
        /\ exchanges[x].settled => exchanges[x].outcome # "none"
        /\ Running(x) => (exchanges[x].aborted <=> exchanges[x].outcome # "none")

SlotInv ==
    \A h \in Handles :
        /\ inFlight[h] # None =>
             LET x == inFlight[h] IN ~At(x, "unused") /\ ~exchanges[x].settled /\ HandleOf(x) = h
        /\ controllers[h] # None =>
             ~At(controllers[h], "unused") /\ HandleOf(controllers[h]) = h

CallerInv ==
    \A c \in Caller : callers[c].at = "waiting" =>
        LET x == callers[c].exchange IN
          x # None /\ ~At(x, "unused") /\ ~exchanges[x].settled

LoginGood(h) ==
    /\ logins[h].at \in {"none", "issue", "check", "in"} => ~logins[h].late
    /\ logins[h].at = "none" => ~Holds(h)
    /\ logins[h].at = "out" => ~Holds(h) /\ (logins[h].late => store[h] = Dropped)
    /\ Left(h) => logins[h].at = "in"
    /\ logouts[h] = "done" => ~Holds(h)

LoginInv == \A h \in Handles : LoginGood(h)

\* What a login brought is accepted until its first refresh.
LoginChain(h) ==
    logins[h].at \in {"issue", "check"} \/ logins[h].late => 0 \in granted[h]

HeldChain(h) ==
    Holds(h) =>
        \/ store[h] \in granted[h]
        \/ \E x \in Exchange :
             /\ exchanges[x].at \in {"granted", "rotate"}
             /\ HandleOf(x) = h /\ exchanges[x].presented = store[h]
             /\ exchanges[x].next \in granted[h]

\* The one exchange that has not settled has the handle's slot, and the token it read is the one held
\* until it rotates it.
ExchangeChain(x) ==
    LET h == HandleOf(x)
        e == exchanges[x]
    IN /\ e.at # "unused" /\ ~e.settled => inFlight[h] = x
       /\ e.at \in {"sent", "granted", "rotate"} => e.outcome = "none"
       /\ e.at \notin {"refused", "reuse"}
       /\ (e.at = "grant" /\ e.outcome = "none") \/ e.at = "sent" =>
            store[h] = e.presented /\ e.presented \in granted[h]
       /\ e.at \in {"granted", "rotate"} => store[h] = e.presented /\ e.next \in granted[h]
       /\ e.at = "check" /\ e.outcome = "none" => store[h] = e.next

ChainInv ==
    /\ \A h \in Handles : Own(h) => LoginChain(h) /\ HeldChain(h)
    /\ \A x \in Exchange : Own(HandleOf(x)) => ExchangeChain(x)

IInv ==
    /\ TypeOK /\ ExchangeInv /\ SlotInv /\ CallerInv /\ LoginInv /\ ChainInv /\ DenialHasACause

-----------------------------------------------------------------------------
LEMMA Tokens ==
    /\ Exchange \subseteq Token /\ 0 \in Token /\ None \in Token /\ None \notin Exchange
    /\ Unheld \notin Token /\ Dropped \notin Token /\ Unheld # Dropped
BY CustodyAssumption DEF Exchange, Token, None, Unheld, Dropped

LEMMA InitIInv == Init => IInv
<1>. SUFFICES ASSUME Init PROVE IInv
  OBVIOUS
<1>1. Idle \in ExchangeType
  <2>1. (CHOOSE h \in Handles : TRUE) \in Handles
    BY CustodyAssumption
  <2>. QED
    BY <2>1, Tokens DEF Idle, ExchangeType, Stage, Outcome, None
<1>2. TypeOK
  BY <1>1, CustodyAssumption, Tokens DEF Init, TypeOK, LoginStage
<1>3. \A x \in Exchange : /\ At(x, "unused") /\ exchanges[x].outcome = "none"
                          /\ ~exchanges[x].aborted /\ ~exchanges[x].settled
  BY DEF Init, Idle, At
<1>4. ExchangeInv /\ DenialHasACause
  BY <1>3 DEF ExchangeInv, DenialHasACause, At, Running
<1>5. SlotInv /\ CallerInv
  BY DEF Init, SlotInv, CallerInv
<1>6. LoginInv
  BY Tokens DEF Init, LoginInv, LoginGood, Holds, Left
<1>7. ChainInv
  <2>1. \A h \in Handles : LoginChain(h) /\ HeldChain(h)
    BY Tokens DEF Init, LoginChain, HeldChain, Holds
  <2>2. \A x \in Exchange : ExchangeChain(x)
    BY <1>3 DEF ExchangeChain, At
  <2>. QED
    BY <2>1, <2>2 DEF ChainInv
<1>. QED
  BY <1>2, <1>4, <1>5, <1>6, <1>7 DEF IInv

\* A cause of a denial stays one.
LEMMA OwnShrinks ==
    ASSUME NEW h, disturbed \subseteq disturbed', Left(h) => Left(h)', Own(h)'
    PROVE  Own(h)
BY DEF Own

\* An exchange that has settled is over, or will stop at its next step.
LEMMA SettledIsIdle ==
    ASSUME IInv, NEW x \in Exchange, Own(HandleOf(x)), exchanges[x].settled
    PROVE  exchanges[x].at \in {"unused", "read", "grant", "check", "over"}
           /\ exchanges[x].outcome # "none"
BY DEF IInv, ExchangeInv, ChainInv, ExchangeChain, TypeOK, ExchangeType, Stage

\* Two exchanges of a handle are not both unsettled.
LEMMA OneUnsettled ==
    ASSUME IInv, NEW x \in Exchange, NEW y \in Exchange, Own(HandleOf(x)),
           HandleOf(y) = HandleOf(x), ~At(x, "unused"), ~At(y, "unused"),
           ~exchanges[x].settled, ~exchanges[y].settled
    PROVE  x = y
BY DEF IInv, ChainInv, ExchangeChain, At

-----------------------------------------------------------------------------
(* Steps of one exchange *)

\* What is not about the chain.
LEMMA MoveStep ==
    ASSUME IInv, NEW x \in Exchange, NEW e \in ExchangeType, ~At(x, "unused"),
           exchanges' = [exchanges EXCEPT ![x] = e],
           e.at # "unused", e.handle = HandleOf(x), e.settled = exchanges[x].settled,
           exchanges[x].outcome # "none" => e.outcome # "none",
           e.at # "over" => (e.aborted <=> e.outcome # "none"),
           e.outcome = "denied" => exchanges[x].outcome = "denied" \/ ~Own(HandleOf(x)),
           UNCHANGED <<inFlight, controllers, callers, logins, logouts>>,
           disturbed \subseteq disturbed',
           \A h \in Handles : /\ Holds(h)' => Holds(h)
                              /\ store[h] = Dropped => store'[h] = Dropped
    PROVE  ExchangeInv' /\ SlotInv' /\ CallerInv' /\ LoginInv' /\ DenialHasACause'
<1>1. \A y \in Exchange : exchanges'[y] = IF y = x THEN e ELSE exchanges[y]
  BY DEF IInv, TypeOK
<1>2. ExchangeInv'
  BY <1>1 DEF IInv, ExchangeInv, At, HandleOf, Running
<1>3. SlotInv'
  <2>1. \A h \in Handles : /\ inFlight[h] # None => inFlight[h] \in Exchange
                           /\ controllers[h] # None => controllers[h] \in Exchange
    BY CustodyAssumption DEF IInv, TypeOK, Token, Exchange, None
  <2>. QED
    BY <1>1, <2>1 DEF IInv, SlotInv, At, HandleOf
<1>4. CallerInv'
  <2>1. \A c \in Caller : callers[c].exchange # None => callers[c].exchange \in Exchange
    BY CustodyAssumption DEF IInv, TypeOK, Token, Exchange, None
  <2>. QED
    BY <1>1, <2>1 DEF IInv, CallerInv, At
<1>5. LoginInv'
  BY DEF IInv, LoginInv, LoginGood, Left
<1>6. DenialHasACause'
  BY <1>1 DEF IInv, DenialHasACause, HandleOf, Own, Left
<1>. QED
  BY <1>2, <1>3, <1>4, <1>5, <1>6

\* What is about the chain: only the handle of the exchange has to be looked at.
LEMMA ChainStep ==
    ASSUME IInv, NEW x \in Exchange, NEW e \in ExchangeType, ~At(x, "unused"),
           exchanges' = [exchanges EXCEPT ![x] = e],
           e.at # "unused", e.handle = HandleOf(x), e.settled = exchanges[x].settled,
           UNCHANGED <<inFlight, logins, logouts>>,
           disturbed \subseteq disturbed',
           \A h \in Handles \ {HandleOf(x)} : store'[h] = store[h] /\ granted'[h] = granted[h],
           Own(HandleOf(x))' =>
             /\ HeldChain(HandleOf(x))' /\ ExchangeChain(x)'
             /\ \/ ~exchanges[x].settled
                \/ store'[HandleOf(x)] = store[HandleOf(x)] /\ granted'[HandleOf(x)] = granted[HandleOf(x)]
    PROVE  ChainInv'
<1>. DEFINE h == HandleOf(x)
<1>1. \A y \in Exchange : exchanges'[y] = IF y = x THEN e ELSE exchanges[y]
  BY DEF IInv, TypeOK
<1>2. h \in Handles
  BY DEF IInv, TypeOK, ExchangeType, HandleOf
<1>3. \A g \in Handles : Own(g)' => Own(g)
  BY DEF Own, Left
<1>4. logins[h].at = "in" /\ ~logins[h].late
  BY <1>2 DEF IInv, ExchangeInv, LoginInv, LoginGood
<1>5. ASSUME NEW g \in Handles, Own(g)' PROVE LoginChain(g)' /\ HeldChain(g)'
  <2>1. CASE g = h
    <3>1. HeldChain(g)'
      BY <1>5, <2>1, <1>1 DEF HandleOf
    <3>2. LoginChain(g)'
      BY <2>1, <1>4 DEF LoginChain
    <3>. QED
      BY <3>1, <3>2
  <2>2. CASE g # h
    <3>1. LoginChain(g) /\ HeldChain(g)
      BY <1>3, <1>5 DEF IInv, ChainInv
    <3>2. \A y \in Exchange : HandleOf(y) = g => exchanges'[y] = exchanges[y]
      BY <1>1, <2>2
    <3>. QED
      BY <3>1, <3>2, <2>2 DEF LoginChain, HeldChain, Holds, HandleOf
  <2>. QED
    BY <2>1, <2>2
<1>6. ASSUME NEW y \in Exchange, Own(HandleOf(y))' PROVE ExchangeChain(y)'
  <2>1. CASE y = x
    BY <1>1, <1>6, <2>1 DEF HandleOf
  <2>2. CASE y # x
    <3>1. exchanges'[y] = exchanges[y]
      BY <1>1, <2>2
    <3>2. HandleOf(y) \in Handles /\ Own(HandleOf(y)) /\ HandleOf(y)' = HandleOf(y)
      BY <1>3, <1>6, <3>1 DEF HandleOf, IInv, TypeOK, ExchangeType
    <3>3. ExchangeChain(y)
      BY <3>2 DEF IInv, ChainInv
    <3>4. CASE HandleOf(y) # h
      BY <3>1, <3>2, <3>3, <3>4 DEF ExchangeChain, HandleOf
    <3>5. CASE HandleOf(y) = h
      <4>1. CASE At(y, "unused") \/ exchanges[y].settled
        BY <3>1, <3>2, <4>1, SettledIsIdle DEF ExchangeChain, At
      <4>2. CASE ~At(y, "unused") /\ ~exchanges[y].settled
        <5>1. exchanges[x].settled
          BY <2>2, <3>2, <3>5, <4>2, OneUnsettled
        <5>2. store'[h] = store[h] /\ granted'[h] = granted[h]
          BY <1>1, <1>6, <3>1, <3>5, <5>1 DEF HandleOf
        <5>. QED
          BY <3>1, <3>3, <3>5, <5>2 DEF ExchangeChain, HandleOf
      <4>. QED
        BY <4>1, <4>2
    <3>. QED
      BY <3>4, <3>5
  <2>. QED
    BY <2>1, <2>2
<1>. QED
  BY <1>5, <1>6 DEF ChainInv

\* A step that touches neither the store nor the provider.
LEMMA QuietStep ==
    ASSUME IInv, NEW x \in Exchange, NEW e \in ExchangeType, ~At(x, "unused"),
           exchanges' = [exchanges EXCEPT ![x] = e],
           e.at # "unused", e.handle = HandleOf(x), e.settled = exchanges[x].settled,
           exchanges[x].outcome # "none" => e.outcome # "none",
           e.at # "over" => (e.aborted <=> e.outcome # "none"),
           e.outcome = "denied" => exchanges[x].outcome = "denied" \/ ~Own(HandleOf(x)),
           UNCHANGED <<store, granted, inFlight, controllers, callers, logins, logouts>>,
           disturbed \subseteq disturbed', disturbed' \subseteq Handles,
           ended' \in 0 .. MaxLogouts, faults' \in 0 .. MaxFaults,
           Own(HandleOf(x))' =>
             /\ ExchangeChain(x)'
             /\ exchanges[x].at \in {"granted", "rotate"} =>
                  /\ e.at \in {"granted", "rotate"}
                  /\ e.presented = exchanges[x].presented /\ e.next = exchanges[x].next
    PROVE  IInv'
<1>1. \A y \in Exchange : exchanges'[y] = IF y = x THEN e ELSE exchanges[y]
  BY DEF IInv, TypeOK
<1>2. TypeOK'
  BY DEF IInv, TypeOK
<1>3. \A h \in Handles : /\ Holds(h)' => Holds(h)
                         /\ store[h] = Dropped => store'[h] = Dropped
  BY DEF Holds
<1>4. ASSUME Own(HandleOf(x))' PROVE HeldChain(HandleOf(x))'
  <2>1. HandleOf(x)' = HandleOf(x) /\ HandleOf(x) \in Handles
    BY <1>1 DEF HandleOf, IInv, TypeOK, ExchangeType
  <2>2. Own(HandleOf(x))
    BY <1>4, <2>1 DEF Own, Left
  <2>3. HeldChain(HandleOf(x))
    BY <2>1, <2>2 DEF IInv, ChainInv
  <2>. QED
    BY <1>1, <1>4, <2>1, <2>3 DEF HeldChain, Holds, HandleOf
<1>5. ChainInv'
  BY <1>4, ChainStep
<1>6. ExchangeInv' /\ SlotInv' /\ CallerInv' /\ LoginInv' /\ DenialHasACause'
  BY <1>3, MoveStep
<1>. QED
  BY <1>2, <1>5, <1>6 DEF IInv

\* The exchange ends.
LEMMA EndStep ==
    ASSUME IInv, NEW x \in Exchange, NEW outcome \in {"tokens", "failed", "denied"},
           ~At(x, "unused"), Ends(x, outcome),
           outcome = "denied" => exchanges[x].outcome # "none" \/ ~Own(HandleOf(x)),
           UNCHANGED <<store, granted, inFlight, controllers, callers, logins, logouts>>,
           disturbed \subseteq disturbed', disturbed' \subseteq Handles,
           ended' \in 0 .. MaxLogouts, faults' \in 0 .. MaxFaults,
           exchanges[x].at \in {"granted", "rotate"} =>
             HandleOf(x) \in disturbed' \/ Left(HandleOf(x))
    PROVE  IInv'
<1>. DEFINE e == Over(x, outcome)
<1>1. exchanges[x] \in ExchangeType
  BY DEF IInv, TypeOK
<1>2. /\ e \in ExchangeType /\ e.at = "over" /\ e.handle = HandleOf(x)
      /\ e.settled = exchanges[x].settled /\ e.outcome # "none"
      /\ e.outcome = "denied" =>
           exchanges[x].outcome = "denied" \/ (exchanges[x].outcome = "none" /\ outcome = "denied")
  BY <1>1, Tokens DEF Over, ExchangeType, Stage, Outcome, HandleOf
<1>3. exchanges' = [exchanges EXCEPT ![x] = e]
  BY DEF Ends
<1>4. exchanges'[x] = e
  BY <1>3 DEF IInv, TypeOK
<1>. HIDE DEF e
<1>5. ASSUME Own(HandleOf(x))' PROVE ExchangeChain(x)'
  <2>1. HandleOf(x)' = HandleOf(x)
    BY <1>2, <1>4 DEF HandleOf
  <2>2. Own(HandleOf(x))
    BY <1>5, <2>1 DEF Own, Left
  <2>3. ExchangeChain(x)
    BY <2>2 DEF IInv, ChainInv
  <2>. QED
    BY <1>2, <1>4, <2>1, <2>3 DEF ExchangeChain, HandleOf, At
<1>6. Own(HandleOf(x))' => exchanges[x].at \notin {"granted", "rotate"}
  BY <1>2, <1>4 DEF Own, Left, HandleOf
<1>. QED
  BY <1>2, <1>3, <1>5, <1>6, QuietStep

\* The exchange goes on to its next await.
LEMMA GoStep ==
    ASSUME IInv, NEW x \in Exchange, NEW stage \in Stage \ {"unused", "over"}, Running(x),
           Goes(x, stage),
           UNCHANGED <<store, granted, inFlight, controllers, callers, logins, logouts, ended,
                       faults, disturbed>>,
           Own(HandleOf(x)) =>
             /\ <<exchanges[x].at, stage>> \in {<<"grant", "sent">>, <<"granted", "rotate">>}
             /\ exchanges[x].outcome = "none"
    PROVE  IInv'
<1>. DEFINE e == [exchanges[x] EXCEPT !.at = stage]
<1>1. exchanges[x] \in ExchangeType /\ ~At(x, "unused")
  BY DEF IInv, TypeOK, Running, At
<1>2. /\ e \in ExchangeType /\ e.at = stage /\ e.handle = HandleOf(x)
      /\ e.settled = exchanges[x].settled /\ e.outcome = exchanges[x].outcome
      /\ e.aborted = exchanges[x].aborted /\ e.presented = exchanges[x].presented
      /\ e.next = exchanges[x].next
  BY <1>1 DEF ExchangeType, HandleOf
<1>3. exchanges' = [exchanges EXCEPT ![x] = e]
  BY DEF Goes
<1>4. exchanges'[x] = e
  BY <1>3 DEF IInv, TypeOK
<1>. HIDE DEF e
<1>5. HandleOf(x)' = HandleOf(x) /\ (Own(HandleOf(x))' => Own(HandleOf(x)))
  BY <1>2, <1>4 DEF HandleOf, Own, Left
<1>6. ASSUME Own(HandleOf(x)) PROVE ExchangeChain(x)'
  <2>1. ExchangeChain(x)
    BY <1>6 DEF IInv, ChainInv
  <2>. QED
    BY <1>2, <1>4, <1>5, <1>6, <2>1 DEF ExchangeChain, HandleOf
<1>7. e.aborted <=> e.outcome # "none"
  BY <1>2 DEF IInv, ExchangeInv
<1>8. /\ disturbed' \subseteq Handles /\ ended' \in 0 .. MaxLogouts /\ faults' \in 0 .. MaxFaults
      /\ disturbed \subseteq disturbed'
  BY DEF IInv, TypeOK
<1>9. Own(HandleOf(x))' /\ exchanges[x].at \in {"granted", "rotate"}
        => e.at \in {"granted", "rotate"}
  BY <1>2, <1>5
<1>. QED
  BY <1>1, <1>2, <1>3, <1>5, <1>6, <1>7, <1>8, <1>9, QuietStep

LEMMA ReadTokenStep == ASSUME IInv, NEW x \in Exchange, ReadToken(x) PROVE IInv'
<1>. DEFINE h == HandleOf(x)
<1>1. /\ exchanges[x] \in ExchangeType /\ h \in Handles /\ ~At(x, "unused") /\ exchanges[x].at = "read"
      /\ disturbed \subseteq Handles /\ ended \in 0 .. MaxLogouts /\ faults \in 0 .. MaxFaults
  BY DEF ReadToken, At, IInv, TypeOK, ExchangeType, HandleOf
<1>2. UNCHANGED <<store, granted, inFlight, controllers, callers, logins, logouts, ended, faults,
                  disturbed>>
  BY DEF ReadToken
<1>3. CASE Stops(x) \/ ~Holds(h)
  <2>1. Ends(x, "failed")
    BY <1>3 DEF ReadToken
  <2>. QED
    BY <1>1, <1>2, <2>1, EndStep
<1>4. CASE ~Stops(x) /\ Holds(h)
  <2>. DEFINE e == [exchanges[x] EXCEPT !.at = "grant", !.presented = store[h]]
  <2>1. exchanges' = [exchanges EXCEPT ![x] = e]
    BY <1>4 DEF ReadToken
  <2>2. exchanges[x].outcome = "none" /\ ~exchanges[x].aborted /\ ~exchanges[x].settled
    BY <1>1, <1>4 DEF IInv, ExchangeInv, Running, Stops
  <2>3. /\ e \in ExchangeType /\ e.at = "grant" /\ e.handle = h /\ e.settled = exchanges[x].settled
        /\ e.outcome = "none" /\ ~e.aborted /\ e.presented = store[h]
    BY <1>1, <1>4, <2>2 DEF ExchangeType, Stage, Holds, HandleOf
  <2>4. exchanges'[x] = e
    BY <2>1 DEF IInv, TypeOK
  <2>. HIDE DEF e
  <2>5. HandleOf(x)' = h
    BY <2>3, <2>4 DEF HandleOf
  <2>6. ASSUME Own(h)' PROVE ExchangeChain(x)'
    <3>1. Own(h)
      BY <1>2, <2>5, <2>6 DEF Own, Left
    <3>2. \A y \in Exchange : HandleOf(y) = h => exchanges[y].at \notin {"granted", "rotate"}
      <4>. SUFFICES ASSUME NEW y \in Exchange, HandleOf(y) = h,
                           exchanges[y].at \in {"granted", "rotate"}
                    PROVE  FALSE
        OBVIOUS
      <4>1. ~At(y, "unused") /\ ~exchanges[y].settled
        BY <3>1, SettledIsIdle DEF At
      <4>2. x = y
        BY <1>1, <2>2, <3>1, <4>1, OneUnsettled
      <4>. QED
        BY <1>1, <4>2
    <3>3. store[h] \in granted[h]
      BY <1>1, <1>4, <3>1, <3>2 DEF IInv, ChainInv, HeldChain
    <3>4. inFlight[h] = x
      BY <1>1, <2>2, <3>1 DEF IInv, ChainInv, ExchangeChain, At
    <3>. QED
      BY <1>2, <2>3, <2>4, <2>5, <3>3, <3>4 DEF ExchangeChain
  <2>. QED
    <3>1. /\ disturbed \subseteq disturbed' /\ disturbed' \subseteq Handles
          /\ ended' \in 0 .. MaxLogouts /\ faults' \in 0 .. MaxFaults
      BY <1>1, <1>2
    <3>. QED
      BY <1>1, <1>2, <2>1, <2>2, <2>3, <2>6, <3>1, QuietStep
<1>. QED
  BY <1>3, <1>4

LEMMA SendAcceptStep ==
    ASSUME IInv, NEW x \in Exchange, Send(x) \/ Accept(x) PROVE IInv'
<1>1. /\ exchanges[x].at \in {"grant", "granted"} /\ ~At(x, "unused") /\ Running(x)
      /\ disturbed \subseteq Handles /\ ended \in 0 .. MaxLogouts /\ faults \in 0 .. MaxFaults
  BY DEF Send, Accept, At, Running, IInv, TypeOK
<1>2. UNCHANGED <<store, granted, inFlight, controllers, callers, logins, logouts, ended, faults,
                  disturbed>>
  BY DEF Send, Accept
<1>3. Stops(x) <=> exchanges[x].outcome # "none"
  BY <1>1 DEF IInv, ExchangeInv, Stops
<1>4. CASE Stops(x)
  <2>1. Ends(x, "failed")
    BY <1>4 DEF Send, Accept
  <2>2. exchanges[x].at = "granted" => HandleOf(x) \in disturbed \/ Left(HandleOf(x))
    BY <1>3, <1>4 DEF IInv, ChainInv, ExchangeChain, Own
  <2>. QED
    BY <1>1, <1>2, <2>1, <2>2, EndStep
<1>5. CASE ~Stops(x)
  <2>1. \/ exchanges[x].at = "grant" /\ Goes(x, "sent")
        \/ exchanges[x].at = "granted" /\ Goes(x, "rotate")
    BY <1>5 DEF Send, Accept, At
  <2>2. exchanges[x].outcome = "none" /\ {"sent", "rotate"} \subseteq Stage \ {"unused", "over"}
    BY <1>3, <1>5 DEF Stage
  <2>3. CASE exchanges[x].at = "grant" /\ Goes(x, "sent")
    <3>1. "sent" \in Stage \ {"unused", "over"}
      BY <2>2
    <3>. QED
      BY <1>1, <1>2, <2>2, <2>3, <3>1, GoStep
  <2>4. CASE exchanges[x].at = "granted" /\ Goes(x, "rotate")
    BY <1>1, <1>2, <2>2, <2>4, GoStep
  <2>. QED
    BY <2>1, <2>3, <2>4
<1>. QED
  BY <1>4, <1>5

LEMMA FailStep ==
    ASSUME IInv, NEW x \in Exchange, Fail(x) \/ LoseAnswer(x) PROVE IInv'
<1>1. /\ ~At(x, "unused") /\ HandleOf(x) \in Handles
      /\ disturbed \subseteq Handles /\ ended \in 0 .. MaxLogouts /\ faults \in 0 .. MaxFaults
  BY DEF Fail, LoseAnswer, At, HandleOf, IInv, TypeOK, ExchangeType
<1>2. /\ Ends(x, "failed")
      /\ UNCHANGED <<store, granted, inFlight, controllers, callers, logins, logouts, ended>>
  BY DEF Fail, LoseAnswer
<1>3. /\ disturbed \subseteq disturbed' /\ disturbed' \subseteq Handles
      /\ ended' \in 0 .. MaxLogouts /\ faults' \in 0 .. MaxFaults
  BY <1>1, CustodyAssumption DEF Fail, LoseAnswer, Fault
<1>4. exchanges[x].at \in {"granted", "rotate"} => HandleOf(x) \in disturbed'
  BY DEF Fail, LoseAnswer
<1>. QED
  BY <1>1, <1>2, <1>3, <1>4, EndStep

LEMMA CheckStep == ASSUME IInv, NEW x \in Exchange, Check(x) PROVE IInv'
<1>1. /\ ~At(x, "unused") /\ exchanges[x].at = "check" /\ Running(x)
      /\ disturbed \subseteq Handles /\ ended \in 0 .. MaxLogouts /\ faults \in 0 .. MaxFaults
  BY DEF Check, At, Running, IInv, TypeOK
<1>2. UNCHANGED <<store, granted, inFlight, controllers, callers, logins, logouts, ended, faults,
                  disturbed>>
  BY DEF Check
<1>3. CASE Ends(x, "failed") \/ Ends(x, "tokens")
  BY <1>1, <1>2, <1>3, EndStep
<1>4. CASE Ends(x, "denied") /\ store[HandleOf(x)] # exchanges[x].next
  <2>1. ~Own(HandleOf(x)) \/ exchanges[x].outcome # "none"
    BY <1>1, <1>4 DEF IInv, ChainInv, ExchangeChain
  <2>. QED
    BY <1>1, <1>2, <1>4, <2>1, EndStep
<1>. QED
  BY <1>3, <1>4 DEF Check

LEMMA TimeoutStep == ASSUME IInv, NEW x \in Exchange, Timeout(x) PROVE IInv'
<1>. DEFINE e == Cut(x)
<1>1. exchanges[x] \in ExchangeType /\ HandleOf(x) \in Handles /\ ~At(x, "unused")
  BY DEF Timeout, Running, At, HandleOf, IInv, TypeOK, ExchangeType
<1>2. /\ e \in ExchangeType /\ e.at = exchanges[x].at /\ e.handle = HandleOf(x)
      /\ e.settled = exchanges[x].settled /\ e.outcome = "cut" /\ e.aborted
      /\ e.presented = exchanges[x].presented /\ e.next = exchanges[x].next
  BY <1>1 DEF Timeout, Cut, ExchangeType, Outcome, HandleOf
<1>3. exchanges' = [exchanges EXCEPT ![x] = e]
  BY DEF Timeout
<1>4. exchanges'[x] = e
  BY <1>3 DEF IInv, TypeOK
<1>. HIDE DEF e
<1>5. /\ UNCHANGED <<store, granted, inFlight, controllers, callers, logins, logouts, ended, faults>>
      /\ disturbed' = IF MidRotation(x) THEN disturbed \union {HandleOf(x)} ELSE disturbed
  BY DEF Timeout
<1>6. /\ disturbed \subseteq disturbed' /\ disturbed' \subseteq Handles
      /\ ended' \in 0 .. MaxLogouts /\ faults' \in 0 .. MaxFaults
  BY <1>1, <1>5 DEF IInv, TypeOK
<1>7. ASSUME Own(HandleOf(x))'
      PROVE  ExchangeChain(x)' /\ exchanges[x].at \notin {"granted", "rotate"}
  <2>1. HandleOf(x)' = HandleOf(x)
    BY <1>2, <1>4 DEF HandleOf
  <2>2. Own(HandleOf(x)) /\ ~MidRotation(x)
    BY <1>5, <1>7, <2>1 DEF Own, Left
  <2>3. ExchangeChain(x)
    BY <2>2 DEF IInv, ChainInv
  <2>. QED
    BY <1>2, <1>4, <1>5, <2>1, <2>2, <2>3 DEF ExchangeChain, MidRotation, HandleOf
<1>8. "cut" # "none" /\ "cut" # "denied" /\ (exchanges[x].at # "unused")
  BY <1>1 DEF At
<1>. QED
  BY <1>1, <1>2, <1>3, <1>5, <1>6, <1>7, <1>8, QuietStep

LEMMA SignalReuseStep == ASSUME IInv, NEW x \in Exchange, SignalReuse(x) PROVE IInv'
<1>. DEFINE e == Over(x, "denied")
            h == HandleOf(x)
<1>1. exchanges[x] \in ExchangeType /\ h \in Handles /\ ~At(x, "unused")
  BY DEF SignalReuse, At, HandleOf, IInv, TypeOK, ExchangeType
<1>2. /\ e \in ExchangeType /\ e.at = "over" /\ e.handle = h
      /\ e.settled = exchanges[x].settled /\ e.outcome # "none"
  BY <1>1, Tokens DEF Over, ExchangeType, Stage, Outcome, HandleOf
<1>3. exchanges' = [exchanges EXCEPT ![x] = e]
  BY DEF SignalReuse, Ends
<1>4. exchanges'[x] = e
  BY <1>3 DEF IInv, TypeOK
<1>. HIDE DEF e
<1>5. /\ UNCHANGED <<granted, inFlight, controllers, callers, logins, logouts, ended, faults,
                     disturbed>>
      /\ store' \in {store, [store EXCEPT ![h] = AfterRevoke(h)]}
  BY DEF SignalReuse
<1>6. ~Own(h)
  BY DEF SignalReuse, IInv, ChainInv, ExchangeChain
<1>7. AfterRevoke(h) \in {Unheld, Dropped} /\ (store[h] = Dropped => AfterRevoke(h) = Dropped)
  BY Tokens DEF AfterRevoke
<1>8. TypeOK'
  BY <1>2, <1>3, <1>5, <1>7 DEF IInv, TypeOK
<1>9. \A g \in Handles : /\ Holds(g)' => Holds(g)
                         /\ store[g] = Dropped => store'[g] = Dropped
  BY <1>5, <1>7, Tokens DEF Holds, IInv, TypeOK
<1>10. ~Own(HandleOf(x))'
  BY <1>2, <1>4, <1>5, <1>6 DEF Own, Left, HandleOf
<1>11. ExchangeInv' /\ SlotInv' /\ CallerInv' /\ LoginInv' /\ DenialHasACause'
  BY <1>1, <1>2, <1>3, <1>5, <1>6, <1>9, MoveStep
<1>12. \A g \in Handles \ {h} : store'[g] = store[g] /\ granted'[g] = granted[g]
  BY <1>5 DEF IInv, TypeOK
<1>13. ChainInv'
  BY <1>1, <1>2, <1>3, <1>5, <1>10, <1>12, ChainStep
<1>. QED
  BY <1>8, <1>11, <1>13 DEF IInv

LEMMA RotateStep == ASSUME IInv, NEW x \in Exchange, Rotate(x) PROVE IInv'
<1>. DEFINE h == HandleOf(x)
<1>1. /\ exchanges[x] \in ExchangeType /\ h \in Handles /\ exchanges[x].at = "rotate"
      /\ ~At(x, "unused") /\ Running(x)
  BY DEF Rotate, At, Running, HandleOf, IInv, TypeOK, ExchangeType
<1>2. /\ UNCHANGED <<granted, inFlight, controllers, callers, logins, logouts, ended, faults,
                     disturbed>>
  BY DEF Rotate
<1>3. PICK stage \in {"check", "reuse"}, s \in Token \union {Unheld, Dropped} :
        /\ exchanges' = [exchanges EXCEPT ![x] = [exchanges[x] EXCEPT !.at = stage]]
        /\ store' = [store EXCEPT ![h] = s]
        /\ stage = "check" => store[h] = exchanges[x].presented /\ s = exchanges[x].next
        /\ stage = "reuse" => /\ store[h] # exchanges[x].presented
                              /\ s \notin Token /\ (store[h] = Dropped => s = Dropped)
  <2>1. CASE IsLive(x) /\ store' = [store EXCEPT ![h] = Replacement(x)] /\ Goes(x, "check")
    <3>1. exchanges[x].next \in Token
      BY <1>1 DEF ExchangeType
    <3>. QED
      BY <2>1, <3>1 DEF IsLive, Replacement, Goes
  <2>2. CASE ~IsLive(x) /\ store' = [store EXCEPT ![h] = AfterReplay(h)] /\ Goes(x, "reuse")
    <3>1. AfterReplay(h) \in {Unheld, Dropped} /\ (store[h] = Dropped => AfterReplay(h) = Dropped)
      BY Tokens DEF AfterReplay
    <3>. QED
      BY <2>2, <3>1, Tokens DEF IsLive, Goes
  <2>. QED
    BY <2>1, <2>2 DEF Rotate
<1>. DEFINE e == [exchanges[x] EXCEPT !.at = stage]
<1>4. /\ e \in ExchangeType /\ e.at = stage /\ e.handle = h
      /\ e.settled = exchanges[x].settled /\ e.outcome = exchanges[x].outcome
      /\ e.aborted = exchanges[x].aborted /\ e.presented = exchanges[x].presented
      /\ e.next = exchanges[x].next
  BY <1>1 DEF ExchangeType, Stage, HandleOf
<1>5. exchanges' = [exchanges EXCEPT ![x] = e]
  BY <1>3
<1>6. exchanges'[x] = e
  BY <1>5 DEF IInv, TypeOK
<1>. HIDE DEF e
<1>7. TypeOK'
  BY <1>2, <1>3, <1>4, <1>5 DEF IInv, TypeOK
<1>8. \A g \in Handles : /\ Holds(g)' => Holds(g)
                         /\ store[g] = Dropped => store'[g] = Dropped
  <2>1. exchanges[x].presented \in Token
    BY <1>1 DEF ExchangeType
  <2>2. \A g \in Handles : store'[g] = IF g = h THEN s ELSE store[g]
    BY <1>3 DEF IInv, TypeOK
  <2>. QED
    BY <1>3, <2>1, <2>2, Tokens DEF Holds
<1>9. e.aborted <=> e.outcome # "none"
  BY <1>1, <1>4 DEF IInv, ExchangeInv
<1>10. ExchangeInv' /\ SlotInv' /\ CallerInv' /\ LoginInv' /\ DenialHasACause'
  BY <1>1, <1>2, <1>4, <1>5, <1>8, <1>9, MoveStep
<1>11. HandleOf(x)' = h
  BY <1>4, <1>6 DEF HandleOf
<1>12. ASSUME Own(h)'
       PROVE  HeldChain(HandleOf(x))' /\ ExchangeChain(x)' /\ ~exchanges[x].settled
  <2>1. Own(h)
    BY <1>2, <1>11, <1>12 DEF Own, Left
  <2>2. ExchangeChain(x)
    BY <2>1 DEF IInv, ChainInv
  <2>3. stage = "check" /\ s = exchanges[x].next /\ exchanges[x].next \in granted[h]
    BY <1>1, <1>3, <2>2 DEF ExchangeChain
  <2>4. store'[h] = s
    BY <1>1, <1>3 DEF IInv, TypeOK
  <2>5. ~exchanges[x].settled
    BY <1>1, <2>2 DEF ExchangeChain, IInv, ExchangeInv
  <2>6. HeldChain(HandleOf(x))'
    BY <1>2, <1>11, <2>3, <2>4 DEF HeldChain
  <2>7. ExchangeChain(x)'
    BY <1>1, <1>2, <1>4, <1>6, <1>11, <2>2, <2>3, <2>4 DEF ExchangeChain
  <2>. QED
    BY <2>5, <2>6, <2>7
<1>13. \A g \in Handles \ {h} : store'[g] = store[g] /\ granted'[g] = granted[g]
  BY <1>2, <1>3 DEF IInv, TypeOK
<1>14. ChainInv'
  BY <1>1, <1>2, <1>4, <1>5, <1>11, <1>12, <1>13, ChainStep
<1>. QED
  BY <1>7, <1>10, <1>14 DEF IInv

LEMMA ProviderStep == ASSUME IInv, NEW x \in Exchange, Provider(x) PROVE IInv'
<1>. DEFINE h == HandleOf(x)
            t == exchanges[x].presented
<1>1. /\ exchanges[x] \in ExchangeType /\ h \in Handles /\ exchanges[x].at = "sent"
      /\ ~At(x, "unused") /\ Running(x) /\ t \in Token
  BY DEF Provider, At, Running, HandleOf, IInv, TypeOK, ExchangeType
<1>2. UNCHANGED <<store, inFlight, controllers, callers, logins, logouts, ended, faults, disturbed>>
  BY DEF Provider
<1>3. CASE t \notin granted[h] /\ Goes(x, "refused") /\ UNCHANGED granted
  <2>1. ~Own(h)
    BY <1>1, <1>3 DEF IInv, ChainInv, ExchangeChain
  <2>2. "refused" \in Stage \ {"unused", "over"}
    BY DEF Stage
  <2>. QED
    BY <1>1, <1>2, <1>3, <2>1, <2>2, GoStep
<1>4. ASSUME NEW next \in {x, t}, t \in granted[h],
             granted' = [granted EXCEPT ![h] = (@ \ {t}) \union {next}],
             exchanges' = [exchanges EXCEPT ![x].at = "granted", ![x].next = next]
      PROVE  IInv'
  <2>. DEFINE e == [exchanges[x] EXCEPT !.at = "granted", !.next = next]
  <2>1. next \in Token
    BY <1>1, Tokens
  <2>2. /\ e \in ExchangeType /\ e.at = "granted" /\ e.handle = h
        /\ e.settled = exchanges[x].settled /\ e.outcome = exchanges[x].outcome
        /\ e.aborted = exchanges[x].aborted /\ e.presented = t /\ e.next = next
    BY <1>1, <2>1 DEF ExchangeType, Stage, HandleOf
  <2>3. exchanges' = [exchanges EXCEPT ![x] = e]
    BY <1>4 DEF IInv, TypeOK
  <2>4. exchanges'[x] = e
    BY <2>3 DEF IInv, TypeOK
  <2>. HIDE DEF e
  <2>5. granted'[h] = (granted[h] \ {t}) \union {next}
    BY <1>1, <1>4 DEF IInv, TypeOK
  <2>6. \A g \in Handles \ {h} : store'[g] = store[g] /\ granted'[g] = granted[g]
    BY <1>2, <1>4 DEF IInv, TypeOK
  <2>7. TypeOK'
    <3>1. \A g \in Handles : granted'[g] \in SUBSET Token
      BY <2>1, <2>5, <2>6 DEF IInv, TypeOK
    <3>2. granted' \in [Handles -> SUBSET Token]
      BY <1>4, <3>1 DEF IInv, TypeOK
    <3>. QED
      BY <1>2, <2>2, <2>3, <3>2 DEF IInv, TypeOK
  <2>8. \A g \in Handles : /\ Holds(g)' => Holds(g)
                           /\ store[g] = Dropped => store'[g] = Dropped
    BY <1>2 DEF Holds
  <2>9. e.aborted <=> e.outcome # "none"
    BY <1>1, <2>2 DEF IInv, ExchangeInv
  <2>10. ExchangeInv' /\ SlotInv' /\ CallerInv' /\ LoginInv' /\ DenialHasACause'
    BY <1>1, <1>2, <2>2, <2>3, <2>8, <2>9, MoveStep
  <2>11. HandleOf(x)' = h
    BY <2>2, <2>4 DEF HandleOf
  <2>12. ASSUME Own(h)'
         PROVE  HeldChain(HandleOf(x))' /\ ExchangeChain(x)' /\ ~exchanges[x].settled
    <3>1. Own(h)
      BY <1>2, <2>11, <2>12 DEF Own, Left
    <3>2. ExchangeChain(x)
      BY <3>1 DEF IInv, ChainInv
    <3>3. ~exchanges[x].settled
      BY <1>1, <3>2 DEF ExchangeChain, IInv, ExchangeInv
    <3>4. ExchangeChain(x)'
      BY <1>1, <1>2, <2>2, <2>4, <2>5, <2>11, <3>2 DEF ExchangeChain
    <3>5. HeldChain(HandleOf(x))'
      BY <1>1, <1>2, <2>2, <2>4, <2>5, <2>11, <3>2 DEF HeldChain, ExchangeChain
    <3>. QED
      BY <3>3, <3>4, <3>5
  <2>13. ChainInv'
    BY <1>1, <1>2, <2>2, <2>3, <2>6, <2>11, <2>12, ChainStep
  <2>. QED
    BY <2>7, <2>10, <2>13 DEF IInv
<1>. QED
  BY <1>3, <1>4 DEF Provider

-----------------------------------------------------------------------------
(* Steps of one handle *)

\* Only the handle has to be looked at, and its chain only before its login succeeded.
LEMMA HandleStep ==
    ASSUME IInv, NEW h \in Handles, TypeOK',
           UNCHANGED <<exchanges, inFlight, controllers, callers>>,
           disturbed \subseteq disturbed',
           \A g \in Handles \ {h} : /\ store'[g] = store[g] /\ granted'[g] = granted[g]
                                    /\ logins'[g] = logins[g] /\ logouts'[g] = logouts[g],
           logins[h].at = "in" => logins'[h].at = "in",
           Left(h) => Left(h)',
           LoginGood(h)',
           Own(h)' => /\ LoginChain(h)' /\ HeldChain(h)'
                      /\ \/ logins[h].at # "in"
                         \/ store'[h] = store[h] /\ granted'[h] = granted[h]
    PROVE  IInv'
<1>1. \A x \in Exchange : HandleOf(x) \in Handles
  BY DEF HandleOf, IInv, TypeOK, ExchangeType
<1>2. \A g \in Handles : (Own(g)' => Own(g)) /\ (Left(g) => Left(g)')
  BY DEF Own, Left
<1>3. ExchangeInv'
  BY <1>1 DEF IInv, ExchangeInv, At, Running, HandleOf
<1>4. SlotInv' /\ CallerInv'
  BY DEF IInv, SlotInv, CallerInv, At, HandleOf
<1>5. LoginInv'
  <2>1. ASSUME NEW g \in Handles, g # h PROVE LoginGood(g)'
    BY <2>1 DEF IInv, LoginInv, LoginGood, Holds, Left
  <2>. QED
    BY <2>1 DEF LoginInv
<1>6. DenialHasACause'
  BY <1>1, <1>2 DEF IInv, DenialHasACause, HandleOf
<1>7. ChainInv'
  <2>1. ASSUME NEW g \in Handles, Own(g)', g # h PROVE LoginChain(g)' /\ HeldChain(g)'
    BY <1>2, <2>1 DEF IInv, ChainInv, LoginChain, HeldChain, Holds, HandleOf
  <2>2. ASSUME NEW x \in Exchange, Own(HandleOf(x))' PROVE ExchangeChain(x)'
    <3>1. HandleOf(x)' = HandleOf(x) /\ HandleOf(x) \in Handles
      BY <1>1 DEF HandleOf
    <3>2. ExchangeChain(x)
      BY <1>2, <2>2, <3>1 DEF IInv, ChainInv
    <3>3. At(x, "unused") \/ logins[HandleOf(x)].at = "in"
      BY DEF IInv, ExchangeInv
    <3>4. CASE At(x, "unused")
      BY <3>1, <3>4 DEF ExchangeChain, At
    <3>5. CASE ~At(x, "unused")
      <4>1. store'[HandleOf(x)] = store[HandleOf(x)] /\ granted'[HandleOf(x)] = granted[HandleOf(x)]
        BY <2>2, <3>1, <3>3, <3>5
      <4>. QED
        BY <3>1, <3>2, <4>1 DEF ExchangeChain
    <3>. QED
      BY <3>4, <3>5
  <2>. QED
    BY <2>1, <2>2 DEF ChainInv
<1>. QED
  BY <1>3, <1>4, <1>5, <1>6, <1>7 DEF IInv

\* The values a handle's step may give, one by one.
LEMMA HandleValues ==
    ASSUME IInv, NEW h \in Handles,
           NEW s \in Token \union {Unheld, Dropped}, NEW g \in SUBSET Token,
           NEW login \in [at : LoginStage, late : BOOLEAN],
           NEW logout \in {"none", "revoking", "done", "failed"},
           store' = [store EXCEPT ![h] = s], granted' = [granted EXCEPT ![h] = g],
           logins' = [logins EXCEPT ![h] = login], logouts' = [logouts EXCEPT ![h] = logout],
           UNCHANGED <<exchanges, inFlight, controllers, callers, ended>>,
           faults' \in 0 .. MaxFaults,
           disturbed \subseteq disturbed', disturbed' \subseteq Handles,
           logins[h].at = "in" => login.at = "in",
           Left(h) => logout # "none",
           login.at \in {"none", "issue", "check", "in"} => ~login.late,
           login.at = "none" => s \notin Token,
           login.at = "out" => s \notin Token /\ (login.late => s = Dropped),
           logout # "none" => login.at = "in",
           logout = "done" => s \notin Token,
           h \notin disturbed' /\ logout = "none" =>
             /\ login.at \in {"issue", "check"} \/ login.late => 0 \in g
             /\ s \in Token => \/ s \in g
                               \/ s = store[h] /\ g = granted[h]
             /\ logins[h].at # "in" \/ (s = store[h] /\ g = granted[h])
    PROVE  IInv'
<1>1. /\ store'[h] = s /\ granted'[h] = g /\ logins'[h] = login /\ logouts'[h] = logout
      /\ \A k \in Handles \ {h} : /\ store'[k] = store[k] /\ granted'[k] = granted[k]
                                  /\ logins'[k] = logins[k] /\ logouts'[k] = logouts[k]
  BY DEF IInv, TypeOK
<1>2. TypeOK'
  BY DEF IInv, TypeOK
<1>3. LoginGood(h)'
  BY <1>1 DEF LoginGood, Holds, Left
<1>4. ASSUME Own(h)' PROVE LoginChain(h)' /\ HeldChain(h)'
  <2>1. h \notin disturbed' /\ logout = "none" /\ Own(h)
    BY <1>1, <1>4 DEF Own, Left
  <2>2. LoginChain(h)'
    BY <1>1, <2>1 DEF LoginChain
  <2>3. HeldChain(h)
    BY <2>1 DEF IInv, ChainInv
  <2>4. HeldChain(h)'
    BY <1>1, <2>1, <2>3 DEF HeldChain, Holds, HandleOf
  <2>. QED
    BY <2>2, <2>4
<1>5. Left(h) => Left(h)'
  BY <1>1 DEF Left
<1>6. Own(h)' => logins[h].at # "in" \/ (store'[h] = store[h] /\ granted'[h] = granted[h])
  BY <1>1 DEF Own, Left
<1>. QED
  BY <1>1, <1>2, <1>3, <1>4, <1>5, <1>6, HandleStep

\* What is known of a handle before its step.
LEMMA HandleNow ==
    ASSUME IInv, NEW h \in Handles
    PROVE  /\ store[h] \in Token \union {Unheld, Dropped} /\ granted[h] \in SUBSET Token
           /\ logins[h] \in [at : LoginStage, late : BOOLEAN]
           /\ logouts[h] \in {"none", "revoking", "done", "failed"}
           /\ store = [store EXCEPT ![h] = store[h]] /\ granted = [granted EXCEPT ![h] = granted[h]]
           /\ logins = [logins EXCEPT ![h] = logins[h]]
           /\ logouts = [logouts EXCEPT ![h] = logouts[h]]
           /\ LoginGood(h) /\ disturbed \subseteq Handles
           /\ ended \in 0 .. MaxLogouts /\ faults \in 0 .. MaxFaults
           /\ AfterRevoke(h) \in {Unheld, Dropped}
           /\ store[h] = Dropped => AfterRevoke(h) = Dropped
           /\ Own(h) => LoginChain(h)
BY Tokens DEF IInv, TypeOK, LoginInv, ChainInv, AfterRevoke

LEMMA RevokeCustodyStep == ASSUME IInv, NEW h \in Handles, RevokeCustody(h) PROVE IInv'
<1>. DEFINE s == AfterRevoke(h)
            logout == IF s = Dropped THEN "done" ELSE "failed"
<1>1. store' = [store EXCEPT ![h] = s] /\ store'[h] = s
  BY DEF RevokeCustody, IInv, TypeOK
<1>2. logouts' = [logouts EXCEPT ![h] = logout]
  BY <1>1 DEF RevokeCustody
<1>3. /\ s \in {Unheld, Dropped} /\ s \notin Token /\ s \in Token \union {Unheld, Dropped}
      /\ logout \in {"none", "revoking", "done", "failed"} /\ logout # "none"
  BY HandleNow, Tokens
<1>4. logins[h].at = "in" /\ ~logins[h].late /\ Left(h)
  BY HandleNow DEF LoginGood, Left, RevokeCustody
<1>5. UNCHANGED <<granted, inFlight, controllers, exchanges, callers, logins, ended, faults, disturbed>>
  BY DEF RevokeCustody
<1>. HIDE DEF s, logout
<1>6. faults' \in 0 .. MaxFaults /\ disturbed' \subseteq Handles /\ disturbed \subseteq disturbed'
  BY <1>5, HandleNow
<1>7. PICK g \in SUBSET Token, login \in [at : LoginStage, late : BOOLEAN] :
        /\ granted' = [granted EXCEPT ![h] = g] /\ logins' = [logins EXCEPT ![h] = login]
        /\ login.at = "in" /\ ~login.late
  BY <1>4, <1>5, HandleNow
<1>. QED
  BY <1>1, <1>2, <1>3, <1>5, <1>6, <1>7, HandleValues

\* The steps of a login leave logouts alone.
LEMMA LoginStep ==
    ASSUME IInv, NEW h \in Handles,
           NEW s \in Token \union {Unheld, Dropped}, NEW g \in SUBSET Token,
           NEW login \in [at : LoginStage, late : BOOLEAN],
           store' = [store EXCEPT ![h] = s], granted' = [granted EXCEPT ![h] = g],
           logins' = [logins EXCEPT ![h] = login],
           UNCHANGED <<exchanges, inFlight, controllers, callers, logouts, ended>>,
           faults' \in 0 .. MaxFaults, disturbed' = disturbed,
           logins[h].at # "in",
           login.at \in {"none", "issue", "check", "in"} => ~login.late,
           login.at = "none" => s \notin Token,
           login.at = "out" => s \notin Token /\ (login.late => s = Dropped),
           Own(h) =>
             /\ login.at \in {"issue", "check"} \/ login.late => 0 \in g
             /\ s \in Token => s \in g \/ (s = store[h] /\ g = granted[h])
    PROVE  IInv'
<1>1. logouts[h] = "none" /\ ~Left(h) /\ "none" \in {"none", "revoking", "done", "failed"}
  BY HandleNow DEF LoginGood, Left
<1>2. h \notin disturbed' => Own(h)
  BY <1>1 DEF Own
<1>3. logouts' = [logouts EXCEPT ![h] = "none"]
  BY <1>1, HandleNow
<1>4. disturbed \subseteq disturbed' /\ disturbed' \subseteq Handles
  BY HandleNow
<1>. QED
  BY <1>1, <1>2, <1>3, <1>4, HandleValues

LEMMA LoginExchangeStep == ASSUME IInv, NEW h \in Handles, LoginExchange(h) PROVE IInv'
<1>1. logins[h].at = "none" /\ ~logins[h].late /\ ~Holds(h)
  BY HandleNow DEF LoginExchange, LoginGood
<1>2. /\ UNCHANGED <<store, inFlight, controllers, exchanges, callers, logouts, ended, faults, disturbed>>
      /\ store' = [store EXCEPT ![h] = store[h]] /\ faults' \in 0 .. MaxFaults
  BY HandleNow DEF LoginExchange
<1>3. PICK at \in {"issue", "in"}, g \in SUBSET Token :
        /\ logins' = [logins EXCEPT ![h] = [logins[h] EXCEPT !.at = at]]
        /\ granted' = [granted EXCEPT ![h] = g]
        /\ at = "issue" => 0 \in g
  <2>1. CASE granted' = [granted EXCEPT ![h] = {0}] /\ LoginGoes(h, "issue")
    <3>1. {0} \in SUBSET Token
      BY Tokens
    <3>. QED
      BY <2>1, <3>1 DEF LoginGoes
  <2>2. CASE UNCHANGED granted /\ LoginGoes(h, "in")
    BY <2>2, HandleNow DEF LoginGoes
  <2>. QED
    BY <2>1, <2>2 DEF LoginExchange
<1>. DEFINE login == [logins[h] EXCEPT !.at = at]
<1>4. login \in [at : LoginStage, late : BOOLEAN] /\ login.at = at /\ ~login.late
  BY <1>1, HandleNow DEF LoginStage
<1>. HIDE DEF login
<1>5. logins' = [logins EXCEPT ![h] = login]
  BY <1>3 DEF login
<1>6. PICK s \in Token \union {Unheld, Dropped} :
        s \notin Token /\ store' = [store EXCEPT ![h] = s] /\ s = store[h]
  BY <1>1, <1>2, HandleNow DEF Holds
<1>7. login.at \in {"issue", "in"} /\ (login.at = "issue" => 0 \in g)
  BY <1>3, <1>4
<1>8. logins[h].at # "in"
  BY <1>1
<1>. QED
  BY <1>2, <1>3, <1>4, <1>5, <1>6, <1>7, <1>8, LoginStep

\* A login whose custody stays as it is goes on.
LEMMA LoginGoesStep ==
    ASSUME IInv, NEW h \in Handles, NEW login \in [at : LoginStage, late : BOOLEAN],
           logins' = [logins EXCEPT ![h] = login],
           UNCHANGED <<store, granted, exchanges, inFlight, controllers, callers, logouts, ended,
                       disturbed>>,
           faults' \in 0 .. MaxFaults,
           logins[h].at \in {"issue", "check", "cleanup"},
           login.at \in {"check", "cleanup", "in", "lost"},
           login.late => login.at \in {"cleanup", "lost"} /\ (logins[h].at = "issue" \/ logins[h].late),
           login.at = "check" => logins[h].at = "issue"
    PROVE  IInv'
<1>1. Own(h) => (login.at = "check" \/ login.late => 0 \in granted[h])
  BY HandleNow DEF LoginChain
<1>2. PICK s \in Token \union {Unheld, Dropped}, g \in SUBSET Token :
        /\ store' = [store EXCEPT ![h] = s] /\ granted' = [granted EXCEPT ![h] = g]
        /\ s = store[h] /\ g = granted[h]
  BY HandleNow
<1>3. /\ logins[h].at # "in" /\ login.at # "none" /\ login.at # "out" /\ login.at # "issue"
      /\ login.at \in {"none", "issue", "check", "in"} => ~login.late
  OBVIOUS
<1>4. Own(h) => (login.at \in {"issue", "check"} \/ login.late => 0 \in g)
  BY <1>1, <1>2, <1>3
<1>. QED
  BY <1>2, <1>3, <1>4, LoginStep

LEMMA IssueStep == ASSUME IInv, NEW h \in Handles, Issue(h) PROVE IInv'
<1>1. /\ logins[h].at = "issue" /\ ~logins[h].late
      /\ logins[h] \in [at : LoginStage, late : BOOLEAN]
  BY HandleNow DEF Issue, LoginGood
<1>2. /\ UNCHANGED <<granted, inFlight, controllers, exchanges, callers, logouts, ended, faults, disturbed>>
      /\ granted' = [granted EXCEPT ![h] = granted[h]] /\ faults' \in 0 .. MaxFaults
  BY HandleNow DEF Issue
<1>3. ASSUME NEW at \in {"check", "cleanup"}, LoginGoes(h, at)
      PROVE  \E login \in [at : LoginStage, late : BOOLEAN] :
               /\ logins' = [logins EXCEPT ![h] = login] /\ login.at = at /\ ~login.late
  <2>1. [logins[h] EXCEPT !.at = at] \in [at : LoginStage, late : BOOLEAN]
    BY <1>1 DEF LoginStage
  <2>. QED
    BY <1>1, <1>3, <2>1 DEF LoginGoes
<1>4. CASE Admissible(h)
  <2>1. store' = [store EXCEPT ![h] = 0] /\ LoginGoes(h, "check")
    BY <1>4 DEF Issue
  <2>2. PICK login \in [at : LoginStage, late : BOOLEAN] :
          logins' = [logins EXCEPT ![h] = login] /\ login.at = "check" /\ ~login.late
    BY <1>3, <2>1
  <2>3. Own(h) => 0 \in granted[h]
    BY <1>1, HandleNow DEF LoginChain
  <2>. QED
    BY <1>1, <1>2, <2>1, <2>2, <2>3, Tokens, HandleNow, LoginStep
<1>5. CASE ~Admissible(h)
  <2>1. UNCHANGED store /\ LoginGoes(h, "cleanup")
    BY <1>5 DEF Issue
  <2>2. PICK login \in [at : LoginStage, late : BOOLEAN] :
          logins' = [logins EXCEPT ![h] = login] /\ login.at = "cleanup" /\ ~login.late
    BY <1>3, <2>1
  <2>. QED
    BY <1>1, <1>2, <2>1, <2>2, LoginGoesStep
<1>. QED
  BY <1>4, <1>5

LEMMA CheckLoginStep == ASSUME IInv, NEW h \in Handles, CheckLogin(h) PROVE IInv'
<1>. DEFINE at == IF store[h] = 0 THEN "in" ELSE "cleanup"
            login == [logins[h] EXCEPT !.at = at]
<1>1. logins[h].at = "check" /\ ~logins[h].late
  BY HandleNow DEF CheckLogin, LoginGood
<1>2. /\ login \in [at : LoginStage, late : BOOLEAN] /\ login.at \in {"in", "cleanup"} /\ ~login.late
  BY <1>1, HandleNow DEF LoginStage
<1>3. logins' = [logins EXCEPT ![h] = login]
  BY DEF CheckLogin, LoginGoes
<1>. HIDE DEF login
<1>4. /\ UNCHANGED <<store, granted, exchanges, inFlight, controllers, callers, logouts, ended,
                     disturbed>>
      /\ faults' \in 0 .. MaxFaults
  BY HandleNow DEF CheckLogin
<1>. QED
  BY <1>1, <1>2, <1>3, <1>4, LoginGoesStep

LEMMA CutLoginStep == ASSUME IInv, NEW h \in Handles, CutLogin(h) PROVE IInv'
<1>. DEFINE login == [at |-> "cleanup", late |-> logins[h].at = "issue"]
<1>1. logins[h].at \in {"issue", "check"}
  BY DEF CutLogin
<1>2. /\ login \in [at : LoginStage, late : BOOLEAN] /\ login.at = "cleanup"
      /\ login.late => logins[h].at = "issue"
  BY DEF LoginStage
<1>3. logins' = [logins EXCEPT ![h] = login]
  BY DEF CutLogin
<1>. HIDE DEF login
<1>4. /\ UNCHANGED <<store, granted, exchanges, inFlight, controllers, callers, logouts, ended,
                     disturbed>>
      /\ faults' \in 0 .. MaxFaults
  BY HandleNow DEF CutLogin
<1>. QED
  BY <1>1, <1>2, <1>3, <1>4, LoginGoesStep

LEMMA LateIssueStep == ASSUME IInv, NEW h \in Handles, LateIssue(h) PROVE IInv'
<1>. DEFINE s == IF Admissible(h) THEN 0 ELSE store[h]
            login == [logins[h] EXCEPT !.late = FALSE]
<1>1. logins[h].late /\ logins[h].at \notin {"none", "issue", "check", "in"}
  BY HandleNow DEF LateIssue, LoginGood
<1>2. /\ login \in [at : LoginStage, late : BOOLEAN] /\ login.at = logins[h].at /\ ~login.late
  BY HandleNow
<1>3. logins' = [logins EXCEPT ![h] = login]
  BY DEF LateIssue, IInv, TypeOK
<1>4. store' = [store EXCEPT ![h] = s]
  BY DEF LateIssue
<1>5. s \in {0, store[h]} /\ s \in Token \union {Unheld, Dropped}
  BY HandleNow, Tokens
<1>6. logins[h].at = "out" => s = Dropped /\ s \notin Token
  BY <1>1, HandleNow, Tokens DEF LoginGood, Admissible
<1>7. Own(h) => 0 \in granted[h]
  BY <1>1, HandleNow DEF LoginChain
<1>. HIDE DEF login, s
<1>8. /\ UNCHANGED <<granted, exchanges, inFlight, controllers, callers, logouts, ended, disturbed>>
      /\ granted' = [granted EXCEPT ![h] = granted[h]] /\ faults' \in 0 .. MaxFaults
  BY HandleNow DEF LateIssue
<1>9. PICK g \in SUBSET Token : granted' = [granted EXCEPT ![h] = g] /\ g = granted[h]
  BY <1>8, HandleNow
<1>10. /\ logins[h].at # "in" /\ login.at \notin {"none", "issue", "check", "in"}
       /\ login.at = "out" => s \notin Token
       /\ Own(h) => 0 \in g /\ (s \in Token => s \in g \/ (s = store[h] /\ g = granted[h]))
  BY <1>1, <1>2, <1>5, <1>6, <1>7, <1>9
<1>. QED
  BY <1>2, <1>3, <1>4, <1>5, <1>8, <1>9, <1>10, LoginStep

LEMMA CleanupStep == ASSUME IInv, NEW h \in Handles, Cleanup(h) PROVE IInv'
<1>. DEFINE s == AfterRevoke(h)
            at == IF store[h] = Unheld /\ Full THEN "lost" ELSE "out"
            login == [logins[h] EXCEPT !.at = at]
<1>1. logins[h].at = "cleanup"
  BY DEF Cleanup
<1>2. /\ login \in [at : LoginStage, late : BOOLEAN] /\ login.at \in {"lost", "out"}
      /\ login.late = logins[h].late
      /\ login.at = "out" => s = Dropped
  BY HandleNow DEF LoginStage, AfterRevoke
<1>3. logins' = [logins EXCEPT ![h] = login] /\ store' = [store EXCEPT ![h] = s]
  BY DEF Cleanup, LoginGoes
<1>4. s \notin Token /\ s \in Token \union {Unheld, Dropped}
  BY HandleNow, Tokens
<1>5. Own(h) => (login.late => 0 \in granted[h])
  BY <1>2, HandleNow DEF LoginChain
<1>. HIDE DEF login, s
<1>6. /\ UNCHANGED <<granted, exchanges, inFlight, controllers, callers, logouts, ended, disturbed>>
      /\ granted' = [granted EXCEPT ![h] = granted[h]] /\ faults' \in 0 .. MaxFaults
  BY HandleNow DEF Cleanup
<1>7. PICK g \in SUBSET Token : granted' = [granted EXCEPT ![h] = g] /\ g = granted[h]
  BY <1>6, HandleNow
<1>8. /\ logins[h].at # "in" /\ login.at \notin {"none", "issue", "check", "in"}
      /\ login.at = "out" => s \notin Token /\ (login.late => s = Dropped)
      /\ Own(h) => (login.late => 0 \in g)
  BY <1>1, <1>2, <1>4, <1>5, <1>7
<1>. QED
  BY <1>2, <1>3, <1>4, <1>6, <1>7, <1>8, LoginStep

-----------------------------------------------------------------------------
(* Steps of the surroundings, of callers and of logouts *)

LEMMA StoreOutageStep == ASSUME IInv, NEW h \in Handles, StoreOutage(h) PROVE IInv'
<1>1. /\ UNCHANGED <<store, granted, inFlight, controllers, exchanges, callers, ended, disturbed>>
      /\ faults' \in 0 .. MaxFaults /\ disturbed \subseteq disturbed' /\ disturbed' \subseteq Handles
  BY HandleNow, CustodyAssumption DEF StoreOutage, Fault
<1>2. CASE logins[h].at = "cleanup" /\ LoginGoes(h, "lost") /\ UNCHANGED logouts
  <2>. DEFINE login == [logins[h] EXCEPT !.at = "lost"]
  <2>1. /\ login \in [at : LoginStage, late : BOOLEAN] /\ login.at = "lost"
        /\ login.late = logins[h].late
    BY HandleNow DEF LoginStage
  <2>2. logins' = [logins EXCEPT ![h] = login]
    BY <1>2 DEF LoginGoes
  <2>. HIDE DEF login
  <2>. QED
    BY <1>1, <1>2, <2>1, <2>2, LoginGoesStep
<1>3. CASE logouts[h] = "revoking" /\ logouts' = [logouts EXCEPT ![h] = "failed"] /\ UNCHANGED logins
  <2>0. /\ store[h] \in Token \union {Unheld, Dropped} /\ granted[h] \in SUBSET Token
        /\ logins[h] \in [at : LoginStage, late : BOOLEAN]
        /\ store' = [store EXCEPT ![h] = store[h]] /\ granted' = [granted EXCEPT ![h] = granted[h]]
        /\ logins' = [logins EXCEPT ![h] = logins[h]]
    BY <1>1, <1>3, HandleNow
  <2>1. PICK s \in Token \union {Unheld, Dropped}, g \in SUBSET Token,
             login \in [at : LoginStage, late : BOOLEAN] :
          /\ store' = [store EXCEPT ![h] = s] /\ granted' = [granted EXCEPT ![h] = g]
          /\ logins' = [logins EXCEPT ![h] = login]
          /\ s = store[h] /\ g = granted[h] /\ login = logins[h]
    BY ONLY <2>0
  <2>2. login.at = "in" /\ ~login.late
    BY <1>3, <2>1, HandleNow DEF LoginGood, Left
  <2>3. PICK logout \in {"none", "revoking", "done", "failed"} :
          logouts' = [logouts EXCEPT ![h] = logout] /\ logout # "none" /\ logout # "done"
    BY <1>3
  <2>. QED
    BY <1>1, <2>1, <2>2, <2>3, HandleValues
<1>. QED
  BY <1>2, <1>3 DEF StoreOutage

\* A handle's custody or grant is lost: its chain is cut.
LEMMA CutStep ==
    ASSUME IInv, NEW h \in Handles,
           NEW s \in Token \union {Unheld, Dropped}, NEW g \in SUBSET Token,
           store' = [store EXCEPT ![h] = s], granted' = [granted EXCEPT ![h] = g],
           disturbed' = disturbed \union {h}, faults' \in 0 .. MaxFaults,
           UNCHANGED <<inFlight, controllers, exchanges, callers, logins, logouts, ended>>,
           s = store[h] \/ (s = Unheld /\ ~logins[h].late)
    PROVE  IInv'
<1>1. PICK login \in [at : LoginStage, late : BOOLEAN],
           logout \in {"none", "revoking", "done", "failed"} :
        /\ logins' = [logins EXCEPT ![h] = login] /\ logouts' = [logouts EXCEPT ![h] = logout]
        /\ login = logins[h] /\ logout = logouts[h]
  BY HandleNow
<1>2. disturbed \subseteq disturbed' /\ disturbed' \subseteq Handles /\ h \in disturbed'
  BY HandleNow
<1>3. LoginGood(h) /\ Unheld \notin Token
  BY HandleNow, Tokens
<1>4. /\ login.at \in {"none", "issue", "check", "in"} => ~login.late
      /\ login.at = "none" => s \notin Token
      /\ login.at = "out" => s \notin Token /\ (login.late => s = Dropped)
      /\ logout # "none" => login.at = "in"
      /\ logout = "done" => s \notin Token
  BY <1>1, <1>3 DEF LoginGood, Holds, Left
<1>5. (logins[h].at = "in" => login.at = "in") /\ (Left(h) => logout # "none")
  BY <1>1 DEF Left
<1>6. h \notin disturbed' /\ logout = "none" => FALSE
  BY <1>2
<1>7. /\ store' = [store EXCEPT ![h] = s] /\ granted' = [granted EXCEPT ![h] = g]
      /\ logins' = [logins EXCEPT ![h] = login] /\ logouts' = [logouts EXCEPT ![h] = logout]
      /\ UNCHANGED <<exchanges, inFlight, controllers, callers, ended>>
      /\ faults' \in 0 .. MaxFaults
      /\ disturbed \subseteq disturbed' /\ disturbed' \subseteq Handles
  BY <1>1, <1>2
<1>. QED
  BY ONLY IInv, <1>4, <1>5, <1>6, <1>7, HandleValues

LEMMA RetireStep == ASSUME IInv, NEW h \in Handles, Retire(h) PROVE IInv'
<1>1. PICK s \in Token \union {Unheld, Dropped}, g \in SUBSET Token :
        /\ store' = [store EXCEPT ![h] = s] /\ granted' = [granted EXCEPT ![h] = g] /\ s = store[h]
  <2>1. {} \in SUBSET Token
    OBVIOUS
  <2>2. UNCHANGED store /\ granted' = [granted EXCEPT ![h] = {}]
    BY DEF Retire
  <2>. QED
    BY <2>1, <2>2, HandleNow
<1>2. /\ disturbed' = disturbed \union {h} /\ faults' \in 0 .. MaxFaults
      /\ UNCHANGED <<inFlight, controllers, exchanges, callers, logins, logouts, ended>>
  BY HandleNow, CustodyAssumption DEF Retire, Fault
<1>. QED
  BY <1>1, <1>2, CutStep

LEMMA ExpireStep == ASSUME IInv, NEW h \in Handles, Expire(h) PROVE IInv'
<1>1. PICK s \in Token \union {Unheld, Dropped}, g \in SUBSET Token :
        /\ store' = [store EXCEPT ![h] = s] /\ granted' = [granted EXCEPT ![h] = g]
        /\ s = Unheld /\ ~logins[h].late
  BY HandleNow DEF Expire
<1>2. /\ disturbed' = disturbed \union {h} /\ faults' \in 0 .. MaxFaults
      /\ UNCHANGED <<inFlight, controllers, exchanges, callers, logins, logouts, ended>>
  BY HandleNow, CustodyAssumption DEF Expire, Fault
<1>. QED
  BY <1>1, <1>2, CutStep

\* A step that only answers a caller, or makes one wait for an exchange that has not settled.
LEMMA CallerStep ==
    ASSUME IInv, NEW c \in Caller,
           NEW call \in [at : {"unused", "waiting", "answered"}, exchange : Token],
           callers' = [callers EXCEPT ![c] = call],
           call.at = "waiting" =>
             LET x == call.exchange IN x # None /\ ~At(x, "unused") /\ ~exchanges[x].settled,
           UNCHANGED <<store, granted, inFlight, controllers, exchanges, logins, logouts, ended,
                       faults, disturbed>>
    PROVE  IInv'
<1>1. \A b \in Caller : callers'[b] = IF b = c THEN call ELSE callers[b]
  BY DEF IInv, TypeOK
<1>2. TypeOK'
  BY DEF IInv, TypeOK
<1>3. CallerInv'
  BY <1>1 DEF IInv, CallerInv, At
<1>4. ExchangeInv' /\ SlotInv' /\ LoginInv' /\ DenialHasACause'
  BY DEF IInv, ExchangeInv, SlotInv, LoginInv, LoginGood, DenialHasACause, At, Running, HandleOf,
         Holds, Left
<1>5. ChainInv'
  BY DEF IInv, ChainInv, Own, LoginChain, HeldChain, ExchangeChain, Holds, HandleOf, Left
<1>. QED
  BY <1>2, <1>3, <1>4, <1>5 DEF IInv

LEMMA CallerLeavesStep == ASSUME IInv, NEW c \in Caller, CallerLeaves(c) PROVE IInv'
<1>. DEFINE call == [at |-> "answered", exchange |-> None]
<1>1. call \in [at : {"unused", "waiting", "answered"}, exchange : Token] /\ call.at = "answered"
  BY Tokens
<1>2. callers' = [callers EXCEPT ![c] = call]
  BY DEF CallerLeaves
<1>3. UNCHANGED <<store, granted, inFlight, controllers, exchanges, logins, logouts, ended, faults,
                  disturbed>>
  BY DEF CallerLeaves
<1>. HIDE DEF call
<1>. QED
  BY <1>1, <1>2, <1>3, CallerStep

\* A caller shares the exchange that has the slot.
LEMMA JoinStep ==
    ASSUME IInv, NEW c \in Caller, NEW h \in Handles, Shared(h),
           callers' = [callers EXCEPT ![c] = [at |-> "waiting", exchange |-> inFlight[h]]],
           UNCHANGED <<store, granted, inFlight, controllers, exchanges, logins, logouts, ended,
                       faults, disturbed>>
    PROVE  IInv'
<1>. DEFINE call == [at |-> "waiting", exchange |-> inFlight[h]]
<1>1. call \in [at : {"unused", "waiting", "answered"}, exchange : Token]
  BY DEF IInv, TypeOK
<1>2. LET x == call.exchange IN x # None /\ ~At(x, "unused") /\ ~exchanges[x].settled
  BY DEF Shared, IInv, SlotInv
<1>3. callers' = [callers EXCEPT ![c] = call]
  OBVIOUS
<1>. HIDE DEF call
<1>. QED
  BY <1>1, <1>2, <1>3, CallerStep

\* A caller starts an exchange, which takes the slot and its controller.
LEMMA StartStep ==
    ASSUME IInv, NEW c \in Caller, NEW h \in Handles, NEW x \in Exchange,
           logins[h].at = "in", ~Shared(h), At(x, "unused"),
           exchanges' = [exchanges EXCEPT ![x].at = "read", ![x].handle = h],
           controllers' = [controllers EXCEPT ![h] = x],
           inFlight' = [inFlight EXCEPT ![h] = x],
           callers' = [callers EXCEPT ![c] = [at |-> "waiting", exchange |-> x]],
           UNCHANGED <<store, granted, logins, logouts, ended, faults, disturbed>>
    PROVE  IInv'
<1>. DEFINE e == [exchanges[x] EXCEPT !.at = "read", !.handle = h]
<1>1. exchanges[x] \in ExchangeType /\ x \in Token /\ x # None
  BY Tokens DEF IInv, TypeOK
<1>2. exchanges[x].outcome = "none" /\ ~exchanges[x].settled
  BY DEF IInv, ExchangeInv
<1>3. /\ e \in ExchangeType /\ e.at = "read" /\ e.handle = h /\ e.outcome = "none" /\ ~e.settled
      /\ e.aborted = exchanges[x].aborted
  BY <1>1, <1>2 DEF ExchangeType, Stage
<1>4. \A y \in Exchange : exchanges'[y] = IF y = x THEN e ELSE exchanges[y]
  BY DEF IInv, TypeOK
<1>. HIDE DEF e
<1>5. \A g \in Handles : inFlight'[g] = IF g = h THEN x ELSE inFlight[g]
  BY DEF IInv, TypeOK
<1>6. \A g \in Handles : controllers'[g] = IF g = h THEN x ELSE controllers[g]
  BY DEF IInv, TypeOK
<1>7. \A b \in Caller :
        callers'[b] = IF b = c THEN [at |-> "waiting", exchange |-> x] ELSE callers[b]
  BY DEF IInv, TypeOK
<1>8. /\ \A y \in Exchange : exchanges'[y] \in ExchangeType
      /\ \A g \in Handles : inFlight'[g] \in Token /\ controllers'[g] \in Token
      /\ \A b \in Caller : callers'[b] \in [at : {"unused", "waiting", "answered"}, exchange : Token]
  <2>1. \A y \in Exchange : exchanges'[y] \in ExchangeType
    BY <1>3, <1>4 DEF IInv, TypeOK
  <2>2. \A g \in Handles : inFlight'[g] \in Token /\ controllers'[g] \in Token
    BY <1>1, <1>5, <1>6 DEF IInv, TypeOK
  <2>3. \A b \in Caller : callers'[b] \in [at : {"unused", "waiting", "answered"}, exchange : Token]
    BY <1>1, <1>7 DEF IInv, TypeOK
  <2>. QED
    BY <2>1, <2>2, <2>3
<1>9. TypeOK'
  <2>1. exchanges' \in [Exchange -> ExchangeType]
    BY <1>8 DEF IInv, TypeOK
  <2>2. inFlight' \in [Handles -> Token] /\ controllers' \in [Handles -> Token]
    BY <1>8 DEF IInv, TypeOK
  <2>3. callers' \in [Caller -> [at : {"unused", "waiting", "answered"}, exchange : Token]]
    BY <1>8 DEF IInv, TypeOK
  <2>. QED
    BY <2>1, <2>2, <2>3 DEF IInv, TypeOK
<1>10. ExchangeInv'
  <2>1. /\ e.at = "read" => (e.aborted <=> e.outcome # "none")
        /\ ~e.aborted /\ e.outcome = "none" /\ ~e.settled
    BY <1>3 DEF IInv, ExchangeInv
  <2>2. logins'[h].at = "in" /\ logins' = logins
    OBVIOUS
  <2>3. ExchangeInv
    BY DEF IInv
  <2>4. \A y \in Exchange : exchanges'[y] = e \/ exchanges'[y] = exchanges[y]
    BY <1>4
  <2>. QED
    BY ONLY <1>3, <2>1, <2>2, <2>3, <2>4 DEF ExchangeInv, At, Running, HandleOf
<1>11. SlotInv'
  <2>1. \A g \in Handles : /\ inFlight[g] # None => inFlight[g] \in Exchange
                           /\ controllers[g] # None => controllers[g] \in Exchange
    BY CustodyAssumption DEF IInv, TypeOK, Token, Exchange, None
  <2>2. \A g \in Handles : inFlight[g] # x /\ controllers[g] # x
    BY <1>1 DEF IInv, SlotInv
  <2>3. SlotInv
    BY DEF IInv
  <2>4. ASSUME NEW g \in Handles, inFlight'[g] # None
        PROVE  LET y == inFlight'[g]
               IN  exchanges'[y].at # "unused" /\ ~exchanges'[y].settled /\ exchanges'[y].handle = g
    <3>1. CASE g = h
      BY <1>3, <1>4, <1>5, <3>1
    <3>2. CASE g # h
      <4>1. inFlight'[g] = inFlight[g] /\ inFlight[g] # None
        BY <1>5, <2>4, <3>2
      <4>2. inFlight[g] \in Exchange /\ exchanges'[inFlight[g]] = exchanges[inFlight[g]]
        BY <1>4, <2>1, <2>2, <4>1
      <4>. QED
        BY <2>3, <4>1, <4>2 DEF SlotInv, At, HandleOf
    <3>. QED
      BY <3>1, <3>2
  <2>5. ASSUME NEW g \in Handles, controllers'[g] # None
        PROVE  LET y == controllers'[g]
               IN  exchanges'[y].at # "unused" /\ exchanges'[y].handle = g
    <3>1. CASE g = h
      BY <1>3, <1>4, <1>6, <3>1
    <3>2. CASE g # h
      <4>1. controllers'[g] = controllers[g] /\ controllers[g] # None
        BY <1>6, <2>5, <3>2
      <4>2. controllers[g] \in Exchange /\ exchanges'[controllers[g]] = exchanges[controllers[g]]
        BY <1>4, <2>1, <2>2, <4>1
      <4>. QED
        BY <2>3, <4>1, <4>2 DEF SlotInv, At, HandleOf
    <3>. QED
      BY <3>1, <3>2
  <2>. QED
    BY <2>4, <2>5 DEF SlotInv, At, HandleOf
<1>12. CallerInv'
  <2>1. \A b \in Caller : callers[b].exchange # None => callers[b].exchange \in Exchange
    BY CustodyAssumption DEF IInv, TypeOK, Token, Exchange, None
  <2>2. ASSUME NEW b \in Caller, callers'[b].at = "waiting"
        PROVE  LET y == callers'[b].exchange
               IN  y # None /\ exchanges'[y].at # "unused" /\ ~exchanges'[y].settled
    <3>1. CASE b = c
      <4>1. callers'[b].exchange = x /\ exchanges'[x] = e
        BY ONLY <1>4, <1>7, <3>1
      <4>. QED
        BY <1>1, <1>3, <4>1
    <3>2. CASE b # c
      <4>1. callers'[b] = callers[b]
        BY <1>7, <3>2
      <4>2. LET y == callers[b].exchange
            IN  y # None /\ exchanges[y].at # "unused" /\ ~exchanges[y].settled
        BY <2>2, <4>1 DEF IInv, CallerInv, At
      <4>3. exchanges'[callers[b].exchange] = exchanges[callers[b].exchange]
        BY <1>4, <2>1, <4>2 DEF At
      <4>. QED
        BY <4>1, <4>2, <4>3
    <3>. QED
      BY <3>1, <3>2
  <2>. QED
    BY <2>2 DEF CallerInv, At
<1>13. LoginInv'
  <2>1. LoginInv /\ UNCHANGED <<store, logins, logouts>>
    BY DEF IInv
  <2>. QED
    BY ONLY <2>1 DEF LoginInv, LoginGood, Holds, Left
<1>14. DenialHasACause'
  <2>1. DenialHasACause /\ UNCHANGED <<logouts, disturbed>>
    BY DEF IInv
  <2>2. \A y \in Exchange : exchanges'[y].outcome = "denied" => exchanges'[y] = exchanges[y]
    BY <1>3, <1>4
  <2>. QED
    BY ONLY <2>1, <2>2 DEF DenialHasACause, HandleOf, Left
<1>15. \A g \in Handles : Own(g)' => Own(g)
  BY DEF Own, Left
<1>16. ASSUME NEW g \in Handles, Own(g)' PROVE LoginChain(g)' /\ HeldChain(g)'
  <2>1. LoginChain(g) /\ HeldChain(g)
    BY <1>15, <1>16 DEF IInv, ChainInv
  <2>2. \A y \in Exchange : exchanges[y].at \in {"granted", "rotate"} => exchanges'[y] = exchanges[y]
    BY <1>4 DEF At
  <2>. QED
    BY <2>1, <2>2 DEF LoginChain, HeldChain, Holds, HandleOf
<1>17. ASSUME NEW y \in Exchange, Own(HandleOf(y))' PROVE ExchangeChain(y)'
  <2>1. CASE y = x
    BY <1>3, <1>4, <1>5, <2>1 DEF ExchangeChain, HandleOf
  <2>2. CASE y # x
    <3>1. exchanges'[y] = exchanges[y] /\ HandleOf(y)' = HandleOf(y) /\ HandleOf(y) \in Handles
      BY <1>4, <2>2 DEF HandleOf, IInv, TypeOK, ExchangeType
    <3>2. Own(HandleOf(y))
      BY <1>15, <1>17, <3>1
    <3>3. ExchangeChain(y)
      BY <3>2 DEF IInv, ChainInv
    <3>4. CASE HandleOf(y) # h
      BY <1>5, <3>1, <3>3, <3>4 DEF ExchangeChain, HandleOf
    <3>5. CASE HandleOf(y) = h
      <4>1. At(y, "unused") \/ exchanges[y].settled
        BY <3>3, <3>5, Tokens DEF ExchangeChain, Shared, At, HandleOf
      <4>. QED
        BY <3>1, <3>2, <4>1, SettledIsIdle DEF ExchangeChain, At
    <3>. QED
      BY <3>4, <3>5
  <2>. QED
    BY <2>1, <2>2
<1>. QED
  BY <1>9, <1>10, <1>11, <1>12, <1>13, <1>14, <1>16, <1>17 DEF IInv, ChainInv

LEMMA RefreshStep ==
    ASSUME IInv, NEW c \in Caller, NEW h \in Handles, Refresh(c, h) PROVE IInv'
<1>1. /\ UNCHANGED <<store, granted, logins, logouts, ended, faults, disturbed>>
      /\ logins[h].at = "in"
  BY DEF Refresh
<1>2. CASE /\ Shared(h)
           /\ callers' = [callers EXCEPT ![c] = [at |-> "waiting", exchange |-> inFlight[h]]]
           /\ UNCHANGED <<inFlight, controllers, exchanges>>
  BY <1>1, <1>2, JoinStep
<1>3. CASE /\ callers' = [callers EXCEPT ![c].at = "answered"]
           /\ UNCHANGED <<inFlight, controllers, exchanges>>
  <2>. DEFINE call == [callers[c] EXCEPT !.at = "answered"]
  <2>1. /\ call \in [at : {"unused", "waiting", "answered"}, exchange : Token]
        /\ call.at = "answered"
    BY DEF IInv, TypeOK
  <2>2. callers' = [callers EXCEPT ![c] = call]
    BY <1>3
  <2>. HIDE DEF call
  <2>. QED
    BY <1>1, <1>3, <2>1, <2>2, CallerStep
<1>4. CASE ~Shared(h) /\ \E x \in Exchange :
             /\ At(x, "unused")
             /\ exchanges' = [exchanges EXCEPT ![x].at = "read", ![x].handle = h]
             /\ controllers' = [controllers EXCEPT ![h] = x]
             /\ inFlight' = [inFlight EXCEPT ![h] = x]
             /\ callers' = [callers EXCEPT ![c] = [at |-> "waiting", exchange |-> x]]
  BY <1>1, <1>4, StartStep
<1>. QED
  BY <1>2, <1>3, <1>4 DEF Refresh

\* The promise around an exchange settles: its slot is given back and its callers are answered.
LEMMA SettleStep == ASSUME IInv, NEW x \in Exchange, Settle(x) PROVE IInv'
<1>. DEFINE h == HandleOf(x)
            e == [exchanges[x] EXCEPT !.settled = TRUE]
<1>1. /\ exchanges[x] \in ExchangeType /\ h \in Handles /\ x # None
      /\ exchanges[x].outcome # "none" /\ ~exchanges[x].settled /\ exchanges[x].at # "unused"
  BY Tokens DEF Settle, HandleOf, IInv, TypeOK, ExchangeType, ExchangeInv, At
<1>2. /\ e \in ExchangeType /\ e.at = exchanges[x].at /\ e.handle = h /\ e.settled
      /\ e.outcome = exchanges[x].outcome /\ e.aborted = exchanges[x].aborted
      /\ e.presented = exchanges[x].presented /\ e.next = exchanges[x].next
  BY <1>1 DEF ExchangeType, HandleOf
<1>3. \A y \in Exchange : exchanges'[y] = IF y = x THEN e ELSE exchanges[y]
  BY DEF Settle, IInv, TypeOK
<1>. HIDE DEF e
<1>4. \A g \in Handles : inFlight'[g] = IF g = h THEN None ELSE inFlight[g]
  BY <1>1 DEF Settle, Freed, IInv, TypeOK
<1>5. \A g \in Handles : controllers'[g] \in {controllers[g], None}
  BY <1>1 DEF Settle, IInv, TypeOK
<1>6. \A c \in Caller : callers'[c] = IF callers[c] = [at |-> "waiting", exchange |-> x]
                                      THEN [at |-> "answered", exchange |-> None] ELSE callers[c]
  BY DEF Settle
<1>7. UNCHANGED <<store, granted, logins, logouts, ended, faults, disturbed>>
  BY DEF Settle
<1>8. \A y \in Exchange : /\ exchanges'[y].at = exchanges[y].at
                          /\ exchanges'[y].handle = exchanges[y].handle
                          /\ exchanges'[y].outcome = exchanges[y].outcome
                          /\ exchanges'[y].aborted = exchanges[y].aborted
                          /\ exchanges'[y].presented = exchanges[y].presented
                          /\ exchanges'[y].next = exchanges[y].next
                          /\ exchanges'[y].settled = (y = x \/ exchanges[y].settled)
  <2>1. \A y \in Exchange : exchanges[y].settled \in BOOLEAN
    BY DEF IInv, TypeOK, ExchangeType
  <2>. QED
    BY <1>2, <1>3, <2>1 DEF HandleOf
<1>9. TypeOK'
  <2>1. exchanges' \in [Exchange -> ExchangeType]
    <3>1. \A y \in Exchange : exchanges'[y] \in ExchangeType
      BY <1>2, <1>3 DEF IInv, TypeOK
    <3>. QED
      BY <3>1 DEF Settle, IInv, TypeOK
  <2>2. inFlight' \in [Handles -> Token]
    BY Tokens DEF Settle, Freed, IInv, TypeOK
  <2>3. controllers' \in [Handles -> Token]
    BY Tokens DEF Settle, IInv, TypeOK
  <2>4. callers' \in [Caller -> [at : {"unused", "waiting", "answered"}, exchange : Token]]
    BY Tokens DEF Settle, IInv, TypeOK
  <2>. QED
    BY <1>7, <2>1, <2>2, <2>3, <2>4 DEF IInv, TypeOK
<1>10. ExchangeInv'
  <2>1. ExchangeInv
    BY DEF IInv
  <2>2. \A y \in Exchange : exchanges'[y].settled => exchanges'[y].outcome # "none"
    BY <1>1, <1>8, <2>1 DEF ExchangeInv
  <2>3. \A y \in Exchange : /\ exchanges'[y].at = exchanges[y].at
                            /\ exchanges'[y].handle = exchanges[y].handle
                            /\ exchanges'[y].outcome = exchanges[y].outcome
                            /\ exchanges'[y].aborted = exchanges[y].aborted
    BY <1>8
  <2>. QED
    BY ONLY <1>7, <2>1, <2>2, <2>3 DEF ExchangeInv, At, Running, HandleOf
<1>11. SlotInv'
  <2>1. SlotInv
    BY DEF IInv
  <2>2. ASSUME NEW g \in Handles, inFlight'[g] # None
        PROVE  LET y == inFlight'[g]
               IN  exchanges'[y].at # "unused" /\ ~exchanges'[y].settled /\ exchanges'[y].handle = g
    <3>1. g # h /\ inFlight'[g] = inFlight[g]
      BY <1>4, <2>2
    <3>2. inFlight[g] \in Exchange
      BY <2>2, <3>1, CustodyAssumption DEF IInv, TypeOK, Token, Exchange, None
    <3>3. /\ exchanges[inFlight[g]].handle = g /\ ~exchanges[inFlight[g]].settled
          /\ exchanges[inFlight[g]].at # "unused"
      BY <2>1, <2>2, <3>1 DEF SlotInv, At, HandleOf
    <3>4. inFlight[g] # x
      BY <3>1, <3>3 DEF HandleOf
    <3>. QED
      BY <1>8, <3>1, <3>2, <3>3, <3>4
  <2>3. ASSUME NEW g \in Handles, controllers'[g] # None
        PROVE  LET y == controllers'[g]
               IN  exchanges'[y].at # "unused" /\ exchanges'[y].handle = g
    <3>1. controllers'[g] = controllers[g] /\ controllers[g] # None
      BY <1>5, <2>3
    <3>2. controllers[g] \in Exchange
      BY <3>1, CustodyAssumption DEF IInv, TypeOK, Token, Exchange, None
    <3>. QED
      BY <1>8, <2>1, <3>1, <3>2 DEF SlotInv, At, HandleOf
  <2>. QED
    BY <2>2, <2>3 DEF SlotInv, At, HandleOf
<1>12. CallerInv'
  <2>1. ASSUME NEW c \in Caller, callers'[c].at = "waiting"
        PROVE  LET y == callers'[c].exchange
               IN  y # None /\ exchanges'[y].at # "unused" /\ ~exchanges'[y].settled
    <3>1. callers'[c] = callers[c] /\ callers[c] # [at |-> "waiting", exchange |-> x]
      BY <1>6, <2>1
    <3>2. callers[c] \in [at : {"unused", "waiting", "answered"}, exchange : Token]
      BY DEF IInv, TypeOK
    <3>3. callers[c].exchange # x
      BY <2>1, <3>1, <3>2
    <3>4. LET y == callers[c].exchange
          IN  y # None /\ exchanges[y].at # "unused" /\ ~exchanges[y].settled
      BY <2>1, <3>1 DEF IInv, CallerInv, At
    <3>5. callers[c].exchange \in Exchange
      BY <3>2, <3>4, CustodyAssumption DEF Token, Exchange, None
    <3>. QED
      BY <1>8, <3>1, <3>3, <3>4, <3>5
  <2>. QED
    BY <2>1 DEF CallerInv, At
<1>13. LoginInv'
  <2>1. LoginInv
    BY DEF IInv
  <2>. QED
    BY ONLY <1>7, <2>1 DEF LoginInv, LoginGood, Holds, Left
<1>14. DenialHasACause'
  <2>1. DenialHasACause
    BY DEF IInv
  <2>. QED
    BY ONLY <1>7, <1>8, <2>1 DEF DenialHasACause, HandleOf, Left
<1>15. ASSUME NEW g \in Handles, Own(g)' PROVE LoginChain(g)' /\ HeldChain(g)'
  <2>1. LoginChain(g) /\ HeldChain(g)
    BY <1>7, <1>15 DEF IInv, ChainInv, Own, Left
  <2>. QED
    BY ONLY <1>7, <1>8, <2>1 DEF LoginChain, HeldChain, Holds, HandleOf
<1>16. ASSUME NEW y \in Exchange, Own(HandleOf(y))' PROVE ExchangeChain(y)'
  <2>1. HandleOf(y)' = HandleOf(y) /\ HandleOf(y) \in Handles /\ Own(HandleOf(y))
    BY <1>7, <1>8, <1>16 DEF HandleOf, Own, Left, IInv, TypeOK, ExchangeType
  <2>2. ExchangeChain(y)
    BY <2>1 DEF IInv, ChainInv
  <2>3. exchanges'[y].at # "unused" /\ ~exchanges'[y].settled => inFlight'[HandleOf(y)] = y
    <3>1. CASE y = x
      BY <1>8, <3>1
    <3>2. CASE y # x /\ HandleOf(y) = h /\ exchanges[y].at # "unused"
      <4>1. exchanges[y].settled
        BY <1>1, <2>1, <3>2, OneUnsettled DEF At
      <4>. QED
        BY <1>8, <4>1
    <3>3. CASE HandleOf(y) # h \/ exchanges[y].at = "unused"
      BY <1>4, <1>8, <2>1, <2>2, <3>3 DEF ExchangeChain
    <3>. QED
      BY <3>1, <3>2, <3>3
  <2>. QED
    BY ONLY <1>7, <1>8, <2>1, <2>2, <2>3 DEF ExchangeChain
<1>. QED
  BY <1>9, <1>10, <1>11, <1>12, <1>13, <1>14, <1>15, <1>16 DEF IInv, ChainInv

\* logout(): the handle leaves, with the exchange its controller is of cut off.
LEMMA LogoutStep == ASSUME IInv, NEW h \in Handles, Logout(h) PROVE IInv'
<1>1. /\ logins[h].at = "in" /\ ended' \in 0 .. MaxLogouts
      /\ UNCHANGED <<store, granted, callers, logins, faults, disturbed>>
  BY CustodyAssumption DEF Logout, IInv, TypeOK
<1>2. \A x \in Exchange : x \in Aborted(h) => ~At(x, "unused") /\ HandleOf(x) = h
  BY DEF Aborted, IInv, SlotInv
<1>3. \A x \in Exchange : exchanges'[x] = IF x \in Aborted(h) THEN Cut(x) ELSE exchanges[x]
  BY DEF Logout
<1>4. \A x \in Exchange : /\ Cut(x) \in ExchangeType /\ Cut(x).at = exchanges[x].at
                          /\ Cut(x).handle = exchanges[x].handle
                          /\ Cut(x).settled = exchanges[x].settled
                          /\ Cut(x).aborted = TRUE /\ Cut(x).outcome # "none"
                          /\ Cut(x).outcome = "denied" => exchanges[x].outcome = "denied"
  <2>. SUFFICES ASSUME NEW x \in Exchange
                PROVE  /\ Cut(x) \in ExchangeType /\ Cut(x).at = exchanges[x].at
                       /\ Cut(x).handle = exchanges[x].handle
                       /\ Cut(x).settled = exchanges[x].settled
                       /\ Cut(x).aborted = TRUE /\ Cut(x).outcome # "none"
                       /\ Cut(x).outcome = "denied" => exchanges[x].outcome = "denied"
    OBVIOUS
  <2>. DEFINE outcome == IF exchanges[x].outcome = "none" THEN "cut" ELSE exchanges[x].outcome
  <2>1. exchanges[x] \in ExchangeType
    BY DEF IInv, TypeOK
  <2>2. /\ outcome \in Outcome /\ outcome # "none"
        /\ outcome = "denied" => exchanges[x].outcome = "denied"
    BY <2>1 DEF ExchangeType, Outcome
  <2>3. Cut(x) = [exchanges[x] EXCEPT !.aborted = TRUE, !.outcome = outcome]
    BY DEF Cut
  <2>. HIDE DEF outcome
  <2>. QED
    BY <2>1, <2>2, <2>3 DEF ExchangeType
<1>5. \A x \in Exchange : /\ exchanges'[x] \in ExchangeType
                          /\ exchanges'[x].at = exchanges[x].at
                          /\ exchanges'[x].handle = exchanges[x].handle
                          /\ exchanges'[x].settled = exchanges[x].settled
                          /\ exchanges[x].outcome # "none" => exchanges'[x].outcome # "none"
                          /\ exchanges'[x].outcome = "denied" => exchanges[x].outcome = "denied"
                          /\ exchanges[x].handle # h => exchanges'[x] = exchanges[x]
                          /\ exchanges[x].at = "unused" => exchanges'[x] = exchanges[x]
                          /\ \/ exchanges'[x] = exchanges[x]
                             \/ exchanges'[x].aborted = TRUE /\ exchanges'[x].outcome # "none"
  BY <1>2, <1>3, <1>4 DEF IInv, TypeOK, At, HandleOf
<1>6. \A g \in Handles : /\ inFlight'[g] = IF g = h THEN None ELSE inFlight[g]
                         /\ controllers'[g] = IF g = h THEN None ELSE controllers[g]
                         /\ logouts'[g] = IF g = h THEN "revoking" ELSE logouts[g]
  BY DEF Logout, IInv, TypeOK
<1>7. TypeOK'
  <2>1. exchanges' \in [Exchange -> ExchangeType]
    BY <1>5 DEF Logout
  <2>2. /\ inFlight' \in [Handles -> Token] /\ controllers' \in [Handles -> Token]
        /\ logouts' \in [Handles -> {"none", "revoking", "done", "failed"}]
    BY Tokens DEF Logout, IInv, TypeOK
  <2>. QED
    BY <1>1, <2>1, <2>2 DEF IInv, TypeOK
<1>8. ExchangeInv'
  <2>1. ExchangeInv
    BY DEF IInv
  <2>. QED
    BY ONLY <1>1, <1>5, <2>1 DEF ExchangeInv, At, Running, HandleOf
<1>9. SlotInv'
  <2>1. SlotInv
    BY DEF IInv
  <2>2. \A g \in Handles : /\ inFlight[g] # None => inFlight[g] \in Exchange
                           /\ controllers[g] # None => controllers[g] \in Exchange
    BY CustodyAssumption DEF IInv, TypeOK, Token, Exchange, None
  <2>. QED
    BY ONLY <1>5, <1>6, <2>1, <2>2 DEF SlotInv, At, HandleOf
<1>10. CallerInv'
  <2>1. CallerInv
    BY DEF IInv
  <2>2. \A c \in Caller : callers[c].exchange # None => callers[c].exchange \in Exchange
    BY CustodyAssumption DEF IInv, TypeOK, Token, Exchange, None
  <2>. QED
    BY ONLY <1>1, <1>5, <2>1, <2>2 DEF CallerInv, At
<1>11. LoginInv'
  <2>1. LoginInv
    BY DEF IInv
  <2>. QED
    BY ONLY <1>1, <1>6, <2>1 DEF LoginInv, LoginGood, Holds, Left
<1>12. \A g \in Handles : Own(g)' => Own(g) /\ g # h
  BY <1>1, <1>6 DEF Own, Left
<1>13. DenialHasACause'
  <2>1. DenialHasACause /\ \A x \in Exchange : HandleOf(x) \in Handles
    BY DEF IInv, HandleOf, TypeOK, ExchangeType
  <2>. QED
    BY ONLY <1>1, <1>5, <1>6, <2>1 DEF DenialHasACause, HandleOf, Left
<1>14. ASSUME NEW g \in Handles, Own(g)' PROVE LoginChain(g)' /\ HeldChain(g)'
  <2>1. LoginChain(g) /\ HeldChain(g) /\ g # h
    BY <1>12, <1>14 DEF IInv, ChainInv
  <2>. QED
    BY ONLY <1>1, <1>5, <2>1 DEF LoginChain, HeldChain, Holds, HandleOf
<1>15. ASSUME NEW y \in Exchange, Own(HandleOf(y))' PROVE ExchangeChain(y)'
  <2>1. HandleOf(y)' = HandleOf(y) /\ HandleOf(y) \in Handles
    BY <1>5 DEF HandleOf, IInv, TypeOK, ExchangeType
  <2>2. Own(HandleOf(y)) /\ HandleOf(y) # h
    BY <1>12, <1>15, <2>1
  <2>3. ExchangeChain(y) /\ exchanges'[y] = exchanges[y]
    BY <1>5, <2>2 DEF IInv, ChainInv, HandleOf
  <2>. QED
    BY ONLY <1>1, <1>6, <2>1, <2>2, <2>3 DEF ExchangeChain
<1>. QED
  BY <1>7, <1>8, <1>9, <1>10, <1>11, <1>13, <1>14, <1>15 DEF IInv, ChainInv

\* A restart ends every exchange; where one was between the provider and the store, the chain is cut.
LEMMA RestartStep == ASSUME IInv, Restart PROVE IInv'
<1>1. UNCHANGED <<store, ended>> /\ faults' \in 0 .. MaxFaults
  BY CustodyAssumption DEF Restart, Fault, IInv, TypeOK
<1>2. \A x \in Exchange : /\ exchanges[x] \in ExchangeType /\ HandleOf(x) \in Handles
                          /\ exchanges[x].presented \in Token
  BY DEF IInv, TypeOK, ExchangeType, HandleOf
<1>3. \A x \in Exchange :
        LET e == [Over(x, "cut") EXCEPT !.settled = TRUE]
        IN  /\ e \in ExchangeType /\ e.at = "over" /\ e.handle = exchanges[x].handle /\ e.settled
            /\ e.outcome # "none"
            /\ e.outcome = "denied" => exchanges[x].outcome = "denied"
  BY <1>2, Tokens DEF Over, ExchangeType, Stage, Outcome
<1>4. \A x \in Exchange :
        /\ exchanges'[x] \in ExchangeType
        /\ exchanges'[x].handle = exchanges[x].handle
        /\ exchanges'[x].outcome = "denied" => exchanges[x].outcome = "denied"
        /\ \/ exchanges[x].at = "unused" /\ exchanges'[x] = exchanges[x]
           \/ /\ exchanges[x].at # "unused" /\ exchanges'[x].at = "over" /\ exchanges'[x].settled
              /\ exchanges'[x].outcome # "none"
  <2>1. \A x \in Exchange : exchanges'[x] = IF At(x, "unused") THEN exchanges[x]
                                            ELSE [Over(x, "cut") EXCEPT !.settled = TRUE]
    BY DEF Restart
  <2>. QED
    BY <1>2, <1>3, <2>1 DEF At
<1>5. \A h \in Handles :
        /\ inFlight'[h] = None /\ controllers'[h] = None
        /\ logins'[h] = IF logins[h].at \in {"issue", "check", "cleanup"}
                        THEN [at |-> "lost", late |-> FALSE] ELSE [logins[h] EXCEPT !.late = FALSE]
        /\ logouts'[h] = IF logouts[h] = "revoking" THEN "failed" ELSE logouts[h]
  BY DEF Restart, Emptied
<1>6. \A h \in Handles :
        /\ logins'[h] \in [at : LoginStage, late : BOOLEAN] /\ ~logins'[h].late
        /\ \/ logins'[h].at = logins[h].at /\ logins[h].at \notin {"issue", "check", "cleanup"}
           \/ logins'[h].at = "lost" /\ logins[h].at \in {"issue", "check", "cleanup"}
  <2>. SUFFICES ASSUME NEW h \in Handles
                PROVE  /\ logins'[h] \in [at : LoginStage, late : BOOLEAN] /\ ~logins'[h].late
                       /\ \/ /\ logins'[h].at = logins[h].at
                             /\ logins[h].at \notin {"issue", "check", "cleanup"}
                          \/ /\ logins'[h].at = "lost"
                             /\ logins[h].at \in {"issue", "check", "cleanup"}
    OBVIOUS
  <2>1. logins[h] \in [at : LoginStage, late : BOOLEAN]
    BY DEF IInv, TypeOK
  <2>2. CASE logins[h].at \in {"issue", "check", "cleanup"}
    <3>1. logins'[h] = [at |-> "lost", late |-> FALSE]
      BY <1>5, <2>2
    <3>. QED
      BY <2>2, <3>1 DEF LoginStage
  <2>3. CASE logins[h].at \notin {"issue", "check", "cleanup"}
    <3>1. logins'[h] = [logins[h] EXCEPT !.late = FALSE]
      BY <1>5, <2>3
    <3>. QED
      BY <2>1, <2>3, <3>1
  <2>. QED
    BY <2>2, <2>3
<1>7. disturbed' = disturbed \union {HandleOf(x) : x \in {y \in Exchange : MidRotation(y)}}
  BY DEF Restart
<1>8. disturbed' \subseteq Handles /\ disturbed \subseteq disturbed'
  BY <1>2, <1>7 DEF IInv, TypeOK
<1>9. \A x \in Exchange : MidRotation(x) => HandleOf(x) \in disturbed'
  BY <1>7
<1>10. \A h \in Handles : /\ granted'[h] \subseteq granted[h]
                          /\ h \notin disturbed' => granted'[h] = granted[h]
  <2>1. PICK arrived \in SUBSET {x \in Exchange : At(x, "sent")} :
          granted' = [h \in Handles |->
            granted[h] \ {exchanges[x].presented : x \in {y \in arrived : HandleOf(y) = h}}]
    BY DEF Restart
  <2>2. ASSUME NEW h \in Handles, h \notin disturbed' PROVE {y \in arrived : HandleOf(y) = h} = {}
    BY <1>9, <2>2 DEF MidRotation, At
  <2>. QED
    BY <2>1, <2>2
<1>11. TypeOK'
  <2>1. exchanges' \in [Exchange -> ExchangeType]
    BY <1>4 DEF Restart
  <2>2. inFlight' \in [Handles -> Token] /\ controllers' \in [Handles -> Token]
    BY Tokens DEF Restart, Emptied
  <2>3. callers' \in [Caller -> [at : {"unused", "waiting", "answered"}, exchange : Token]]
    BY Tokens DEF Restart, IInv, TypeOK
  <2>4. logins' \in [Handles -> [at : LoginStage, late : BOOLEAN]]
    BY <1>6 DEF Restart
  <2>5. logouts' \in [Handles -> {"none", "revoking", "done", "failed"}]
    BY DEF Restart, IInv, TypeOK
  <2>6. granted' \in [Handles -> SUBSET Token]
    <3>1. \A h \in Handles : granted'[h] \in SUBSET Token
      BY <1>10 DEF IInv, TypeOK
    <3>. QED
      BY <3>1 DEF Restart
  <2>. QED
    BY <1>1, <1>8, <2>1, <2>2, <2>3, <2>4, <2>5, <2>6 DEF IInv, TypeOK
<1>12. ExchangeInv'
  <2>1. ExchangeInv
    BY DEF IInv
  <2>. QED
    BY ONLY <1>2, <1>4, <1>6, <2>1 DEF ExchangeInv, At, Running, HandleOf
<1>13. SlotInv'
  BY <1>5 DEF SlotInv
<1>14. CallerInv'
  <2>1. \A c \in Caller : callers'[c].at # "waiting"
    BY DEF Restart
  <2>. QED
    BY <2>1 DEF CallerInv
<1>15. LoginInv'
  <2>1. LoginInv
    BY DEF IInv
  <2>. QED
    BY ONLY <1>1, <1>5, <1>6, <2>1 DEF LoginInv, LoginGood, Holds, Left
<1>16. \A h \in Handles : (Own(h)' => Own(h)) /\ (Left(h) => Left(h)')
  BY <1>5, <1>8 DEF Own, Left
<1>17. DenialHasACause'
  <2>1. DenialHasACause
    BY DEF IInv
  <2>. QED
    BY ONLY <1>2, <1>4, <1>8, <1>16, <2>1 DEF DenialHasACause, HandleOf
<1>18. ASSUME NEW h \in Handles, Own(h)' PROVE LoginChain(h)' /\ HeldChain(h)'
  <2>1. HeldChain(h) /\ h \notin disturbed'
    BY <1>16, <1>18 DEF IInv, ChainInv, Own
  <2>2. Holds(h) => store[h] \in granted[h]
    BY <1>9, <2>1 DEF HeldChain, MidRotation
  <2>3. HeldChain(h)'
    BY <1>1, <1>10, <2>1, <2>2 DEF HeldChain, Holds
  <2>4. LoginChain(h)'
    BY <1>6 DEF LoginChain
  <2>. QED
    BY <2>3, <2>4
<1>19. ASSUME NEW y \in Exchange PROVE ExchangeChain(y)'
  BY <1>4 DEF ExchangeChain
<1>. QED
  BY <1>11, <1>12, <1>13, <1>14, <1>15, <1>17, <1>18, <1>19 DEF IInv, ChainInv

-----------------------------------------------------------------------------
LEMMA StepIInv == ASSUME IInv, [Next]_vars PROVE IInv'
<1>1. ASSUME NEW x \in Exchange, Adapter(x) PROVE IInv'
  BY <1>1, ReadTokenStep, SendAcceptStep, RotateStep, SignalReuseStep, CheckStep, SettleStep
     DEF Adapter
<1>2. ASSUME NEW x \in Exchange, Provider(x) \/ Fail(x) \/ Timeout(x) \/ LoseAnswer(x) PROVE IInv'
  BY <1>2, ProviderStep, FailStep, TimeoutStep
<1>3. ASSUME NEW h \in Handles, Custody(h) PROVE IInv'
  BY <1>3, RevokeCustodyStep, IssueStep, CheckLoginStep, CleanupStep DEF Custody
<1>4. ASSUME NEW h \in Handles,
             CutLogin(h) \/ LateIssue(h) \/ StoreOutage(h) \/ Retire(h) \/ Expire(h)
      PROVE  IInv'
  BY <1>4, CutLoginStep, LateIssueStep, StoreOutageStep, RetireStep, ExpireStep
<1>5. CASE Restart
  BY <1>5, RestartStep
<1>6. CASE Calls
  BY <1>6, RefreshStep, CallerLeavesStep, LogoutStep, LoginExchangeStep DEF Calls
<1>7. CASE UNCHANGED vars
  <2>1. /\ TypeOK' = TypeOK /\ ExchangeInv' = ExchangeInv /\ SlotInv' = SlotInv
        /\ CallerInv' = CallerInv /\ LoginInv' = LoginInv
    BY <1>7 DEF vars, TypeOK, ExchangeInv, SlotInv, CallerInv, LoginInv, LoginGood, At, Running,
                HandleOf, Holds, Left
  <2>2. ChainInv' = ChainInv /\ DenialHasACause' = DenialHasACause
    BY <1>7 DEF vars, ChainInv, DenialHasACause, Own, LoginChain, HeldChain, ExchangeChain,
                HandleOf, Holds, Left
  <2>. QED
    BY <2>1, <2>2 DEF IInv
<1>. QED
  BY <1>1, <1>2, <1>3, <1>4, <1>5, <1>6, <1>7 DEF Next, Surroundings

LEMMA Invariance == Spec => []IInv
BY InitIInv, StepIInv, PTL DEF Spec

-----------------------------------------------------------------------------
\* Every variable keeps its type, and the counters their bounds.
THEOREM CustodyTyping == Spec => []TypeOK
<1>1. IInv => TypeOK
  BY DEF IInv
<1>. QED
  BY <1>1, Invariance, PTL

\* Whatever number of refreshes overlap, are given up or fail, the token in custody is the one the
\* provider accepts, or its replacement is on its way to the store, until something other than a
\* refresh cuts the chain (doRefresh, inFlightRefreshes).
THEOREM CustodyIsTheProviders == Spec => []CustodyFollowsProvider
<1>1. IInv => CustodyFollowsProvider
  BY DEF IInv, ChainInv, HeldChain, CustodyFollowsProvider, Own
<1>. QED
  BY <1>1, Invariance, PTL

\* Callers that only refresh are never told of a replay: a denial means that the handle was logged
\* out or its chain cut (signalReuse, and the second look at the store in doRefresh).
THEOREM DenialsHaveACause == Spec => []DenialHasACause
<1>1. IInv => DenialHasACause
  BY DEF IInv
<1>. QED
  BY <1>1, Invariance, PTL

\* After a logout was confirmed the store holds no token of the handle, whatever was under way.
THEOREM LogoutsAreFinal == Spec => []LogoutIsFinal
<1>1. IInv => LogoutIsFinal
  BY DEF IInv, LoginInv, LoginGood, LogoutIsFinal
<1>. QED
  BY <1>1, Invariance, PTL

\* A login that was cleaned up holds no token, even when its issue() lands late.
THEOREM FailedLoginsHoldNothing == Spec => []FailedLoginHoldsNothing
<1>1. IInv => FailedLoginHoldsNothing
  BY DEF IInv, LoginInv, LoginGood, FailedLoginHoldsNothing
<1>. QED
  BY <1>1, Invariance, PTL

\* Each slot of the in-flight map, and each caller that waits, has an exchange still to settle.
THEOREM SlotsAlwaysHeld == Spec => []SlotsAreHeld
<1>1. IInv => SlotsAreHeld
  BY DEF IInv, SlotInv, CallerInv, SlotsAreHeld
<1>. QED
  BY <1>1, Invariance, PTL
=====================
