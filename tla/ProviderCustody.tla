---------------------------- MODULE ProviderCustody ----------------------------
(***************************************************************************)
(* The OIDC adapter's refresh custody (packages/auth/src/adapter/oidc/     *)
(* adapter.ts) over a RefreshTokenStore (refresh-store.ts, and the SQLite  *)
(* one of apps/next-host) and a provider that rotates refresh tokens       *)
(* (packages/mocks/src/idp/provider.ts).                                   *)
(*                                                                         *)
(* Concurrent refresh() calls of one handle share one exchange, which      *)
(* reads the token held, presents it, and hands the replacement to the     *)
(* store; logout() aborts it and drops custody; completeLogin() issues it. *)
(* withTimeout settles a promise at once when its deadline passes or its   *)
(* signal aborts, while the operation runs on to its next look at the      *)
(* signal.  A store call is atomic, and may take effect later than it was  *)
(* made: the store's interface allows a promise.                           *)
(*                                                                         *)
(* Tokens are named per handle: 0 is the login's, x the one exchange x got.*)
(***************************************************************************)
EXTENDS Integers, FiniteSets

CONSTANTS
    Handles,        \* provider session handles, one per login
    MaxEntries,     \* the store's capacity, revoked handles included
    MaxInFlight,    \* MAX_IN_FLIGHT_REFRESHES
    MaxExchanges,   \* bound on token exchanges
    MaxCalls,       \* bound on refresh() calls
    MaxLogouts,     \* bound on logout() calls
    MaxFaults       \* bound on store outages, lost answers, retired grants, expiries and restarts

ASSUME CustodyAssumption ==
    /\ Handles # {} /\ MaxEntries \in Nat \ {0} /\ MaxInFlight \in Nat \ {0} /\ MaxExchanges \in Nat
    /\ MaxCalls \in Nat /\ MaxLogouts \in Nat /\ MaxFaults \in Nat

VARIABLES
    store,       \* the RefreshTokenStore: the token held for each handle
    granted,     \* the provider: the refresh tokens of each handle it still accepts
    inFlight,    \* inFlightRefreshes
    controllers, \* refreshControllers
    exchanges,   \* one doRefresh each, with the withTimeout promise around it
    callers,     \* refresh() calls and the exchange each awaits
    logins,      \* completeLogin, one per handle
    logouts,     \* the last logout() of each handle
    ended,       \* bound: logout() calls so far
    faults,
    disturbed    \* history: handles whose chain of tokens was cut by something but a refresh

vars == <<store, granted, inFlight, controllers, exchanges, callers, logins, logouts, ended, faults,
          disturbed>>

None == 0
Unheld == -1     \* the store has no entry
Dropped == -2    \* the store has an entry without a token
Token == 0 .. MaxExchanges
Exchange == 1 .. MaxExchanges
Caller == 1 .. MaxCalls
Stage == {"unused", "read", "grant", "sent", "granted", "refused", "rotate", "reuse", "check", "over"}
Outcome == {"none", "tokens", "failed", "denied", "cut"}
LoginStage == {"none", "exchange", "issue", "check", "cleanup", "in", "out", "lost"}

Idle == [handle |-> CHOOSE h \in Handles : TRUE, at |-> "unused", presented |-> None, next |-> None,
         aborted |-> FALSE, outcome |-> "none", settled |-> FALSE]

Init ==
    /\ store = [h \in Handles |-> Unheld]
    /\ granted = [h \in Handles |-> {}]
    /\ inFlight = [h \in Handles |-> None] /\ controllers = [h \in Handles |-> None]
    /\ exchanges = [x \in Exchange |-> Idle]
    /\ callers = [c \in Caller |-> [at |-> "unused", exchange |-> None]]
    /\ logins = [h \in Handles |-> [at |-> "none", late |-> FALSE]]
    /\ logouts = [h \in Handles |-> "none"]
    /\ ended = 0 /\ faults = 0 /\ disturbed = {}

-----------------------------------------------------------------------------
(* The store: each operation is one step *)

Holds(h) == store[h] \in Token
Full == Cardinality({h \in Handles : store[h] # Unheld}) >= MaxEntries

\* issue: a handle that has an entry, a dropped one included, is refused.
Admissible(h) == store[h] = Unheld /\ ~Full

\* Slip: revoking a handle the store does not know leaves no trace.
AfterRevoke_NoTombstone(h) == IF store[h] = Unheld THEN Unheld ELSE Dropped

\* revoke: the entry stays without its token; an unknown handle gets such an entry if there is room.
AfterRevoke(h) == IF store[h] = Unheld /\ Full THEN Unheld ELSE Dropped

\* rotate with a token that is not the one held: nothing of the family works again.
AfterReplay(h) == IF store[h] = Unheld THEN Unheld ELSE Dropped

-----------------------------------------------------------------------------
(* refresh() *)

At(x, stage) == exchanges[x].at = stage
HandleOf(x) == exchanges[x].handle
Running(x) == exchanges[x].at \notin {"unused", "over"}

\* The provider may have consumed the token presented, and the store does not know the replacement.
MidRotation(x) == exchanges[x].at \in {"sent", "granted", "rotate"}

Goes(x, stage) == exchanges' = [exchanges EXCEPT ![x].at = stage]

\* doRefresh ends, its locals with it; its result counts unless the promise around it settled before.
Over(x, outcome) ==
    [exchanges[x] EXCEPT !.at = "over", !.presented = None, !.next = None, !.aborted = FALSE,
                         !.outcome = IF @ = "none" THEN outcome ELSE @]

Ends(x, outcome) == exchanges' = [exchanges EXCEPT ![x] = Over(x, outcome)]

Shared(h) == inFlight[h] # None

Busy == Cardinality({h \in Handles : inFlight[h] # None}) >= MaxInFlight

Refresh(c, h) ==
    /\ callers[c].at = "unused" /\ \A b \in 1 .. (c - 1) : callers[b].at # "unused"
    /\ logins[h].at = "in"
    /\ \/ /\ Shared(h)
          /\ callers' = [callers EXCEPT ![c] = [at |-> "waiting", exchange |-> inFlight[h]]]
          /\ UNCHANGED <<inFlight, controllers, exchanges>>
       \/ /\ ~Shared(h) /\ Busy
          /\ callers' = [callers EXCEPT ![c].at = "answered"]
          /\ UNCHANGED <<inFlight, controllers, exchanges>>
       \/ /\ ~Shared(h) /\ ~Busy
          /\ \E x \in Exchange :
               /\ At(x, "unused") /\ \A y \in 1 .. (x - 1) : ~At(y, "unused")
               /\ exchanges' = [exchanges EXCEPT ![x].at = "read", ![x].handle = h]
               /\ controllers' = [controllers EXCEPT ![h] = x]
               /\ inFlight' = [inFlight EXCEPT ![h] = x]
               /\ callers' = [callers EXCEPT ![c] = [at |-> "waiting", exchange |-> x]]
    /\ UNCHANGED <<store, granted, logins, logouts, ended, faults, disturbed>>

\* Slip: doRefresh does not look at the signal of its exchange.
Stops_Never(x) == FALSE

\* The signal of the exchange has aborted: throwIfAborted, a store call or a fetch given it throws.
Stops(x) == exchanges[x].aborted

\* tokenStore.current
ReadToken(x) ==
    /\ At(x, "read")
    /\ LET h == HandleOf(x) IN
         IF Stops(x) \/ ~Holds(h) THEN Ends(x, "failed")
         ELSE exchanges' = [exchanges EXCEPT ![x].at = "grant", ![x].presented = store[h]]
    /\ UNCHANGED <<store, granted, inFlight, controllers, callers, logins, logouts, ended, faults,
                   disturbed>>

\* Discovery is awaited, then the grant request leaves.
Send(x) ==
    /\ At(x, "grant")
    /\ IF Stops(x) THEN Ends(x, "failed") ELSE Goes(x, "sent")
    /\ UNCHANGED <<store, granted, inFlight, controllers, callers, logins, logouts, ended, faults,
                   disturbed>>

\* The store, discovery, the provider or the ID token fails where no token is lost by it.
Fail(x) ==
    /\ exchanges[x].at \in {"read", "grant", "sent", "check"}
    /\ Ends(x, "failed")
    /\ UNCHANGED <<store, granted, inFlight, controllers, callers, logins, logouts, ended, faults,
                   disturbed>>

\* The provider consumes the token presented and grants another, or keeps it (it need not rotate);
\* a token it does not know any more is an invalid_grant.
Provider(x) ==
    /\ At(x, "sent")
    /\ LET h == HandleOf(x)
           t == exchanges[x].presented
       IN \/ /\ t \in granted[h]
             /\ \E next \in {x, t} :
                  /\ granted' = [granted EXCEPT ![h] = (@ \ {t}) \union {next}]
                  /\ exchanges' = [exchanges EXCEPT ![x].at = "granted", ![x].next = next]
          \/ t \notin granted[h] /\ Goes(x, "refused") /\ UNCHANGED granted
    /\ UNCHANGED <<store, inFlight, controllers, callers, logins, logouts, ended, faults, disturbed>>

\* exchangeSignal.throwIfAborted(), then the call of tokenStore.rotate.
Accept(x) ==
    /\ At(x, "granted")
    /\ IF Stops(x) THEN Ends(x, "failed") ELSE Goes(x, "rotate")
    /\ UNCHANGED <<store, granted, inFlight, controllers, callers, logins, logouts, ended, faults,
                   disturbed>>

\* Slip: the store takes the replacement whatever it holds.
IsLive_Any(x) == TRUE

\* decideRefreshRotation: only the token held rotates.
IsLive(x) == store[HandleOf(x)] = exchanges[x].presented

\* Slip: the token presented is stored again instead of its replacement.
Replacement_Presented(x) == exchanges[x].presented

Replacement(x) == exchanges[x].next

Rotate(x) ==
    /\ At(x, "rotate")
    /\ LET h == HandleOf(x) IN
         \/ IsLive(x) /\ store' = [store EXCEPT ![h] = Replacement(x)] /\ Goes(x, "check")
         \/ ~IsLive(x) /\ store' = [store EXCEPT ![h] = AfterReplay(h)] /\ Goes(x, "reuse")
    /\ UNCHANGED <<granted, inFlight, controllers, callers, logins, logouts, ended, faults, disturbed>>

\* signalReuse: custody is dropped, without the signal of the exchange.  A revocation the store
\* refuses is only recorded as a cause: the denial stands.
SignalReuse(x) ==
    /\ exchanges[x].at \in {"refused", "reuse"}
    /\ LET h == HandleOf(x) IN store' \in {store, [store EXCEPT ![h] = AfterRevoke(h)]}
    /\ Ends(x, "denied")
    /\ UNCHANGED <<granted, inFlight, controllers, callers, logins, logouts, ended, faults, disturbed>>

\* The second tokenStore.current: the tokens go out only while the replacement is still held.
Check(x) ==
    /\ At(x, "check")
    /\ Ends(x, CASE Stops(x) -> "failed"
                 [] store[HandleOf(x)] = exchanges[x].next -> "tokens"
                 [] OTHER -> "denied")
    /\ UNCHANGED <<store, granted, inFlight, controllers, callers, logins, logouts, ended, faults,
                   disturbed>>

\* The deadline of an exchange passes.
Cut(x) == [exchanges[x] EXCEPT !.aborted = TRUE, !.outcome = IF @ = "none" THEN "cut" ELSE @]

Timeout(x) ==
    /\ Running(x) /\ exchanges[x].outcome = "none"
    /\ exchanges' = [exchanges EXCEPT ![x] = Cut(x)]
    /\ disturbed' = IF MidRotation(x) THEN disturbed \union {HandleOf(x)} ELSE disturbed
    /\ UNCHANGED <<store, granted, inFlight, controllers, callers, logins, logouts, ended, faults>>

\* Slip: the entry of a refresh that did not answer with tokens is left in the map.
Freed_OnSuccess(x) == exchanges[x].outcome = "tokens"

Freed(x) == TRUE

\* finally: the in-flight entry of the handle goes, whoever's it is; then the callers are answered.
Settle(x) ==
    /\ exchanges[x].outcome # "none" /\ ~exchanges[x].settled
    /\ exchanges' = [exchanges EXCEPT ![x].settled = TRUE]
    /\ LET h == HandleOf(x) IN
         /\ inFlight' = IF Freed(x) THEN [inFlight EXCEPT ![h] = None] ELSE inFlight
         /\ controllers' = [controllers EXCEPT ![h] = IF @ = x THEN None ELSE @]
    /\ callers' = [c \in Caller |->
                     IF callers[c] = [at |-> "waiting", exchange |-> x]
                     THEN [at |-> "answered", exchange |-> None] ELSE callers[c]]
    /\ UNCHANGED <<store, granted, logins, logouts, ended, faults, disturbed>>

\* A caller's own signal only ends its wait.
CallerLeaves(c) ==
    /\ callers[c].at = "waiting"
    /\ callers' = [callers EXCEPT ![c] = [at |-> "answered", exchange |-> None]]
    /\ UNCHANGED <<store, granted, inFlight, controllers, exchanges, logins, logouts, ended, faults,
                   disturbed>>

-----------------------------------------------------------------------------
(* logout() *)

Aborted(h) == {controllers[h]} \ {None}

Logout(h) ==
    /\ logins[h].at = "in" /\ logouts[h] # "revoking"
    /\ ended < MaxLogouts
    /\ ended' = ended + 1
    /\ exchanges' = [x \in Exchange |-> IF x \in Aborted(h) THEN Cut(x) ELSE exchanges[x]]
    /\ controllers' = [controllers EXCEPT ![h] = None]
    /\ inFlight' = [inFlight EXCEPT ![h] = None]
    /\ logouts' = [logouts EXCEPT ![h] = "revoking"]
    /\ UNCHANGED <<store, granted, callers, logins, faults, disturbed>>

\* tokenStore.revoke answers: a full store refuses a handle it has no entry of.
RevokeCustody(h) ==
    /\ logouts[h] = "revoking"
    /\ store' = [store EXCEPT ![h] = AfterRevoke(h)]
    /\ logouts' = [logouts EXCEPT ![h] = IF store'[h] = Dropped THEN "done" ELSE "failed"]
    /\ UNCHANGED <<granted, inFlight, controllers, exchanges, callers, logins, ended, faults, disturbed>>

-----------------------------------------------------------------------------
(* completeLogin() *)

LoginGoes(h, stage) == logins' = [logins EXCEPT ![h].at = stage]

\* The code exchange.  A provider may grant no refresh token, or refuse.
LoginExchange(h) ==
    /\ logins[h].at = "none"
    /\ \/ granted' = [granted EXCEPT ![h] = {0}] /\ LoginGoes(h, "issue")
       \/ UNCHANGED granted /\ LoginGoes(h, "in")
    /\ UNCHANGED <<store, inFlight, controllers, exchanges, callers, logouts, ended, faults, disturbed>>

Issue(h) ==
    /\ logins[h].at = "issue"
    /\ IF Admissible(h) THEN store' = [store EXCEPT ![h] = 0] /\ LoginGoes(h, "check")
       ELSE UNCHANGED store /\ LoginGoes(h, "cleanup")
    /\ UNCHANGED <<granted, inFlight, controllers, exchanges, callers, logouts, ended, faults,
                   disturbed>>

CheckLogin(h) ==
    /\ logins[h].at = "check"
    /\ LoginGoes(h, IF store[h] = 0 THEN "in" ELSE "cleanup")
    /\ UNCHANGED <<store, granted, inFlight, controllers, exchanges, callers, logouts, ended, faults,
                   disturbed>>

\* A deadline or the caller cuts the login off: a call of issue() that was made may still land.
CutLogin(h) ==
    /\ logins[h].at \in {"issue", "check"}
    /\ logins' = [logins EXCEPT ![h] = [at |-> "cleanup", late |-> logins[h].at = "issue"]]
    /\ UNCHANGED <<store, granted, inFlight, controllers, exchanges, callers, logouts, ended, faults,
                   disturbed>>

LateIssue(h) ==
    /\ logins[h].late
    /\ store' = [store EXCEPT ![h] = IF Admissible(h) THEN 0 ELSE @]
    /\ logins' = [logins EXCEPT ![h].late = FALSE]
    /\ UNCHANGED <<granted, inFlight, controllers, exchanges, callers, logouts, ended, faults,
                   disturbed>>

\* The clean-up revokes the handle, which also refuses an issue() that lands later.
Cleanup(h) ==
    /\ logins[h].at = "cleanup"
    /\ store' = [store EXCEPT ![h] = AfterRevoke(h)]
    /\ LoginGoes(h, IF store[h] = Unheld /\ Full THEN "lost" ELSE "out")
    /\ UNCHANGED <<granted, inFlight, controllers, exchanges, callers, logouts, ended, faults,
                   disturbed>>

-----------------------------------------------------------------------------
(* What goes wrong around the adapter *)

Fault == faults < MaxFaults /\ faults' = faults + 1

\* The answer is lost, or the store fails, after the provider rotated.
LoseAnswer(x) ==
    /\ exchanges[x].at \in {"granted", "refused", "rotate"}
    /\ Fault
    /\ Ends(x, "failed")
    /\ disturbed' = disturbed \union {HandleOf(x)}
    /\ UNCHANGED <<store, granted, inFlight, controllers, callers, logins, logouts, ended>>

\* The store is unavailable to a logout or a clean-up.
StoreOutage(h) ==
    /\ Fault
    /\ \/ /\ logouts[h] = "revoking" /\ logouts' = [logouts EXCEPT ![h] = "failed"]
          /\ UNCHANGED logins
       \/ logins[h].at = "cleanup" /\ LoginGoes(h, "lost") /\ UNCHANGED logouts
    /\ UNCHANGED <<store, granted, inFlight, controllers, exchanges, callers, ended, disturbed>>

\* The provider retires a grant: its capacity, the grant's expiry, an administrator.
Retire(h) ==
    /\ granted[h] # {}
    /\ Fault
    /\ granted' = [granted EXCEPT ![h] = {}]
    /\ disturbed' = disturbed \union {h}
    /\ UNCHANGED <<store, inFlight, controllers, exchanges, callers, logins, logouts, ended>>

\* An entry reaches its lifetime, which is longer than a login's deadlines.
Expire(h) ==
    /\ store[h] # Unheld /\ logins[h].at \in {"in", "out", "lost"} /\ ~logins[h].late
    /\ Fault
    /\ store' = [store EXCEPT ![h] = Unheld]
    /\ disturbed' = disturbed \union {h}
    /\ UNCHANGED <<granted, inFlight, controllers, exchanges, callers, logins, logouts, ended>>

Emptied(h) == None

\* The host restarts: the store and the provider keep their state, the adapter loses its own.  A
\* request that was sent may or may not have arrived.
Restart ==
    /\ Fault
    /\ \E arrived \in SUBSET {x \in Exchange : At(x, "sent")} :
         granted' = [h \in Handles |->
                       granted[h] \ {exchanges[x].presented : x \in {y \in arrived : HandleOf(y) = h}}]
    /\ disturbed' = disturbed \union
                      {HandleOf(x) : x \in {y \in Exchange : MidRotation(y)}}
    /\ exchanges' = [x \in Exchange |->
                       IF At(x, "unused") THEN exchanges[x]
                       ELSE [Over(x, "cut") EXCEPT !.settled = TRUE]]
    /\ inFlight' = [h \in Handles |-> Emptied(h)] /\ controllers' = [h \in Handles |-> None]
    /\ callers' = [c \in Caller |->
                     IF callers[c].at = "waiting" THEN [at |-> "answered", exchange |-> None]
                     ELSE callers[c]]
    /\ logins' = [h \in Handles |->
                    IF logins[h].at \in {"issue", "check", "cleanup"}
                    THEN [at |-> "lost", late |-> FALSE] ELSE [logins[h] EXCEPT !.late = FALSE]]
    /\ logouts' = [h \in Handles |-> IF logouts[h] = "revoking" THEN "failed" ELSE logouts[h]]
    /\ UNCHANGED <<store, ended>>

-----------------------------------------------------------------------------
Calls ==
    \/ \E c \in Caller, h \in Handles : Refresh(c, h)
    \/ \E c \in Caller : CallerLeaves(c)
    \/ \E h \in Handles : Logout(h) \/ LoginExchange(h)

Adapter(x) ==
    \/ ReadToken(x) \/ Send(x) \/ Accept(x) \/ Rotate(x) \/ SignalReuse(x) \/ Check(x) \/ Settle(x)

Custody(h) == RevokeCustody(h) \/ Issue(h) \/ CheckLogin(h) \/ Cleanup(h)

Surroundings ==
    \/ \E x \in Exchange : Provider(x) \/ Fail(x) \/ Timeout(x) \/ LoseAnswer(x)
    \/ \E h \in Handles : CutLogin(h) \/ LateIssue(h) \/ StoreOutage(h) \/ Retire(h) \/ Expire(h)
    \/ Restart

Next ==
    \/ Calls
    \/ \E x \in Exchange : Adapter(x)
    \/ \E h \in Handles : Custody(h)
    \/ Surroundings

Spec == Init /\ [][Next]_vars

-----------------------------------------------------------------------------
ExchangeType ==
    [handle : Handles, at : Stage, presented : Token, next : Token, aborted : BOOLEAN,
     outcome : Outcome, settled : BOOLEAN]

TypeOK ==
    /\ store \in [Handles -> Token \union {Unheld, Dropped}]
    /\ granted \in [Handles -> SUBSET Token]
    /\ inFlight \in [Handles -> Token] /\ controllers \in [Handles -> Token]
    /\ exchanges \in [Exchange -> ExchangeType]
    /\ callers \in [Caller -> [at : {"unused", "waiting", "answered"}, exchange : Token]]
    /\ logins \in [Handles -> [at : LoginStage, late : BOOLEAN]]
    /\ logouts \in [Handles -> {"none", "revoking", "done", "failed"}]
    /\ ended \in 0 .. MaxLogouts /\ faults \in 0 .. MaxFaults
    /\ disturbed \subseteq Handles

Left(h) == logouts[h] # "none"

\* Unless something cut the chain, the token in custody is the one the provider accepts, or its
\* replacement is on its way to the store: concurrent refreshes never lose the session's grant.
CustodyFollowsProvider ==
    \A h \in Handles :
        Holds(h) /\ h \notin disturbed /\ ~Left(h) =>
            \/ store[h] \in granted[h]
            \/ \E x \in Exchange :
                 /\ exchanges[x].at \in {"granted", "rotate"}
                 /\ HandleOf(x) = h /\ exchanges[x].presented = store[h]
                 /\ exchanges[x].next \in granted[h]

\* "the fingerprint of a leaked, replayed credential": callers that only refresh, however they
\* overlap or give up, are never denied for a compromise.
DenialHasACause ==
    \A x \in Exchange :
        exchanges[x].outcome = "denied" => HandleOf(x) \in disturbed \/ Left(HandleOf(x))

\* A confirmed logout is final: no refresh or login that was under way puts a token back.
LogoutIsFinal == \A h \in Handles : logouts[h] = "done" => ~Holds(h)

\* A login that failed leaves nothing in custody, even when its issue() lands after the clean-up.
FailedLoginHoldsNothing == \A h \in Handles : logins[h].at = "out" => ~Holds(h)

\* No refresh hangs and no slot leaks: a caller that waits, and a slot that is taken, have an exchange
\* that is still to settle, which its deadline makes it do, through logouts and restarts.
SlotsAreHeld ==
    /\ \A h \in Handles : inFlight[h] # None =>
          ~At(inFlight[h], "unused") /\ ~exchanges[inFlight[h]].settled
    /\ \A c \in Caller : callers[c].at = "waiting" => ~exchanges[callers[c].exchange].settled
=============================================================================
