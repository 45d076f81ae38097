----------------------------- MODULE AuthStore -----------------------------
(***************************************************************************)
(* The browser's session store (packages/auth/src/session/store.ts): one   *)
(* single-flight status check, a serialized queue of logins and logouts,   *)
(* an expiry timer, and the protected lifetime that transports borrow.     *)
(* Everything the store awaits can land after the session it was for.      *)
(*                                                                         *)
(* A session stands for its identity, its expiry and its CSRF proof.  The  *)
(* server, the browser's cookie and other tabs are the environment.  So is *)
(* a channel, reduced to the check it makes before a reconnect.  Retried   *)
(* attempts of one check are one question with one answer.                 *)
(***************************************************************************)
EXTENDS Integers, Sequences, FiniteSets

CONSTANTS
    QueueBound,     \* mutations the store holds at once (16 in the code)
    MaxCalls,       \* bound on login(), logout() and close() calls
    MaxChecks,      \* bound on status checks
    MaxOutages,     \* bound on requests the server never answers
    MaxBad,         \* bound on untrustworthy answers, and on outages protected calls report
    MaxEnds,        \* bound on sessions the server ends, other tabs included
    MaxReconnects   \* bound on channel reconnects, 0 for no channel

ASSUME AuthAssumption ==
    /\ QueueBound \in Nat \ {0}
    /\ MaxCalls \in Nat /\ MaxChecks \in Nat /\ MaxOutages \in Nat /\ MaxBad \in Nat
    /\ MaxEnds \in Nat /\ MaxReconnects \in Nat

VARIABLES
    server,      \* the browser's cookie, the sessions still valid, how many were issued
    store,       \* the closure variables of createAuthStore
    mutations,   \* the chain of logins and logouts, the head running
    checks,      \* status checks not settled yet, superseded ones included
    fired,       \* the expiry timer whose callback is about to run, 0 for none
    channel,     \* the check a reconnecting channel awaits, or what became of it
    leases,      \* the leases handed out
    calls, asked, outages, bad, ends, reconnects,
    ended        \* history: the session was torn down and login() not called since

bounds == <<calls, asked, outages, bad, ends, reconnects>>
vars == <<server, store, mutations, checks, fired, channel, leases, bounds, ended>>

None == 0
Session == 1 .. (1 + MaxCalls + MaxEnds)
Maybe == Session \union {None}
Revocation == {"none", "confirmed", "unconfirmed"}

\* A session granted or found, or why there is none; "nothing" while the server has not answered.
Answer == [kind : {"session", "nothing", "ended", "outage", "bad", "gone"}, session : Maybe]
Granted(s) == [kind |-> "session", session |-> s]
Reply(kind) == [kind |-> kind, session |-> None]
Nothing == Reply("nothing")

Snapshot(status, identity, revocation) ==
    [status |-> status, identity |-> identity, revocation |-> revocation]

SignedOut(revocation) == Snapshot("unauthenticated", None, revocation)

Idle == [state |-> "idle", check |-> 0]

\* A seed from the server's render shows a session without certifying it.
Init ==
    /\ \E s \in {None, 1} :
         /\ server = [cookie |-> s, live |-> {s} \ {None}, issued |-> 1]
         /\ \E seed \in {SignedOut("none"), Snapshot("authenticated", s, "none")} :
              /\ s = None => seed = SignedOut("none")
              /\ store = [generation |-> 0, blocked |-> FALSE, owner |-> 0, credential |-> None,
                          csrf |-> None, lifetime |-> 0, aborted |-> FALSE, expiry |-> 0,
                          timers |-> 0, flight |-> 0, snapshot |-> seed]
    /\ mutations = <<>> /\ checks = {} /\ fired = 0 /\ channel = Idle /\ leases = {}
    /\ calls = 0 /\ asked = 0 /\ outages = 0 /\ bad = 0 /\ ends = 0 /\ reconnects = 0
    /\ ended = FALSE

-----------------------------------------------------------------------------
(* What the handlers do to the store *)

StopProtectedWork(s) == [s EXCEPT !.credential = None, !.aborted = TRUE, !.expiry = 0]

Clear(s, revocation) == [StopProtectedWork(s) EXCEPT !.snapshot = SignedOut(revocation)]

\* Slip: a mutation leaves the outstanding status check current.
Fence_KeepsGeneration(s, revocation) == Clear([s EXCEPT !.flight = 0], revocation)

\* Every check and mutation begun before is superseded.
Fence(s, revocation) ==
    Clear([s EXCEPT !.generation = @ + 1, !.flight = 0], revocation)

Invalidate(s) ==
    Clear([s EXCEPT !.generation = @ + 1, !.flight = 0, !.blocked = TRUE], "none")

\* Slip: the lifetime the last session's leases hold is not ended.
Adopt_ReusesLifetime(s, session) ==
    [s EXCEPT !.credential = session, !.csrf = session, !.blocked = FALSE,
              !.aborted = FALSE, !.timers = @ + 1, !.expiry = s.timers + 1,
              !.snapshot = Snapshot("authenticated", session, "none")]

\* Slip: nothing ends the session when its time is over.
Adopt_NoTimer(s, session) ==
    [s EXCEPT !.credential = session, !.csrf = session, !.blocked = FALSE,
              !.lifetime = IF s.aborted THEN @ + 1 ELSE @, !.aborted = FALSE,
              !.snapshot = Snapshot("authenticated", session, "none")]

\* A new lifetime only when the last one ended, a new expiry timer always.
Adopt(s, session) ==
    [s EXCEPT !.credential = session, !.csrf = session, !.blocked = FALSE,
              !.lifetime = IF s.aborted THEN @ + 1 ELSE @, !.aborted = FALSE,
              !.timers = @ + 1, !.expiry = s.timers + 1,
              !.snapshot = Snapshot("authenticated", session, "none")]

\* No answer keeps the identity for display and allows another check; any other failure ends it.
SettleFailedStatus(s, answer) ==
    IF answer.kind = "outage"
      THEN [StopProtectedWork(s) EXCEPT
              !.snapshot = Snapshot("unconfirmed", s.snapshot.identity, "none")]
      ELSE Clear([s EXCEPT !.blocked = TRUE], "none")

-----------------------------------------------------------------------------
(* The status check *)

Check == [id |-> asked + 1, epoch |-> store.generation, answer |-> Nothing, sent |-> FALSE]

\* revalidate(): refused once the session ended, else it joins or starts the single flight.
Revalidate ==
    /\ ~store.blocked /\ store.flight = 0
    /\ asked < MaxChecks
    /\ asked' = asked + 1
    /\ checks' = checks \union {Check}
    /\ store' = [store EXCEPT !.flight = asked + 1]
    /\ UNCHANGED <<server, mutations, fired, channel, leases, calls, outages, bad, ends,
                   reconnects, ended>>

\* The request leaves once every mutation called before it has settled.
Ask(c) ==
    /\ ~c.sent /\ c.answer = Nothing
    /\ mutations = <<>> /\ c.epoch = store.generation
    /\ checks' = (checks \ {c}) \union {[c EXCEPT !.sent = TRUE]}
    /\ UNCHANGED <<server, store, mutations, fired, channel, leases, bounds, ended>>

CookieSession ==
    IF server.cookie \in server.live THEN Granted(server.cookie) ELSE Reply("ended")

\* The server reads the cookie's session, or the last attempt ends without a usable answer.
AnswerCheck(c) ==
    /\ c.answer = Nothing
    /\ \E answer \in {CookieSession, Reply("outage"), Reply("bad")} :
         /\ \/ c.sent /\ answer = CookieSession /\ UNCHANGED <<outages, bad>>
            \/ /\ answer = Reply("outage") /\ outages < MaxOutages
               /\ outages' = outages + 1
               /\ UNCHANGED bad
            \/ /\ c.sent /\ answer = Reply("bad") /\ bad < MaxBad
               /\ bad' = bad + 1
               /\ UNCHANGED outages
         /\ checks' = (checks \ {c}) \union {[c EXCEPT !.answer = answer]}
    /\ UNCHANGED <<server, store, mutations, fired, channel, leases, calls, asked, ends,
                   reconnects, ended>>

Superseded(epoch) == epoch # store.generation

\* An aborted check rejects without an answer; one that has its answer compares generations.
SettleCheck(c) ==
    LET landed == IF Superseded(c.epoch) THEN store
                  ELSE IF c.answer.kind = "session" THEN Adopt(store, c.answer.session)
                  ELSE SettleFailedStatus(store, c.answer)
        settled == [landed EXCEPT !.flight = IF @ = c.id THEN 0 ELSE @]
        good == c.answer.kind = "session" /\ ~Superseded(c.epoch) IN
      /\ c.answer # Nothing \/ c.epoch # store.generation
      /\ checks' = checks \ {c}
      /\ store' = settled
      /\ ended' = (ended \/ (settled.blocked /\ ~store.blocked))
      /\ channel' = IF channel.state = "checking" /\ channel.check = c.id
                      THEN IF good THEN Idle ELSE [channel EXCEPT !.state = "refused"]
                      ELSE channel
      /\ UNCHANGED <<server, mutations, fired, leases, bounds>>

-----------------------------------------------------------------------------
(* Mutations *)

Mutation(kind, epoch) ==
    [kind |-> kind, epoch |-> epoch, owner |-> store.owner, call |-> calls + 1,
     phase |-> "queued", proof |-> None, again |-> FALSE, answer |-> Nothing]

\* enqueue(): a full queue refuses the call, but a refused logout still fences.
Enqueue(kind, revocation, s) ==
    IF Len(mutations) < QueueBound
      THEN /\ store' = Fence(s, revocation)
           /\ mutations' = Append(mutations, Mutation(kind, store'.generation))
      ELSE /\ store' = IF kind = "logout" THEN Fence(s, revocation) ELSE s
           /\ UNCHANGED mutations

Login ==
    /\ calls < MaxCalls
    /\ calls' = calls + 1
    /\ Enqueue("login", "none", store)
    /\ ended' = (ended /\ mutations' = mutations)
    /\ UNCHANGED <<server, checks, fired, channel, leases, asked, outages, bad, ends, reconnects>>

\* Slip: logout() does not bar the status checks that follow it.
Logout_LeavesUnblocked ==
    /\ calls < MaxCalls
    /\ calls' = calls + 1
    /\ Enqueue("logout", "unconfirmed", store)
    /\ ended' = TRUE
    /\ UNCHANGED <<server, checks, fired, channel, leases, asked, outages, bad, ends, reconnects>>

Logout ==
    /\ calls < MaxCalls
    /\ calls' = calls + 1
    /\ Enqueue("logout", "unconfirmed", [store EXCEPT !.blocked = TRUE])
    /\ ended' = TRUE
    /\ UNCHANGED <<server, checks, fired, channel, leases, asked, outages, bad, ends, reconnects>>

Running == Head(mutations)
Run(m) == mutations' = [mutations EXCEPT ![1] = m]
OwnerAborted(m) == m.owner # store.owner

\* A mutation whose turn came: a logout spends the cached proof.
StartMutation ==
    /\ mutations # <<>> /\ Running.phase = "queued" /\ ~OwnerAborted(Running)
    /\ IF Running.kind = "login"
         THEN Run([Running EXCEPT !.phase = "sent"]) /\ UNCHANGED store
         ELSE /\ Run([Running EXCEPT !.phase = "sent", !.proof = store.csrf,
                                     !.again = (store.csrf = None)])
              /\ store' = [store EXCEPT !.csrf = None]
    /\ UNCHANGED <<server, checks, fired, channel, leases, bounds, ended>>

\* The server admits a login: the cookie's session is rotated out.
Admit ==
    /\ server.issued < 1 + MaxCalls + MaxEnds
    /\ server' = [cookie |-> server.issued + 1, issued |-> server.issued + 1,
                  live |-> (server.live \ {server.cookie}) \union {server.issued + 1}]

\* The server ends the cookie's session and deletes the cookie.
Revoke == server' = [server EXCEPT !.cookie = None, !.live = @ \ {server.cookie}]

AnswerLogin ==
    /\ mutations # <<>> /\ Running.kind = "login" /\ Running.phase = "sent"
    /\ \/ /\ Admit
          /\ Run([Running EXCEPT !.phase = "answered", !.answer = Granted(server'.cookie)])
          /\ UNCHANGED outages
       \/ /\ Run([Running EXCEPT !.phase = "answered", !.answer = Reply("ended")])    \* refused
          /\ UNCHANGED <<server, outages>>
       \/ /\ outages < MaxOutages
          /\ outages' = outages + 1
          /\ Run([Running EXCEPT !.phase = "answered", !.answer = Reply("outage")])
          /\ Admit \/ UNCHANGED server
    /\ UNCHANGED <<store, checks, fired, channel, leases, calls, asked, bad, ends, reconnects,
                   ended>>

Proven == Running.proof = server.cookie /\ server.cookie \in server.live

\* Slip: a refused proof is sent again.
Resent_SameProof(m) == m

Resent(m) == [m EXCEPT !.proof = None, !.again = TRUE]

\* One request of a logout: with a proof, or for one.  A refused cached proof is replaced once.
AnswerLogout ==
    /\ mutations # <<>> /\ Running.kind = "logout" /\ Running.phase = "sent"
    /\ \/ /\ Running.proof # None
          /\ \/ Proven /\ Revoke /\ Run([Running EXCEPT !.phase = "answered", !.answer = Reply("gone")])
             \/ /\ ~Proven /\ ~Running.again
                /\ Run(Resent(Running))
                /\ UNCHANGED server
             \/ /\ ~Proven /\ Running.again
                /\ Run([Running EXCEPT !.phase = "answered", !.answer = Reply("ended")])
                /\ UNCHANGED server
          /\ UNCHANGED outages
       \/ /\ Running.proof = None
          /\ IF server.cookie \in server.live
               THEN Run([Running EXCEPT !.proof = server.cookie])
               ELSE Run([Running EXCEPT !.phase = "answered", !.answer = Reply("ended")])
          /\ UNCHANGED <<server, outages>>
       \/ /\ outages < MaxOutages
          /\ outages' = outages + 1
          /\ Run([Running EXCEPT !.phase = "answered", !.answer = Reply("outage")])
          /\ (Running.proof # None /\ Proven /\ Revoke) \/ UNCHANGED server
    /\ UNCHANGED <<store, checks, fired, channel, leases, calls, asked, bad, ends, reconnects,
                   ended>>

\* Even a superseded login may have set the cookie: a later logout needs its proof.
\* A failed login clears only when no other mutation waits and close() did not abandon it.
LandLogin(m) ==
    IF m.answer.kind = "session"
      THEN LET known == [store EXCEPT !.csrf = m.answer.session] IN
             IF Superseded(m.epoch) THEN known ELSE Adopt(known, m.answer.session)
      ELSE IF ~OwnerAborted(m) /\ Len(mutations) = 1 THEN Clear(store, "none") ELSE store

\* Slip: a logout without an answer counts as confirmed.
LandLogout_Optimistic(m) == IF Superseded(m.epoch) THEN store ELSE Clear(store, "confirmed")

LandLogout(m) ==
    IF Superseded(m.epoch) THEN store
    ELSE Clear(store, IF m.answer.kind = "gone" THEN "confirmed" ELSE "unconfirmed")

SettleMutation ==
    /\ mutations # <<>> /\ Running.phase = "answered"
    /\ store' = IF Running.kind = "login" THEN LandLogin(Running) ELSE LandLogout(Running)
    /\ mutations' = Tail(mutations)
    /\ UNCHANGED <<server, checks, fired, channel, leases, bounds, ended>>

\* close() aborted the owner: the mutation rejects at once, whether or not the server acts on it.
AbandonMutation ==
    /\ mutations # <<>> /\ OwnerAborted(Running)
    /\ mutations' = Tail(mutations)
    /\ \/ UNCHANGED server
       \/ Running.phase = "sent" /\ Running.kind = "login" /\ Admit
       \/ Running.phase = "sent" /\ Running.kind = "logout" /\ Proven /\ Revoke
    /\ UNCHANGED <<store, checks, fired, channel, leases, bounds, ended>>

\* Owned work stops; the snapshot stays, and a later revalidate or login starts again.
Close ==
    /\ calls < MaxCalls
    /\ calls' = calls + 1
    /\ store' = [StopProtectedWork(store) EXCEPT !.owner = @ + 1, !.generation = @ + 1,
                                                 !.flight = 0]
    /\ UNCHANGED <<server, mutations, checks, fired, channel, leases, asked, outages, bad, ends,
                   reconnects, ended>>

-----------------------------------------------------------------------------
(* Expiry, and what borrowers report *)

\* The timer runs on the server's clock, so it elapses after the server ended the session.
TimerElapses ==
    /\ store.expiry # 0 /\ fired = 0
    /\ store.credential \notin server.live
    /\ fired' = store.expiry
    /\ UNCHANGED <<server, store, mutations, checks, channel, leases, bounds, ended>>

\* Slip: the callback of a timer that was replaced still ends the session.
TimerIsCurrent_Always == TRUE

TimerIsCurrent == store.expiry = fired

\* The check it aborts stays the current flight until it settles.
Expire ==
    /\ fired # 0
    /\ fired' = 0
    /\ IF TimerIsCurrent
         THEN /\ store' = [Invalidate(store) EXCEPT !.flight = store.flight]
              /\ ended' = TRUE
         ELSE UNCHANGED <<store, ended>>
    /\ UNCHANGED <<server, mutations, checks, channel, leases, bounds>>

\* acquire(): with a credential the lease is handed out in the same generation.
Acquire ==
    /\ store.credential # None
    /\ leases' = leases \union {[session |-> store.credential, lifetime |-> store.lifetime]}
    /\ UNCHANGED <<server, store, mutations, checks, fired, channel, bounds, ended>>

\* A protected call under a live lease learns that the session ended, or cannot be verified.
ProtectedFailure ==
    /\ store.credential # None
    /\ \/ store.credential \notin server.live /\ UNCHANGED bad
       \/ bad < MaxBad /\ bad' = bad + 1
    /\ store' = Invalidate(store)
    /\ ended' = TRUE
    /\ UNCHANGED <<server, mutations, checks, fired, channel, leases, calls, asked, outages, ends,
                   reconnects>>

\* A channel whose stream dropped under a live lease checks the session before it reconnects.
Reconnect ==
    /\ channel = Idle /\ store.credential # None /\ ~store.blocked
    /\ reconnects < MaxReconnects
    /\ reconnects' = reconnects + 1
    /\ IF store.flight # 0
         THEN /\ channel' = [state |-> "checking", check |-> store.flight]
              /\ UNCHANGED <<store, checks, asked>>
         ELSE /\ asked < MaxChecks
              /\ asked' = asked + 1
              /\ checks' = checks \union {Check}
              /\ store' = [store EXCEPT !.flight = asked + 1]
              /\ channel' = [state |-> "checking", check |-> asked + 1]
    /\ UNCHANGED <<server, mutations, fired, leases, calls, outages, bad, ends, ended>>

\* The check failed or was superseded, or took longer than the channel's own second: it invalidates.
GiveUp ==
    /\ \/ channel.state = "refused" /\ UNCHANGED outages
       \/ channel.state = "checking" /\ outages < MaxOutages /\ outages' = outages + 1
    /\ channel' = Idle
    /\ store' = Invalidate(store)
    /\ ended' = TRUE
    /\ UNCHANGED <<server, mutations, checks, fired, leases, calls, asked, bad, ends, reconnects>>

-----------------------------------------------------------------------------
(* The server ends a session by itself, or another tab replaces the cookie *)

ServerActs ==
    /\ ends < MaxEnds
    /\ ends' = ends + 1
    /\ \/ server.live # {} /\ server' = [server EXCEPT !.live = {}]
       \/ Admit
    /\ UNCHANGED <<store, mutations, checks, fired, channel, leases, calls, asked, outages, bad,
                   reconnects, ended>>

UserCalls == Login \/ Logout \/ Close
ChecksRun == \E c \in checks : Ask(c) \/ AnswerCheck(c) \/ SettleCheck(c)
MutationsRun ==
    StartMutation \/ AnswerLogin \/ AnswerLogout \/ SettleMutation \/ AbandonMutation
Borrowers == Acquire \/ ProtectedFailure \/ Reconnect \/ GiveUp

Next ==
    \/ UserCalls \/ Revalidate \/ ChecksRun \/ MutationsRun \/ Borrowers
    \/ TimerElapses \/ Expire \/ ServerActs

\* Requests are bounded by timeouts and promise continuations run.
Fairness ==
    /\ WF_vars(ChecksRun)
    /\ WF_vars(MutationsRun)
    /\ WF_vars(TimerElapses \/ Expire)

Spec == Init /\ [][Next]_vars
FairSpec == Spec /\ Fairness

-----------------------------------------------------------------------------
StoreType ==
    [generation : Nat, blocked : BOOLEAN, owner : 0 .. MaxCalls, credential : Maybe, csrf : Maybe,
     lifetime : Nat, aborted : BOOLEAN, expiry : Nat, timers : Nat, flight : 0 .. MaxChecks,
     snapshot : [status : {"authenticated", "unconfirmed", "unauthenticated"},
                 identity : Maybe, revocation : Revocation]]

CheckType == [id : 1 .. MaxChecks, epoch : Nat, answer : Answer, sent : BOOLEAN]

MutationType ==
    [kind : {"login", "logout"}, epoch : Nat, owner : 0 .. MaxCalls, call : 1 .. MaxCalls,
     phase : {"queued", "sent", "answered"}, proof : Maybe, again : BOOLEAN, answer : Answer]

TypeOK ==
    /\ server \in [cookie : Maybe, live : SUBSET Session, issued : Session]
    /\ store \in StoreType
    /\ mutations \in Seq(MutationType) /\ Len(mutations) <= QueueBound
    /\ checks \subseteq CheckType
    /\ fired \in Nat
    /\ channel \in [state : {"idle", "checking", "refused"}, check : 0 .. MaxChecks]
    /\ leases \subseteq [session : Session, lifetime : Nat]
    /\ calls \in 0 .. MaxCalls /\ asked \in 0 .. MaxChecks /\ outages \in 0 .. MaxOutages
    /\ bad \in 0 .. MaxBad /\ ends \in 0 .. MaxEnds /\ reconnects \in 0 .. MaxReconnects
    /\ ended \in BOOLEAN

\* "After local teardown, automatic status cannot silently reacquire the session": once logout(),
\* expiry, a rejection or invalidate ended it, only a later login() signs in again.
SignedOutStaysOut ==
    ended => store.credential = None /\ store.snapshot.status # "authenticated"

\* With no mutation outstanding, the session the store vouches for is the one the cookie names
\* (unless another tab changed it): a stale answer never signs in another.
QuietAgreement ==
    ends = 0 /\ mutations = <<>> /\ store.credential # None => store.credential = server.cookie

\* A confirmed logout leaves no session behind that this tab's cookie could still use, until
\* another tab signs in.
ConfirmedMeansGone ==
    ends = 0 /\ store.snapshot.revocation = "confirmed" => server.cookie \notin server.live

\* A lease whose lifetime still runs was handed out for the session the store vouches for now
\* (unless another tab changed the cookie): no protected call outlives its session.
LeasesFollowSession ==
    ends = 0 =>
        \A l \in leases :
            l.lifetime = store.lifetime /\ ~store.aborted => l.session = store.credential

UserCalled == calls' # calls

\* "A slow network never shows a signed-in user as a guest": without a call of the user's, the
\* identity on display goes only when the server no longer holds its session.
KeepsTheUser ==
    [][store.snapshot.identity # None /\ store'.snapshot.identity = None /\ ~UserCalled =>
          store.snapshot.identity \notin server.live]_vars

\* "Explicit successful login starts a new generation": the user's last call, a login that the
\* server granted, signs in when its answer lands.
LastLoginLands ==
    [][mutations # <<>> /\ SettleMutation /\ Running.answer.kind = "session" /\ Running.call = calls
          => store'.credential = Running.answer.session]_vars

\* The chain of logins and logouts drains, whatever the server answers.
QueueDrains == <>[](mutations = <<>>)

\* A session the server ended does not stay signed in here.
EndsWithTheServer == <>[](store.credential # None => store.credential \in server.live)
=============================================================================
