--------------------------- MODULE ServerSession ---------------------------
(***************************************************************************)
(* The backend's session owner (packages/auth/src/server/server-session.ts)*)
(* over its atomic store (opaque-store/memory.ts): beginLogin,             *)
(* completeLogin, logout and refreshProvider as requests of one browser    *)
(* that interleave at every await.  A session is a family of generations:  *)
(* a re-login replaces the live generation by compare-and-swap, a          *)
(* revocation ends the family and names the provider handles to release.   *)
(*                                                                         *)
(* A request runs the handler to its next store or provider call at each   *)
(* step.  The generation, the provider handle and the login transaction a  *)
(* request creates are named by the request.  Every login is granted       *)
(* refresh custody.  Reads (read, status, guard, the proofs) change        *)
(* nothing: what they answer is Live.                                      *)
(***************************************************************************)
EXTENDS Integers, FiniteSets

CONSTANTS
    MaxRequests,    \* bound on requests
    MaxInterrupts,  \* bound on timeouts, caller aborts, lost responses and store outages
    MaxExpired      \* bound on families that reach their absolute expiry

ASSUME ServerAssumption ==
    MaxRequests \in Nat \ {0} /\ MaxInterrupts \in Nat /\ MaxExpired \in Nat

VARIABLES
    records,     \* the store's session generations
    logins,      \* the store's pending login transactions, and the generation each replaces
    expired,     \* families past their absolute expiry
    custody,     \* handles whose refresh token the provider custody still holds
    browser,     \* the cookies: the session generation and the login transaction they name
    requests,    \* one handler per request
    interrupts,
    ended,       \* history: families a revocation was committed for
    lost         \* history: handles whose clean-up failed together with the login

vars == <<records, logins, expired, custody, browser, requests, interrupts, ended, lost>>

None == 0
Request == 1 .. MaxRequests
Maybe == Request \union {None}
Kind == {"none", "begin", "complete", "logout", "refresh"}
Stage == {"unused", "lookup", "dead", "provider", "consume", "exchange", "admit", "cleanup",
          "ending", "refresh", "recheck", "superseded", "compromised", "release", "respond",
          "published", "done"}

\* cookie: the session (or login) cookie the request arrived with.  previous: the generation a
\* login replaces.  handles: provider custody the handler still has to release.
Fresh == [kind |-> "none", at |-> "unused", cookie |-> None, previous |-> None, handles |-> {}]

Absent == [family |-> None, active |-> FALSE, revoked |-> FALSE]
First(g) == [family |-> g, active |-> TRUE, revoked |-> FALSE]

\* The first request's login has just completed: later ones arrive with its session cookie.
Init ==
    /\ records = [g \in Request |-> IF g = 1 THEN First(1) ELSE Absent]
    /\ requests = [r \in Request |->
                     IF r = 1 THEN [Fresh EXCEPT !.kind = "complete", !.at = "done"] ELSE Fresh]
    /\ browser = [session |-> 1, login |-> None]
    /\ custody = {1}
    /\ logins = [t \in Request |-> [pending |-> FALSE, previous |-> None]]
    /\ expired = {} /\ interrupts = 0 /\ ended = {} /\ lost = {}

-----------------------------------------------------------------------------
(* The store: each operation is atomic *)

\* read(): only an active generation of a family neither revoked nor expired is found.
Live(g) ==
    g # None /\ records[g].active /\ ~records[g].revoked /\ records[g].family \notin expired

Family(f) == {g \in Request : records[g].family = f}

\* The generations a revocation of one of them marks, retained ones included.
Revoked(g) == Family(records[g].family)

Revoke(g) ==
    /\ records' = [h \in Request |->
                     IF h \in Revoked(g) THEN [records[h] EXCEPT !.revoked = TRUE] ELSE records[h]]
    /\ ended' = ended \union {records[g].family}

\* Slip: a replacement only looks whether its predecessor was replaced, not whether it was revoked.
Admissible_IgnoresRevocation(previous) == IF previous = None THEN TRUE ELSE records[previous].active

\* A replacement requires a live predecessor.
Admissible(previous) == previous = None \/ Live(previous)

Joins(g, previous) == IF previous = None THEN g ELSE records[previous].family

\* The new generation joins its predecessor's family, which it leaves inactive.
Create(g, previous) ==
    records' = [h \in Request |->
        IF h = g THEN First(Joins(g, previous))
        ELSE IF h = previous THEN [records[h] EXCEPT !.active = FALSE]
        ELSE records[h]]

-----------------------------------------------------------------------------
(* Requests *)

At(r, stage) == requests[r].at = stage

Becomes(r, request) == requests' = [requests EXCEPT ![r] = request]

Goes(r, stage) == Becomes(r, [requests[r] EXCEPT !.at = stage])

\* A request arrives with the cookies the browser holds.
Arrives(r, kind, stage, cookie) ==
    /\ At(r, "unused") /\ \A q \in 1 .. (r - 1) : ~At(q, "unused")
    /\ Becomes(r, [Fresh EXCEPT !.kind = kind, !.at = stage, !.cookie = cookie])
    /\ UNCHANGED <<records, logins, expired, custody, browser, interrupts, ended, lost>>

BeginLogin(r) ==
    Arrives(r, "begin", IF browser.session = None THEN "provider" ELSE "lookup", browser.session)

CompleteLogin(r) == browser.login # None /\ Arrives(r, "complete", "consume", browser.login)

Logout(r) == browser.session # None /\ Arrives(r, "logout", "ending", browser.session)

RefreshProvider(r) == browser.session # None /\ Arrives(r, "refresh", "lookup", browser.session)

\* The first read of beginLogin and refreshProvider.  A login remembers what it will replace.
Lookup(r) ==
    /\ At(r, "lookup")
    /\ LET cookie == requests[r].cookie IN
         Becomes(r, [requests[r] EXCEPT
             !.at = CASE Live(cookie) /\ requests[r].kind = "begin" -> "provider"
                      [] Live(cookie) /\ requests[r].kind = "refresh" -> "refresh"
                      [] ~Live(cookie) /\ requests[r].kind = "begin" -> "dead"
                      [] OTHER -> "done",
             !.previous = IF Live(cookie) THEN cookie ELSE None])
    /\ UNCHANGED <<records, logins, expired, custody, browser, interrupts, ended, lost>>

\* The provider handles a revocation names.
Handles(g) == Revoked(g)

\* A revocation commits before anything is released: a logout's, a dead cookie's before a new
\* login, or a refresh's that found its session gone or its credential compromised.
CommitRevocation(r) ==
    /\ requests[r].at \in {"ending", "dead", "superseded", "compromised"}
    /\ Revoke(requests[r].cookie)
    /\ Becomes(r, [requests[r] EXCEPT !.at = "release", !.handles = Handles(requests[r].cookie)])
    /\ UNCHANGED <<logins, expired, custody, browser, interrupts, lost>>

\* Slip: a login over a dead session does not release what the revocation named.
Released_NotByLogin(r) == IF requests[r].kind = "begin" THEN {} ELSE requests[r].handles

Released(r) == requests[r].handles

\* releaseProviders: every handle is released, then the handler goes on.
Release(r) ==
    /\ At(r, "release")
    /\ custody' = custody \ Released(r)
    /\ Becomes(r, [requests[r] EXCEPT
         !.handles = {},
         !.at = CASE requests[r].kind = "begin" -> "provider"
                  [] requests[r].kind = "logout" -> "respond"
                  [] OTHER -> "done"])
    /\ UNCHANGED <<records, logins, expired, browser, interrupts, ended, lost>>

\* adapter.beginLogin, then createLogin.
StoreLogin(r) ==
    /\ At(r, "provider")
    /\ logins' = [logins EXCEPT ![r] = [pending |-> TRUE, previous |-> requests[r].previous]]
    /\ Goes(r, "respond")
    /\ UNCHANGED <<records, expired, custody, browser, interrupts, ended, lost>>

\* A transaction is consumed once, and may have expired: the response then carries only the cleared
\* transaction cookie.
ConsumeLogin(r) ==
    /\ At(r, "consume")
    /\ LET t == requests[r].cookie IN
         /\ logins' = [logins EXCEPT ![t].pending = FALSE]
         /\ \E usable \in {FALSE, logins[t].pending} :
              Becomes(r, [requests[r] EXCEPT !.at = IF usable THEN "exchange" ELSE "respond",
                                             !.previous = logins[t].previous])
    /\ UNCHANGED <<records, expired, custody, browser, interrupts, ended, lost>>

\* adapter.completeLogin: its refresh token goes into custody, or the provider refuses.  The hosts
\* answer any failure but an unusable transaction with an error page and without the jar's cookies.
Exchange(r) ==
    /\ At(r, "exchange")
    /\ \/ custody' = custody \union {r} /\ Goes(r, "admit")
       \/ custody' = custody /\ Goes(r, "done")
    /\ UNCHANGED <<records, logins, expired, browser, interrupts, ended, lost>>

\* Slip: a login the store refuses keeps its provider custody.
Refusal_NoCleanup == "done"

Refusal == "cleanup"

\* store.read(previous) only copies the expiry; store.create decides.
Admit(r) ==
    /\ At(r, "admit")
    /\ LET previous == requests[r].previous IN
         \/ Admissible(previous) /\ Create(r, previous) /\ Goes(r, "respond")
         \/ ~Admissible(previous) /\ UNCHANGED records /\ Goes(r, Refusal)
    /\ UNCHANGED <<logins, expired, custody, browser, interrupts, ended, lost>>

\* The login failed after the provider granted it: release within a budget of its own.
Cleanup(r) ==
    /\ At(r, "cleanup")
    /\ custody' = custody \ {r}
    /\ Goes(r, "done")
    /\ UNCHANGED <<records, logins, expired, browser, interrupts, ended, lost>>

\* adapter.refresh: tokens, a compromise, or another failure.  Without custody there are no tokens.
\* On a compromise the adapter's own revocation of the handle may fail.
Refresh(r) ==
    /\ At(r, "refresh")
    /\ \/ requests[r].cookie \in custody /\ Goes(r, "recheck") /\ UNCHANGED custody
       \/ Goes(r, "compromised") /\ custody' \in {custody, custody \ {requests[r].cookie}}
       \/ Goes(r, "done") /\ UNCHANGED custody
    /\ UNCHANGED <<records, logins, expired, browser, interrupts, ended, lost>>

\* Slip: the tokens go out without a second look at the session.
StillCurrent_Always(r) == TRUE

StillCurrent(r) == Live(requests[r].cookie)

\* The second read of refreshProvider: a session that is not live any more counts as revoked.
Recheck(r) ==
    /\ At(r, "recheck")
    /\ Goes(r, IF StillCurrent(r) THEN "published" ELSE "superseded")
    /\ UNCHANGED <<records, logins, expired, custody, browser, interrupts, ended, lost>>

\* The response's cookies reach the browser.  A login clears its transaction cookie whether it
\* succeeded or not.
Deliver(r) ==
    /\ At(r, "respond")
    /\ browser' = CASE requests[r].kind = "begin" -> [browser EXCEPT !.login = r]
                    [] requests[r].kind = "complete" ->
                         [session |-> IF records[r].family = None THEN browser.session ELSE r,
                          login |-> None]
                    [] OTHER -> [browser EXCEPT !.session = None]
    /\ Goes(r, "done")
    /\ UNCHANGED <<records, logins, expired, custody, interrupts, ended, lost>>

-----------------------------------------------------------------------------
(* Interruptions *)

\* A timeout, the caller's abort or an unavailable store: the handler's next call throws and the
\* request fails.  A login that holds custody cleans up; parallel releases may still succeed; a
\* response that was ready is lost.
Interrupt(r) ==
    /\ requests[r].at \notin {"unused", "published", "done"}
    /\ interrupts < MaxInterrupts
    /\ interrupts' = interrupts + 1
    /\ Goes(r, IF At(r, "admit") THEN "cleanup" ELSE "done")
    /\ \/ /\ At(r, "release")
          /\ \E S \in SUBSET requests[r].handles : custody' = custody \ S
          /\ UNCHANGED lost
       \/ /\ At(r, "exchange")      \* the adapter's own clean-up fails too
          /\ custody' = custody \union {r} /\ lost' = lost \union {r}
       \/ At(r, "cleanup") /\ lost' = lost \union {r} /\ UNCHANGED custody
       \/ requests[r].at \notin {"release", "cleanup"} /\ UNCHANGED <<custody, lost>>
    /\ UNCHANGED <<records, logins, expired, browser, ended>>

\* A family reaches its absolute expiry, and the browser drops the cookie that ends with it.
Expire(f) ==
    /\ Family(f) # {} /\ f \notin expired
    /\ Cardinality(expired) < MaxExpired
    /\ expired' = expired \union {f}
    /\ browser' = [browser EXCEPT !.session = IF @ \in Family(f) THEN None ELSE @]
    /\ UNCHANGED <<records, logins, custody, requests, interrupts, ended, lost>>

-----------------------------------------------------------------------------
User(r) == BeginLogin(r) \/ CompleteLogin(r) \/ Logout(r) \/ RefreshProvider(r)

Handler(r) ==
    \/ Lookup(r) \/ CommitRevocation(r) \/ Release(r) \/ Deliver(r)
    \/ StoreLogin(r) \/ ConsumeLogin(r) \/ Exchange(r) \/ Admit(r) \/ Cleanup(r)
    \/ Refresh(r) \/ Recheck(r)

Next == \E r \in Request : User(r) \/ Handler(r) \/ Interrupt(r) \/ Expire(r)

Spec == Init /\ [][Next]_vars

-----------------------------------------------------------------------------
GenerationType == [family : Maybe, active : BOOLEAN, revoked : BOOLEAN]

RequestType ==
    [kind : Kind, at : Stage, cookie : Maybe, previous : Maybe, handles : SUBSET Request]

TypeOK ==
    /\ records \in [Request -> GenerationType]
    /\ \A g \in Request : records[g].active => records[g].family # None
    /\ logins \in [Request -> [pending : BOOLEAN, previous : Maybe]]
    /\ expired \subseteq Request /\ custody \subseteq Request
    /\ browser \in [session : Maybe, login : Maybe]
    /\ requests \in [Request -> RequestType]
    /\ interrupts \in 0 .. MaxInterrupts
    /\ ended \subseteq Request /\ lost \subseteq Request

\* A family that was revoked never has a readable generation again: a re-login that was under way
\* when the user logged out is refused.
EndedStaysEnded == \A g \in Request : Live(g) => records[g].family \notin ended

\* Concurrent re-logins from one session leave at most one of its generations readable.
OneLiveGeneration ==
    \A g, h \in Request : Live(g) /\ Live(h) /\ records[g].family = records[h].family => g = h

\* What the owner promises whoever presents a session: see SessionFamilies.
Families == INSTANCE SessionFamilies WITH
    Generation <- Request,
    readable <- [f \in Request |-> {g \in Family(f) : Live(g)}],
    used <- {g \in Request : records[g].family # None},
    closed <- ended \union expired

\* The handlers implement the families: however requests interleave at their awaits, a re-login
\* replaces the one readable generation and a family that ended is never readable again.
ImplementsFamilies == Families!Spec

\* Every handle in provider custody is known to somebody who can release it: a stored generation,
\* or the login that is about to store one, unless its clean-up failed too.
CustodyIsKnown ==
    \A h \in custody :
        records[h].family # None \/ requests[h].at \in {"admit", "cleanup"} \/ h \in lost

\* "Cookie deletion only follows committed family revocation": when a logout answers, its family is
\* revoked and none of the family's handles is left in custody.
LogoutIsComplete ==
    \A r \in Request :
        requests[r].kind = "logout" /\ At(r, "respond") =>
            LET f == records[requests[r].cookie].family IN
              f \in ended /\ Family(f) \intersect custody = {}

\* Refreshed provider tokens are never published once a logout has committed the revocation.
NoTokensAfterLogout ==
    [][\A r \in Request :
          requests[r].at # "published" /\ requests'[r].at = "published"
            => records[requests[r].cookie].family \notin ended]_vars

\* A handle whose family was revoked stays in custody only while some handler still owes its release,
\* unless something was interrupted: a re-login over a dead session releases it as well as a logout.
RevokedIsOwed ==
    \A h \in custody :
        records[h].family \in ended =>
            interrupts > 0 \/ \E r \in Request : At(r, "release") /\ h \in requests[r].handles

=============================================================================
