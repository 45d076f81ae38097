------------------------ MODULE ServerSessionProofs ------------------------
(***************************************************************************)
(* The safety of ServerSession for any number of requests, interruptions   *)
(* and expiries.  A revocation is final because nothing can join a revoked *)
(* family, and complete because its handler owes everything the family     *)
(* still holds, which only shrinks from then on.                           *)
(***************************************************************************)
EXTENDS ServerSession, TLAPS

Stored(g) == records[g].family # None

\* Stages only a login's completion reaches, and stages that act on the session cookie.
Completing == {"consume", "exchange", "admit", "cleanup"}
Holding ==
    {"lookup", "dead", "ending", "refresh", "recheck", "superseded", "compromised", "release"}

\* A family is named by its first generation, which is stored in it.
FamilyRoots ==
    \A g \in Request : Stored(g) => records[records[g].family].family = records[g].family

EndedRoots == \A f \in ended : records[f].family = f

\* A committed revocation marked the whole family, and nothing joined it since.
RevokedTogether == \A g \in Request : records[g].family \in ended => records[g].revoked

\* A family has one active generation at most, expired or not.
OneActive ==
    \A g, h \in Request :
        records[g].active /\ records[h].active /\ records[g].family = records[h].family => g = h

Kinds ==
    \A r \in Request :
        /\ requests[r].at \in Completing => requests[r].kind = "complete"
        /\ requests[r].kind = "complete" => requests[r].at \in Completing \union {"respond", "done"}
        /\ At(r, "provider") => requests[r].kind = "begin"

\* A generation is stored by the login that answers with its cookie.
Admitted ==
    \A r \in Request :
        Stored(r) => requests[r].kind = "complete" /\ requests[r].at \in {"respond", "done"}

\* A session cookie that was once set names a stored generation, and a callback comes
\* with a transaction.
Cookies ==
    /\ browser.session # None => Stored(browser.session)
    /\ \A r \in Request :
         requests[r].kind = "logout" \/ requests[r].at \in Holding =>
             requests[r].cookie # None /\ Stored(requests[r].cookie)
    /\ \A r \in Request : At(r, "consume") => requests[r].cookie # None

HandlesKept == \A r \in Request : requests[r].handles # {} => requests[r].at \in {"release", "done"}

\* Who is about to release owes everything its family still holds.
Releasing ==
    \A r \in Request : At(r, "release") =>
        LET f == records[requests[r].cookie].family IN
          f \in ended /\ Family(f) \intersect custody \subseteq requests[r].handles

RecordInv == FamilyRoots /\ EndedRoots /\ RevokedTogether /\ OneActive
RequestInv == Kinds /\ Admitted /\ Cookies /\ HandlesKept
CustodyInv == Releasing /\ LogoutIsComplete /\ CustodyIsKnown /\ RevokedIsOwed

IInv == TypeOK /\ RecordInv /\ RequestInv /\ CustodyInv

-----------------------------------------------------------------------------
LEMMA Names ==
    /\ Request \subseteq Nat /\ 0 \notin Request /\ 1 \in Request
    /\ Request \subseteq Maybe /\ None \in Maybe /\ None \notin Request
  BY ServerAssumption DEF Request, Maybe, None

LEMMA InitIInv == Init => IInv
<1>. SUFFICES ASSUME Init PROVE IInv
  OBVIOUS
<1>1. TypeOK
  <2>1. Absent \in GenerationType /\ First(1) \in GenerationType
    BY Names DEF Absent, First, GenerationType
  <2>2. records \in [Request -> GenerationType]
    BY <2>1 DEF Init
  <2>3. Fresh \in RequestType /\ [Fresh EXCEPT !.kind = "complete", !.at = "done"] \in RequestType
    BY Names DEF Fresh, RequestType, Kind, Stage
  <2>4. requests \in [Request -> RequestType]
    BY <2>3 DEF Init
  <2>5. interrupts \in 0 .. MaxInterrupts
    BY ServerAssumption DEF Init
  <2>6. \A g \in Request : records[g].active => records[g].family # None
    BY Names DEF Init, First, Absent, None
  <2>. QED
    BY <2>2, <2>4, <2>5, <2>6, Names DEF Init, TypeOK
<1>2. RecordInv
  BY Names DEF Init, RecordInv, FamilyRoots, EndedRoots, RevokedTogether, OneActive, Stored,
               First, Absent, None
<1>3. RequestInv
  BY Names DEF Init, RequestInv, Kinds, Admitted, Cookies, HandlesKept, Stored, At, Fresh,
               First, Absent, None, Completing, Holding
<1>4. CustodyInv
  BY Names DEF Init, CustodyInv, Releasing, LogoutIsComplete, CustodyIsKnown, RevokedIsOwed,
               At, Fresh, First, Absent, None
<1>. QED
  BY <1>1, <1>2, <1>3, <1>4 DEF IInv

-----------------------------------------------------------------------------
(* Steps of a handler *)

\* A step of request r changes the record of r only.
LEMMA BecomesEffect ==
    ASSUME TypeOK, NEW r \in Request, NEW request \in RequestType, Becomes(r, request)
    PROVE  /\ requests' \in [Request -> RequestType]
           /\ requests'[r] = request
           /\ \A q \in Request : q # r => requests'[q] = requests[q]
  BY DEF TypeOK, Becomes

LEMMA GoesEffect ==
    ASSUME TypeOK, NEW r \in Request, NEW stage \in Stage, Goes(r, stage)
    PROVE  /\ requests' \in [Request -> RequestType]
           /\ requests'[r].at = stage
           /\ requests'[r].kind = requests[r].kind
           /\ requests'[r].cookie = requests[r].cookie
           /\ requests'[r].handles = requests[r].handles
           /\ \A q \in Request : q # r => requests'[q] = requests[q]
<1>1. requests[r] \in RequestType
  BY DEF TypeOK
<1>2. [requests[r] EXCEPT !.at = stage] \in RequestType
  BY <1>1 DEF RequestType
<1>. QED
  BY <1>1, <1>2, BecomesEffect DEF Goes, RequestType

\* What the records say a request may look like.
Fits(r, request) ==
    /\ request.at \in Completing => request.kind = "complete"
    /\ request.kind = "complete" => request.at \in Completing \union {"respond", "done"}
    /\ request.at = "provider" => request.kind = "begin"
    /\ Stored(r) => request.kind = "complete" /\ request.at \in {"respond", "done"}
    /\ request.kind = "logout" \/ request.at \in Holding =>
         request.cookie # None /\ Stored(request.cookie)
    /\ request.at = "consume" => request.cookie # None
    /\ request.handles # {} => request.at \in {"release", "done"}

\* The second read of a refresh is what keeps tokens from a session that was revoked.
TokensAreCurrent ==
    \A r \in Request :
        requests[r].at # "published" /\ requests'[r].at = "published" =>
            records[requests[r].cookie].family \notin ended

\* Every step but a revocation and an admission leaves the generations alone: the request that takes
\* it may add its own handle to the custody while it is not stored, and release what it owes.
LEMMA RequestStep ==
    ASSUME IInv, NEW r \in Request, NEW request \in RequestType, Becomes(r, request),
           UNCHANGED <<records, ended>>, Fits(r, request),
           browser'.session # None => Stored(browser'.session),
           custody' \subseteq custody \union {r},
           r \in custody' => Stored(r) \/ request.at \in {"admit", "cleanup"} \/ r \in lost',
           r \in custody' /\ Stored(r) => r \in custody,
           lost \subseteq lost', interrupts > 0 => interrupts' > 0,
           At(r, "release") => interrupts' > 0 \/ custody' \intersect requests[r].handles = {},
           request.at # "release",
           request.kind = "logout" /\ request.at = "respond" =>
               LET f == records[request.cookie].family IN
                 f \in ended /\ Family(f) \intersect custody' = {},
           request.at = "published" => records[requests[r].cookie].family \notin ended
    PROVE  RecordInv' /\ RequestInv' /\ CustodyInv' /\ TokensAreCurrent
<1>1. /\ requests'[r] = request
      /\ \A q \in Request : q # r => requests'[q] = requests[q]
  BY BecomesEffect DEF IInv
<1>2. /\ \A g : Stored(g)' <=> Stored(g)
      /\ \A g : Family(g)' = Family(g)
  BY DEF Stored, Family
<1>3. RecordInv'
  BY DEF IInv, RecordInv, FamilyRoots, EndedRoots, RevokedTogether, OneActive, Stored
<1>4. Kinds' /\ Admitted' /\ HandlesKept'
  BY <1>1, <1>2 DEF IInv, RequestInv, Kinds, Admitted, HandlesKept, Fits, At
<1>5. Cookies'
  <2>1. ASSUME NEW q \in Request,
               requests'[q].kind = "logout" \/ requests'[q].at \in Holding
        PROVE  requests'[q].cookie # None /\ Stored(requests'[q].cookie)
    BY <1>1, <2>1 DEF IInv, RequestInv, Cookies, Fits
  <2>2. \A q \in Request : requests'[q].at = "consume" => requests'[q].cookie # None
    BY <1>1 DEF IInv, RequestInv, Cookies, Fits, At
  <2>. QED
    BY <1>2, <2>1, <2>2 DEF Cookies, Stored, At
<1>6. \A g : g \in custody' /\ Stored(g) => g \in custody
  OBVIOUS
<1>7. \A g \in Request : records[g].family \in ended => Stored(g)
  BY Names DEF IInv, TypeOK, Stored
<1>8. Releasing'
  <2>. SUFFICES ASSUME NEW q \in Request, requests'[q].at = "release"
                PROVE  LET f == records[requests'[q].cookie].family IN
                         f \in ended /\ Family(f) \intersect custody' \subseteq requests'[q].handles
    BY <1>2 DEF Releasing, At
  <2>1. q # r /\ requests'[q] = requests[q]
    BY <1>1
  <2>. QED
    BY <1>6, <1>7, <2>1 DEF IInv, CustodyInv, Releasing, At, Family
<1>9. LogoutIsComplete'
  <2>. SUFFICES ASSUME NEW q \in Request, requests'[q].kind = "logout",
                       requests'[q].at = "respond"
                PROVE  LET f == records[requests'[q].cookie].family IN
                         f \in ended /\ Family(f) \intersect custody' = {}
    BY <1>2 DEF LogoutIsComplete, At
  <2>1. CASE q = r
    BY <1>1, <2>1
  <2>2. CASE q # r
    BY <1>1, <1>6, <1>7, <2>2 DEF IInv, CustodyInv, LogoutIsComplete, At, Family
  <2>. QED
    BY <2>1, <2>2
<1>10. CustodyIsKnown'
  <2>. SUFFICES ASSUME NEW h \in custody'
                PROVE  Stored(h) \/ requests'[h].at \in {"admit", "cleanup"} \/ h \in lost'
    BY DEF CustodyIsKnown, Stored
  <2>1. CASE h = r
    BY <1>1, <2>1
  <2>2. CASE h # r
    <3>1. h \in custody /\ h \in Request
      BY <2>2 DEF IInv, TypeOK
    <3>. QED
      BY <1>1, <2>2, <3>1 DEF IInv, CustodyInv, CustodyIsKnown, Stored
  <2>. QED
    BY <2>1, <2>2
<1>11. RevokedIsOwed'
  <2>. SUFFICES ASSUME NEW h \in custody', records[h].family \in ended, ~(interrupts' > 0)
                PROVE  \E q \in Request : requests'[q].at = "release" /\ h \in requests'[q].handles
    BY DEF RevokedIsOwed, At
  <2>1. h \in Request /\ h \in custody
    BY <1>6, <1>7 DEF IInv, TypeOK
  <2>2. PICK q \in Request : At(q, "release") /\ h \in requests[q].handles
    BY <2>1 DEF IInv, CustodyInv, RevokedIsOwed
  <2>3. q # r
    BY <2>2
  <2>. QED
    BY <1>1, <2>2, <2>3 DEF At
<1>12. TokensAreCurrent
  BY <1>1 DEF TokensAreCurrent
<1>. QED
  BY <1>3, <1>4, <1>5, <1>8, <1>9, <1>10, <1>11, <1>12 DEF RequestInv, CustodyInv

-----------------------------------------------------------------------------
(* The actions *)

LEMMA ArrivesStep ==
    ASSUME IInv, NEW r \in Request, NEW kind \in Kind, NEW stage \in Stage, NEW cookie \in Maybe,
           Arrives(r, kind, stage, cookie),
           (kind = "complete") <=> (stage = "consume"), stage = "provider" => kind = "begin",
           stage = "consume" => cookie # None,
           stage \notin {"exchange", "admit", "cleanup", "release", "respond", "published"},
           kind = "logout" \/ stage \in Holding => cookie # None /\ Stored(cookie)
    PROVE  IInv' /\ TokensAreCurrent
<1>. DEFINE request == [Fresh EXCEPT !.kind = kind, !.at = stage, !.cookie = cookie]
<1>1. /\ request \in RequestType
      /\ request.kind = kind /\ request.at = stage /\ request.cookie = cookie
      /\ request.handles = {}
  BY Names DEF RequestType, Fresh
<1>2. Becomes(r, request) /\ At(r, "unused")
  BY DEF Arrives
<1>. HIDE DEF request
<1>3. ~Stored(r)
  BY <1>2 DEF IInv, RequestInv, Admitted, At
<1>4. Fits(r, request)
  BY <1>1, <1>3 DEF Fits, Completing
<1>5. r \notin custody \/ r \in lost
  BY <1>2, <1>3 DEF IInv, CustodyInv, CustodyIsKnown, At, Stored
<1>6. RecordInv' /\ RequestInv' /\ CustodyInv' /\ TokensAreCurrent
  <2>1. browser.session # None => Stored(browser.session)
    BY DEF IInv, RequestInv, Cookies
  <2>. QED
    BY <1>1, <1>2, <1>4, <1>5, <2>1, RequestStep DEF Arrives, At
<1>7. TypeOK'
  BY <1>1, <1>2, BecomesEffect DEF Arrives, IInv, TypeOK
<1>. QED
  BY <1>6, <1>7 DEF IInv

LEMMA UserStep == ASSUME IInv, NEW r \in Request, User(r) PROVE IInv' /\ TokensAreCurrent
<1>1. browser.session \in Maybe /\ browser.login \in Maybe
  BY DEF IInv, TypeOK
<1>2. browser.session # None => Stored(browser.session)
  BY DEF IInv, RequestInv, Cookies
<1>3. CASE BeginLogin(r)
  <2>1. CASE browser.session = None
    BY <1>1, <1>3, <2>1, ArrivesStep DEF BeginLogin, Kind, Stage, Holding
  <2>2. CASE browser.session # None
    BY <1>1, <1>2, <1>3, <2>2, ArrivesStep DEF BeginLogin, Kind, Stage, Holding
  <2>. QED
    BY <2>1, <2>2
<1>4. CASE CompleteLogin(r)
  BY <1>1, <1>4, ArrivesStep DEF CompleteLogin, Kind, Stage, Holding
<1>5. CASE Logout(r)
  BY <1>1, <1>2, <1>5, ArrivesStep DEF Logout, Kind, Stage, Holding
<1>6. CASE RefreshProvider(r)
  BY <1>1, <1>2, <1>6, ArrivesStep DEF RefreshProvider, Kind, Stage, Holding
<1>. QED
  BY <1>3, <1>4, <1>5, <1>6 DEF User

\* What the invariant says of the request that takes a step.
LEMMA Standing ==
    ASSUME IInv, NEW r \in Request
    PROVE  /\ requests[r] \in RequestType
           /\ Fits(r, requests[r])
           /\ browser.session # None => Stored(browser.session)
           /\ r \in custody => Stored(r) \/ requests[r].at \in {"admit", "cleanup"} \/ r \in lost
<1>1. r \in custody => Stored(r) \/ requests[r].at \in {"admit", "cleanup"} \/ r \in lost
  BY DEF IInv, CustodyInv, CustodyIsKnown, Stored
<1>. QED
  BY <1>1 DEF IInv, TypeOK, RequestInv, Kinds, Admitted, Cookies, HandlesKept, Fits, At

\* A step that only moves the request on to a stage from which it owes and publishes nothing new.
LEMMA GoesStep ==
    ASSUME IInv, NEW r \in Request, NEW stage \in Stage, Goes(r, stage),
           UNCHANGED <<records, ended>>,
           stage \in Completing => requests[r].kind = "complete",
           requests[r].kind = "complete" => stage \in Completing \union {"respond", "done"},
           stage = "provider" => requests[r].kind = "begin",
           Stored(r) => stage \in {"respond", "done"},
           stage \in Holding => At(r, "lookup") \/ At(r, "refresh") \/ At(r, "recheck"),
           stage # "consume",
           stage = "done" \/ requests[r].at \notin {"release", "done"},
           stage # "release", stage = "respond" => requests[r].kind # "logout",
           stage = "published" => records[requests[r].cookie].family \notin ended,
           browser'.session # None => Stored(browser'.session),
           custody' \subseteq custody \union {r},
           r \in custody' => Stored(r) \/ stage \in {"admit", "cleanup"} \/ r \in lost',
           r \in custody' /\ Stored(r) => r \in custody,
           lost \subseteq lost', interrupts > 0 => interrupts' > 0,
           At(r, "release") => interrupts' > 0
    PROVE  RecordInv' /\ RequestInv' /\ CustodyInv' /\ TokensAreCurrent
<1>. DEFINE request == [requests[r] EXCEPT !.at = stage]
<1>1. requests[r] \in RequestType /\ Fits(r, requests[r])
  BY Standing
<1>2. /\ request \in RequestType
      /\ request.kind = requests[r].kind /\ request.at = stage
      /\ request.cookie = requests[r].cookie /\ request.handles = requests[r].handles
  BY <1>1 DEF RequestType
<1>3. Becomes(r, request)
  BY DEF Goes
<1>. HIDE DEF request
<1>4. Fits(r, request)
  BY <1>1, <1>2 DEF Fits, At, Holding
<1>. QED
  BY <1>2, <1>3, <1>4, RequestStep

LEMMA LookupStep == ASSUME IInv, NEW r \in Request, Lookup(r) PROVE IInv' /\ TokensAreCurrent
<1>. DEFINE cookie == requests[r].cookie
            stage == CASE Live(cookie) /\ requests[r].kind = "begin" -> "provider"
                       [] Live(cookie) /\ requests[r].kind = "refresh" -> "refresh"
                       [] ~Live(cookie) /\ requests[r].kind = "begin" -> "dead"
                       [] OTHER -> "done"
            previous == IF Live(cookie) THEN cookie ELSE None
            request == [requests[r] EXCEPT !.at = stage, !.previous = previous]
<1>1. requests[r] \in RequestType /\ Fits(r, requests[r]) /\ At(r, "lookup")
  BY Standing DEF Lookup
<1>2. /\ stage \in {"provider", "refresh", "dead", "done"} /\ previous \in Maybe
      /\ stage = "provider" => requests[r].kind = "begin"
  BY <1>1, Names DEF RequestType
<1>3. Becomes(r, request)
  BY DEF Lookup
<1>. HIDE DEF stage, previous
<1>4. /\ request \in RequestType
      /\ request.kind = requests[r].kind /\ request.at = stage
      /\ request.cookie = cookie /\ request.handles = requests[r].handles
  BY <1>1, <1>2 DEF RequestType, Stage
<1>. HIDE DEF request
<1>5. Fits(r, request)
  BY <1>1, <1>2, <1>4 DEF Fits, At, Completing, Holding
<1>6. RecordInv' /\ RequestInv' /\ CustodyInv' /\ TokensAreCurrent
  BY <1>1, <1>2, <1>3, <1>4, <1>5, Standing, RequestStep DEF Lookup, At, Fits, Completing
<1>7. TypeOK'
  BY <1>3, <1>4, BecomesEffect DEF Lookup, IInv, TypeOK
<1>. QED
  BY <1>6, <1>7 DEF IInv

LEMMA ReleaseStep == ASSUME IInv, NEW r \in Request, Release(r) PROVE IInv' /\ TokensAreCurrent
<1>. DEFINE stage == CASE requests[r].kind = "begin" -> "provider"
                       [] requests[r].kind = "logout" -> "respond"
                       [] OTHER -> "done"
            request == [requests[r] EXCEPT !.handles = {}, !.at = stage]
<1>1. requests[r] \in RequestType /\ Fits(r, requests[r]) /\ At(r, "release")
  BY Standing DEF Release
<1>2. /\ stage \in {"provider", "respond", "done"}
      /\ stage = "respond" => requests[r].kind = "logout"
      /\ stage = "provider" => requests[r].kind = "begin"
  OBVIOUS
<1>3. Becomes(r, request) /\ custody' = custody \ requests[r].handles
  BY DEF Release, Released
<1>. HIDE DEF stage
<1>4. /\ request \in RequestType
      /\ request.kind = requests[r].kind /\ request.at = stage
      /\ request.cookie = requests[r].cookie /\ request.handles = {}
  BY <1>1, <1>2 DEF RequestType, Stage
<1>. HIDE DEF request
<1>5. Fits(r, request)
  BY <1>1, <1>2, <1>4 DEF Fits, At, Completing, Holding
<1>6. LET f == records[requests[r].cookie].family IN
        f \in ended /\ Family(f) \intersect custody' = {}
  BY <1>1, <1>3 DEF IInv, CustodyInv, Releasing, At
<1>7. requests[r].kind # "complete"
  BY <1>1 DEF Fits, At, Completing
<1>8. RecordInv' /\ RequestInv' /\ CustodyInv' /\ TokensAreCurrent
  BY <1>1, <1>2, <1>3, <1>4, <1>5, <1>6, <1>7, Standing, RequestStep DEF Release, At
<1>9. TypeOK'
  BY <1>3, <1>4, BecomesEffect DEF Release, IInv, TypeOK
<1>. QED
  BY <1>8, <1>9 DEF IInv

LEMMA StoreLoginStep == ASSUME IInv, NEW r \in Request, StoreLogin(r) PROVE IInv' /\ TokensAreCurrent
<1>1. requests[r] \in RequestType /\ Fits(r, requests[r]) /\ At(r, "provider")
  BY Standing DEF StoreLogin
<1>2. Goes(r, "respond") /\ requests[r].kind = "begin" /\ ~Stored(r)
  BY <1>1 DEF StoreLogin, Fits, At
<1>3. RecordInv' /\ RequestInv' /\ CustodyInv' /\ TokensAreCurrent
  BY <1>1, <1>2, Standing, GoesStep DEF StoreLogin, At, Stage, Completing, Holding
<1>4. [pending |-> TRUE, previous |-> requests[r].previous] \in [pending : BOOLEAN, previous : Maybe]
  BY <1>1 DEF RequestType
<1>5. requests' \in [Request -> RequestType]
  BY <1>2, GoesEffect DEF IInv, Stage
<1>6. TypeOK'
  BY <1>4, <1>5 DEF StoreLogin, IInv, TypeOK
<1>. QED
  BY <1>3, <1>6 DEF IInv

LEMMA ConsumeLoginStep ==
    ASSUME IInv, NEW r \in Request, ConsumeLogin(r) PROVE IInv' /\ TokensAreCurrent
<1>. DEFINE t == requests[r].cookie
<1>1. requests[r] \in RequestType /\ Fits(r, requests[r]) /\ At(r, "consume")
  BY Standing DEF ConsumeLogin
<1>2. requests[r].kind = "complete" /\ ~Stored(r) /\ t \in Request
  BY <1>1 DEF Fits, At, Completing, RequestType, Maybe
<1>3. logins[t] \in [pending : BOOLEAN, previous : Maybe]
  BY <1>2 DEF IInv, TypeOK
<1>4. PICK stage \in {"exchange", "respond"} :
        Becomes(r, [requests[r] EXCEPT !.at = stage, !.previous = logins[t].previous])
  BY DEF ConsumeLogin
<1>. DEFINE request == [requests[r] EXCEPT !.at = stage, !.previous = logins[t].previous]
<1>5. /\ request \in RequestType
      /\ request.kind = requests[r].kind /\ request.at = stage
      /\ request.cookie = requests[r].cookie /\ request.handles = requests[r].handles
  BY <1>1, <1>3 DEF RequestType, Stage
<1>6. Becomes(r, request)
  BY <1>4
<1>. HIDE DEF request
<1>7. Fits(r, request)
  BY <1>1, <1>2, <1>4, <1>5 DEF Fits, At, Completing, Holding
<1>8. RecordInv' /\ RequestInv' /\ CustodyInv' /\ TokensAreCurrent
  BY <1>1, <1>2, <1>5, <1>6, <1>7, Standing, RequestStep DEF ConsumeLogin, At
<1>9. [logins EXCEPT ![t].pending = FALSE] \in [Request -> [pending : BOOLEAN, previous : Maybe]]
  BY <1>2, <1>3 DEF IInv, TypeOK
<1>10. TypeOK'
  BY <1>5, <1>6, <1>9, BecomesEffect DEF ConsumeLogin, IInv, TypeOK
<1>. QED
  BY <1>8, <1>10 DEF IInv

LEMMA ExchangeStep == ASSUME IInv, NEW r \in Request, Exchange(r) PROVE IInv' /\ TokensAreCurrent
<1>1. requests[r] \in RequestType /\ Fits(r, requests[r]) /\ At(r, "exchange")
  BY Standing DEF Exchange
<1>2. requests[r].kind = "complete" /\ ~Stored(r)
  BY <1>1 DEF Fits, At, Completing
<1>3. PICK stage \in {"admit", "done"} :
        Goes(r, stage) /\ custody' = (IF stage = "admit" THEN custody \union {r} ELSE custody)
  BY DEF Exchange
<1>4. RecordInv' /\ RequestInv' /\ CustodyInv' /\ TokensAreCurrent
  BY <1>1, <1>2, <1>3, Standing, GoesStep DEF Exchange, At, Stage, Completing, Holding
<1>5. TypeOK'
  BY <1>3, GoesEffect DEF Exchange, IInv, TypeOK, Stage
<1>. QED
  BY <1>4, <1>5 DEF IInv

LEMMA CleanupStep == ASSUME IInv, NEW r \in Request, Cleanup(r) PROVE IInv' /\ TokensAreCurrent
<1>1. requests[r] \in RequestType /\ Fits(r, requests[r]) /\ At(r, "cleanup")
  BY Standing DEF Cleanup
<1>2. Goes(r, "done")
  BY DEF Cleanup
<1>3. RecordInv' /\ RequestInv' /\ CustodyInv' /\ TokensAreCurrent
  BY <1>1, <1>2, Standing, GoesStep DEF Cleanup, At, Stage, Completing, Holding
<1>4. TypeOK'
  BY <1>2, GoesEffect DEF Cleanup, IInv, TypeOK, Stage
<1>. QED
  BY <1>3, <1>4 DEF IInv

LEMMA RefreshStep == ASSUME IInv, NEW r \in Request, Refresh(r) PROVE IInv' /\ TokensAreCurrent
<1>1. requests[r] \in RequestType /\ Fits(r, requests[r]) /\ At(r, "refresh")
  BY Standing DEF Refresh
<1>2. requests[r].kind # "complete" /\ ~Stored(r)
  BY <1>1 DEF Fits, At, Completing
<1>3. PICK stage \in {"recheck", "compromised", "done"} :
        Goes(r, stage) /\ custody' \subseteq custody
  BY DEF Refresh
<1>4. RecordInv' /\ RequestInv' /\ CustodyInv' /\ TokensAreCurrent
  BY <1>1, <1>2, <1>3, Standing, GoesStep DEF Refresh, At, Stage, Completing, Holding
<1>5. TypeOK'
  BY <1>3, GoesEffect DEF Refresh, IInv, TypeOK, Stage
<1>. QED
  BY <1>4, <1>5 DEF IInv

\* The step that publishes: what it read is live, so no revocation of its family was committed.
LEMMA RecheckStep == ASSUME IInv, NEW r \in Request, Recheck(r) PROVE IInv' /\ TokensAreCurrent
<1>1. requests[r] \in RequestType /\ Fits(r, requests[r]) /\ At(r, "recheck")
  BY Standing DEF Recheck
<1>2. requests[r].kind # "complete" /\ ~Stored(r)
  BY <1>1 DEF Fits, At, Completing
<1>3. PICK stage \in {"published", "superseded"} :
        Goes(r, stage) /\ (stage = "published" => Live(requests[r].cookie))
  BY DEF Recheck, StillCurrent
<1>4. stage = "published" => records[requests[r].cookie].family \notin ended
  <2>1. requests[r].cookie \in Request
    BY <1>1 DEF Fits, At, Holding, RequestType, Maybe
  <2>. QED
    BY <1>3, <2>1 DEF Live, IInv, RecordInv, RevokedTogether
<1>5. RecordInv' /\ RequestInv' /\ CustodyInv' /\ TokensAreCurrent
  BY <1>1, <1>2, <1>3, <1>4, Standing, GoesStep DEF Recheck, At, Stage, Completing, Holding
<1>6. TypeOK'
  BY <1>3, GoesEffect DEF Recheck, IInv, TypeOK, Stage
<1>. QED
  BY <1>5, <1>6 DEF IInv

LEMMA DeliverStep == ASSUME IInv, NEW r \in Request, Deliver(r) PROVE IInv' /\ TokensAreCurrent
<1>1. requests[r] \in RequestType /\ Fits(r, requests[r]) /\ At(r, "respond")
  BY Standing DEF Deliver
<1>2. Goes(r, "done")
  BY DEF Deliver
<1>3. /\ browser' \in [session : Maybe, login : Maybe]
      /\ browser'.session # None => Stored(browser'.session)
  <2>1. browser \in [session : Maybe, login : Maybe] /\ (browser.session # None => Stored(browser.session))
    BY Standing DEF IInv, TypeOK
  <2>2. CASE requests[r].kind = "complete"
    BY <2>1, <2>2, Names DEF Deliver, Stored
  <2>3. CASE requests[r].kind # "complete"
    BY <2>1, <2>3, Names DEF Deliver
  <2>. QED
    BY <2>2, <2>3
<1>4. r \in custody => Stored(r) \/ r \in lost
  BY <1>1, Standing DEF At
<1>5. RecordInv' /\ RequestInv' /\ CustodyInv' /\ TokensAreCurrent
  BY <1>1, <1>2, <1>3, <1>4, GoesStep DEF Deliver, At, Stage, Completing, Holding
<1>6. TypeOK'
  BY <1>2, <1>3, GoesEffect DEF Deliver, IInv, TypeOK, Stage
<1>. QED
  BY <1>5, <1>6 DEF IInv

LEMMA InterruptStep == ASSUME IInv, NEW r \in Request, Interrupt(r) PROVE IInv' /\ TokensAreCurrent
<1>. DEFINE stage == IF At(r, "admit") THEN "cleanup" ELSE "done"
<1>1. requests[r] \in RequestType /\ Fits(r, requests[r]) /\ Goes(r, stage)
  BY Standing DEF Interrupt
<1>2. stage = "cleanup" => At(r, "admit") /\ requests[r].kind = "complete" /\ ~Stored(r)
  BY <1>1 DEF Fits, At, Completing
<1>3. interrupts' > 0 /\ interrupts' \in 0 .. MaxInterrupts
  BY ServerAssumption DEF Interrupt, IInv, TypeOK
<1>4. /\ custody' \subseteq custody \union {r} /\ lost \subseteq lost' /\ lost' \subseteq lost \union {r}
      /\ r \in custody' => Stored(r) \/ stage \in {"admit", "cleanup"} \/ r \in lost'
      /\ r \in custody' /\ Stored(r) => r \in custody
  BY <1>1, Standing DEF Interrupt, At, Fits
<1>5. browser'.session # None => Stored(browser'.session)
  BY Standing DEF Interrupt
<1>6. stage \in {"cleanup", "done"}
  OBVIOUS
<1>. HIDE DEF stage
<1>7. RecordInv' /\ RequestInv' /\ CustodyInv' /\ TokensAreCurrent
  BY <1>1, <1>2, <1>3, <1>4, <1>5, <1>6, GoesStep DEF Interrupt, At, Stage, Completing, Holding
<1>8. TypeOK'
  BY <1>1, <1>3, <1>4, <1>6, GoesEffect DEF Interrupt, IInv, TypeOK, Stage
<1>. QED
  BY <1>7, <1>8 DEF IInv

LEMMA ExpireStep == ASSUME IInv, NEW f \in Request, Expire(f) PROVE IInv' /\ TokensAreCurrent
<1>1. browser' \in [session : Maybe, login : Maybe]
  BY Names DEF Expire, IInv, TypeOK
<1>2. browser'.session # None => Stored(browser'.session)
  BY Names DEF Expire, IInv, TypeOK, RequestInv, Cookies
<1>3. TypeOK'
  BY <1>1 DEF Expire, IInv, TypeOK
<1>4. RecordInv'
  BY DEF Expire, IInv, RecordInv, FamilyRoots, EndedRoots, RevokedTogether, OneActive, Stored
<1>5. RequestInv'
  BY <1>2 DEF Expire, IInv, RequestInv, Kinds, Admitted, Cookies, HandlesKept, Stored, At
<1>6. CustodyInv' /\ TokensAreCurrent
  BY DEF Expire, IInv, CustodyInv, Releasing, LogoutIsComplete, CustodyIsKnown, RevokedIsOwed,
         At, Family, TokensAreCurrent
<1>. QED
  BY <1>3, <1>4, <1>5, <1>6 DEF IInv

-----------------------------------------------------------------------------
(* The two steps that change generations *)

LEMMA AdmitStep == ASSUME IInv, NEW r \in Request, Admit(r) PROVE IInv' /\ TokensAreCurrent
<1>. DEFINE previous == requests[r].previous
<1>1. requests[r] \in RequestType /\ Fits(r, requests[r]) /\ At(r, "admit")
  BY Standing DEF Admit
<1>2. requests[r].kind = "complete" /\ ~Stored(r)
  BY <1>1 DEF Fits, At, Completing
<1>3. CASE UNCHANGED records /\ Goes(r, "cleanup")
  <2>1. RecordInv' /\ RequestInv' /\ CustodyInv' /\ TokensAreCurrent
    BY <1>1, <1>2, <1>3, Standing, GoesStep DEF Admit, At, Stage, Completing, Holding
  <2>2. TypeOK'
    BY <1>3, GoesEffect DEF Admit, IInv, TypeOK, Stage
  <2>. QED
    BY <2>1, <2>2 DEF IInv
<1>4. CASE Admissible(previous) /\ Create(r, previous) /\ Goes(r, "respond")
  <2>. DEFINE family == Joins(r, previous)
  <2>1. previous \in Maybe
    BY <1>1 DEF RequestType
  <2>2. /\ previous # None => /\ previous \in Request /\ previous # r /\ Stored(previous)
                              /\ records[previous].active /\ ~records[previous].revoked
    BY <1>2, <1>4, <2>1 DEF Admissible, Live, IInv, TypeOK, Stored, Maybe
  <2>3. family \in Request /\ family # None /\ family \notin ended
    <3>1. CASE previous = None
      BY <1>2, <3>1, Names DEF Joins, IInv, RecordInv, EndedRoots, Stored
    <3>2. CASE previous # None
      <4>1. records[previous] \in GenerationType
        BY <2>2, <3>2 DEF IInv, TypeOK
      <4>. QED
        BY <2>2, <3>2, <4>1, Names DEF Joins, IInv, RecordInv, RevokedTogether, Stored,
                                       GenerationType, Maybe
    <3>. QED
      BY <3>1, <3>2
  <2>. HIDE DEF family
  <2>4. /\ records' \in [Request -> GenerationType]
        /\ records'[r] = [family |-> family, active |-> TRUE, revoked |-> FALSE]
        /\ \A h \in Request : h # r => /\ records'[h].family = records[h].family
                                       /\ records'[h].revoked = records[h].revoked
                                       /\ records'[h].active = (records[h].active /\ h # previous)
    <3>1. First(family) = [family |-> family, active |-> TRUE, revoked |-> FALSE]
      BY DEF First
    <3>2. First(family) \in GenerationType
      BY <2>3, <3>1, Names DEF GenerationType
    <3>3. \A h \in Request : /\ records[h] \in GenerationType
                             /\ [records[h] EXCEPT !.active = FALSE] \in GenerationType
      BY DEF IInv, TypeOK, GenerationType
    <3>4. records' = [h \in Request |->
                        IF h = r THEN First(family)
                        ELSE IF h = previous THEN [records[h] EXCEPT !.active = FALSE]
                        ELSE records[h]]
      BY <1>4 DEF Create, family
    <3>5. records' \in [Request -> GenerationType]
      BY <3>2, <3>3, <3>4
    <3>6. ASSUME NEW h \in Request, h # r
          PROVE  /\ records'[h].family = records[h].family
                 /\ records'[h].revoked = records[h].revoked
                 /\ records'[h].active = (records[h].active /\ h # previous)
      BY <3>3, <3>4, <3>6 DEF GenerationType
    <3>. QED
      BY <3>1, <3>4, <3>5, <3>6
  <2>5. /\ requests' \in [Request -> RequestType]
        /\ requests'[r].at = "respond" /\ requests'[r].kind = "complete"
        /\ requests'[r].handles = requests[r].handles
        /\ \A q \in Request : q # r => requests'[q] = requests[q]
    BY <1>2, <1>4, GoesEffect DEF IInv, Stage
  <2>6. UNCHANGED <<logins, expired, custody, browser, interrupts, ended, lost>>
    BY DEF Admit
  <2>7. \A g \in Request : Stored(g)' <=> Stored(g) \/ g = r
    BY <2>3, <2>4 DEF Stored
  <2>8. TypeOK'
    <3>1. \A g \in Request : records'[g].active => records'[g].family # None
      <4>. SUFFICES ASSUME NEW g \in Request, records'[g].active PROVE records'[g].family # None
        OBVIOUS
      <4>1. CASE g = r
        BY <2>3, <2>4, <4>1
      <4>2. CASE g # r
        BY <2>4, <4>2 DEF IInv, TypeOK
      <4>. QED
        BY <4>1, <4>2
    <3>. QED
      BY <2>4, <2>5, <2>6, <3>1 DEF IInv, TypeOK
  <2>9. FamilyRoots'
    <3>. SUFFICES ASSUME NEW g \in Request, records'[g].family # None
                  PROVE  records'[records'[g].family].family = records'[g].family
      BY DEF FamilyRoots, Stored
    <3>1. ASSUME NEW h \in Request, Stored(h)
          PROVE  /\ records[h].family \in Request /\ records[h].family # r
                 /\ records'[records[h].family].family = records[h].family
      <4>1. records[h].family \in Request
        BY <3>1 DEF IInv, TypeOK, GenerationType, Stored, Maybe
      <4>2. records[records[h].family].family = records[h].family
        BY <3>1 DEF IInv, RecordInv, FamilyRoots
      <4>. QED
        BY <1>2, <2>4, <3>1, <4>1, <4>2 DEF Stored
    <3>2. CASE g # r
      BY <2>4, <3>1, <3>2 DEF Stored
    <3>3. CASE g = r /\ previous = None
      BY <2>4, <3>3 DEF family, Joins
    <3>4. CASE g = r /\ previous # None
      <4>1. family = records[previous].family
        BY <3>4 DEF family, Joins
      <4>. QED
        BY <2>2, <2>4, <3>1, <3>4, <4>1
    <3>. QED
      BY <3>2, <3>3, <3>4
  <2>10. EndedRoots' /\ RevokedTogether'
    <3>1. \A f \in ended : f \in Request /\ f # r
      BY <1>2, Names DEF IInv, TypeOK, RecordInv, EndedRoots, Stored
    <3>. QED
      BY <2>3, <2>4, <2>6, <3>1 DEF IInv, RecordInv, EndedRoots, RevokedTogether
  <2>11. OneActive'
    <3>1. ASSUME NEW h \in Request, h # r, records'[h].active, records'[h].family = family
          PROVE  FALSE
      <4>1. /\ records[h].active /\ h # previous /\ records[h].family = family /\ Stored(h)
        BY <2>3, <2>4, <3>1 DEF Stored
      <4>2. CASE previous = None
        <5>1. family = r
          BY <4>2 DEF family, Joins
        <5>. QED
          BY <1>2, <4>1, <5>1, Names DEF IInv, RecordInv, FamilyRoots, Stored
      <4>3. CASE previous # None
        <5>1. family = records[previous].family
          BY <4>3 DEF family, Joins
        <5>. QED
          BY <2>2, <4>1, <4>3, <5>1 DEF IInv, RecordInv, OneActive
      <4>. QED
        BY <4>2, <4>3
    <3>2. ASSUME NEW g \in Request, NEW h \in Request, g # r, h # r,
                 records'[g].active, records'[h].active, records'[g].family = records'[h].family
          PROVE  g = h
      BY <2>4, <3>2 DEF IInv, RecordInv, OneActive
    <3>. QED
      BY <2>4, <3>1, <3>2 DEF OneActive
  <2>12. RequestInv'
    <3>1. Kinds' /\ HandlesKept'
      BY <1>1, <2>5 DEF IInv, RequestInv, Kinds, HandlesKept, At, Fits
    <3>2. Admitted'
      BY <2>5, <2>7 DEF IInv, RequestInv, Admitted, At
    <3>3. Cookies'
      <4>1. ASSUME NEW g \in Maybe, g # None, Stored(g) PROVE records'[g].family # None
        <5>1. g \in Request
          BY <4>1 DEF Maybe
        <5>. QED
          BY <2>7, <4>1, <5>1 DEF Stored
      <4>2. browser.session \in Maybe
        BY DEF IInv, TypeOK
      <4>3. browser.session # None => records'[browser.session].family # None
        BY <4>1, <4>2, Standing
      <4>4. ASSUME NEW q \in Request,
                   requests'[q].kind = "logout" \/ requests'[q].at \in Holding
            PROVE  requests'[q].cookie # None /\ records'[requests'[q].cookie].family # None
        <5>1. q # r /\ requests'[q] = requests[q]
          BY <2>5, <4>4 DEF Holding
        <5>2. requests[q] \in RequestType
          BY DEF IInv, TypeOK
        <5>3. requests[q].cookie \in Maybe
          BY <5>2 DEF RequestType
        <5>4. requests[q].cookie # None /\ Stored(requests[q].cookie)
          BY <4>4, <5>1 DEF IInv, RequestInv, Cookies
        <5>. QED
          BY <4>1, <5>1, <5>3, <5>4
      <4>5. \A q \in Request : requests'[q].at = "consume" => requests'[q].cookie # None
        BY <2>5 DEF IInv, RequestInv, Cookies, At
      <4>. QED
        BY <2>6, <4>3, <4>4, <4>5 DEF Cookies, At, Stored
    <3>. QED
      BY <3>1, <3>2, <3>3 DEF RequestInv
  <2>13. ASSUME NEW q \in Request, q # r, requests[q].kind = "logout" \/ requests[q].at \in Holding
         PROVE  records'[requests[q].cookie].family = records[requests[q].cookie].family
    <3>1. requests[q].cookie \in Request /\ Stored(requests[q].cookie)
      BY <2>13 DEF IInv, TypeOK, RequestType, Maybe, RequestInv, Cookies
    <3>. QED
      BY <1>2, <2>4, <3>1
  <2>14. \A f \in ended : Family(f)' = Family(f)
    <3>1. ASSUME NEW f \in ended, NEW g \in Request
          PROVE  records'[g].family = f <=> records[g].family = f
      BY <1>2, <2>3, <2>4, Names DEF IInv, TypeOK, Stored
    <3>. QED
      BY <3>1 DEF Family
  <2>15. Releasing'
    <3>. SUFFICES ASSUME NEW q \in Request, requests'[q].at = "release"
                  PROVE  \E f \in ended :
                           /\ records'[requests'[q].cookie].family = f
                           /\ Family(f)' \intersect custody \subseteq requests'[q].handles
      BY <2>6 DEF Releasing, At, Family
    <3>1. q # r /\ requests'[q] = requests[q]
      BY <2>5
    <3>2. records'[requests[q].cookie].family = records[requests[q].cookie].family
      BY <2>13, <3>1 DEF Holding
    <3>. QED
      BY <2>14, <3>1, <3>2 DEF IInv, CustodyInv, Releasing, At
  <2>16. LogoutIsComplete'
    <3>. SUFFICES ASSUME NEW q \in Request, requests'[q].kind = "logout",
                         requests'[q].at = "respond"
                  PROVE  \E f \in ended :
                           /\ records'[requests'[q].cookie].family = f
                           /\ Family(f)' \intersect custody = {}
      BY <2>6 DEF LogoutIsComplete, At, Family
    <3>1. q # r /\ requests'[q] = requests[q]
      BY <2>5
    <3>2. records'[requests[q].cookie].family = records[requests[q].cookie].family
      BY <2>13, <3>1
    <3>. QED
      BY <2>14, <3>1, <3>2 DEF IInv, CustodyInv, LogoutIsComplete, At
  <2>17. CustodyIsKnown'
    BY <2>4, <2>5, <2>6, <2>7 DEF IInv, TypeOK, CustodyInv, CustodyIsKnown, Stored
  <2>18. RevokedIsOwed'
    <3>. SUFFICES ASSUME NEW h \in custody, records'[h].family \in ended, ~(interrupts > 0)
                  PROVE  \E q \in Request : requests'[q].at = "release" /\ h \in requests'[q].handles
      BY <2>6 DEF RevokedIsOwed, At
    <3>1. h \in Request /\ h # r /\ records[h].family \in ended
      BY <2>3, <2>4 DEF IInv, TypeOK
    <3>2. PICK q \in Request : At(q, "release") /\ h \in requests[q].handles
      BY <3>1 DEF IInv, CustodyInv, RevokedIsOwed
    <3>3. q # r
      BY <1>1, <3>2 DEF At
    <3>. QED
      BY <2>5, <3>2, <3>3 DEF At
  <2>19. TokensAreCurrent
    BY <2>5 DEF TokensAreCurrent
  <2>. QED
    BY <2>8, <2>9, <2>10, <2>11, <2>12, <2>15, <2>16, <2>17, <2>18, <2>19
    DEF IInv, RecordInv, CustodyInv
<1>. QED
  BY <1>3, <1>4 DEF Admit, Refusal

LEMMA CommitRevocationStep ==
    ASSUME IInv, NEW r \in Request, CommitRevocation(r) PROVE IInv' /\ TokensAreCurrent
<1>. DEFINE cookie == requests[r].cookie
            family == records[cookie].family
            request == [requests[r] EXCEPT !.at = "release", !.handles = Family(family)]
<1>1. /\ requests[r] \in RequestType /\ Fits(r, requests[r])
      /\ requests[r].at \in {"dead", "ending", "superseded", "compromised"}
  BY Standing DEF CommitRevocation
<1>2. /\ requests[r].kind # "complete" /\ ~Stored(r) /\ requests[r].handles = {}
      /\ cookie \in Request /\ Stored(cookie)
  BY <1>1 DEF Fits, Completing, Holding, RequestType, Maybe
<1>3. family \in Request /\ records[family].family = family
  <2>1. records[cookie] \in GenerationType
    BY <1>2 DEF IInv, TypeOK
  <2>2. family \in Request
    BY <1>2, <2>1 DEF GenerationType, Stored, Maybe
  <2>. QED
    BY <1>2, <2>2 DEF IInv, RecordInv, FamilyRoots
<1>4. /\ Becomes(r, request) /\ ended' = ended \union {family}
      /\ UNCHANGED <<logins, expired, custody, browser, interrupts, lost>>
  BY DEF CommitRevocation, Handles, Revoked, Revoke
<1>5. /\ records' \in [Request -> GenerationType]
      /\ \A h \in Request : /\ records'[h].family = records[h].family
                            /\ records'[h].active = records[h].active
                            /\ records[h].revoked \/ records[h].family = family =>
                                 records'[h].revoked
  <2>1. \A h \in Request : /\ records[h] \in GenerationType
                           /\ [records[h] EXCEPT !.revoked = TRUE] \in GenerationType
    BY DEF IInv, TypeOK, GenerationType
  <2>2. records' = [h \in Request |->
                      IF h \in Family(family) THEN [records[h] EXCEPT !.revoked = TRUE]
                      ELSE records[h]]
    BY DEF CommitRevocation, Revoke, Revoked
  <2>3. records' \in [Request -> GenerationType]
    BY <2>1, <2>2
  <2>4. ASSUME NEW h \in Request
        PROVE  /\ records'[h].family = records[h].family
               /\ records'[h].active = records[h].active
               /\ records[h].revoked \/ records[h].family = family => records'[h].revoked
    BY <2>1, <2>2 DEF GenerationType, Family
  <2>. QED
    BY <2>3, <2>4
<1>6. Family(family) \subseteq Request
  BY DEF Family
<1>. HIDE DEF family
<1>7. /\ request \in RequestType
      /\ request.kind = requests[r].kind /\ request.at = "release"
      /\ request.cookie = cookie /\ request.handles = Family(family)
  BY <1>1, <1>6 DEF RequestType, Stage
<1>. HIDE DEF request
<1>8. /\ requests' \in [Request -> RequestType] /\ requests'[r] = request
      /\ \A q \in Request : q # r => requests'[q] = requests[q]
  BY <1>4, <1>7, BecomesEffect DEF IInv
<1>9. TypeOK'
  BY <1>3, <1>4, <1>5, <1>8 DEF IInv, TypeOK
<1>10. RecordInv'
  <2>1. \A g \in Request : records[g].family # None => records[g].family \in Request
    BY DEF IInv, TypeOK, GenerationType, Maybe
  <2>2. FamilyRoots'
    BY <1>5, <2>1 DEF IInv, RecordInv, FamilyRoots, Stored
  <2>3. EndedRoots' /\ RevokedTogether' /\ OneActive'
    BY <1>3, <1>4, <1>5 DEF IInv, TypeOK, RecordInv, EndedRoots, RevokedTogether, OneActive
  <2>. QED
    BY <2>2, <2>3 DEF RecordInv
<1>11. ASSUME NEW g \in Maybe, g # None PROVE records'[g].family = records[g].family
  BY <1>5, <1>11 DEF Maybe
<1>12. Kinds' /\ HandlesKept' /\ Admitted'
  BY <1>2, <1>5, <1>7, <1>8
  DEF IInv, RequestInv, Kinds, HandlesKept, Admitted, At, Stored, Completing
<1>13. Cookies'
  <2>1. browser.session \in Maybe
    BY DEF IInv, TypeOK
  <2>2. browser.session # None => records'[browser.session].family # None
    BY <1>11, <2>1, Standing DEF Stored
  <2>3. ASSUME NEW q \in Request, requests'[q].kind = "logout" \/ requests'[q].at \in Holding
        PROVE  requests'[q].cookie # None /\ records'[requests'[q].cookie].family # None
    <3>1. CASE q = r
      BY <1>2, <1>5, <1>7, <1>8, <3>1, Names DEF Stored
    <3>2. CASE q # r
      <4>1. requests[q] \in RequestType /\ requests'[q] = requests[q]
        BY <1>8, <3>2 DEF IInv, TypeOK
      <4>2. requests[q].cookie \in Maybe
        BY <4>1 DEF RequestType
      <4>. QED
        BY <1>11, <2>3, <4>1, <4>2 DEF IInv, RequestInv, Cookies, Stored
    <3>. QED
      BY <3>1, <3>2
  <2>4. \A q \in Request : requests'[q].at = "consume" => requests'[q].cookie # None
    BY <1>7, <1>8 DEF IInv, RequestInv, Cookies, At
  <2>. QED
    BY <1>4, <2>2, <2>3, <2>4 DEF Cookies, At, Stored
<1>14. \A f : Family(f)' = Family(f)
  BY <1>5 DEF Family
<1>15. Releasing'
  <2>. SUFFICES ASSUME NEW q \in Request, requests'[q].at = "release"
                PROVE  \E f \in ended \union {family} :
                         /\ records'[requests'[q].cookie].family = f
                         /\ Family(f)' \intersect custody \subseteq requests'[q].handles
    BY <1>4 DEF Releasing, At, Family
  <2>1. CASE q = r
    BY <1>2, <1>5, <1>7, <1>8, <1>14, <2>1 DEF family
  <2>2. CASE q # r
    <3>1. requests[q] \in RequestType /\ requests'[q] = requests[q]
      BY <1>8, <2>2 DEF IInv, TypeOK
    <3>2. requests[q].cookie \in Maybe /\ requests[q].cookie # None
      BY <3>1 DEF RequestType, IInv, RequestInv, Cookies, Holding
    <3>. QED
      BY <1>11, <1>14, <3>1, <3>2 DEF IInv, CustodyInv, Releasing, At
  <2>. QED
    BY <2>1, <2>2
<1>16. LogoutIsComplete'
  <2>. SUFFICES ASSUME NEW q \in Request, requests'[q].kind = "logout",
                       requests'[q].at = "respond"
                PROVE  \E f \in ended \union {family} :
                         /\ records'[requests'[q].cookie].family = f
                         /\ Family(f)' \intersect custody = {}
    BY <1>4 DEF LogoutIsComplete, At, Family
  <2>1. q # r
    BY <1>7, <1>8
  <2>2. requests[q] \in RequestType /\ requests'[q] = requests[q]
    BY <1>8, <2>1 DEF IInv, TypeOK
  <2>3. requests[q].cookie \in Maybe /\ requests[q].cookie # None
    BY <2>2 DEF RequestType, IInv, RequestInv, Cookies
  <2>. QED
    BY <1>11, <1>14, <2>2, <2>3 DEF IInv, CustodyInv, LogoutIsComplete, At
<1>17. CustodyIsKnown'
  <2>1. requests[r].at \notin {"admit", "cleanup"}
    BY <1>1
  <2>. QED
    BY <1>4, <1>5, <1>8, <2>1 DEF IInv, TypeOK, CustodyInv, CustodyIsKnown
<1>18. RevokedIsOwed'
  <2>. SUFFICES ASSUME NEW h \in custody, records'[h].family \in ended \union {family},
                       ~(interrupts > 0)
                PROVE  \E q \in Request : requests'[q].at = "release" /\ h \in requests'[q].handles
    BY <1>4 DEF RevokedIsOwed, At
  <2>1. h \in Request /\ records[h].family \in ended \union {family}
    BY <1>5 DEF IInv, TypeOK
  <2>2. CASE records[h].family = family
    BY <1>7, <1>8, <2>1, <2>2 DEF Family
  <2>3. CASE records[h].family \in ended
    <3>1. PICK q \in Request : At(q, "release") /\ h \in requests[q].handles
      BY <2>3 DEF IInv, CustodyInv, RevokedIsOwed
    <3>2. q # r
      BY <1>1, <3>1 DEF At
    <3>. QED
      BY <1>8, <3>1, <3>2 DEF At
  <2>. QED
    BY <2>1, <2>2, <2>3
<1>19. TokensAreCurrent
  BY <1>7, <1>8 DEF TokensAreCurrent
<1>. QED
  BY <1>9, <1>10, <1>12, <1>13, <1>15, <1>16, <1>17, <1>18, <1>19
  DEF IInv, RequestInv, CustodyInv

-----------------------------------------------------------------------------
LEMMA NextIInv == ASSUME IInv, [Next]_vars PROVE IInv' /\ [TokensAreCurrent]_vars
<1>1. CASE UNCHANGED vars
  BY <1>1 DEF vars, IInv, TypeOK, RecordInv, FamilyRoots, EndedRoots, RevokedTogether, OneActive,
              RequestInv, Kinds, Admitted, Cookies, HandlesKept, CustodyInv, Releasing,
              LogoutIsComplete, CustodyIsKnown, RevokedIsOwed, Stored, Family, At
<1>2. ASSUME NEW r \in Request, User(r) \/ Interrupt(r) \/ Expire(r)
      PROVE  IInv' /\ TokensAreCurrent
  BY <1>2, UserStep, InterruptStep, ExpireStep
<1>3. ASSUME NEW r \in Request, Handler(r) PROVE IInv' /\ TokensAreCurrent
  BY <1>3, LookupStep, CommitRevocationStep, ReleaseStep, DeliverStep, StoreLoginStep,
     ConsumeLoginStep, ExchangeStep, AdmitStep, CleanupStep, RefreshStep, RecheckStep DEF Handler
<1>. QED
  BY <1>1, <1>2, <1>3 DEF Next

LEMMA Invariance == Spec => []IInv
<1>1. IInv /\ [Next]_vars => IInv'
  BY NextIInv
<1>. QED
  BY <1>1, InitIInv, PTL DEF Spec

\* Every variable keeps its type (the store's entries, the handlers' state, the cookies).
THEOREM SessionTypeCorrect == Spec => []TypeOK
<1>1. IInv => TypeOK
  BY DEF IInv
<1>. QED
  BY <1>1, Invariance, PTL

\* A family that logout, a re-login over a dead cookie or a compromised refresh revoked is never
\* readable again: create() admits nothing over a predecessor that is not live.
THEOREM EndedForGood == Spec => []EndedStaysEnded
<1>1. IInv => EndedStaysEnded
  BY DEF IInv, RecordInv, RevokedTogether, EndedStaysEnded, Live
<1>. QED
  BY <1>1, Invariance, PTL

\* Concurrent re-logins from one session leave one readable generation: create() is a
\* compare-and-swap on the predecessor.
THEOREM OneGeneration == Spec => []OneLiveGeneration
<1>1. IInv => OneLiveGeneration
  BY DEF IInv, RecordInv, OneActive, OneLiveGeneration, Live
<1>. QED
  BY <1>1, Invariance, PTL

\* Provider custody is never orphaned: completeLogin releases what the store did not admit.
THEOREM NoOrphanedCustody == Spec => []CustodyIsKnown
<1>1. IInv => CustodyIsKnown
  BY DEF IInv, CustodyInv
<1>. QED
  BY <1>1, Invariance, PTL

\* logout() answers only when its family is revoked and holds no provider custody.
THEOREM LogoutCompletes == Spec => []LogoutIsComplete
<1>1. IInv => LogoutIsComplete
  BY DEF IInv, CustodyInv
<1>. QED
  BY <1>1, Invariance, PTL

\* What a revocation named and custody still holds, some releaseProviders call still owes.
THEOREM RevokedCustodyIsOwed == Spec => []RevokedIsOwed
<1>1. IInv => RevokedIsOwed
  BY DEF IInv, CustodyInv
<1>. QED
  BY <1>1, Invariance, PTL

\* refreshProvider publishes no tokens of a family whose revocation was committed.
THEOREM TokensNeverAfterLogout == Spec => NoTokensAfterLogout
<1>1. IInv /\ [Next]_vars => [TokensAreCurrent]_vars
  BY NextIInv
<1>2. Spec => [][TokensAreCurrent]_vars
  BY <1>1, Invariance, PTL DEF Spec
<1>. QED
  BY <1>2 DEF NoTokensAfterLogout, TokensAreCurrent

-----------------------------------------------------------------------------
(* ServerSession implements SessionFamilies.  Three steps of the handlers are visible to a reader of
   sessions: create() opens a family or hands it on, a revocation and an expiry end it; all others
   stutter. *)

\* The refinement mapping, named.
Readable == [f \in Request |-> {g \in Family(f) : Live(g)}]
Used == {g \in Request : records[g].family # None}
Closed == ended \union expired

\* An expired family is named by its first generation, which stays stored.
ExpiredRoots == \A f \in expired : records[f].family = f

MapInv == IInv /\ ExpiredRoots

-----------------------------------------------------------------------------
LEMMA InitMaps == Init => Families!Init /\ ExpiredRoots
<1>. SUFFICES ASSUME Init PROVE Families!Init /\ ExpiredRoots
  OBVIOUS
<1>1. \A g \in Request : records[g] = IF g = 1 THEN First(1) ELSE Absent
  BY DEF Init
<1>2. \A f, g \in Request : g \in Family(f) <=> f = 1 /\ g = 1
  <2>1. \A g \in Request : records[g].family = IF g = 1 THEN 1 ELSE None
    BY <1>1 DEF First, Absent
  <2>2. \A f \in Request : f # None
    BY Names DEF None
  <2>. QED
    BY <2>1, <2>2 DEF Family
<1>3. Live(1)
  BY <1>1, Names DEF Init, Live, First, None
<1>4. Readable = [f \in Request |-> IF f \in {1} THEN {f} ELSE {}]
  BY <1>2, <1>3 DEF Readable, Family
<1>5. Used = {1}
  <2>1. \A g \in Request : records[g].family # None <=> g = 1
    BY <1>1, Names DEF First, Absent, None
  <2>. QED
    BY <2>1, Names DEF Used
<1>6. Closed = {}
  BY DEF Init, Closed
<1>7. ExpiredRoots
  BY DEF Init, ExpiredRoots
<1>. QED
  BY <1>4, <1>5, <1>6, <1>7, Names DEF Families!Init, Readable, Used, Closed

-----------------------------------------------------------------------------
\* The readable generations after a step that gives family f the set S of them and leaves the others.
LEMMA ReadableBecomes ==
    ASSUME NEW f \in Request, NEW S \in SUBSET Request,
           \A h, g \in Request :
             (g \in Family(h) /\ Live(g))' <=> IF h = f THEN g \in S ELSE g \in Family(h) /\ Live(g)
    PROVE  Readable' = [Readable EXCEPT ![f] = S]
<1>1. \A h \in Request :
        {g \in Family(h) : Live(g)}' = IF h = f THEN S ELSE {g \in Family(h) : Live(g)}
  <2>. SUFFICES ASSUME NEW h \in Request
                PROVE  {g \in Family(h) : Live(g)}'
                         = IF h = f THEN S ELSE {g \in Family(h) : Live(g)}
    OBVIOUS
  <2>1. \A g \in Family(h)' : g \in Request
    BY DEF Family
  <2>2. \A g \in Family(h) : g \in Request
    BY DEF Family
  <2>. QED
    BY <2>1, <2>2
<1>. QED
  BY <1>1 DEF Readable

LEMMA CommitMaps ==
    ASSUME MapInv, NEW r \in Request, CommitRevocation(r)
    PROVE  ExpiredRoots' /\ \E f \in Request : Families!End(f)
<1>. DEFINE c == requests[r].cookie
            f == records[c].family
<1>1. c \in Request /\ f \in Request /\ f # None
  BY Names DEF MapInv, IInv, TypeOK, RequestType, RequestInv, Cookies, Stored, Holding,
               CommitRevocation, Maybe, GenerationType
<1>2. /\ \A g \in Request : /\ records'[g].family = records[g].family
                            /\ records'[g].active = records[g].active
                            /\ records[g].family = f => records'[g].revoked
                            /\ records[g].family # f => records'[g] = records[g]
      /\ ended' = ended \union {f} /\ expired' = expired
  BY DEF CommitRevocation, Revoke, Revoked, Family, MapInv, IInv, TypeOK, GenerationType
<1>3. ExpiredRoots'
  <2>1. expired \subseteq Request
    BY DEF MapInv, IInv, TypeOK
  <2>. QED
    BY <1>2, <2>1 DEF MapInv, ExpiredRoots
<1>4. Readable' = [Readable EXCEPT ![f] = {}]
  <2>1. \A h, g \in Request :
          (g \in Family(h) /\ Live(g))' <=>
             IF h = f THEN g \in {} ELSE g \in Family(h) /\ Live(g)
    BY <1>1, <1>2, Names DEF Family, Live
  <2>. QED
    BY <2>1, <1>1, ReadableBecomes
<1>5. Used' = Used
  BY <1>2 DEF Used
<1>6. Closed' = Closed \union {f}
  BY <1>2 DEF Closed
<1>7. f \in Used
  <2>1. Stored(c)
    BY <1>1 DEF Stored
  <2>. QED
    BY <2>1, <1>1 DEF Used, MapInv, IInv, RecordInv, FamilyRoots
<1>8. Families!End(f)
  BY <1>4, <1>5, <1>6, <1>7 DEF Families!End, Readable, Used, Closed
<1>. QED
  BY <1>1, <1>3, <1>8

LEMMA ExpireMaps ==
    ASSUME MapInv, NEW f \in Request, Expire(f)
    PROVE  ExpiredRoots' /\ Families!End(f)
<1>1. records' = records /\ ended' = ended /\ expired' = expired \union {f}
  BY DEF Expire
<1>2. records[f].family = f
  BY DEF Expire, Family, MapInv, IInv, RecordInv, FamilyRoots, Stored, Request, None
<1>3. ExpiredRoots'
  BY <1>1, <1>2 DEF MapInv, ExpiredRoots
<1>4. Readable' = [Readable EXCEPT ![f] = {}]
  <2>1. \A h, g \in Request :
          (g \in Family(h) /\ Live(g))' <=>
             IF h = f THEN g \in {} ELSE g \in Family(h) /\ Live(g)
    BY <1>1 DEF Family, Live
  <2>. QED
    BY <2>1, ReadableBecomes
<1>5. f \in Used
  BY <1>2, Names DEF Used
<1>. QED
  BY <1>1, <1>3, <1>4, <1>5 DEF Families!End, Readable, Used, Closed

\* What create() does to the generations: only the new one joins a family, only its predecessor
\* leaves the active ones.
LEMMA AdmitMaps ==
    ASSUME MapInv, NEW r \in Request, Admit(r), Admissible(requests[r].previous),
           Create(r, requests[r].previous)
    PROVE  ExpiredRoots' /\ \E f \in Request : Families!Open(f) \/ Families!Replace(f, r)
<1>. DEFINE p == requests[r].previous
<1>1. p \in Maybe /\ ended' = ended /\ expired' = expired
  BY DEF MapInv, IInv, TypeOK, RequestType, Admit
<1>2. records[r].family = None
  BY DEF MapInv, IInv, RequestInv, Admitted, Stored, Admit, At
<1>3. r \notin Used /\ r \notin Closed
  BY <1>2, Names DEF Used, Closed, MapInv, IInv, RecordInv, EndedRoots, ExpiredRoots
<1>4. expired \subseteq Request /\ ended \subseteq Request
  BY DEF MapInv, IInv, TypeOK
<1>5. CASE p = None
  <2>1. \A g \in Request : records'[g] = IF g = r THEN First(r) ELSE records[g]
    BY <1>5, Names DEF Create, Joins
  <2>2. \A h, g \in Request :
          (g \in Family(h) /\ Live(g))' <=>
             IF h = r THEN g \in {r} ELSE g \in Family(h) /\ Live(g)
    <3>1. \A g \in Request : g \notin Family(r)
      BY <1>2, Names DEF Family, MapInv, IInv, RecordInv, FamilyRoots, Stored
    <3>2. r \notin expired /\ r \notin ended
      BY <1>3 DEF Closed
    <3>. QED
      BY <1>1, <1>2, <2>1, <3>1, <3>2, Names DEF Family, Live, First
  <2>4. Readable' = [Readable EXCEPT ![r] = {r}]
    BY <2>2, ReadableBecomes
  <2>5. Used' = Used \union {r}
    <3>1. \A g \in Request : (records[g].family # None)' <=> g = r \/ records[g].family # None
      BY <2>1, Names DEF First
    <3>. QED
      BY <3>1 DEF Used
  <2>6. ExpiredRoots'
    BY <1>1, <1>3, <1>4, <2>1 DEF MapInv, ExpiredRoots, Closed
  <2>7. Families!Open(r)
    BY <1>1, <1>3, <2>4, <2>5 DEF Families!Open, Readable, Used, Closed
  <2>. QED
    BY <2>6, <2>7
<1>6. CASE p # None
  <2>. DEFINE f == records[p].family
  <2>1. p \in Request /\ Live(p) /\ f \in Request
    BY <1>1, <1>6, Names
       DEF Admissible, Maybe, Live, MapInv, IInv, TypeOK, GenerationType
  <2>2. p # r
    BY <1>2, <2>1, Names
  <2>3. \A g \in Request :
          /\ records'[g].family = IF g = r THEN f ELSE records[g].family
          /\ records'[g].active <=> g = r \/ (g # p /\ records[g].active)
          /\ records'[g].revoked <=> g # r /\ records[g].revoked
    BY <1>6, <2>1, <2>2 DEF Create, Joins, First, MapInv, IInv, TypeOK, GenerationType
  <2>4. f \notin Closed
    BY <2>1 DEF Closed, Live, MapInv, IInv, RecordInv, RevokedTogether
  <2>5. p \in Readable[f]
    BY <2>1 DEF Readable, Family
  <2>6. \A h, g \in Request :
          (g \in Family(h) /\ Live(g))' <=>
             IF h = f THEN g \in {r} ELSE g \in Family(h) /\ Live(g)
    <3>1. \A g \in Request : g \in Family(f) /\ Live(g) => g = p
      BY <2>1 DEF Family, Live, MapInv, IInv, RecordInv, OneActive
    <3>. QED
      BY <1>1, <1>2, <2>1, <2>3, <2>4, <3>1, Names DEF Family, Live, Closed
  <2>7. Readable' = [Readable EXCEPT ![f] = {r}]
    BY <2>1, <2>6, ReadableBecomes
  <2>8. Used' = Used \union {r}
    BY <2>1, <2>3, Names, ZenonT(40) DEF Used
  <2>9. ExpiredRoots'
    BY <1>1, <1>3, <1>4, <2>3 DEF MapInv, ExpiredRoots, Closed
  <2>10. Families!Replace(f, r)
    BY <1>1, <1>3, <2>4, <2>5, <2>7, <2>8 DEF Families!Replace, Readable, Used, Closed
  <2>. QED
    BY <2>1, <2>9, <2>10
<1>. QED
  BY <1>5, <1>6

-----------------------------------------------------------------------------
LEMMA Stutters ==
    ASSUME MapInv, UNCHANGED <<records, ended, expired>>
    PROVE  ExpiredRoots' /\ UNCHANGED Families!vars
BY DEF MapInv, ExpiredRoots, Families!vars, Family, Live

LEMMA StepMaps == MapInv /\ [Next]_vars => ExpiredRoots' /\ [Families!Next]_(Families!vars)
<1>. SUFFICES ASSUME MapInv, [Next]_vars
              PROVE  ExpiredRoots' /\ [Families!Next]_(Families!vars)
  OBVIOUS
<1>1. CASE UNCHANGED <<records, ended, expired>>
  BY <1>1, Stutters
<1>2. ASSUME NEW r \in Request, CommitRevocation(r)
      PROVE  ExpiredRoots' /\ Families!Next
  BY <1>2, CommitMaps DEF Families!Next
<1>3. ASSUME NEW r \in Request, Expire(r)
      PROVE  ExpiredRoots' /\ Families!Next
  BY <1>3, ExpireMaps DEF Families!Next
<1>4. ASSUME NEW r \in Request, Admit(r), Admissible(requests[r].previous),
             Create(r, requests[r].previous)
      PROVE  ExpiredRoots' /\ Families!Next
  BY <1>4, AdmitMaps DEF Families!Next
<1>5. ASSUME NEW r \in Request, User(r) \/ Interrupt(r)
      PROVE  UNCHANGED <<records, ended, expired>>
  BY <1>5 DEF User, BeginLogin, CompleteLogin, Logout, RefreshProvider, Arrives, Interrupt
<1>6. ASSUME NEW r \in Request, Handler(r)
      PROVE  \/ UNCHANGED <<records, ended, expired>>
             \/ CommitRevocation(r)
             \/ Admit(r) /\ Admissible(requests[r].previous) /\ Create(r, requests[r].previous)
  BY <1>6 DEF Handler, Lookup, Release, Deliver, StoreLogin, ConsumeLogin, Exchange, Admit,
              Cleanup, Refresh, Recheck
<1>7. CASE UNCHANGED vars
  BY <1>1, <1>7 DEF vars
<1>. QED
  BY <1>1, <1>2, <1>3, <1>4, <1>5, <1>6, <1>7 DEF Next

\* Whatever requests run, however they interleave at their awaits and wherever they are interrupted,
\* the session owner behaves like SessionFamilies: at most one readable generation in a family, and
\* none in a family that a revocation or its expiry ended.
THEOREM HandlersImplementFamilies == Spec => ImplementsFamilies
<1>1. MapInv /\ [Next]_vars => ExpiredRoots' /\ [Families!Next]_(Families!vars)
  BY StepMaps
<1>2. Init => Families!Init /\ ExpiredRoots
  BY InitMaps
<1>3. IInv /\ ExpiredRoots <=> MapInv
  BY DEF MapInv
<1>. QED
  BY <1>1, <1>2, <1>3, Invariance, PTL DEF Spec, ImplementsFamilies, Families!Spec
=============================================================================
