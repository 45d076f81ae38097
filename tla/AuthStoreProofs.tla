-------------------------- MODULE AuthStoreProofs --------------------------
(***************************************************************************)
(* Type correctness of AuthStore, that a session torn down stays out, and  *)
(* that the store, its leases and its confirmed logouts agree with the     *)
(* cookie, for every bound.  None of it is inductive by itself: it holds   *)
(* because every teardown also supersedes whatever is in flight.  A check  *)
(* that is still current is the single flight, it was sent only while no   *)
(* mutation was outstanding, and after a teardown neither a check nor a    *)
(* login is current.  The cookie moves only while a mutation runs, when the*)
(* store vouches for nothing and only the last mutation can still land.    *)
(* Without a reconnecting channel a slow network never hides the user: the *)
(* identity on display goes when the user says so or the server ended it.  *)
(***************************************************************************)
EXTENDS AuthStore, TLAPS

-----------------------------------------------------------------------------
(* What the handlers leave in the store *)

\* The constants make room for the values a fresh program starts with.
LEMMA Ranges ==
    /\ 0 \in 0 .. MaxCalls /\ 0 \in 0 .. MaxChecks /\ 0 \in 0 .. MaxOutages
    /\ 0 \in 0 .. MaxBad /\ 0 \in 0 .. MaxEnds /\ 0 \in 0 .. MaxReconnects
    /\ 1 \in Session /\ None \in Maybe /\ None \notin Session
    /\ Session \subseteq Maybe
  BY AuthAssumption DEF AuthAssumption, Session, Maybe, None

LEMMA AnswerTypes ==
    /\ Nothing \in Answer
    /\ \A s \in Session : Granted(s) \in Answer
    /\ \A k \in {"ended", "bad", "outage", "gone"} : Reply(k) \in Answer /\ Reply(k) # Nothing
  BY Ranges DEF Answer, Nothing, Granted, Reply

\* stopProtectedWork() and clear() keep the store's shape and drop its credential.
LEMMA StopStore ==
    ASSUME NEW s \in StoreType
    PROVE  /\ StopProtectedWork(s) \in StoreType
           /\ StopProtectedWork(s).credential = None
           /\ StopProtectedWork(s).generation = s.generation
           /\ StopProtectedWork(s).blocked = s.blocked
           /\ StopProtectedWork(s).flight = s.flight
           /\ StopProtectedWork(s).owner = s.owner
           /\ StopProtectedWork(s).snapshot = s.snapshot
  BY Ranges DEF StopProtectedWork, StoreType

LEMMA ClearStore ==
    ASSUME NEW s \in StoreType, NEW revocation \in Revocation
    PROVE  /\ Clear(s, revocation) \in StoreType
           /\ Clear(s, revocation).credential = None
           /\ Clear(s, revocation).snapshot.status = "unauthenticated"
           /\ Clear(s, revocation).generation = s.generation
           /\ Clear(s, revocation).blocked = s.blocked
           /\ Clear(s, revocation).flight = s.flight
           /\ Clear(s, revocation).owner = s.owner
<1>1. SignedOut(revocation) \in [status : {"authenticated", "unconfirmed", "unauthenticated"},
                                 identity : Maybe, revocation : Revocation]
  BY Ranges DEF SignedOut, Snapshot
<1>2. SignedOut(revocation).status = "unauthenticated"
  BY DEF SignedOut, Snapshot
<1>. QED
  BY <1>1, <1>2, StopStore DEF Clear, StoreType

\* fence() and invalidate() also advance the generation.
LEMMA FenceStore ==
    ASSUME NEW s \in StoreType, NEW revocation \in Revocation
    PROVE  /\ Fence(s, revocation) \in StoreType
           /\ Fence(s, revocation).credential = None
           /\ Fence(s, revocation).snapshot.status = "unauthenticated"
           /\ Fence(s, revocation).generation = s.generation + 1
           /\ Fence(s, revocation).blocked = s.blocked
           /\ Fence(s, revocation).flight = 0
           /\ Fence(s, revocation).owner = s.owner
<1>. DEFINE t == [s EXCEPT !.generation = @ + 1, !.flight = 0]
<1>1. /\ t \in StoreType
      /\ t.generation = s.generation + 1 /\ t.blocked = s.blocked /\ t.flight = 0 /\ t.owner = s.owner
  <2>1. s.generation + 1 \in Nat /\ 0 \in 0 .. MaxChecks
    BY Ranges DEF StoreType
  <2>. QED
    BY <2>1 DEF StoreType
<1>. HIDE DEF t
<1>2. Fence(s, revocation) = Clear(t, revocation)
  BY DEF Fence, t
<1>. QED
  BY <1>1, <1>2, ClearStore

LEMMA InvalidateStore ==
    ASSUME NEW s \in StoreType
    PROVE  /\ Invalidate(s) \in StoreType
           /\ Invalidate(s).credential = None
           /\ Invalidate(s).snapshot.status = "unauthenticated"
           /\ Invalidate(s).generation = s.generation + 1
           /\ Invalidate(s).blocked = TRUE
           /\ Invalidate(s).flight = 0
           /\ Invalidate(s).owner = s.owner
<1>. DEFINE t == [s EXCEPT !.generation = @ + 1, !.flight = 0, !.blocked = TRUE]
<1>1. /\ t \in StoreType
      /\ t.generation = s.generation + 1 /\ t.blocked = TRUE /\ t.flight = 0 /\ t.owner = s.owner
  <2>1. s.generation + 1 \in Nat /\ 0 \in 0 .. MaxChecks
    BY Ranges DEF StoreType
  <2>. QED
    BY <2>1 DEF StoreType
<1>. HIDE DEF t
<1>2. "none" \in Revocation
  BY DEF Revocation
<1>3. Invalidate(s) = Clear(t, "none")
  BY DEF Invalidate, t
<1>. QED
  BY <1>1, <1>2, <1>3, ClearStore

\* adopt() keeps the shape and the generation.
LEMMA AdoptStore ==
    ASSUME NEW s \in StoreType, NEW session \in Maybe
    PROVE  /\ Adopt(s, session) \in StoreType
           /\ Adopt(s, session).generation = s.generation
           /\ Adopt(s, session).flight = s.flight
           /\ Adopt(s, session).owner = s.owner
           /\ Adopt(s, session).blocked = FALSE
<1>1. Snapshot("authenticated", session, "none") \in
          [status : {"authenticated", "unconfirmed", "unauthenticated"},
           identity : Maybe, revocation : Revocation]
  BY Ranges DEF Snapshot, Revocation
<1>2. (IF s.aborted THEN s.lifetime + 1 ELSE s.lifetime) \in Nat /\ s.timers + 1 \in Nat
  BY DEF StoreType
<1>. QED
  BY <1>1, <1>2, Ranges DEF Adopt, StoreType

\* A failed check keeps the generation; unless nothing answered, it blocks and signs out.
LEMMA FailedStatusStore ==
    ASSUME NEW s \in StoreType, NEW answer
    PROVE  /\ SettleFailedStatus(s, answer) \in StoreType
           /\ SettleFailedStatus(s, answer).generation = s.generation
           /\ SettleFailedStatus(s, answer).flight = s.flight
           /\ SettleFailedStatus(s, answer).owner = s.owner
           /\ SettleFailedStatus(s, answer).credential = None
           /\ SettleFailedStatus(s, answer).snapshot.status # "authenticated"
           /\ answer.kind = "outage" => SettleFailedStatus(s, answer).blocked = s.blocked
<1>1. CASE answer.kind = "outage"
  <2>. DEFINE shown == Snapshot("unconfirmed", s.snapshot.identity, "none")
  <2>1. shown \in [status : {"authenticated", "unconfirmed", "unauthenticated"},
                   identity : Maybe, revocation : Revocation]
    BY DEF Snapshot, StoreType, Revocation
  <2>2. shown.status = "unconfirmed"
    BY DEF Snapshot
  <2>. HIDE DEF shown
  <2>3. /\ StopProtectedWork(s) \in StoreType
        /\ StopProtectedWork(s).credential = None
        /\ StopProtectedWork(s).generation = s.generation
        /\ StopProtectedWork(s).blocked = s.blocked
        /\ StopProtectedWork(s).flight = s.flight
        /\ StopProtectedWork(s).owner = s.owner
    BY StopStore
  <2>4. SettleFailedStatus(s, answer) = [StopProtectedWork(s) EXCEPT !.snapshot = shown]
    BY <1>1 DEF SettleFailedStatus, shown
  <2>. QED
    BY <2>1, <2>2, <2>3, <2>4 DEF StoreType
<1>2. CASE answer.kind # "outage"
  <2>. DEFINE t == [s EXCEPT !.blocked = TRUE]
  <2>1. t \in StoreType /\ t.generation = s.generation /\ t.flight = s.flight
        /\ t.owner = s.owner /\ t.blocked
    BY DEF StoreType
  <2>2. "none" \in Revocation
    BY DEF Revocation
  <2>3. SettleFailedStatus(s, answer) = Clear(t, "none")
    BY <1>2 DEF SettleFailedStatus
  <2>. HIDE DEF t
  <2>. QED
    BY <1>2, <2>1, <2>2, <2>3, ClearStore
<1>. QED
  BY <1>1, <1>2

-----------------------------------------------------------------------------
(* The inductive invariant *)

OwnersPast == store.owner <= calls

\* Work in flight began in this generation or an earlier one.
EpochsPast ==
    /\ \A c \in checks : c.epoch <= store.generation /\ c.id <= asked
    /\ \A i \in 1 .. Len(mutations) : mutations[i].epoch <= store.generation

\* Check ids are unique, and a current check is the single flight.
SingleCheck ==
    /\ \A c, d \in checks : c.id = d.id => c = d
    /\ \A c \in checks : c.epoch = store.generation => c.id = store.flight

\* A current check that was sent has no mutation beside it.
AskedAlone == \A c \in checks : c.epoch = store.generation /\ c.sent => mutations = <<>>

\* Only "nothing answered" can settle a check that was never sent.
Judged == \A c \in checks : c.sent \/ c.answer = Nothing \/ c.answer.kind = "outage"

\* After a teardown neither a check nor a login in flight is current.
TornDown ==
    ended =>
        /\ store.blocked
        /\ store.credential = None /\ store.snapshot.status # "authenticated"
        /\ \A c \in checks : c.epoch # store.generation
        /\ \A i \in 1 .. Len(mutations) :
             mutations[i].kind = "login" => mutations[i].epoch # store.generation

Control == OwnersPast /\ EpochsPast /\ SingleCheck /\ AskedAlone /\ Judged /\ TornDown

IInv == TypeOK /\ Control

LEMMA InitIInv == Init => IInv
<1>. SUFFICES ASSUME Init PROVE IInv
  OBVIOUS
<1>1. \A t : t \in {SignedOut("none")} \union {Snapshot("authenticated", s, "none") : s \in Maybe} =>
          t \in [status : {"authenticated", "unconfirmed", "unauthenticated"},
                 identity : Maybe, revocation : Revocation]
  BY Ranges DEF SignedOut, Snapshot, Revocation
<1>2. store \in StoreType /\ store.generation = 0 /\ store.owner = 0
  BY <1>1, Ranges DEF Init, StoreType
<1>3. mutations \in Seq(MutationType) /\ Len(mutations) = 0 /\ Len(mutations) <= QueueBound
  BY AuthAssumption DEF Init, AuthAssumption
<1>4. server \in [cookie : Maybe, live : SUBSET Session, issued : Session]
  BY Ranges DEF Init
<1>5. TypeOK
  BY <1>2, <1>3, <1>4, Ranges DEF Init, TypeOK, Idle
<1>6. Control
  BY <1>2, <1>3 DEF Init, Control, OwnersPast, EpochsPast, SingleCheck, AskedAlone, Judged, TornDown
<1>. QED
  BY <1>5, <1>6 DEF IInv

-----------------------------------------------------------------------------
(* Three kinds of steps preserve Control *)

\* A step that advances the generation supersedes everything in flight.
LEMMA Supersedes ==
    ASSUME IInv, store' \in StoreType, store'.generation = store.generation + 1,
           checks' = checks, asked' = asked,
           mutations' \in Seq(MutationType),
           \A i \in 1 .. Len(mutations') :
               \/ i \in 1 .. Len(mutations) /\ mutations'[i] = mutations[i]
               \/ mutations'[i].epoch = store'.generation /\ (ended' => mutations'[i].kind # "login"),
           store'.owner <= calls',
           ended' => /\ store'.blocked
                     /\ store'.credential = None /\ store'.snapshot.status # "authenticated"
    PROVE  Control'
<1>1. store.generation \in Nat
  BY DEF IInv, TypeOK, StoreType
<1>2. \A c \in checks : c.epoch \in Nat /\ c.epoch <= store.generation /\ c.id <= asked
  BY DEF IInv, TypeOK, Control, EpochsPast, CheckType
<1>3. \A c \in checks : c.epoch <= store'.generation /\ c.epoch # store'.generation
  BY <1>1, <1>2
<1>4. \A i \in 1 .. Len(mutations) :
          mutations[i].epoch \in Nat /\ mutations[i].epoch <= store.generation
  <2>1. \A i \in 1 .. Len(mutations) : mutations[i] \in MutationType
    BY DEF IInv, TypeOK
  <2>. QED
    BY <2>1 DEF IInv, Control, EpochsPast, MutationType
<1>5. \A i \in 1 .. Len(mutations') : mutations'[i].epoch <= store'.generation
  BY <1>1, <1>4
<1>6. ended' => \A i \in 1 .. Len(mutations') :
                    mutations'[i].kind = "login" => mutations'[i].epoch # store'.generation
  BY <1>1, <1>4
<1>7. OwnersPast' /\ EpochsPast'
  BY <1>2, <1>3, <1>5 DEF OwnersPast, EpochsPast
<1>8. SingleCheck' /\ AskedAlone' /\ Judged'
  BY <1>3 DEF IInv, Control, SingleCheck, AskedAlone, Judged
<1>9. TornDown'
  BY <1>3, <1>6 DEF TornDown
<1>. QED
  BY <1>7, <1>8, <1>9 DEF Control

\* A step of the mutation queue keeps the generation and signs in only while the session stands.
LEMMA QueueMoves ==
    ASSUME IInv, store' \in StoreType, store'.generation = store.generation,
           store'.flight = store.flight, store'.owner = store.owner,
           checks' = checks, asked' = asked, calls' \in Nat, calls <= calls', ended' = ended,
           mutations = <<>> => mutations' = <<>>,
           \A i \in 1 .. Len(mutations') : \E j \in 1 .. Len(mutations) :
               mutations'[i].epoch = mutations[j].epoch /\ mutations'[i].kind = mutations[j].kind,
           ended => /\ store'.blocked = store.blocked
                    /\ store'.credential \in {None, store.credential}
                    /\ store'.snapshot.status \in {store.snapshot.status, "unauthenticated"}
    PROVE  Control'
<1>1. OwnersPast'
  BY DEF IInv, TypeOK, StoreType, Control, OwnersPast
<1>2. EpochsPast'
  BY DEF IInv, Control, EpochsPast
<1>3. SingleCheck' /\ AskedAlone' /\ Judged'
  BY DEF IInv, Control, SingleCheck, AskedAlone, Judged
<1>4. TornDown'
  BY DEF IInv, Control, TornDown
<1>. QED
  BY <1>1, <1>2, <1>3, <1>4 DEF Control

-----------------------------------------------------------------------------
(* The status check *)

\* A check that starts is the single flight, and nothing else is current.
LEMMA StartCheck ==
    ASSUME IInv, ~store.blocked, store.flight = 0, asked < MaxChecks, asked' = asked + 1,
           checks' = checks \union {Check}, store' = [store EXCEPT !.flight = asked + 1],
           UNCHANGED <<mutations, calls, ended>>
    PROVE  /\ Control' /\ store' \in StoreType /\ checks' \subseteq CheckType
           /\ asked' \in 0 .. MaxChecks
<1>1. asked + 1 \in 1 .. MaxChecks /\ asked \in Nat
  BY AuthAssumption DEF IInv, TypeOK, AuthAssumption
<1>2. store.generation \in Nat
  BY DEF IInv, TypeOK, StoreType
<1>3. Check \in CheckType /\ Check.id = asked + 1 /\ Check.epoch = store.generation
      /\ ~Check.sent /\ Check.answer = Nothing
  BY <1>1, <1>2, AnswerTypes DEF Check, CheckType
<1>4. /\ store' \in StoreType /\ store'.generation = store.generation
      /\ store'.flight = asked + 1 /\ store'.blocked = store.blocked /\ store'.owner = store.owner
  <2>1. asked + 1 \in 0 .. MaxChecks
    BY <1>1
  <2>. QED
    BY <2>1 DEF IInv, TypeOK, StoreType
<1>5. \A c \in checks : c.id \in Nat /\ c.id <= asked /\ c.id # 0 /\ c.epoch # store.generation
  BY DEF IInv, TypeOK, CheckType, Control, EpochsPast, SingleCheck
<1>. HIDE DEF Check
<1>6. OwnersPast' /\ EpochsPast'
  BY <1>1, <1>2, <1>3, <1>4, <1>5 DEF IInv, Control, OwnersPast, EpochsPast
<1>7. SingleCheck'
  BY <1>1, <1>3, <1>4, <1>5 DEF IInv, Control, SingleCheck
<1>8. AskedAlone' /\ Judged'
  BY <1>3, <1>4, <1>5 DEF IInv, Control, AskedAlone, Judged
<1>9. TornDown'
  BY DEF IInv, Control, TornDown
<1>. QED
  BY <1>1, <1>3, <1>4, <1>6, <1>7, <1>8, <1>9 DEF IInv, TypeOK, Control

LEMMA RevalidateStep == ASSUME IInv, Revalidate PROVE IInv'
<1>1. /\ ~store.blocked /\ store.flight = 0 /\ asked < MaxChecks /\ asked' = asked + 1
      /\ checks' = checks \union {Check} /\ store' = [store EXCEPT !.flight = asked + 1]
      /\ UNCHANGED <<server, mutations, fired, channel, leases, calls, outages, bad, ends,
                     reconnects, ended>>
  BY DEF Revalidate
<1>2. Control' /\ store' \in StoreType /\ checks' \subseteq CheckType /\ asked' \in 0 .. MaxChecks
  BY <1>1, StartCheck
<1>3. TypeOK'
  BY <1>1, <1>2 DEF IInv, TypeOK
<1>. QED
  BY <1>2, <1>3 DEF IInv

\* Replacing a check by itself with another answer, or marked as sent.
LEMMA CheckChanges ==
    ASSUME IInv, NEW c \in checks, NEW d \in CheckType,
           d.id = c.id, d.epoch = c.epoch,
           d.sent \/ d.answer = Nothing \/ d.answer.kind = "outage",
           d.sent /\ d.epoch = store.generation => mutations = <<>>,
           checks' = (checks \ {c}) \union {d},
           UNCHANGED <<store, mutations, asked, calls, ended>>
    PROVE  Control' /\ checks' \subseteq CheckType
<1>1. \A e \in checks' : \E f \in checks : e.id = f.id /\ e.epoch = f.epoch
  OBVIOUS
<1>2. OwnersPast' /\ EpochsPast' /\ TornDown'
  BY <1>1 DEF IInv, Control, OwnersPast, EpochsPast, TornDown
<1>3. SingleCheck'
  BY <1>1 DEF IInv, Control, SingleCheck
<1>4. AskedAlone' /\ Judged'
  BY DEF IInv, Control, AskedAlone, Judged
<1>. QED
  BY <1>2, <1>3, <1>4 DEF Control, IInv, TypeOK

LEMMA AskStep == ASSUME IInv, NEW c \in checks, Ask(c) PROVE IInv'
<1>. DEFINE d == [c EXCEPT !.sent = TRUE]
<1>1. d \in CheckType /\ d.id = c.id /\ d.epoch = c.epoch /\ d.answer = c.answer /\ d.sent
  BY DEF IInv, TypeOK, CheckType
<1>2. checks' = (checks \ {c}) \union {d} /\ mutations = <<>>
  BY DEF Ask
<1>3. UNCHANGED <<server, store, mutations, fired, channel, leases, bounds, ended>>
  BY DEF Ask
<1>. HIDE DEF d
<1>4. Control' /\ checks' \subseteq CheckType
  BY <1>1, <1>2, <1>3, CheckChanges DEF bounds
<1>. QED
  BY <1>3, <1>4 DEF IInv, TypeOK, bounds

LEMMA AnswerCheckStep == ASSUME IInv, NEW c \in checks, AnswerCheck(c) PROVE IInv'
<1>1. PICK answer \in {CookieSession, Reply("outage"), Reply("bad")} :
         /\ \/ c.sent /\ answer = CookieSession /\ UNCHANGED <<outages, bad>>
            \/ /\ answer = Reply("outage") /\ outages < MaxOutages
               /\ outages' = outages + 1
               /\ UNCHANGED bad
            \/ /\ c.sent /\ answer = Reply("bad") /\ bad < MaxBad
               /\ bad' = bad + 1
               /\ UNCHANGED outages
         /\ checks' = (checks \ {c}) \union {[c EXCEPT !.answer = answer]}
  BY DEF AnswerCheck
<1>. DEFINE d == [c EXCEPT !.answer = answer]
<1>2. CookieSession \in Answer
  BY AnswerTypes DEF CookieSession, IInv, TypeOK, Granted
<1>3. answer \in Answer
  BY <1>2, AnswerTypes
<1>4. d \in CheckType /\ d.id = c.id /\ d.epoch = c.epoch /\ d.answer = answer /\ d.sent = c.sent
  BY <1>3 DEF IInv, TypeOK, CheckType
<1>5. d.sent \/ d.answer.kind = "outage"
  BY <1>1, <1>4 DEF Reply
<1>6. d.sent /\ d.epoch = store.generation => mutations = <<>>
  BY <1>4 DEF IInv, Control, AskedAlone
<1>7. UNCHANGED <<server, store, mutations, fired, channel, leases, calls, asked, ends,
                  reconnects, ended>>
  BY DEF AnswerCheck
<1>8. outages' \in 0 .. MaxOutages /\ bad' \in 0 .. MaxBad
  <2>1. outages \in 0 .. MaxOutages /\ bad \in 0 .. MaxBad
    BY DEF IInv, TypeOK
  <2>2. /\ outages' = outages \/ (outages < MaxOutages /\ outages' = outages + 1)
        /\ bad' = bad \/ (bad < MaxBad /\ bad' = bad + 1)
    BY <1>1
  <2>. QED
    BY ONLY <2>1, <2>2, AuthAssumption
<1>9. checks' = (checks \ {c}) \union {d}
  BY <1>1
<1>. HIDE DEF d
<1>10. Control' /\ checks' \subseteq CheckType
  BY <1>4, <1>5, <1>6, <1>7, <1>9, CheckChanges
<1>. QED
  BY <1>7, <1>8, <1>10 DEF IInv, TypeOK

LEMMA SettleCheckStep == ASSUME IInv, NEW c \in checks, SettleCheck(c) PROVE IInv'
<1>. DEFINE landed == IF Superseded(c.epoch) THEN store
                      ELSE IF c.answer.kind = "session" THEN Adopt(store, c.answer.session)
                      ELSE SettleFailedStatus(store, c.answer)
            settled == [landed EXCEPT !.flight = IF @ = c.id THEN 0 ELSE @]
<1>1. /\ c.answer # Nothing \/ c.epoch # store.generation
      /\ checks' = checks \ {c} /\ store' = settled
      /\ ended' = (ended \/ (settled.blocked /\ ~store.blocked))
      /\ UNCHANGED <<server, mutations, fired, leases, bounds>>
  BY DEF SettleCheck
<1>2. channel' \in [state : {"idle", "checking", "refused"}, check : 0 .. MaxChecks]
  BY Ranges DEF SettleCheck, Idle, IInv, TypeOK
<1>3. store \in StoreType /\ c \in CheckType /\ c.answer.session \in Maybe
  BY DEF IInv, TypeOK, CheckType, Answer
<1>4. /\ landed \in StoreType /\ landed.generation = store.generation
      /\ landed.flight = store.flight /\ landed.owner = store.owner
  BY <1>3, AdoptStore, FailedStatusStore
<1>5. Superseded(c.epoch) <=> c.epoch # store.generation
  BY DEF Superseded
<1>6. /\ settled \in StoreType /\ settled.generation = store.generation
      /\ settled.owner = store.owner
      /\ settled.flight = (IF store.flight = c.id THEN 0 ELSE store.flight)
      /\ settled.blocked = landed.blocked /\ settled.credential = landed.credential
      /\ settled.snapshot = landed.snapshot
  <2>. HIDE DEF landed
  <2>. QED
    BY <1>4, Ranges DEF StoreType
<1>7. Superseded(c.epoch) => settled.blocked = store.blocked
          /\ settled.credential = store.credential /\ settled.snapshot = store.snapshot
  BY <1>6
<1>8. CASE Superseded(c.epoch) \/ (~ended /\ ~(settled.blocked /\ ~store.blocked))
  <2>1. TornDown'
    BY <1>1, <1>6, <1>7, <1>8 DEF IInv, Control, TornDown, bounds
  <2>2. TypeOK'
    BY <1>1, <1>2, <1>6 DEF IInv, TypeOK, bounds
  <2>3. OwnersPast' /\ EpochsPast' /\ SingleCheck' /\ AskedAlone' /\ Judged'
    BY <1>1, <1>6 DEF IInv, Control, OwnersPast, EpochsPast, SingleCheck, AskedAlone, Judged, bounds
  <2>. QED
    BY <2>1, <2>2, <2>3 DEF IInv, Control
<1>9. CASE ~Superseded(c.epoch) /\ (ended \/ (settled.blocked /\ ~store.blocked))
  <2>1. ~ended /\ c.epoch = store.generation
    BY <1>5, <1>9 DEF IInv, Control, TornDown
  <2>2. settled.blocked /\ ~store.blocked /\ landed.blocked
    BY <1>6, <1>9, <2>1
  <2>3. c.answer.kind # "session"
    BY <1>3, <1>9, <2>2, AdoptStore
  <2>4. landed = SettleFailedStatus(store, c.answer)
    BY <1>9, <2>3
  <2>5. c.answer.kind # "outage"
    BY <1>3, <2>2, <2>4, FailedStatusStore
  <2>6. mutations = <<>>
    BY <1>1, <2>1, <2>5 DEF IInv, Control, Judged, AskedAlone
  <2>7. landed.credential = None /\ landed.snapshot.status # "authenticated"
    <3>1. store \in StoreType
      BY DEF IInv, TypeOK
    <3>. HIDE DEF landed
    <3>. QED
      BY <2>4, <3>1, FailedStatusStore
  <2>8. \A e \in checks \ {c} : e.epoch # store.generation
    BY <2>1 DEF IInv, Control, SingleCheck
  <2>9. TornDown'
    BY <1>1, <1>6, <2>2, <2>6, <2>7, <2>8 DEF TornDown
  <2>10. TypeOK'
    BY <1>1, <1>2, <1>6 DEF IInv, TypeOK, bounds
  <2>11. OwnersPast' /\ EpochsPast' /\ SingleCheck' /\ AskedAlone' /\ Judged'
    BY <1>1, <1>6 DEF IInv, Control, OwnersPast, EpochsPast, SingleCheck, AskedAlone, Judged, bounds
  <2>. QED
    BY <2>9, <2>10, <2>11 DEF IInv, Control
<1>. QED
  BY <1>8, <1>9
-----------------------------------------------------------------------------
(* Calls of the user *)

\* A called mutation joins the queue as current, or the full queue refuses it.
LEMMA EnqueueStep ==
    ASSUME IInv, NEW kind \in {"login", "logout"}, NEW revocation \in Revocation,
           NEW s \in StoreType, s.generation = store.generation, s.owner = store.owner,
           calls < MaxCalls, calls' = calls + 1,
           Enqueue(kind, revocation, s)
    PROVE  /\ store' \in StoreType /\ store'.owner = s.owner
           /\ mutations' \in Seq(MutationType) /\ Len(mutations') <= QueueBound
           /\ \/ store' = s /\ mutations' = mutations /\ kind = "login"
              \/ /\ store'.generation = store.generation + 1
                 /\ store'.credential = None /\ store'.snapshot.status = "unauthenticated"
                 /\ store'.blocked = s.blocked
                 /\ kind = "login" => mutations' # mutations
                 /\ \A i \in 1 .. Len(mutations') :
                      \/ i \in 1 .. Len(mutations) /\ mutations'[i] = mutations[i]
                      \/ mutations'[i].epoch = store'.generation /\ mutations'[i].kind = kind
<1>. DEFINE m == Mutation(kind, store'.generation)
<1>1. mutations \in Seq(MutationType) /\ Len(mutations) <= QueueBound /\ Len(mutations) \in Nat
  BY DEF IInv, TypeOK
<1>2. calls + 1 \in 1 .. MaxCalls
  BY AuthAssumption DEF IInv, TypeOK, AuthAssumption
<1>3. store.owner \in 0 .. MaxCalls
  BY DEF IInv, TypeOK, StoreType
<1>4. store'.generation \in Nat => m \in MutationType
  BY <1>2, <1>3, AnswerTypes, Ranges DEF Mutation, MutationType
<1>5. m.epoch = store'.generation /\ m.kind = kind
  BY DEF Mutation
<1>6. CASE Len(mutations) < QueueBound
  <2>1. store' = Fence(s, revocation) /\ mutations' = Append(mutations, m)
    BY <1>6 DEF Enqueue
  <2>2. /\ store' \in StoreType /\ store'.owner = s.owner
        /\ store'.generation = store.generation + 1
        /\ store'.credential = None /\ store'.snapshot.status = "unauthenticated"
        /\ store'.blocked = s.blocked
    BY <2>1, FenceStore
  <2>3. store'.generation \in Nat
    BY <2>2 DEF StoreType
  <2>. HIDE DEF m
  <2>4. /\ mutations' \in Seq(MutationType) /\ Len(mutations') = Len(mutations) + 1
        /\ \A i \in 1 .. Len(mutations') :
              \/ i \in 1 .. Len(mutations) /\ mutations'[i] = mutations[i]
              \/ mutations'[i] = m
    BY <1>1, <1>4, <2>1, <2>3
  <2>5. Len(mutations') <= QueueBound
    BY <1>1, <1>6, <2>4, AuthAssumption DEF AuthAssumption
  <2>. QED
    BY <1>5, <2>2, <2>4, <2>5
<1>7. CASE ~(Len(mutations) < QueueBound)
  <2>1. mutations' = mutations /\ store' = IF kind = "logout" THEN Fence(s, revocation) ELSE s
    BY <1>7 DEF Enqueue
  <2>2. CASE kind = "logout"
    <3>1. /\ store' \in StoreType /\ store'.owner = s.owner
          /\ store'.generation = store.generation + 1
          /\ store'.credential = None /\ store'.snapshot.status = "unauthenticated"
          /\ store'.blocked = s.blocked
      BY <2>1, <2>2, FenceStore
    <3>. QED
      BY <1>1, <2>1, <3>1
  <2>3. CASE kind = "login"
    BY <1>1, <2>1, <2>3
  <2>. QED
    BY <2>2, <2>3
<1>. QED
  BY <1>6, <1>7

LEMMA LoginStep == ASSUME IInv, Login PROVE IInv'
<1>1. /\ calls < MaxCalls /\ calls' = calls + 1 /\ Enqueue("login", "none", store)
      /\ ended' = (ended /\ mutations' = mutations)
      /\ UNCHANGED <<server, checks, fired, channel, leases, asked, outages, bad, ends, reconnects>>
  BY DEF Login
<1>2. store \in StoreType /\ "none" \in Revocation
  BY DEF IInv, TypeOK, Revocation
<1>3. /\ store' \in StoreType /\ store'.owner = store.owner
      /\ mutations' \in Seq(MutationType) /\ Len(mutations') <= QueueBound
      /\ \/ store' = store /\ mutations' = mutations
         \/ /\ store'.generation = store.generation + 1
            /\ store'.credential = None /\ store'.snapshot.status = "unauthenticated"
            /\ mutations' # mutations
            /\ \A i \in 1 .. Len(mutations') :
                 \/ i \in 1 .. Len(mutations) /\ mutations'[i] = mutations[i]
                 \/ mutations'[i].epoch = store'.generation /\ mutations'[i].kind = "login"
  BY <1>1, <1>2, EnqueueStep
<1>4. calls' \in 0 .. MaxCalls /\ calls \in Nat
  BY <1>1, AuthAssumption DEF IInv, TypeOK, AuthAssumption
<1>5. TypeOK'
  BY <1>1, <1>3, <1>4 DEF IInv, TypeOK
<1>6. store'.owner <= calls'
  <2>1. store.owner \in Nat /\ store.owner <= calls
    BY <1>2, AuthAssumption DEF IInv, Control, OwnersPast, StoreType
  <2>2. store'.owner = store.owner /\ calls' = calls + 1
    BY <1>1, <1>3
  <2>. QED
    BY ONLY <1>4, <2>1, <2>2
<1>7. CASE store' = store /\ mutations' = mutations
  <2>1. Control'
    BY <1>1, <1>6, <1>7 DEF IInv, Control, OwnersPast, EpochsPast, SingleCheck, AskedAlone, Judged,
                            TornDown
  <2>. QED
    BY <1>5, <2>1 DEF IInv
<1>8. CASE ~(store' = store /\ mutations' = mutations)
  <2>1. store'.generation = store.generation + 1 /\ ~ended'
    BY <1>1, <1>3, <1>8
  <2>2. Control'
    BY <1>1, <1>3, <1>6, <1>8, <2>1, Supersedes
  <2>. QED
    BY <1>5, <2>2 DEF IInv
<1>. QED
  BY <1>7, <1>8

LEMMA LogoutStep == ASSUME IInv, Logout PROVE IInv'
<1>. DEFINE s == [store EXCEPT !.blocked = TRUE]
<1>1. /\ calls < MaxCalls /\ calls' = calls + 1 /\ Enqueue("logout", "unconfirmed", s)
      /\ ended' = TRUE
      /\ UNCHANGED <<server, checks, fired, channel, leases, asked, outages, bad, ends, reconnects>>
  BY DEF Logout
<1>2. /\ s \in StoreType /\ s.generation = store.generation /\ s.owner = store.owner /\ s.blocked
      /\ "unconfirmed" \in Revocation
  BY DEF IInv, TypeOK, Revocation, StoreType
<1>. HIDE DEF s
<1>3. /\ store' \in StoreType /\ store'.owner = store.owner
      /\ mutations' \in Seq(MutationType) /\ Len(mutations') <= QueueBound
      /\ store'.generation = store.generation + 1
      /\ store'.credential = None /\ store'.snapshot.status = "unauthenticated"
      /\ store'.blocked
      /\ \A i \in 1 .. Len(mutations') :
           \/ i \in 1 .. Len(mutations) /\ mutations'[i] = mutations[i]
           \/ mutations'[i].epoch = store'.generation /\ mutations'[i].kind = "logout"
  BY <1>1, <1>2, EnqueueStep
<1>4. calls' \in 0 .. MaxCalls /\ calls \in Nat
  BY <1>1, AuthAssumption DEF IInv, TypeOK, AuthAssumption
<1>5. TypeOK'
  BY <1>1, <1>3, <1>4 DEF IInv, TypeOK
<1>6. store'.owner <= calls'
  <2>1. store.owner \in Nat /\ store.owner <= calls
    BY DEF IInv, TypeOK, StoreType, Control, OwnersPast
  <2>. QED
    BY <1>1, <1>3, <1>4, <2>1
<1>7. Control'
  <2>1. \A i \in 1 .. Len(mutations') :
           \/ i \in 1 .. Len(mutations) /\ mutations'[i] = mutations[i]
           \/ mutations'[i].epoch = store'.generation /\ (ended' => mutations'[i].kind # "login")
    BY <1>3
  <2>. QED
    BY <1>1, <1>3, <1>6, <2>1, Supersedes
<1>. QED
  BY <1>5, <1>7 DEF IInv

LEMMA CloseStep == ASSUME IInv, Close PROVE IInv'
<1>. DEFINE t == StopProtectedWork(store)
<1>1. /\ calls < MaxCalls /\ calls' = calls + 1
      /\ store' = [t EXCEPT !.owner = @ + 1, !.generation = @ + 1, !.flight = 0]
      /\ UNCHANGED <<server, mutations, checks, fired, channel, leases, asked, outages, bad, ends,
                     reconnects, ended>>
  BY DEF Close
<1>2. /\ t \in StoreType /\ t.generation = store.generation /\ t.owner = store.owner
      /\ t.blocked = store.blocked /\ t.credential = None /\ t.snapshot = store.snapshot
  BY StopStore DEF IInv, TypeOK
<1>. HIDE DEF t
<1>3. calls \in Nat /\ calls' \in 0 .. MaxCalls /\ MaxCalls \in Nat
  BY <1>1, AuthAssumption DEF IInv, TypeOK, AuthAssumption
<1>4. t.owner \in Nat /\ t.owner <= calls
  BY <1>2 DEF IInv, TypeOK, Control, OwnersPast, StoreType
<1>5. t.owner + 1 \in 0 .. MaxCalls /\ t.owner + 1 <= calls' /\ 0 \in 0 .. MaxChecks
  BY <1>1, <1>3, <1>4, Ranges
<1>6. t.generation + 1 \in Nat
  BY <1>2 DEF StoreType
<1>7. /\ store' \in StoreType /\ store'.generation = store.generation + 1
      /\ store'.owner <= calls' /\ store'.blocked = store.blocked
      /\ store'.credential = None /\ store'.snapshot = store.snapshot
  BY <1>1, <1>2, <1>5, <1>6 DEF StoreType
<1>8. TypeOK'
  BY <1>1, <1>3, <1>7 DEF IInv, TypeOK
<1>9. mutations' \in Seq(MutationType)
  BY <1>1 DEF IInv, TypeOK
<1>10. ended' => store'.blocked /\ store'.snapshot.status # "authenticated"
  BY <1>1, <1>7 DEF IInv, Control, TornDown
<1>11. Control'
  BY <1>1, <1>7, <1>9, <1>10, Supersedes
<1>. QED
  BY <1>8, <1>11 DEF IInv

-----------------------------------------------------------------------------
(* Teardowns nobody in the user interface asked for *)

\* invalidate(), however it was reached, with the flight cleared or left to settle.
LEMMA InvalidateSteps ==
    ASSUME IInv, NEW flight \in 0 .. MaxChecks,
           store' = [Invalidate(store) EXCEPT !.flight = flight], ended' = TRUE,
           UNCHANGED <<mutations, checks, asked, calls>>
    PROVE  store' \in StoreType /\ Control'
<1>. DEFINE t == Invalidate(store)
<1>1. /\ t \in StoreType /\ t.generation = store.generation + 1 /\ t.owner = store.owner
      /\ t.blocked /\ t.credential = None /\ t.snapshot.status = "unauthenticated"
  BY InvalidateStore DEF IInv, TypeOK
<1>. HIDE DEF t
<1>2. store' = [t EXCEPT !.flight = flight]
  BY DEF t
<1>3. /\ store' \in StoreType /\ store'.generation = store.generation + 1
      /\ store'.owner = store.owner /\ store'.blocked
      /\ store'.credential = None /\ store'.snapshot.status = "unauthenticated"
  BY <1>1, <1>2 DEF StoreType
<1>4. mutations' \in Seq(MutationType)
  BY DEF IInv, TypeOK
<1>5. store'.owner <= calls'
  BY <1>3 DEF IInv, Control, OwnersPast
<1>6. Control'
  BY <1>3, <1>4, <1>5, Supersedes
<1>. QED
  BY <1>3, <1>6

LEMMA InvalidateFlight ==
    ASSUME IInv
    PROVE  Invalidate(store) = [Invalidate(store) EXCEPT !.flight = 0]
<1>. DEFINE t == Invalidate(store)
<1>1. t \in StoreType /\ t.flight = 0
  BY InvalidateStore DEF IInv, TypeOK
<1>. HIDE DEF t
<1>2. t = [t EXCEPT !.flight = 0]
  BY <1>1 DEF StoreType
<1>. QED
  BY <1>2 DEF t

LEMMA ExpireStep == ASSUME IInv, Expire PROVE IInv'
<1>1. CASE TimerIsCurrent
  <2>1. /\ store' = [Invalidate(store) EXCEPT !.flight = store.flight] /\ ended' = TRUE /\ fired' = 0
        /\ UNCHANGED <<server, mutations, checks, channel, leases, bounds>>
    BY <1>1 DEF Expire
  <2>2. store.flight \in 0 .. MaxChecks
    BY DEF IInv, TypeOK, StoreType
  <2>3. store' \in StoreType /\ Control'
    BY <2>1, <2>2, InvalidateSteps DEF bounds
  <2>4. TypeOK'
    BY <2>1, <2>3 DEF IInv, TypeOK, bounds
  <2>. QED
    BY <2>3, <2>4 DEF IInv
<1>2. CASE ~TimerIsCurrent
  BY <1>2 DEF Expire, IInv, TypeOK, Control, OwnersPast, EpochsPast, SingleCheck, AskedAlone,
              Judged, TornDown, bounds
<1>. QED
  BY <1>1, <1>2

LEMMA ProtectedFailureStep == ASSUME IInv, ProtectedFailure PROVE IInv'
<1>1. /\ store' = Invalidate(store) /\ ended' = TRUE
      /\ UNCHANGED <<server, mutations, checks, fired, channel, leases, calls, asked, outages, ends,
                     reconnects>>
  BY DEF ProtectedFailure
<1>2. bad' \in 0 .. MaxBad
  BY AuthAssumption DEF ProtectedFailure, IInv, TypeOK, AuthAssumption
<1>3. store' \in StoreType /\ Control'
  BY <1>1, InvalidateSteps, InvalidateFlight, Ranges
<1>4. TypeOK'
  BY <1>1, <1>2, <1>3 DEF IInv, TypeOK
<1>. QED
  BY <1>3, <1>4 DEF IInv

LEMMA GiveUpStep == ASSUME IInv, GiveUp PROVE IInv'
<1>1. /\ store' = Invalidate(store) /\ ended' = TRUE /\ channel' = Idle
      /\ UNCHANGED <<server, mutations, checks, fired, leases, calls, asked, bad, ends, reconnects>>
  BY DEF GiveUp
<1>2. outages' \in 0 .. MaxOutages
  BY AuthAssumption DEF GiveUp, IInv, TypeOK, AuthAssumption
<1>3. store' \in StoreType /\ Control'
  BY <1>1, InvalidateSteps, InvalidateFlight, Ranges
<1>4. Idle \in [state : {"idle", "checking", "refused"}, check : 0 .. MaxChecks]
  BY Ranges DEF Idle
<1>5. TypeOK'
  BY <1>1, <1>2, <1>3, <1>4 DEF IInv, TypeOK
<1>. QED
  BY <1>3, <1>5 DEF IInv

-----------------------------------------------------------------------------
(* The mutation queue *)

\* Run() replaces the head, and keeps its kind and epoch.
LEMMA RunHead ==
    ASSUME IInv, mutations # <<>>, NEW m \in MutationType,
           m.kind = Running.kind, m.epoch = Running.epoch, Run(m)
    PROVE  /\ mutations' \in Seq(MutationType) /\ Len(mutations') <= QueueBound
           /\ mutations' # <<>>
           /\ \A i \in 1 .. Len(mutations') : \E j \in 1 .. Len(mutations) :
                  mutations'[i].epoch = mutations[j].epoch /\ mutations'[i].kind = mutations[j].kind
<1>1. mutations \in Seq(MutationType) /\ Len(mutations) <= QueueBound
  BY DEF IInv, TypeOK
<1>2. Running = mutations[1] /\ 1 \in 1 .. Len(mutations)
  BY <1>1 DEF Running
<1>3. mutations' = [mutations EXCEPT ![1] = m]
  BY DEF Run
<1>4. mutations' \in Seq(MutationType) /\ Len(mutations') = Len(mutations)
  BY <1>1, <1>3
<1>5. \A i \in 1 .. Len(mutations) :
          mutations'[i].epoch = mutations[i].epoch /\ mutations'[i].kind = mutations[i].kind
  BY <1>1, <1>2, <1>3
<1>6. mutations' # <<>>
  BY <1>1, <1>2, <1>4
<1>. QED
  BY <1>1, <1>4, <1>5, <1>6

LEMMA TailQueue ==
    ASSUME IInv, mutations # <<>>, mutations' = Tail(mutations)
    PROVE  /\ mutations' \in Seq(MutationType) /\ Len(mutations') <= QueueBound
           /\ \A i \in 1 .. Len(mutations') : \E j \in 1 .. Len(mutations) :
                  mutations'[i].epoch = mutations[j].epoch /\ mutations'[i].kind = mutations[j].kind
<1>1. mutations \in Seq(MutationType) /\ Len(mutations) <= QueueBound /\ QueueBound \in Nat
  BY AuthAssumption DEF IInv, TypeOK, AuthAssumption
<1>2. mutations' \in Seq(MutationType) /\ Len(mutations') = Len(mutations) - 1
  BY <1>1
<1>3. \A i \in 1 .. Len(mutations') : i + 1 \in 1 .. Len(mutations) /\ mutations'[i] = mutations[i + 1]
  BY <1>1, <1>2
<1>. QED
  BY <1>1, <1>2, <1>3

LEMMA RunningType ==
    ASSUME IInv, mutations # <<>>
    PROVE  /\ Running \in MutationType
           /\ Running = mutations[1] /\ 1 \in 1 .. Len(mutations)
  BY DEF IInv, TypeOK, Running

LEMMA StartMutationStep == ASSUME IInv, StartMutation PROVE IInv'
<1>1. /\ mutations # <<>>
      /\ UNCHANGED <<server, checks, fired, channel, leases, bounds, ended>>
  BY DEF StartMutation
<1>2. Running \in MutationType /\ store.csrf \in Maybe
  BY <1>1, RunningType DEF IInv, TypeOK, StoreType
<1>. DEFINE login == [Running EXCEPT !.phase = "sent"]
            logout == [Running EXCEPT !.phase = "sent", !.proof = store.csrf,
                                      !.again = (store.csrf = None)]
<1>3. login \in MutationType /\ login.kind = Running.kind /\ login.epoch = Running.epoch
  BY <1>2 DEF MutationType
<1>4. logout \in MutationType /\ logout.kind = Running.kind /\ logout.epoch = Running.epoch
  BY <1>2 DEF MutationType
<1>5. \/ Run(login) /\ UNCHANGED store
      \/ Run(logout) /\ store' = [store EXCEPT !.csrf = None]
  BY DEF StartMutation
<1>. HIDE DEF login, logout
<1>6. /\ mutations' \in Seq(MutationType) /\ Len(mutations') <= QueueBound
      /\ mutations' # <<>>
      /\ \A i \in 1 .. Len(mutations') : \E j \in 1 .. Len(mutations) :
             mutations'[i].epoch = mutations[j].epoch /\ mutations'[i].kind = mutations[j].kind
  BY <1>1, <1>3, <1>4, <1>5, RunHead
<1>7. /\ store' \in StoreType /\ store'.generation = store.generation
      /\ store'.flight = store.flight /\ store'.owner = store.owner
      /\ store'.blocked = store.blocked /\ store'.credential = store.credential
      /\ store'.snapshot = store.snapshot
  <2>1. store' = store \/ store' = [store EXCEPT !.csrf = None]
    BY <1>5
  <2>2. store \in StoreType /\ None \in Maybe
    BY Ranges DEF IInv, TypeOK
  <2>. QED
    BY ONLY <2>1, <2>2 DEF StoreType
<1>8. calls' \in Nat /\ calls <= calls'
  BY <1>1 DEF bounds, IInv, TypeOK
<1>9. Control'
  BY <1>1, <1>6, <1>7, <1>8, QueueMoves DEF bounds
<1>10. TypeOK'
  BY <1>1, <1>6, <1>7 DEF IInv, TypeOK, bounds
<1>. QED
  BY <1>9, <1>10 DEF IInv

LEMMA AdmitType ==
    ASSUME IInv, Admit
    PROVE  /\ server' \in [cookie : Maybe, live : SUBSET Session, issued : Session]
           /\ server'.cookie \in Session
<1>1. server.issued + 1 \in Session
  BY AuthAssumption DEF Admit, IInv, TypeOK, Session, AuthAssumption
<1>. QED
  BY <1>1, Ranges DEF Admit, IInv, TypeOK

LEMMA RevokeType ==
    ASSUME IInv, Revoke
    PROVE  server' \in [cookie : Maybe, live : SUBSET Session, issued : Session]
  BY Ranges DEF Revoke, IInv, TypeOK

\* The head gets its answer, or goes on to its next request; the store is not involved.
LEMMA HeadAnswered ==
    ASSUME IInv, mutations # <<>>, NEW m \in MutationType,
           m.kind = Running.kind, m.epoch = Running.epoch, Run(m),
           server' \in [cookie : Maybe, live : SUBSET Session, issued : Session],
           outages' = outages \/ (outages < MaxOutages /\ outages' = outages + 1),
           UNCHANGED <<store, checks, fired, channel, leases, calls, asked, bad, ends, reconnects,
                       ended>>
    PROVE  IInv'
<1>1. /\ mutations' \in Seq(MutationType) /\ Len(mutations') <= QueueBound
      /\ mutations' # <<>>
      /\ \A i \in 1 .. Len(mutations') : \E j \in 1 .. Len(mutations) :
             mutations'[i].epoch = mutations[j].epoch /\ mutations'[i].kind = mutations[j].kind
  BY RunHead
<1>2. outages' \in 0 .. MaxOutages
  BY AuthAssumption DEF IInv, TypeOK, AuthAssumption
<1>3. TypeOK'
  BY <1>1, <1>2 DEF IInv, TypeOK
<1>4. calls' \in Nat /\ calls <= calls' /\ store' \in StoreType
  BY DEF IInv, TypeOK
<1>5. Control'
  BY <1>1, <1>4, QueueMoves
<1>. QED
  BY <1>3, <1>5 DEF IInv

LEMMA AnswerLoginStep == ASSUME IInv, AnswerLogin PROVE IInv'
<1>1. /\ mutations # <<>>
      /\ UNCHANGED <<store, checks, fired, channel, leases, calls, asked, bad, ends, reconnects,
                     ended>>
  BY DEF AnswerLogin
<1>2. \A answer \in Answer :
          LET m == [Running EXCEPT !.phase = "answered", !.answer = answer] IN
            m \in MutationType /\ m.kind = Running.kind /\ m.epoch = Running.epoch
  BY <1>1, RunningType DEF MutationType
<1>3. server \in [cookie : Maybe, live : SUBSET Session, issued : Session]
  BY DEF IInv, TypeOK
<1>4. PICK answer \in Answer :
          /\ Run([Running EXCEPT !.phase = "answered", !.answer = answer])
          /\ Admit \/ UNCHANGED server
          /\ outages' = outages \/ (outages < MaxOutages /\ outages' = outages + 1)
  <2>1. Admit => Granted(server'.cookie) \in Answer
    BY AdmitType, AnswerTypes
  <2>2. CASE Admit /\ Run([Running EXCEPT !.phase = "answered", !.answer = Granted(server'.cookie)])
             /\ UNCHANGED outages
    BY <2>1, <2>2
  <2>3. CASE Run([Running EXCEPT !.phase = "answered", !.answer = Reply("ended")])
             /\ UNCHANGED <<server, outages>>
    BY <2>3, AnswerTypes
  <2>4. CASE /\ outages < MaxOutages /\ outages' = outages + 1
             /\ Run([Running EXCEPT !.phase = "answered", !.answer = Reply("outage")])
             /\ Admit \/ UNCHANGED server
    BY <2>4, AnswerTypes
  <2>. QED
    BY <2>2, <2>3, <2>4 DEF AnswerLogin
<1>5. server' \in [cookie : Maybe, live : SUBSET Session, issued : Session]
  BY <1>3, <1>4, AdmitType
<1>. QED
  BY <1>1, <1>2, <1>4, <1>5, HeadAnswered

LEMMA AnswerLogoutStep == ASSUME IInv, AnswerLogout PROVE IInv'
<1>1. /\ mutations # <<>>
      /\ UNCHANGED <<store, checks, fired, channel, leases, calls, asked, bad, ends, reconnects,
                     ended>>
  BY DEF AnswerLogout
<1>2. Running \in MutationType
  BY <1>1, RunningType
<1>3. \A answer \in Answer :
          LET m == [Running EXCEPT !.phase = "answered", !.answer = answer] IN
            m \in MutationType /\ m.kind = Running.kind /\ m.epoch = Running.epoch
  BY <1>2 DEF MutationType
<1>4. \A proof \in Maybe :
          LET m == [Running EXCEPT !.proof = proof] IN
            m \in MutationType /\ m.kind = Running.kind /\ m.epoch = Running.epoch
  BY <1>2 DEF MutationType
<1>5. Resent(Running) \in MutationType /\ Resent(Running).kind = Running.kind
      /\ Resent(Running).epoch = Running.epoch
  BY <1>2, Ranges DEF MutationType, Resent
<1>6. server \in [cookie : Maybe, live : SUBSET Session, issued : Session]
  BY DEF IInv, TypeOK
<1>7. server' \in [cookie : Maybe, live : SUBSET Session, issued : Session]
  BY <1>6, RevokeType DEF AnswerLogout
<1>8. outages' = outages \/ (outages < MaxOutages /\ outages' = outages + 1)
  BY DEF AnswerLogout
<1>9. \E m \in MutationType :
          m.kind = Running.kind /\ m.epoch = Running.epoch /\ Run(m)
  BY <1>3, <1>4, <1>5, <1>6, AnswerTypes DEF AnswerLogout
<1>. QED
  BY <1>1, <1>7, <1>8, <1>9, HeadAnswered

\* A landed login or logout keeps the generation and signs in only while it is current.
LEMMA Landed ==
    ASSUME IInv, mutations # <<>>
    PROVE  LET s == IF Running.kind = "login" THEN LandLogin(Running) ELSE LandLogout(Running) IN
             /\ s \in StoreType /\ s.generation = store.generation
             /\ s.flight = store.flight /\ s.owner = store.owner
             /\ ended => /\ s.blocked = store.blocked
                         /\ s.credential \in {None, store.credential}
                         /\ s.snapshot.status \in {store.snapshot.status, "unauthenticated"}
<1>1. store \in StoreType /\ Running \in MutationType /\ Running.answer.session \in Maybe
  BY RunningType DEF IInv, TypeOK, MutationType, Answer
<1>2. {"none", "confirmed", "unconfirmed"} \subseteq Revocation
  BY DEF Revocation
<1>3. \A revocation \in Revocation :
          LET s == Clear(store, revocation) IN
            /\ s \in StoreType /\ s.generation = store.generation
            /\ s.flight = store.flight /\ s.owner = store.owner
            /\ s.blocked = store.blocked /\ s.credential = None
            /\ s.snapshot.status = "unauthenticated"
  BY <1>1, ClearStore
<1>4. CASE Running.kind = "login"
  <2>. DEFINE known == [store EXCEPT !.csrf = Running.answer.session]
  <2>1. /\ known \in StoreType /\ known.generation = store.generation
        /\ known.flight = store.flight /\ known.owner = store.owner
        /\ known.blocked = store.blocked /\ known.credential = store.credential
        /\ known.snapshot = store.snapshot
    BY <1>1 DEF StoreType
  <2>2. ~Superseded(Running.epoch) => ~ended
    BY <1>4, RunningType DEF IInv, Control, TornDown, Superseded
  <2>3. LandLogin(Running) \in
            {known, store, Clear(store, "none")} \union
            (IF Superseded(Running.epoch) THEN {} ELSE {Adopt(known, Running.answer.session)})
    BY DEF LandLogin
  <2>. HIDE DEF known
  <2>4. LET s == Adopt(known, Running.answer.session) IN
          /\ s \in StoreType /\ s.generation = store.generation
          /\ s.flight = store.flight /\ s.owner = store.owner
    BY <1>1, <2>1, AdoptStore
  <2>. QED
    BY <1>1, <1>2, <1>3, <1>4, <2>1, <2>2, <2>3, <2>4
<1>5. CASE Running.kind # "login"
  <2>1. \E revocation \in Revocation : LandLogout(Running) \in {store, Clear(store, revocation)}
    BY <1>2 DEF LandLogout
  <2>. QED
    BY <1>1, <1>3, <1>5, <2>1
<1>. QED
  BY <1>4, <1>5

LEMMA SettleMutationStep == ASSUME IInv, SettleMutation PROVE IInv'
<1>1. /\ mutations # <<>> /\ mutations' = Tail(mutations)
      /\ store' = IF Running.kind = "login" THEN LandLogin(Running) ELSE LandLogout(Running)
      /\ UNCHANGED <<server, checks, fired, channel, leases, bounds, ended>>
  BY DEF SettleMutation
<1>2. /\ mutations' \in Seq(MutationType) /\ Len(mutations') <= QueueBound
      /\ \A i \in 1 .. Len(mutations') : \E j \in 1 .. Len(mutations) :
             mutations'[i].epoch = mutations[j].epoch /\ mutations'[i].kind = mutations[j].kind
  BY <1>1, TailQueue
<1>3. /\ store' \in StoreType /\ store'.generation = store.generation
      /\ store'.flight = store.flight /\ store'.owner = store.owner
      /\ ended => /\ store'.blocked = store.blocked
                  /\ store'.credential \in {None, store.credential}
                  /\ store'.snapshot.status \in {store.snapshot.status, "unauthenticated"}
  BY <1>1, Landed
<1>4. calls' \in Nat /\ calls <= calls'
  BY <1>1 DEF bounds, IInv, TypeOK
<1>5. Control'
  BY <1>1, <1>2, <1>3, <1>4, QueueMoves DEF bounds
<1>6. TypeOK'
  BY <1>1, <1>2, <1>3 DEF IInv, TypeOK, bounds
<1>. QED
  BY <1>5, <1>6 DEF IInv

LEMMA AbandonMutationStep == ASSUME IInv, AbandonMutation PROVE IInv'
<1>1. /\ mutations # <<>> /\ mutations' = Tail(mutations)
      /\ UNCHANGED server \/ Admit \/ Revoke
      /\ UNCHANGED <<store, checks, fired, channel, leases, bounds, ended>>
  BY DEF AbandonMutation
<1>2. /\ mutations' \in Seq(MutationType) /\ Len(mutations') <= QueueBound
      /\ \A i \in 1 .. Len(mutations') : \E j \in 1 .. Len(mutations) :
             mutations'[i].epoch = mutations[j].epoch /\ mutations'[i].kind = mutations[j].kind
  BY <1>1, TailQueue
<1>3. server' \in [cookie : Maybe, live : SUBSET Session, issued : Session]
  BY <1>1, AdmitType, RevokeType DEF IInv, TypeOK
<1>4. calls' \in Nat /\ calls <= calls' /\ store' \in StoreType
  BY <1>1 DEF bounds, IInv, TypeOK
<1>5. Control'
  BY <1>1, <1>2, <1>4, QueueMoves DEF bounds
<1>6. TypeOK'
  BY <1>1, <1>2, <1>3 DEF IInv, TypeOK, bounds
<1>. QED
  BY <1>5, <1>6 DEF IInv

-----------------------------------------------------------------------------
(* Borrowers, the timer and the server *)

LEMMA ReconnectStep == ASSUME IInv, Reconnect PROVE IInv'
<1>1. CASE store.flight # 0
  <2>1. /\ channel' = [state |-> "checking", check |-> store.flight]
        /\ UNCHANGED <<store, checks, asked>>
        /\ UNCHANGED <<server, mutations, fired, leases, calls, outages, bad, ends, ended>>
    BY <1>1 DEF Reconnect
  <2>2. store.flight \in 0 .. MaxChecks
    BY DEF IInv, TypeOK, StoreType
  <2>3. reconnects' \in 0 .. MaxReconnects
    BY AuthAssumption DEF Reconnect, IInv, TypeOK, AuthAssumption
  <2>4. TypeOK'
    BY <2>1, <2>2, <2>3 DEF IInv, TypeOK
  <2>5. Control'
    BY <2>1 DEF IInv, Control, OwnersPast, EpochsPast, SingleCheck, AskedAlone, Judged, TornDown
  <2>. QED
    BY <2>4, <2>5 DEF IInv
<1>2. CASE store.flight = 0
  <2>1. /\ ~store.blocked /\ asked < MaxChecks /\ asked' = asked + 1
        /\ checks' = checks \union {Check} /\ store' = [store EXCEPT !.flight = asked + 1]
        /\ channel' = [state |-> "checking", check |-> asked + 1]
        /\ UNCHANGED <<server, mutations, fired, leases, calls, outages, bad, ends, ended>>
    BY <1>2 DEF Reconnect
  <2>2. Control' /\ store' \in StoreType /\ checks' \subseteq CheckType /\ asked' \in 0 .. MaxChecks
    BY <1>2, <2>1, StartCheck
  <2>3. reconnects' \in 0 .. MaxReconnects
    BY AuthAssumption DEF Reconnect, IInv, TypeOK, AuthAssumption
  <2>4. TypeOK'
    BY <2>1, <2>2, <2>3 DEF IInv, TypeOK
  <2>. QED
    BY <2>2, <2>4 DEF IInv
<1>. QED
  BY <1>1, <1>2

LEMMA AcquireStep == ASSUME IInv, Acquire PROVE IInv'
<1>1. /\ leases' = leases \union {[session |-> store.credential, lifetime |-> store.lifetime]}
      /\ UNCHANGED <<server, store, mutations, checks, fired, channel, bounds, ended>>
  BY DEF Acquire
<1>2. store.credential \in Session /\ store.lifetime \in Nat
  BY DEF Acquire, IInv, TypeOK, StoreType, Maybe
<1>3. TypeOK'
  BY <1>1, <1>2 DEF IInv, TypeOK, bounds
<1>4. Control'
  BY <1>1 DEF IInv, Control, OwnersPast, EpochsPast, SingleCheck, AskedAlone, Judged, TornDown, bounds
<1>. QED
  BY <1>3, <1>4 DEF IInv

LEMMA TimerElapsesStep == ASSUME IInv, TimerElapses PROVE IInv'
<1>1. /\ fired' = store.expiry
      /\ UNCHANGED <<server, store, mutations, checks, channel, leases, bounds, ended>>
  BY DEF TimerElapses
<1>2. store.expiry \in Nat
  BY DEF IInv, TypeOK, StoreType
<1>3. TypeOK'
  BY <1>1, <1>2 DEF IInv, TypeOK, bounds
<1>4. Control'
  BY <1>1 DEF IInv, Control, OwnersPast, EpochsPast, SingleCheck, AskedAlone, Judged, TornDown, bounds
<1>. QED
  BY <1>3, <1>4 DEF IInv

LEMMA ServerActsStep == ASSUME IInv, ServerActs PROVE IInv'
<1>1. UNCHANGED <<store, mutations, checks, fired, channel, leases, calls, asked, outages, bad,
                  reconnects, ended>>
  BY DEF ServerActs
<1>2. server' \in [cookie : Maybe, live : SUBSET Session, issued : Session]
  BY AdmitType DEF ServerActs, IInv, TypeOK
<1>3. ends' \in 0 .. MaxEnds
  BY AuthAssumption DEF ServerActs, IInv, TypeOK, AuthAssumption
<1>4. TypeOK'
  BY <1>1, <1>2, <1>3 DEF IInv, TypeOK
<1>5. Control'
  BY <1>1 DEF IInv, Control, OwnersPast, EpochsPast, SingleCheck, AskedAlone, Judged, TornDown
<1>. QED
  BY <1>4, <1>5 DEF IInv

-----------------------------------------------------------------------------
(* Every step preserves the invariant *)

LEMMA NextIInv == ASSUME IInv, [Next]_vars PROVE IInv'
<1>1. CASE UserCalls
  BY <1>1, LoginStep, LogoutStep, CloseStep DEF UserCalls
<1>2. CASE Revalidate
  BY <1>2, RevalidateStep
<1>3. CASE ChecksRun
  BY <1>3, AskStep, AnswerCheckStep, SettleCheckStep DEF ChecksRun
<1>4. CASE MutationsRun
  BY <1>4, StartMutationStep, AnswerLoginStep, AnswerLogoutStep, SettleMutationStep,
     AbandonMutationStep DEF MutationsRun
<1>5. CASE Borrowers
  BY <1>5, AcquireStep, ProtectedFailureStep, ReconnectStep, GiveUpStep DEF Borrowers
<1>6. CASE TimerElapses
  BY <1>6, TimerElapsesStep
<1>7. CASE Expire
  BY <1>7, ExpireStep
<1>8. CASE ServerActs
  BY <1>8, ServerActsStep
<1>9. CASE UNCHANGED vars
  BY <1>9 DEF vars, bounds, IInv, TypeOK, Control, OwnersPast, EpochsPast, SingleCheck, AskedAlone,
              Judged, TornDown
<1>. QED
  BY <1>1, <1>2, <1>3, <1>4, <1>5, <1>6, <1>7, <1>8, <1>9 DEF Next

LEMMA Invariance == Spec => []IInv
  BY InitIInv, NextIInv, PTL DEF Spec

-----------------------------------------------------------------------------
(* Agreement with the cookie *)

\* While a mutation waits or runs, nothing is vouched for, no timer counts and no logout is reported
\* as confirmed.
Alone ==
    store.credential # None \/ store.expiry # 0 \/ store.snapshot.revocation = "confirmed"
        => mutations = <<>>

\* Only the head of the queue has been answered, and only its last member can be current; a session
\* is granted to a login.
QueueShape ==
    \A i \in 1 .. Len(mutations) :
        /\ i # 1 => mutations[i].answer = Nothing
        /\ i # Len(mutations) => mutations[i].epoch # store.generation
        /\ mutations[i].answer.kind = "session" => mutations[i].kind = "login"

\* No lease is of a lifetime to come.
Lent == \A l \in leases : l.lifetime <= store.lifetime

\* Whatever the store holds or could still adopt names the session of the cookie, unless another tab
\* changed it.
Agreement ==
    ends = 0 =>
        /\ store.credential # None => store.credential = server.cookie
        /\ store.snapshot.revocation = "confirmed" => server.cookie = None
        /\ \A c \in checks : c.epoch = store.generation /\ c.answer.kind = "session" =>
                                 c.answer.session = server.cookie
        /\ \A i \in 1 .. Len(mutations) :
             /\ mutations[i].answer.kind = "session" => mutations[i].answer.session = server.cookie
             /\ mutations[i].answer.kind = "gone" => server.cookie = None
        /\ \A l \in leases :
             l.lifetime = store.lifetime /\ ~store.aborted => l.session = store.credential

AInv == Alone /\ QueueShape /\ Lent /\ Agreement

\* Without a channel that gives up on its own, only a call supersedes a waiting mutation.
LastCall ==
    /\ channel = Idle
    /\ \A i \in 1 .. Len(mutations) :
         /\ mutations[i].call <= calls
         /\ mutations[i].call = calls => mutations[i].epoch = store.generation

\* The protected lifetime ends, with its credential and its timer.
Halted(t, s) == t.credential = None /\ t.aborted /\ t.expiry = 0 /\ t.lifetime = s.lifetime

LEMMA Halting ==
    ASSUME NEW s \in StoreType, NEW revocation \in Revocation
    PROVE  /\ Halted(StopProtectedWork(s), s)
           /\ Halted(Clear(s, revocation), s)
           /\ Clear(s, revocation).snapshot.revocation = revocation
<1>1. Halted(StopProtectedWork(s), s) /\ StopProtectedWork(s) \in StoreType
  BY StopStore DEF StopProtectedWork, StoreType, Halted
<1>. DEFINE shown == SignedOut(revocation)
<1>2. shown.revocation = revocation
  BY DEF SignedOut, Snapshot
<1>3. shown \in [status : {"authenticated", "unconfirmed", "unauthenticated"},
                 identity : Maybe, revocation : Revocation]
  BY Ranges DEF SignedOut, Snapshot
<1>. HIDE DEF shown
<1>4. Clear(s, revocation) = [StopProtectedWork(s) EXCEPT !.snapshot = shown]
  BY DEF Clear, shown
<1>. DEFINE t == StopProtectedWork(s)
<1>. HIDE DEF t
<1>5. [t EXCEPT !.snapshot = shown].snapshot = shown /\ Halted([t EXCEPT !.snapshot = shown], s)
  <2>1. t \in StoreType /\ Halted(t, s)
    BY <1>1 DEF t
  <2>. QED
    BY <1>3, <2>1 DEF StoreType, Halted
<1>. QED
  BY <1>1, <1>2, <1>4, <1>5 DEF t

LEMMA Fencing ==
    ASSUME NEW s \in StoreType, NEW revocation \in Revocation
    PROVE  /\ Halted(Fence(s, revocation), s)
           /\ Fence(s, revocation).snapshot.revocation = revocation
           /\ Halted(Invalidate(s), s)
           /\ Invalidate(s).snapshot.revocation = "none"
<1>. DEFINE t == [s EXCEPT !.generation = @ + 1, !.flight = 0]
            u == [s EXCEPT !.generation = @ + 1, !.flight = 0, !.blocked = TRUE]
<1>1. t \in StoreType /\ t.lifetime = s.lifetime /\ u \in StoreType /\ u.lifetime = s.lifetime
  <2>1. s.generation + 1 \in Nat /\ 0 \in 0 .. MaxChecks
    BY Ranges DEF StoreType
  <2>. QED
    BY <2>1 DEF StoreType
<1>. HIDE DEF t, u
<1>2. Fence(s, revocation) = Clear(t, revocation) /\ Invalidate(s) = Clear(u, "none")
  BY DEF Fence, Invalidate, t, u
<1>3. "none" \in Revocation
  BY DEF Revocation
<1>4. /\ Halted(Clear(t, revocation), t) /\ Clear(t, revocation).snapshot.revocation = revocation
      /\ Halted(Clear(u, "none"), u) /\ Clear(u, "none").snapshot.revocation = "none"
  BY <1>1, <1>3, Halting
<1>. QED
  BY <1>1, <1>2, <1>4 DEF Halted

\* adopt() vouches for one session, in the lifetime that runs or a new one.
LEMMA Adopting ==
    ASSUME NEW s \in StoreType, NEW session \in Maybe
    PROVE  /\ Adopt(s, session).credential = session
           /\ Adopt(s, session).snapshot.revocation = "none"
           /\ Adopt(s, session).aborted = FALSE
           /\ Adopt(s, session).lifetime = IF s.aborted THEN s.lifetime + 1 ELSE s.lifetime
<1>1. Snapshot("authenticated", session, "none").revocation = "none"
  BY DEF Snapshot
<1>. QED
  BY <1>1 DEF Adopt, StoreType

LEMMA FailingStatus ==
    ASSUME NEW s \in StoreType, NEW answer
    PROVE  /\ Halted(SettleFailedStatus(s, answer), s)
           /\ SettleFailedStatus(s, answer).snapshot.revocation = "none"
<1>1. CASE answer.kind = "outage"
  <2>. DEFINE shown == Snapshot("unconfirmed", s.snapshot.identity, "none")
              t == StopProtectedWork(s)
  <2>1. shown.revocation = "none"
    BY DEF Snapshot
  <2>. HIDE DEF shown
  <2>2. t \in StoreType /\ Halted(t, s)
    BY StopStore, Halting DEF Revocation
  <2>. HIDE DEF t
  <2>3. SettleFailedStatus(s, answer) = [t EXCEPT !.snapshot = shown]
    BY <1>1 DEF SettleFailedStatus, shown, t
  <2>. QED
    BY <2>1, <2>2, <2>3 DEF StoreType, Halted
<1>2. CASE answer.kind # "outage"
  <2>. DEFINE t == [s EXCEPT !.blocked = TRUE]
  <2>1. t \in StoreType /\ t.lifetime = s.lifetime
    BY DEF StoreType
  <2>2. "none" \in Revocation
    BY DEF Revocation
  <2>3. SettleFailedStatus(s, answer) = Clear(t, "none")
    BY <1>2 DEF SettleFailedStatus
  <2>. HIDE DEF t
  <2>4. Halted(Clear(t, "none"), t) /\ Clear(t, "none").snapshot.revocation = "none"
    BY <2>1, <2>2, Halting
  <2>. QED
    BY <2>1, <2>3, <2>4 DEF Halted
<1>. QED
  BY <1>1, <1>2

-----------------------------------------------------------------------------
(* Steps that keep what the store vouches for *)

SameView(t, s) ==
    /\ t.generation = s.generation /\ t.credential = s.credential /\ t.lifetime = s.lifetime
    /\ t.aborted = s.aborted /\ t.expiry = s.expiry /\ t.snapshot = s.snapshot

\* A current check with a session in hand has no mutation beside it.
LEMMA JudgedAlone ==
    ASSUME IInv, NEW c \in checks, c.epoch = store.generation, c.answer.kind = "session"
    PROVE  mutations = <<>>
<1>1. c.sent
  BY DEF IInv, Control, Judged, Nothing, Reply
<1>. QED
  BY <1>1 DEF IInv, Control, AskedAlone

\* The cookie moves only by a mutation that runs, when the store vouches for nothing.
LEMMA AgreementKept ==
    ASSUME IInv, AInv, SameView(store', store),
           ends' = 0 => ends = 0 /\ (server'.cookie = server.cookie \/ mutations # <<>>),
           \A c \in checks' :
               c \in checks \/ c.answer.kind # "session" \/ c.answer.session = server'.cookie,
           ends' = 0 => \A i \in 1 .. Len(mutations') :
               /\ mutations'[i].answer.kind = "session" =>
                      mutations'[i].answer.session = server'.cookie
               /\ mutations'[i].answer.kind = "gone" => server'.cookie = None,
           \A l \in leases' :
               l \in leases \/ (l.session = store.credential /\ l.lifetime = store.lifetime),
           leases \subseteq [session : Session, lifetime : Nat]
    PROVE  Agreement'
<1>. SUFFICES ASSUME ends' = 0
              PROVE  /\ store'.credential # None => store'.credential = server'.cookie
                     /\ store'.snapshot.revocation = "confirmed" => server'.cookie = None
                     /\ \A c \in checks' :
                          c.epoch = store'.generation /\ c.answer.kind = "session" =>
                              c.answer.session = server'.cookie
                     /\ \A l \in leases' :
                          l.lifetime = store'.lifetime /\ ~store'.aborted =>
                              l.session = store'.credential
  BY DEF Agreement
<1>1. ends = 0 /\ (server'.cookie = server.cookie \/ mutations # <<>>)
  OBVIOUS
<1>2. /\ store.credential # None => store.credential = server.cookie
      /\ store.snapshot.revocation = "confirmed" => server.cookie = None
      /\ \A c \in checks : c.epoch = store.generation /\ c.answer.kind = "session" =>
                               c.answer.session = server.cookie
      /\ \A l \in leases :
           l.lifetime = store.lifetime /\ ~store.aborted => l.session = store.credential
  BY <1>1 DEF AInv, Agreement
<1>3. store.credential # None \/ store.snapshot.revocation = "confirmed" =>
          server'.cookie = server.cookie
  BY <1>1 DEF AInv, Alone
<1>4. /\ store'.generation = store.generation /\ store'.credential = store.credential
      /\ store'.lifetime = store.lifetime /\ store'.aborted = store.aborted
      /\ store'.snapshot = store.snapshot
  BY DEF SameView
<1>5. ASSUME NEW c \in checks', c.epoch = store'.generation, c.answer.kind = "session"
      PROVE  c.answer.session = server'.cookie
  <2>1. CASE c \in checks
    <3>1. mutations = <<>>
      BY <1>4, <1>5, <2>1, JudgedAlone
    <3>. QED
      BY <1>1, <1>2, <1>4, <1>5, <2>1, <3>1
  <2>. QED
    BY <1>5, <2>1
<1>. QED
  BY <1>2, <1>3, <1>4, <1>5

\* A check begins, is sent or is answered; a timer elapses; a lease is handed out.
LEMMA QueueStays ==
    ASSUME IInv, AInv, SameView(store', store), UNCHANGED <<server, mutations, ends>>,
           \A c \in checks' :
               c \in checks \/ c.answer.kind # "session" \/ c.answer.session = server.cookie,
           \A l \in leases' :
               l \in leases \/ (l.session = store.credential /\ l.lifetime = store.lifetime)
    PROVE  AInv'
<1>1. store.lifetime \in Nat /\ leases \subseteq [session : Session, lifetime : Nat]
  BY DEF IInv, TypeOK, StoreType
<1>2. Alone' /\ QueueShape'
  BY DEF AInv, Alone, QueueShape, SameView
<1>3. Lent'
  BY <1>1 DEF AInv, Lent, SameView
<1>4. ends' = 0 => \A i \in 1 .. Len(mutations') :
               /\ mutations'[i].answer.kind = "session" =>
                      mutations'[i].answer.session = server'.cookie
               /\ mutations'[i].answer.kind = "gone" => server'.cookie = None
  BY DEF AInv, Agreement
<1>5. Agreement'
  BY <1>1, <1>4, AgreementKept
<1>. QED
  BY <1>2, <1>3, <1>5 DEF AInv

LEMMA SameStore ==
    ASSUME IInv, store' = store \/ (\E n \in 0 .. MaxChecks : store' = [store EXCEPT !.flight = n])
                 \/ (\E s \in Maybe : store' = [store EXCEPT !.csrf = s])
    PROVE  SameView(store', store)
<1>1. store \in StoreType
  BY DEF IInv, TypeOK
<1>. QED
  BY <1>1 DEF SameView, StoreType

\* The check that begins has no answer.
LEMMA CheckBegins ==
    ASSUME IInv, AInv, asked < MaxChecks, checks' = checks \union {Check},
           store' = [store EXCEPT !.flight = asked + 1], UNCHANGED <<server, mutations, ends, leases>>
    PROVE  AInv'
<1>1. asked + 1 \in 0 .. MaxChecks
  BY AuthAssumption DEF IInv, TypeOK, AuthAssumption
<1>2. SameView(store', store)
  BY <1>1, SameStore
<1>3. Check.answer.kind # "session"
  BY DEF Check, Nothing, Reply
<1>. QED
  BY <1>2, <1>3, QueueStays

LEMMA RevalidateAgrees == ASSUME IInv, AInv, Revalidate PROVE AInv'
  BY CheckBegins DEF Revalidate

LEMMA AskAgrees == ASSUME IInv, AInv, NEW c \in checks, Ask(c) PROVE AInv'
<1>1. /\ checks' = (checks \ {c}) \union {[c EXCEPT !.sent = TRUE]} /\ c.answer = Nothing
      /\ UNCHANGED <<server, store, mutations, leases, ends>>
  BY DEF Ask, bounds
<1>2. [c EXCEPT !.sent = TRUE].answer.kind # "session"
  <2>1. c \in CheckType
    BY DEF IInv, TypeOK
  <2>2. [c EXCEPT !.sent = TRUE].answer = Nothing
    BY <1>1, <2>1 DEF CheckType
  <2>. QED
    BY <2>2 DEF Nothing, Reply
<1>. QED
  BY <1>1, <1>2, SameStore, QueueStays

LEMMA AnswerCheckAgrees == ASSUME IInv, AInv, NEW c \in checks, AnswerCheck(c) PROVE AInv'
<1>1. PICK answer \in {CookieSession, Reply("outage"), Reply("bad")} :
          checks' = (checks \ {c}) \union {[c EXCEPT !.answer = answer]}
  BY DEF AnswerCheck
<1>2. UNCHANGED <<server, store, mutations, leases, ends>>
  BY DEF AnswerCheck
<1>3. answer.kind = "session" => answer.session = server.cookie
  BY DEF CookieSession, Granted, Reply
<1>4. [c EXCEPT !.answer = answer].answer = answer
  BY DEF IInv, TypeOK, CheckType
<1>. QED
  BY <1>1, <1>2, <1>3, <1>4, SameStore, QueueStays

LEMMA ReconnectAgrees == ASSUME IInv, AInv, Reconnect PROVE AInv'
<1>1. CASE store.flight # 0
  BY <1>1, SameStore, QueueStays DEF Reconnect
<1>2. CASE store.flight = 0
  BY <1>2, CheckBegins DEF Reconnect
<1>. QED
  BY <1>1, <1>2

LEMMA AcquireAgrees == ASSUME IInv, AInv, Acquire PROVE AInv'
<1>1. /\ leases' = leases \union {[session |-> store.credential, lifetime |-> store.lifetime]}
      /\ UNCHANGED <<server, store, mutations, checks, ends>>
  BY DEF Acquire, bounds
<1>. QED
  BY <1>1, SameStore, QueueStays

LEMMA TimerElapsesAgrees == ASSUME IInv, AInv, TimerElapses PROVE AInv'
  BY SameStore, QueueStays DEF TimerElapses, bounds

LEMMA ServerActsAgrees == ASSUME IInv, AInv, ServerActs PROVE AInv'
<1>1. UNCHANGED <<store, mutations, leases>> /\ ends' # 0
  BY DEF ServerActs, IInv, TypeOK
<1>. QED
  BY <1>1 DEF AInv, Alone, QueueShape, Lent, Agreement

-----------------------------------------------------------------------------
(* Steps that end the lifetime *)

\* Everything in flight is superseded, and nothing is vouched for any more.
LEMMA EndsAgree ==
    ASSUME IInv, AInv, store'.generation = store.generation + 1, Halted(store', store),
           UNCHANGED <<server, checks, leases, ends>>,
           \/ mutations' = mutations /\ store'.snapshot.revocation \in
                  {store.snapshot.revocation, "none", "unconfirmed"}
           \/ /\ store'.snapshot.revocation # "confirmed"
              /\ \E m \in MutationType : m.answer = Nothing /\ mutations' = Append(mutations, m)
    PROVE  AInv'
<1>1. store.generation \in Nat /\ store.lifetime \in Nat
  BY DEF IInv, TypeOK, StoreType
<1>2. \A c \in checks : c.epoch # store'.generation
  <2>1. \A c \in checks : c.epoch \in Nat /\ c.epoch <= store.generation
    BY DEF IInv, TypeOK, Control, EpochsPast, CheckType
  <2>. QED
    BY <1>1, <2>1
<1>3. \A i \in 1 .. Len(mutations) : mutations[i].epoch # store'.generation
  <2>1. \A i \in 1 .. Len(mutations) : mutations[i] \in MutationType
    BY DEF IInv, TypeOK
  <2>2. \A i \in 1 .. Len(mutations) :
            mutations[i].epoch \in Nat /\ mutations[i].epoch <= store.generation
    BY <2>1 DEF IInv, Control, EpochsPast, MutationType
  <2>. QED
    BY <1>1, <2>2
<1>4. Lent'
  BY DEF AInv, Lent, Halted
<1>5. CASE mutations' = mutations /\ store'.snapshot.revocation \in
               {store.snapshot.revocation, "none", "unconfirmed"}
  <2>1. Alone'
    BY <1>5 DEF AInv, Alone, Halted
  <2>2. QueueShape'
    BY <1>3, <1>5 DEF AInv, QueueShape
  <2>3. Agreement'
    BY <1>2, <1>5 DEF AInv, Agreement, Halted
  <2>. QED
    BY <1>4, <2>1, <2>2, <2>3 DEF AInv
<1>6. ASSUME store'.snapshot.revocation # "confirmed",
             NEW m \in MutationType, m.answer = Nothing, mutations' = Append(mutations, m)
      PROVE  AInv'
  <2>1. mutations \in Seq(MutationType)
    BY DEF IInv, TypeOK
  <2>2. /\ Len(mutations') = Len(mutations) + 1 /\ Len(mutations) \in Nat
        /\ \A i \in 1 .. Len(mutations') :
             \/ i \in 1 .. Len(mutations) /\ mutations'[i] = mutations[i]
             \/ i = Len(mutations') /\ mutations'[i] = m
    BY <1>6, <2>1
  <2>3. m.answer.kind \notin {"session", "gone"}
    BY <1>6 DEF Nothing, Reply
  <2>4. Alone'
    BY <1>6 DEF Alone, Halted
  <2>5. QueueShape'
    BY <1>3, <1>6, <2>2, <2>3 DEF AInv, QueueShape
  <2>6. Agreement'
    BY <1>2, <1>6, <2>2, <2>3 DEF AInv, Agreement, Halted
  <2>. QED
    BY <1>4, <2>4, <2>5, <2>6 DEF AInv
<1>. QED
  BY <1>5, <1>6

\* enqueue() ends the lifetime unless a full queue refuses a login.
LEMMA EnqueueAgrees ==
    ASSUME IInv, AInv, NEW kind \in {"login", "logout"}, NEW revocation \in {"none", "unconfirmed"},
           NEW s \in StoreType, s.generation = store.generation, s.lifetime = store.lifetime,
           calls < MaxCalls, Enqueue(kind, revocation, s), kind = "login" => s = store,
           UNCHANGED <<server, checks, leases, ends>>
    PROVE  AInv'
<1>1. revocation \in Revocation
  BY DEF Revocation
<1>2. /\ Fence(s, revocation).generation = store.generation + 1
      /\ Halted(Fence(s, revocation), store)
      /\ Fence(s, revocation).snapshot.revocation = revocation
      /\ Fence(s, revocation) \in StoreType
  BY <1>1, FenceStore, Fencing DEF Halted
<1>3. CASE Len(mutations) < QueueBound
  <2>. DEFINE m == Mutation(kind, store'.generation)
  <2>1. store' = Fence(s, revocation) /\ mutations' = Append(mutations, m)
    BY <1>3 DEF Enqueue
  <2>2. m \in MutationType /\ m.answer = Nothing
    <3>1. calls + 1 \in 1 .. MaxCalls
      BY AuthAssumption DEF IInv, TypeOK, AuthAssumption
    <3>2. store.owner \in 0 .. MaxCalls
      BY DEF IInv, TypeOK, StoreType
    <3>3. store'.generation \in Nat
      BY <1>2, <2>1 DEF StoreType
    <3>. QED
      BY <3>1, <3>2, <3>3, AnswerTypes, Ranges DEF Mutation, MutationType
  <2>. HIDE DEF m
  <2>3. store'.snapshot.revocation # "confirmed"
    BY <1>2, <2>1
  <2>. QED
    BY <1>2, <2>1, <2>2, <2>3, EndsAgree
<1>4. CASE ~(Len(mutations) < QueueBound)
  <2>1. mutations' = mutations /\ store' = IF kind = "logout" THEN Fence(s, revocation) ELSE s
    BY <1>4 DEF Enqueue
  <2>2. CASE kind = "logout"
    BY <1>2, <2>1, <2>2, EndsAgree
  <2>3. CASE kind = "login"
    <3>1. store' = store
      BY <2>1, <2>3
    <3>. QED
      BY <2>1, <3>1, SameStore, QueueStays
  <2>. QED
    BY <2>2, <2>3
<1>. QED
  BY <1>3, <1>4

LEMMA LoginAgrees == ASSUME IInv, AInv, Login PROVE AInv'
<1>1. store \in StoreType
  BY DEF IInv, TypeOK
<1>. QED
  BY <1>1, EnqueueAgrees DEF Login

LEMMA LogoutAgrees == ASSUME IInv, AInv, Logout PROVE AInv'
<1>. DEFINE s == [store EXCEPT !.blocked = TRUE]
<1>1. s \in StoreType /\ s.generation = store.generation /\ s.lifetime = store.lifetime
  BY DEF IInv, TypeOK, StoreType
<1>2. Enqueue("logout", "unconfirmed", s) /\ calls < MaxCalls
      /\ UNCHANGED <<server, checks, leases, ends>>
  BY DEF Logout
<1>. HIDE DEF s
<1>. QED
  BY <1>1, <1>2, EnqueueAgrees

LEMMA CloseAgrees == ASSUME IInv, AInv, Close PROVE AInv'
<1>. DEFINE t == StopProtectedWork(store)
<1>1. store' = [t EXCEPT !.owner = @ + 1, !.generation = @ + 1, !.flight = 0]
      /\ UNCHANGED <<server, mutations, checks, leases, ends>>
  BY DEF Close
<1>2. t \in StoreType /\ t.generation = store.generation /\ t.snapshot = store.snapshot
      /\ Halted(t, store)
  BY StopStore, Halting DEF IInv, TypeOK, Revocation
<1>. HIDE DEF t
<1>3. store'.generation = store.generation + 1 /\ Halted(store', store)
      /\ store'.snapshot = store.snapshot
  BY <1>1, <1>2 DEF StoreType, Halted
<1>. QED
  BY <1>1, <1>3, EndsAgree

LEMMA InvalidateAgrees ==
    ASSUME IInv, AInv, NEW flight, store' = [Invalidate(store) EXCEPT !.flight = flight],
           UNCHANGED <<server, mutations, checks, leases, ends>>
    PROVE  AInv'
<1>. DEFINE t == Invalidate(store)
<1>1. /\ t \in StoreType /\ t.generation = store.generation + 1 /\ Halted(t, store)
      /\ t.snapshot.revocation = "none"
  BY InvalidateStore, Fencing DEF IInv, TypeOK, Revocation
<1>2. store' = [t EXCEPT !.flight = flight]
  OBVIOUS
<1>. HIDE DEF t
<1>3. store'.generation = store.generation + 1 /\ Halted(store', store)
      /\ store'.snapshot.revocation = "none"
  BY <1>1, <1>2 DEF StoreType, Halted
<1>. QED
  BY <1>3, EndsAgree

LEMMA ExpireAgrees == ASSUME IInv, AInv, Expire PROVE AInv'
<1>1. CASE TimerIsCurrent
  BY <1>1, InvalidateAgrees DEF Expire, bounds
<1>2. CASE ~TimerIsCurrent
  BY <1>2, SameStore, QueueStays DEF Expire, bounds
<1>. QED
  BY <1>1, <1>2

LEMMA ProtectedFailureAgrees == ASSUME IInv, AInv, ProtectedFailure PROVE AInv'
  BY InvalidateFlight, InvalidateAgrees DEF ProtectedFailure

LEMMA GiveUpAgrees == ASSUME IInv, AInv, GiveUp PROVE AInv'
  BY InvalidateFlight, InvalidateAgrees DEF GiveUp

-----------------------------------------------------------------------------
(* The queue's steps *)

\* The head is replaced by one as current, which has been granted a session only if it is a login.
LEMMA HeadShape ==
    ASSUME IInv, AInv, mutations # <<>>, store'.generation = store.generation,
           NEW m \in MutationType, Run(m), m.epoch = Running.epoch,
           m.answer.kind = "session" => m.kind = "login"
    PROVE  /\ QueueShape' /\ Len(mutations') = Len(mutations) /\ mutations'[1] = m
           /\ \A i \in 1 .. Len(mutations) : i # 1 => mutations'[i] = mutations[i]
<1>1. mutations \in Seq(MutationType) /\ mutations' = [mutations EXCEPT ![1] = m]
      /\ 1 \in 1 .. Len(mutations) /\ Running = mutations[1]
  BY RunningType DEF IInv, TypeOK, Run
<1>2. /\ Len(mutations') = Len(mutations) /\ mutations'[1] = m
      /\ \A i \in 1 .. Len(mutations) : i # 1 => mutations'[i] = mutations[i]
  BY <1>1
<1>3. ASSUME NEW i \in 1 .. Len(mutations)
      PROVE  /\ i # 1 => mutations'[i].answer = Nothing
             /\ i # Len(mutations) => mutations'[i].epoch # store.generation
             /\ mutations'[i].answer.kind = "session" => mutations'[i].kind = "login"
  <2>1. /\ i # 1 => mutations[i].answer = Nothing
        /\ i # Len(mutations) => mutations[i].epoch # store.generation
        /\ mutations[i].answer.kind = "session" => mutations[i].kind = "login"
    BY DEF AInv, QueueShape
  <2>2. CASE i = 1
    BY <1>1, <1>2, <2>1, <2>2
  <2>3. CASE i # 1
    <3>1. mutations'[i] = mutations[i]
      BY <1>2, <2>3
    <3>. QED
      BY <2>1, <2>3, <3>1
  <2>. QED
    BY <2>2, <2>3
<1>4. QueueShape'
  BY <1>2, <1>3 DEF QueueShape
<1>. QED
  BY <1>2, <1>4

\* The head changes, and what it is answered with is granted by the server as it is then.
LEMMA HeadAgrees ==
    ASSUME IInv, AInv, mutations # <<>>, SameView(store', store), NEW m \in MutationType, Run(m),
           m.epoch = Running.epoch,
           m.answer.kind = "session" => m.kind = "login" /\ m.answer.session = server'.cookie,
           m.answer.kind = "gone" => server'.cookie = None,
           UNCHANGED <<checks, leases, ends>>
    PROVE  AInv'
<1>1. store'.generation = store.generation
  BY DEF SameView
<1>2. /\ QueueShape' /\ Len(mutations') = Len(mutations) /\ mutations'[1] = m
      /\ \A i \in 1 .. Len(mutations) : i # 1 => mutations'[i] = mutations[i]
  BY <1>1, HeadShape
<1>3. Alone'
  BY DEF AInv, Alone, SameView
<1>5. Lent'
  BY DEF AInv, Lent, SameView
<1>6. \A i \in 1 .. Len(mutations') :
          /\ mutations'[i].answer.kind = "session" => mutations'[i].answer.session = server'.cookie
          /\ mutations'[i].answer.kind = "gone" => server'.cookie = None
  <2>1. \A i \in 1 .. Len(mutations) : i # 1 => mutations[i].answer = Nothing
    BY DEF AInv, QueueShape
  <2>2. Nothing.kind \notin {"session", "gone"}
    BY DEF Nothing, Reply
  <2>. QED
    BY <1>2, <2>1, <2>2
<1>7. Agreement'
  <2>1. leases \subseteq [session : Session, lifetime : Nat]
    BY DEF IInv, TypeOK
  <2>. QED
    BY <1>6, <2>1, AgreementKept
<1>. QED
  BY <1>2, <1>3, <1>5, <1>7 DEF AInv

\* The head keeps the answer it has.
LEMMA HeadKeepsAnswer ==
    ASSUME IInv, AInv, mutations # <<>>, SameView(store', store), NEW m \in MutationType, Run(m),
           m.epoch = Running.epoch, m.kind = Running.kind, m.answer = Running.answer, ends' = ends,
           server' = server, UNCHANGED <<checks, leases>>
    PROVE  AInv'
<1>1. CASE ends = 0
  <2>1. 1 \in 1 .. Len(mutations) /\ Running = mutations[1]
    BY RunningType
  <2>2. /\ m.answer.kind = "session" => m.kind = "login" /\ m.answer.session = server'.cookie
        /\ m.answer.kind = "gone" => server'.cookie = None
    BY <1>1, <2>1 DEF AInv, QueueShape, Agreement
  <2>. QED
    BY <2>2, HeadAgrees
<1>2. CASE ends # 0
  <2>1. 1 \in 1 .. Len(mutations) /\ Running = mutations[1]
    BY RunningType
  <2>2. m.answer.kind = "session" => m.kind = "login"
    BY <2>1 DEF AInv, QueueShape
  <2>3. QueueShape'
    BY <2>2, HeadShape DEF SameView
  <2>. QED
    BY <1>2, <2>3 DEF AInv, Alone, Lent, Agreement, SameView
<1>. QED
  BY <1>1, <1>2

LEMMA StartMutationAgrees == ASSUME IInv, AInv, StartMutation PROVE AInv'
<1>1. mutations # <<>> /\ UNCHANGED <<server, checks, leases, ends>>
  BY DEF StartMutation, bounds
<1>2. Running \in MutationType /\ store.csrf \in Maybe
  BY <1>1, RunningType DEF IInv, TypeOK, StoreType
<1>. DEFINE login == [Running EXCEPT !.phase = "sent"]
            logout == [Running EXCEPT !.phase = "sent", !.proof = store.csrf,
                                      !.again = (store.csrf = None)]
<1>3. login \in MutationType /\ login.kind = Running.kind /\ login.epoch = Running.epoch
      /\ login.answer = Running.answer
  BY <1>2 DEF MutationType
<1>4. logout \in MutationType /\ logout.kind = Running.kind /\ logout.epoch = Running.epoch
      /\ logout.answer = Running.answer
  BY <1>2 DEF MutationType
<1>5. \/ Run(login) /\ UNCHANGED store
      \/ Run(logout) /\ store' = [store EXCEPT !.csrf = None]
  BY DEF StartMutation
<1>. HIDE DEF login, logout
<1>6. SameView(store', store)
  BY <1>5, Ranges, SameStore
<1>. QED
  BY <1>1, <1>3, <1>4, <1>5, <1>6, HeadKeepsAnswer

LEMMA AnswerLoginAgrees == ASSUME IInv, AInv, AnswerLogin PROVE AInv'
<1>1. mutations # <<>> /\ Running.kind = "login" /\ UNCHANGED <<store, checks, leases, ends>>
  BY DEF AnswerLogin
<1>2. SameView(store', store)
  BY <1>1, SameStore
<1>3. ASSUME NEW answer \in Answer,
             Run([Running EXCEPT !.phase = "answered", !.answer = answer]),
             answer.kind = "session" => answer.session = server'.cookie,
             answer.kind # "gone"
      PROVE  AInv'
  <2>. DEFINE m == [Running EXCEPT !.phase = "answered", !.answer = answer]
  <2>1. m \in MutationType /\ m.kind = "login" /\ m.epoch = Running.epoch /\ m.answer = answer
    BY <1>1, RunningType DEF MutationType
  <2>2. Run(m)
    BY <1>3
  <2>. HIDE DEF m
  <2>. QED
    BY <1>1, <1>2, <1>3, <2>1, <2>2, HeadAgrees
<1>4. Granted(server'.cookie).session = server'.cookie /\ Granted(server'.cookie).kind = "session"
      /\ Reply("ended").kind = "ended" /\ Reply("outage").kind = "outage"
  BY DEF Granted, Reply
<1>5. CASE Admit /\ Run([Running EXCEPT !.phase = "answered", !.answer = Granted(server'.cookie)])
  <2>1. Granted(server'.cookie) \in Answer
    BY <1>5, AdmitType, AnswerTypes
  <2>. QED
    BY <1>3, <1>4, <1>5, <2>1
<1>6. CASE Run([Running EXCEPT !.phase = "answered", !.answer = Reply("ended")])
  BY <1>3, <1>4, <1>6, AnswerTypes
<1>7. CASE Run([Running EXCEPT !.phase = "answered", !.answer = Reply("outage")])
  BY <1>3, <1>4, <1>7, AnswerTypes
<1>. QED
  BY <1>5, <1>6, <1>7 DEF AnswerLogin

LEMMA AnswerLogoutAgrees == ASSUME IInv, AInv, AnswerLogout PROVE AInv'
<1>1. mutations # <<>> /\ UNCHANGED <<store, checks, leases, ends>>
  BY DEF AnswerLogout
<1>2. SameView(store', store) /\ Running \in MutationType
  BY <1>1, SameStore, RunningType
<1>3. ASSUME NEW answer \in Answer,
             Run([Running EXCEPT !.phase = "answered", !.answer = answer]),
             answer.kind # "session", answer.kind = "gone" => server'.cookie = None
      PROVE  AInv'
  <2>. DEFINE m == [Running EXCEPT !.phase = "answered", !.answer = answer]
  <2>1. m \in MutationType /\ m.epoch = Running.epoch /\ m.answer = answer
    BY <1>2 DEF MutationType
  <2>2. Run(m)
    BY <1>3
  <2>. HIDE DEF m
  <2>. QED
    BY <1>1, <1>2, <1>3, <2>1, <2>2, HeadAgrees
<1>4. Reply("gone").kind = "gone" /\ Reply("ended").kind = "ended" /\ Reply("outage").kind = "outage"
  BY DEF Reply
<1>5. CASE Revoke /\ Run([Running EXCEPT !.phase = "answered", !.answer = Reply("gone")])
  <2>1. server'.cookie = None
    BY <1>5 DEF Revoke, IInv, TypeOK
  <2>. QED
    BY <1>3, <1>4, <1>5, <2>1, AnswerTypes
<1>6. CASE Run(Resent(Running)) /\ UNCHANGED server
  <2>1. /\ Resent(Running) \in MutationType /\ Resent(Running).kind = Running.kind
        /\ Resent(Running).epoch = Running.epoch /\ Resent(Running).answer = Running.answer
    BY <1>2, Ranges DEF MutationType, Resent
  <2>. QED
    BY <1>1, <1>2, <1>6, <2>1, HeadKeepsAnswer
<1>7. CASE Run([Running EXCEPT !.phase = "answered", !.answer = Reply("ended")])
  BY <1>3, <1>4, <1>7, AnswerTypes
<1>8. CASE Run([Running EXCEPT !.proof = server.cookie]) /\ UNCHANGED server
  <2>. DEFINE m == [Running EXCEPT !.proof = server.cookie]
  <2>1. server.cookie \in Maybe
    BY DEF IInv, TypeOK
  <2>2. m \in MutationType /\ m.kind = Running.kind /\ m.epoch = Running.epoch
        /\ m.answer = Running.answer
    BY <1>2, <2>1 DEF MutationType
  <2>3. Run(m)
    BY <1>8
  <2>. HIDE DEF m
  <2>. QED
    BY <1>1, <1>2, <1>8, <2>2, <2>3, HeadKeepsAnswer
<1>9. CASE Run([Running EXCEPT !.phase = "answered", !.answer = Reply("outage")])
  BY <1>3, <1>4, <1>9, AnswerTypes
<1>. QED
  BY <1>5, <1>6, <1>7, <1>8, <1>9 DEF AnswerLogout

\* The head leaves, and nothing that is left has been answered.
LEMMA TailShape ==
    ASSUME IInv, AInv, mutations # <<>>, mutations' = Tail(mutations),
           store'.generation = store.generation
    PROVE  /\ QueueShape'
           /\ \A i \in 1 .. Len(mutations') : mutations'[i].answer = Nothing
           /\ Running.epoch = store.generation => mutations' = <<>>
<1>1. mutations \in Seq(MutationType)
  BY DEF IInv, TypeOK
<1>2. mutations' \in Seq(MutationType) /\ Len(mutations') = Len(mutations) - 1
      /\ Len(mutations) \in Nat
  BY <1>1
<1>3. ASSUME NEW i \in 1 .. Len(mutations')
      PROVE  /\ i + 1 \in 1 .. Len(mutations) /\ mutations'[i] = mutations[i + 1] /\ i + 1 # 1
             /\ i # Len(mutations') => i + 1 # Len(mutations)
  <2>1. mutations'[i] = mutations[i + 1]
    BY <1>1, <1>2
  <2>. DEFINE n == Len(mutations)
              k == Len(mutations')
  <2>2. n \in Nat /\ k = n - 1 /\ i \in 1 .. k
    BY <1>2
  <2>. HIDE DEF n, k
  <2>3. i + 1 \in 1 .. n /\ i + 1 # 1 /\ (i # k => i + 1 # n)
    BY ONLY <2>2
  <2>. QED
    BY <2>1, <2>3 DEF n, k
<1>4. \A i \in 1 .. Len(mutations') : mutations'[i].answer = Nothing
  BY <1>3 DEF AInv, QueueShape
<1>5. Nothing.kind # "session"
  BY DEF Nothing, Reply
<1>6. QueueShape'
  BY <1>3, <1>4, <1>5 DEF AInv, QueueShape
<1>7. ASSUME Running.epoch = store.generation PROVE mutations' = <<>>
  <2>1. 1 \in 1 .. Len(mutations) /\ Running = mutations[1]
    BY RunningType
  <2>2. Len(mutations) = 1
    BY <1>7, <2>1 DEF AInv, QueueShape
  <2>. QED
    BY <1>1, <2>2
<1>. QED
  BY <1>4, <1>6, <1>7

\* The head leaves a store that vouches for what it did.
LEMMA TailAgrees ==
    ASSUME IInv, AInv, mutations # <<>>, mutations' = Tail(mutations), SameView(store', store),
           UNCHANGED <<checks, leases, ends>>
    PROVE  AInv'
<1>1. QueueShape' /\ \A i \in 1 .. Len(mutations') : mutations'[i].answer = Nothing
  BY TailShape DEF SameView
<1>2. Alone' /\ Lent'
  BY DEF AInv, Alone, Lent, SameView
<1>3. Nothing.kind \notin {"session", "gone"}
  BY DEF Nothing, Reply
<1>4. Agreement'
  <2>1. leases \subseteq [session : Session, lifetime : Nat]
    BY DEF IInv, TypeOK
  <2>2. \A i \in 1 .. Len(mutations') :
          /\ mutations'[i].answer.kind = "session" => mutations'[i].answer.session = server'.cookie
          /\ mutations'[i].answer.kind = "gone" => server'.cookie = None
    BY <1>1, <1>3
  <2>. QED
    BY <2>1, <2>2, AgreementKept
<1>. QED
  BY <1>1, <1>2, <1>4 DEF AInv

LEMMA AbandonMutationAgrees == ASSUME IInv, AInv, AbandonMutation PROVE AInv'
  BY SameStore, TailAgrees DEF AbandonMutation, bounds

\* Nothing is vouched for any more in this generation: a check or a mutation failed, or a logout did
\* its work.
LEMMA HaltAgrees ==
    ASSUME IInv, AInv, store'.generation = store.generation, Halted(store', store),
           QueueShape', checks' \subseteq checks, UNCHANGED <<server, leases, ends>>,
           store'.snapshot.revocation = "confirmed" =>
               mutations' = <<>> /\ (ends = 0 => server.cookie = None),
           mutations' = mutations \/ \A i \in 1 .. Len(mutations') : mutations'[i].answer = Nothing
    PROVE  AInv'
<1>1. Alone' /\ Lent'
  BY DEF AInv, Alone, Lent, Halted
<1>2. Nothing.kind \notin {"session", "gone"}
  BY DEF Nothing, Reply
<1>3. Agreement'
  BY <1>2 DEF AInv, Agreement, Halted
<1>. QED
  BY <1>1, <1>3 DEF AInv

\* The session the cookie names is vouched for.
LEMMA AdoptAgrees ==
    ASSUME IInv, AInv, NEW session, ends = 0 => session = server.cookie, mutations' = <<>>,
           store'.generation = store.generation, store'.credential = session,
           store'.snapshot.revocation = "none", store'.aborted = FALSE,
           store'.lifetime = (IF store.aborted THEN store.lifetime + 1 ELSE store.lifetime),
           checks' \subseteq checks, UNCHANGED <<server, leases, ends>>
    PROVE  AInv'
<1>1. store.lifetime \in Nat /\ store.aborted \in BOOLEAN
  BY DEF IInv, TypeOK, StoreType
<1>2. \A l \in leases : l.lifetime \in Nat /\ l.session # None /\ l.lifetime <= store.lifetime
  BY Ranges DEF IInv, TypeOK, AInv, Lent
<1>3. Alone' /\ QueueShape'
  BY DEF Alone, QueueShape
<1>4. Lent'
  BY <1>1, <1>2 DEF Lent
<1>5. ASSUME ends = 0, NEW l \in leases, l.lifetime = store'.lifetime PROVE l.session = session
  <2>1. ~store.aborted /\ l.lifetime = store.lifetime
    BY <1>1, <1>2, <1>5
  <2>2. l.session = store.credential /\ l.session # None
    BY <1>2, <1>5, <2>1 DEF AInv, Agreement
  <2>. QED
    BY <1>5, <2>2 DEF AInv, Agreement
<1>6. Agreement'
  BY <1>5 DEF AInv, Agreement
<1>. QED
  BY <1>3, <1>4, <1>6 DEF AInv

LEMMA SettleCheckAgrees == ASSUME IInv, AInv, NEW c \in checks, SettleCheck(c) PROVE AInv'
<1>. DEFINE landed == IF Superseded(c.epoch) THEN store
                      ELSE IF c.answer.kind = "session" THEN Adopt(store, c.answer.session)
                      ELSE SettleFailedStatus(store, c.answer)
            settled == [landed EXCEPT !.flight = IF @ = c.id THEN 0 ELSE @]
<1>1. /\ checks' = checks \ {c} /\ store' = settled
      /\ UNCHANGED <<server, mutations, leases, ends>>
  BY DEF SettleCheck, bounds
<1>2. store \in StoreType /\ c.answer.session \in Maybe
  BY DEF IInv, TypeOK, CheckType, Answer
<1>3. landed \in StoreType /\ landed.generation = store.generation
  BY <1>2, AdoptStore, FailedStatusStore
<1>4. SameView(store', landed)
  <2>. HIDE DEF landed
  <2>. QED
    BY <1>1, <1>3 DEF StoreType, SameView
<1>5. CASE Superseded(c.epoch)
  BY <1>1, <1>4, <1>5, QueueStays
<1>6. CASE ~Superseded(c.epoch) /\ c.answer.kind = "session"
  <2>1. landed = Adopt(store, c.answer.session)
    BY <1>6
  <2>. HIDE DEF landed
  <2>2. /\ landed.credential = c.answer.session /\ landed.snapshot.revocation = "none"
        /\ landed.aborted = FALSE
        /\ landed.lifetime = IF store.aborted THEN store.lifetime + 1 ELSE store.lifetime
    <3>. DEFINE session == c.answer.session
    <3>1. session \in Maybe /\ landed = Adopt(store, session)
      BY <1>2, <2>1
    <3>. HIDE DEF session
    <3>2. /\ landed.credential = session /\ landed.snapshot.revocation = "none"
          /\ landed.aborted = FALSE
          /\ landed.lifetime = IF store.aborted THEN store.lifetime + 1 ELSE store.lifetime
      BY ONLY <1>2, <3>1, Adopting, Zenon
    <3>. QED
      BY <3>2 DEF session
  <2>3. c.epoch = store.generation
    BY <1>6 DEF Superseded
  <2>4. mutations = <<>> /\ (ends = 0 => c.answer.session = server.cookie)
    BY <1>6, <2>3, JudgedAlone DEF AInv, Agreement
  <2>5. /\ store'.generation = store.generation /\ store'.credential = c.answer.session
        /\ store'.snapshot.revocation = "none" /\ store'.aborted = FALSE
        /\ store'.lifetime = IF store.aborted THEN store.lifetime + 1 ELSE store.lifetime
    BY <1>3, <1>4, <2>2 DEF SameView
  <2>. QED
    BY <1>1, <2>4, <2>5, AdoptAgrees
<1>7. CASE ~Superseded(c.epoch) /\ c.answer.kind # "session"
  <2>1. landed = SettleFailedStatus(store, c.answer)
    BY <1>7
  <2>2. Halted(landed, store) /\ landed.snapshot.revocation = "none"
    BY <1>2, <2>1, FailingStatus
  <2>. HIDE DEF landed
  <2>3. /\ store'.generation = store.generation /\ Halted(store', store)
        /\ store'.snapshot.revocation = "none"
    BY <1>3, <1>4, <2>2 DEF SameView, Halted
  <2>4. QueueShape'
    BY <1>1, <2>3 DEF AInv, QueueShape
  <2>. QED
    BY <1>1, <2>3, <2>4, HaltAgrees
<1>. QED
  BY <1>5, <1>6, <1>7

LEMMA SettleMutationAgrees == ASSUME IInv, AInv, SettleMutation PROVE AInv'
<1>1. /\ mutations # <<>> /\ mutations' = Tail(mutations)
      /\ store' = IF Running.kind = "login" THEN LandLogin(Running) ELSE LandLogout(Running)
      /\ UNCHANGED <<server, checks, leases, ends>>
  BY DEF SettleMutation, bounds
<1>2. store \in StoreType /\ Running \in MutationType /\ Running.answer.session \in Maybe
  BY <1>1, RunningType DEF IInv, TypeOK, MutationType, Answer
<1>3. 1 \in 1 .. Len(mutations) /\ Running = mutations[1]
  BY <1>1, RunningType
<1>4. /\ ends = 0 /\ Running.answer.kind = "session" => Running.answer.session = server.cookie
      /\ ends = 0 /\ Running.answer.kind = "gone" => server.cookie = None
  BY <1>3 DEF AInv, Agreement
<1>5. ASSUME SameView(store', store) PROVE AInv'
  BY <1>1, <1>5, TailAgrees
<1>6. ASSUME NEW revocation \in Revocation, store' = Clear(store, revocation),
             revocation = "confirmed" =>
                 ~Superseded(Running.epoch) /\ Running.answer.kind = "gone"
      PROVE  AInv'
  <2>1. /\ store'.generation = store.generation /\ Halted(store', store)
        /\ store'.snapshot.revocation = revocation
    BY <1>2, <1>6, ClearStore, Halting
  <2>2. /\ QueueShape' /\ \A i \in 1 .. Len(mutations') : mutations'[i].answer = Nothing
        /\ Running.epoch = store.generation => mutations' = <<>>
    BY <1>1, <2>1, TailShape
  <2>3. store'.snapshot.revocation = "confirmed" =>
            mutations' = <<>> /\ (ends = 0 => server.cookie = None)
    BY <1>4, <1>6, <2>1, <2>2 DEF Superseded
  <2>. QED
    BY <1>1, <2>1, <2>2, <2>3, HaltAgrees
<1>7. CASE Running.kind = "login" /\ Running.answer.kind = "session"
  <2>. DEFINE known == [store EXCEPT !.csrf = Running.answer.session]
  <2>1. known \in StoreType /\ SameView(known, store)
    BY <1>2 DEF StoreType, SameView
  <2>2. store' = IF Superseded(Running.epoch) THEN known ELSE Adopt(known, Running.answer.session)
    BY <1>1, <1>7 DEF LandLogin
  <2>. HIDE DEF known
  <2>3. CASE Superseded(Running.epoch)
    BY <1>5, <2>1, <2>2, <2>3
  <2>4. CASE ~Superseded(Running.epoch)
    <3>. DEFINE session == Running.answer.session
    <3>1. session \in Maybe /\ known \in StoreType /\ store' = Adopt(known, session)
      BY <1>2, <2>1, <2>2, <2>4
    <3>. HIDE DEF session
    <3>2. /\ store'.generation = known.generation /\ store'.credential = session
          /\ store'.snapshot.revocation = "none" /\ store'.aborted = FALSE
          /\ store'.lifetime = IF known.aborted THEN known.lifetime + 1 ELSE known.lifetime
      <4>1. store'.generation = known.generation
        BY ONLY <3>1, AdoptStore, Zenon
      <4>. QED
        BY ONLY <3>1, <4>1, Adopting, Zenon
    <3>3. /\ known.generation = store.generation /\ known.aborted = store.aborted
          /\ known.lifetime = store.lifetime
      BY <2>1 DEF SameView
    <3>4. /\ store'.generation = store.generation
          /\ store'.lifetime = IF store.aborted THEN store.lifetime + 1 ELSE store.lifetime
      BY ONLY <3>2, <3>3, Zenon
    <3>5. mutations' = <<>>
      BY <1>1, <2>4, <3>4, TailShape DEF Superseded
    <3>6. ends = 0 => session = server.cookie
      BY <1>4, <1>7 DEF session
    <3>. QED
      BY <1>1, <3>2, <3>4, <3>5, <3>6, AdoptAgrees
  <2>. QED
    BY <2>3, <2>4
<1>8. CASE Running.kind = "login" /\ Running.answer.kind # "session"
  <2>1. store' = store \/ store' = Clear(store, "none")
    BY <1>1, <1>8 DEF LandLogin
  <2>2. "none" \in Revocation
    BY DEF Revocation
  <2>. QED
    BY <1>5, <1>6, <2>1, <2>2, SameStore
<1>9. CASE Running.kind # "login"
  <2>1. \/ store' = store
        \/ ~Superseded(Running.epoch) /\ Running.answer.kind = "gone"
           /\ store' = Clear(store, "confirmed")
        \/ store' = Clear(store, "unconfirmed")
    BY <1>1, <1>9 DEF LandLogout
  <2>2. "confirmed" \in Revocation /\ "unconfirmed" \in Revocation
    BY DEF Revocation
  <2>. QED
    BY <1>5, <1>6, <2>1, <2>2, SameStore
<1>. QED
  BY <1>7, <1>8, <1>9

-----------------------------------------------------------------------------
(* Every step keeps the agreement *)

LEMMA InitAInv == Init => AInv
<1>. SUFFICES ASSUME Init PROVE AInv
  OBVIOUS
<1>1. mutations = <<>> /\ checks = {} /\ leases = {} /\ store.credential = None
      /\ store.expiry = 0 /\ store.snapshot.revocation = "none"
  BY DEF Init, SignedOut, Snapshot
<1>. QED
  BY <1>1 DEF AInv, Alone, QueueShape, Lent, Agreement

LEMMA NextAInv == ASSUME IInv, AInv, [Next]_vars PROVE AInv'
<1>1. CASE UserCalls
  BY <1>1, LoginAgrees, LogoutAgrees, CloseAgrees DEF UserCalls
<1>2. CASE Revalidate
  BY <1>2, RevalidateAgrees
<1>3. CASE ChecksRun
  BY <1>3, AskAgrees, AnswerCheckAgrees, SettleCheckAgrees DEF ChecksRun
<1>4. CASE MutationsRun
  BY <1>4, StartMutationAgrees, AnswerLoginAgrees, AnswerLogoutAgrees, SettleMutationAgrees,
     AbandonMutationAgrees DEF MutationsRun
<1>5. CASE Borrowers
  BY <1>5, AcquireAgrees, ProtectedFailureAgrees, ReconnectAgrees, GiveUpAgrees DEF Borrowers
<1>6. CASE TimerElapses
  BY <1>6, TimerElapsesAgrees
<1>7. CASE Expire
  BY <1>7, ExpireAgrees
<1>8. CASE ServerActs
  BY <1>8, ServerActsAgrees
<1>9. CASE UNCHANGED vars
  BY <1>9, SameStore, QueueStays DEF vars, bounds
<1>. QED
  BY <1>1, <1>2, <1>3, <1>4, <1>5, <1>6, <1>7, <1>8, <1>9 DEF Next

LEMMA AgreementInvariance == Spec => [](IInv /\ AInv)
<1>1. Init => IInv /\ AInv
  BY InitIInv, InitAInv
<1>2. IInv /\ AInv /\ [Next]_vars => (IInv /\ AInv)'
  BY NextIInv, NextAInv
<1>. QED
  BY <1>1, <1>2, PTL DEF Spec

-----------------------------------------------------------------------------
(* Without a reconnecting channel, the last call is never superseded *)

\* No call is made, the generation stays and every mutation left was queued before.
LEMMA CallsStay ==
    ASSUME LastCall, channel' = channel, calls' = calls, store'.generation = store.generation,
           \A i \in 1 .. Len(mutations') : \E j \in 1 .. Len(mutations) :
               mutations'[i].call = mutations[j].call /\ mutations'[i].epoch = mutations[j].epoch
    PROVE  LastCall'
  BY DEF LastCall

LEMMA CallsQuiet ==
    ASSUME LastCall, channel' = channel, calls' = calls, store'.generation = store.generation,
           mutations' = mutations
    PROVE  LastCall'
  BY CallsStay

\* The only session on the screen, or its timer, leaves no mutation to supersede.
LEMMA CallsNone == ASSUME LastCall, channel' = channel, mutations' = <<>> PROVE LastCall'
  BY DEF LastCall

\* The head is replaced by one of the same call, or leaves.
LEMMA CallsMove ==
    ASSUME IInv, LastCall, channel' = channel, calls' = calls,
           store'.generation = store.generation, mutations # <<>>,
           \/ mutations' = Tail(mutations)
           \/ \E m : Run(m) /\ m.call = Running.call /\ m.epoch = Running.epoch
    PROVE  LastCall'
<1>1. mutations \in Seq(MutationType) /\ 1 \in 1 .. Len(mutations) /\ Running = mutations[1]
  BY RunningType DEF IInv, TypeOK
<1>2. CASE mutations' = Tail(mutations)
  <2>1. ASSUME NEW i \in 1 .. Len(mutations')
        PROVE  i + 1 \in 1 .. Len(mutations) /\ mutations'[i] = mutations[i + 1]
    BY <1>1, <1>2
  <2>. QED
    BY <2>1, CallsStay
<1>3. ASSUME NEW m, Run(m), m.call = Running.call, m.epoch = Running.epoch PROVE LastCall'
  <2>1. /\ Len(mutations') = Len(mutations) /\ mutations'[1] = m
        /\ \A i \in 1 .. Len(mutations) : i # 1 => mutations'[i] = mutations[i]
    BY <1>1, <1>3 DEF Run
  <2>2. ASSUME NEW i \in 1 .. Len(mutations')
        PROVE  \E j \in 1 .. Len(mutations) :
                   mutations'[i].call = mutations[j].call /\ mutations'[i].epoch = mutations[j].epoch
    BY <1>1, <1>3, <2>1
  <2>. QED
    BY <2>2, CallsStay
<1>. QED
  BY <1>2, <1>3

\* A call counts, so what was queued before is no longer the last.
LEMMA CallsCount ==
    ASSUME IInv, LastCall, channel' = channel, calls' = calls + 1,
           \/ mutations' = mutations
           \/ \E m \in MutationType : /\ mutations' = Append(mutations, m)
                                      /\ m.call = calls + 1 /\ m.epoch = store'.generation
    PROVE  LastCall'
<1>1. mutations \in Seq(MutationType) /\ calls \in Nat
  BY DEF IInv, TypeOK
<1>2. \A i \in 1 .. Len(mutations) : mutations[i].call \in Nat /\ mutations[i].call <= calls
  <2>1. \A i \in 1 .. Len(mutations) : mutations[i] \in MutationType
    BY <1>1
  <2>. QED
    BY <2>1 DEF MutationType, LastCall
<1>3. CASE mutations' = mutations
  BY <1>1, <1>2, <1>3 DEF LastCall
<1>4. ASSUME NEW m \in MutationType, mutations' = Append(mutations, m),
             m.call = calls + 1, m.epoch = store'.generation
      PROVE  LastCall'
  <2>1. \A i \in 1 .. Len(mutations') :
             \/ i \in 1 .. Len(mutations) /\ mutations'[i] = mutations[i]
             \/ mutations'[i] = m
    BY <1>1, <1>4
  <2>. QED
    BY <1>1, <1>2, <1>4, <2>1 DEF LastCall
<1>. QED
  BY <1>3, <1>4

LEMMA EnqueueCounts ==
    ASSUME IInv, LastCall, calls < MaxCalls, calls' = calls + 1, channel' = channel,
           NEW kind \in {"login", "logout"}, NEW revocation, NEW s, Enqueue(kind, revocation, s),
           s.generation = store.generation, store' \in StoreType
    PROVE  LastCall'
<1>1. CASE Len(mutations) < QueueBound
  <2>. DEFINE m == Mutation(kind, store'.generation)
  <2>1. mutations' = Append(mutations, m)
    BY <1>1 DEF Enqueue
  <2>2. calls + 1 \in 1 .. MaxCalls
    BY AuthAssumption DEF IInv, TypeOK, AuthAssumption
  <2>3. store.owner \in 0 .. MaxCalls /\ store'.generation \in Nat
    BY DEF IInv, TypeOK, StoreType
  <2>4. m \in MutationType /\ m.call = calls + 1 /\ m.epoch = store'.generation
    BY <2>2, <2>3, Ranges, AnswerTypes DEF Mutation, MutationType
  <2>. HIDE DEF m
  <2>. QED
    BY <2>1, <2>4, CallsCount
<1>2. CASE ~(Len(mutations) < QueueBound)
  BY <1>2, CallsCount DEF Enqueue
<1>. QED
  BY <1>1, <1>2

LEMMA UserCallsCount == ASSUME IInv, IInv', LastCall, UserCalls PROVE LastCall'
<1>1. store' \in StoreType /\ store \in StoreType
  BY DEF IInv, TypeOK
<1>2. CASE Login
  BY <1>1, <1>2, EnqueueCounts DEF Login
<1>3. CASE Logout
  <2>. DEFINE s == [store EXCEPT !.blocked = TRUE]
  <2>1. s.generation = store.generation
    BY <1>1 DEF StoreType
  <2>2. Enqueue("logout", "unconfirmed", s) /\ calls < MaxCalls /\ calls' = calls + 1
        /\ channel' = channel
    BY <1>3 DEF Logout
  <2>. HIDE DEF s
  <2>. QED
    BY <1>1, <2>1, <2>2, EnqueueCounts
<1>4. CASE Close
  BY <1>4, CallsCount DEF Close
<1>. QED
  BY <1>2, <1>3, <1>4 DEF UserCalls

LEMMA ChecksKeepCalls == ASSUME IInv, LastCall, ChecksRun PROVE LastCall'
<1>. PICK c \in checks : Ask(c) \/ AnswerCheck(c) \/ SettleCheck(c)
  BY DEF ChecksRun
<1>1. CASE Ask(c)
  BY <1>1, CallsQuiet DEF Ask, bounds
<1>2. CASE AnswerCheck(c)
  BY <1>2, CallsQuiet DEF AnswerCheck
<1>3. CASE SettleCheck(c)
  <2>. DEFINE landed == IF Superseded(c.epoch) THEN store
                        ELSE IF c.answer.kind = "session" THEN Adopt(store, c.answer.session)
                        ELSE SettleFailedStatus(store, c.answer)
              settled == [landed EXCEPT !.flight = IF @ = c.id THEN 0 ELSE @]
  <2>1. store' = settled /\ UNCHANGED <<mutations, calls>>
    BY <1>3 DEF SettleCheck, bounds
  <2>2. channel' = channel
    BY <1>3 DEF SettleCheck, LastCall, Idle
  <2>3. store \in StoreType /\ c.answer.session \in Maybe
    BY DEF IInv, TypeOK, CheckType, Answer
  <2>4. landed \in StoreType /\ landed.generation = store.generation
    BY <2>3, AdoptStore, FailedStatusStore
  <2>5. store'.generation = store.generation
    <3>. HIDE DEF landed
    <3>. QED
      BY <2>1, <2>4 DEF StoreType
  <2>. QED
    BY <2>1, <2>2, <2>5, CallsQuiet
<1>. QED
  BY <1>1, <1>2, <1>3

LEMMA LandingGeneration ==
    ASSUME IInv, mutations # <<>>
    PROVE  /\ LandLogin(Running).generation = store.generation
           /\ LandLogout(Running).generation = store.generation
<1>1. store \in StoreType /\ Running.answer.session \in Maybe
  BY RunningType DEF IInv, TypeOK, MutationType, Answer
<1>2. \A r \in Revocation : Clear(store, r).generation = store.generation
  BY <1>1, ClearStore
<1>. DEFINE known == [store EXCEPT !.csrf = Running.answer.session]
<1>3. known \in StoreType /\ known.generation = store.generation
  BY <1>1 DEF StoreType
<1>4. LandLogin(Running) \in {known, Adopt(known, Running.answer.session), store, Clear(store, "none")}
  BY DEF LandLogin
<1>. HIDE DEF known
<1>5. Adopt(known, Running.answer.session).generation = known.generation
  BY <1>1, <1>3, AdoptStore
<1>6. LandLogout(Running) \in {store, Clear(store, "confirmed"), Clear(store, "unconfirmed")}
  BY DEF LandLogout
<1>. QED
  BY <1>2, <1>3, <1>4, <1>5, <1>6 DEF Revocation

LEMMA MutationsKeepCalls == ASSUME IInv, LastCall, MutationsRun PROVE LastCall'
<1>1. mutations # <<>> /\ channel' = channel /\ calls' = calls /\ store \in StoreType
  BY DEF MutationsRun, StartMutation, AnswerLogin, AnswerLogout, SettleMutation, AbandonMutation,
         bounds, IInv, TypeOK
<1>2. Running \in MutationType
  BY <1>1, RunningType
<1>3. CASE StartMutation
  <2>1. store'.generation = store.generation
    BY <1>1, <1>3 DEF StartMutation, StoreType
  <2>. DEFINE login == [Running EXCEPT !.phase = "sent"]
              logout == [Running EXCEPT !.phase = "sent", !.proof = store.csrf,
                                        !.again = (store.csrf = None)]
  <2>2. /\ login.call = Running.call /\ login.epoch = Running.epoch
        /\ logout.call = Running.call /\ logout.epoch = Running.epoch
    BY <1>2 DEF MutationType
  <2>3. Run(login) \/ Run(logout)
    BY <1>3 DEF StartMutation
  <2>. HIDE DEF login, logout
  <2>. QED
    BY <1>1, <2>1, <2>2, <2>3, CallsMove
<1>4. ASSUME NEW answer, Run([Running EXCEPT !.phase = "answered", !.answer = answer]),
             store' = store
      PROVE  LastCall'
  <2>. DEFINE m == [Running EXCEPT !.phase = "answered", !.answer = answer]
  <2>1. m.call = Running.call /\ m.epoch = Running.epoch /\ Run(m)
    BY <1>2, <1>4 DEF MutationType
  <2>. HIDE DEF m
  <2>. QED
    BY <1>1, <1>4, <2>1, CallsMove
<1>5. CASE AnswerLogin
  BY <1>4, <1>5 DEF AnswerLogin
<1>6. CASE AnswerLogout
  <2>1. store' = store
    BY <1>6 DEF AnswerLogout
  <2>2. CASE Run(Resent(Running))
    <3>1. Resent(Running).call = Running.call /\ Resent(Running).epoch = Running.epoch
      BY <1>2 DEF MutationType, Resent
    <3>. QED
      BY <1>1, <2>1, <2>2, <3>1, CallsMove
  <2>3. CASE Run([Running EXCEPT !.proof = server.cookie])
    <3>. DEFINE m == [Running EXCEPT !.proof = server.cookie]
    <3>1. m.call = Running.call /\ m.epoch = Running.epoch /\ Run(m)
      BY <1>2, <2>3 DEF MutationType
    <3>. HIDE DEF m
    <3>. QED
      BY <1>1, <2>1, <3>1, CallsMove
  <2>. QED
    BY <1>4, <1>6, <2>1, <2>2, <2>3 DEF AnswerLogout
<1>7. CASE SettleMutation
  <2>1. store' \in {LandLogin(Running), LandLogout(Running)} /\ mutations' = Tail(mutations)
    BY <1>7 DEF SettleMutation
  <2>2. store'.generation = store.generation
    BY <1>1, <2>1, LandingGeneration
  <2>. QED
    BY <1>1, <2>1, <2>2, CallsMove
<1>8. CASE AbandonMutation
  BY <1>1, <1>8, CallsMove DEF AbandonMutation
<1>. QED
  BY <1>3, <1>5, <1>6, <1>7, <1>8 DEF MutationsRun

LEMMA BorrowersKeepCalls ==
    ASSUME MaxReconnects = 0, IInv, AInv, LastCall, Borrowers PROVE LastCall'
<1>1. CASE Acquire
  BY <1>1, CallsQuiet DEF Acquire, bounds
<1>2. CASE ProtectedFailure
  BY <1>2, CallsNone DEF ProtectedFailure, AInv, Alone
<1>3. ~Reconnect /\ ~GiveUp
  BY DEF Reconnect, GiveUp, LastCall, Idle, IInv, TypeOK
<1>. QED
  BY <1>1, <1>2, <1>3 DEF Borrowers

LEMMA ExpireKeepsCalls == ASSUME AInv, LastCall, Expire PROVE LastCall'
<1>1. CASE TimerIsCurrent
  BY <1>1, CallsNone DEF Expire, TimerIsCurrent, AInv, Alone
<1>2. CASE ~TimerIsCurrent
  BY <1>2, CallsQuiet DEF Expire, bounds
<1>. QED
  BY <1>1, <1>2

LEMMA LastCallInvariance == MaxReconnects = 0 => (Spec => []LastCall)
<1>. SUFFICES ASSUME MaxReconnects = 0 PROVE Spec => []LastCall
  OBVIOUS
<1>1. Init => LastCall
  BY DEF Init, LastCall
<1>2. IInv /\ AInv /\ (IInv /\ AInv)' /\ LastCall /\ [Next]_vars => LastCall'
  <2>. SUFFICES ASSUME IInv, AInv, IInv', LastCall, [Next]_vars PROVE LastCall'
    OBVIOUS
  <2>1. CASE UserCalls
    BY <2>1, UserCallsCount
  <2>2. CASE ChecksRun
    BY <2>2, ChecksKeepCalls
  <2>3. CASE MutationsRun
    BY <2>3, MutationsKeepCalls
  <2>4. CASE Borrowers
    BY <2>4, BorrowersKeepCalls
  <2>5. CASE Expire
    BY <2>5, ExpireKeepsCalls
  <2>6. CASE Revalidate
    <3>1. store'.generation = store.generation /\ UNCHANGED <<channel, mutations, calls>>
      BY <2>6 DEF Revalidate, IInv, TypeOK, StoreType
    <3>. QED
      BY <3>1, CallsQuiet
  <2>7. CASE TimerElapses \/ ServerActs \/ UNCHANGED vars
    BY <2>7, CallsQuiet DEF TimerElapses, ServerActs, vars, bounds
  <2>. QED
    BY <2>1, <2>2, <2>3, <2>4, <2>5, <2>6, <2>7 DEF Next
<1>. QED
  BY <1>1, <1>2, AgreementInvariance, PTL DEF Spec


-----------------------------------------------------------------------------
(* The identity on display *)

\* The server holds the session of the cookie only, and every session anybody names was issued.
Held == \A s \in server.live : s = server.cookie /\ s <= server.issued

Issued ==
    /\ store.snapshot.identity <= server.issued
    /\ \A c \in checks : c.answer.session <= server.issued
    /\ \A i \in 1 .. Len(mutations) : mutations[i].answer.session <= server.issued

\* The server no longer holds the session on display.
Gone == store.snapshot.identity \notin server.live

\* A session vouched for is on display, and none is while a mutation waits.
Displayed ==
    /\ store.credential # None \/ store.expiry # 0 => store.snapshot.identity = store.credential
    /\ mutations # <<>> => store.snapshot.identity = None

\* A timer that still counts fired, and a check that is still current was answered that the session
\* ended, only when it had.
Honest ==
    /\ fired <= store.timers /\ store.expiry <= store.timers
    /\ fired # 0 /\ store.expiry = fired => Gone
    /\ \A c \in checks :
         /\ c.answer = Nothing \/ c.answer.kind \in {"session", "ended", "outage"}
         /\ c.answer.kind = "session" => c.answer.session # None
         /\ c.epoch = store.generation /\ c.answer.kind = "ended" => Gone

DInv == Held /\ Issued /\ Displayed /\ Honest

LEMMA InitDInv == Init => DInv
<1>. SUFFICES ASSUME Init PROVE DInv
  OBVIOUS
<1>1. PICK s \in {None, 1} :
        /\ server = [cookie |-> s, live |-> {s} \ {None}, issued |-> 1]
        /\ \E seed \in {SignedOut("none"), Snapshot("authenticated", s, "none")} :
             store.snapshot = seed
  <2>1. PICK s \in {None, 1} :
          /\ server = [cookie |-> s, live |-> {s} \ {None}, issued |-> 1]
          /\ \E seed \in {SignedOut("none"), Snapshot("authenticated", s, "none")} :
               /\ s = None => seed = SignedOut("none")
               /\ store = [generation |-> 0, blocked |-> FALSE, owner |-> 0, credential |-> None,
                           csrf |-> None, lifetime |-> 0, aborted |-> FALSE, expiry |-> 0,
                           timers |-> 0, flight |-> 0, snapshot |-> seed]
    BY Zenon DEF Init
  <2>2. PICK seed \in {SignedOut("none"), Snapshot("authenticated", s, "none")} :
          store = [generation |-> 0, blocked |-> FALSE, owner |-> 0, credential |-> None,
                   csrf |-> None, lifetime |-> 0, aborted |-> FALSE, expiry |-> 0,
                   timers |-> 0, flight |-> 0, snapshot |-> seed]
    BY <2>1
  <2>3. store.snapshot = seed
    BY <2>2
  <2>. QED
    BY <2>1, <2>2, <2>3
<1>2. store.credential = None /\ store.expiry = 0 /\ store.timers = 0
  BY DEF Init
<1>3. store.snapshot.identity \in {None, s}
  BY <1>1 DEF SignedOut, Snapshot
<1>4. mutations = <<>> /\ Len(mutations) = 0 /\ checks = {} /\ fired = 0
  BY DEF Init
<1>5. Held /\ Issued
  BY <1>1, <1>3, <1>4 DEF Held, Issued, None
<1>6. Displayed /\ Honest
  BY <1>2, <1>4 DEF Displayed, Honest, None
<1>. QED
  BY <1>5, <1>6 DEF DInv

\* What the server does to sessions: whoever it ended or replaced does not come back.
Moves == \/ server' = server \/ Admit \/ Revoke
         \/ server' = [server EXCEPT !.live = {}]

LEMMA ServerMoves ==
    ASSUME IInv, DInv, Moves
    PROVE  /\ Held'
           /\ server.issued \in Nat /\ server'.issued \in Nat /\ server.issued <= server'.issued
           /\ \A s \in Maybe : s <= server.issued /\ s \notin server.live => s \notin server'.live
           /\ None \notin server'.live
<1>1. server \in [cookie : Maybe, live : SUBSET Session, issued : Session]
  BY DEF IInv, TypeOK
<1>2. Session \subseteq Nat /\ Maybe \subseteq Nat /\ None \notin Session
  BY Ranges, AuthAssumption DEF Session, Maybe, None
<1>3. \A s \in server.live : s = server.cookie /\ s <= server.issued /\ s \in Session
  BY <1>1 DEF DInv, Held
<1>4. server.issued \in Nat
  BY <1>1, <1>2
<1>5. CASE server' = server
  BY <1>1, <1>2, <1>3, <1>4, <1>5 DEF Held
<1>6. CASE Admit
  <2>1. /\ server'.cookie = server.issued + 1 /\ server'.issued = server.issued + 1
        /\ \A s \in server'.live : s = server.issued + 1
    BY <1>3, <1>6 DEF Admit
  <2>2. \A s \in server'.live : s = server'.cookie /\ s <= server'.issued
    BY <1>4, <2>1
  <2>3. \A s \in Maybe : s <= server.issued => s \notin server'.live
    BY <1>2, <1>4, <2>1
  <2>4. 0 \notin server'.live
    BY <1>4, <2>1
  <2>. QED
    BY <1>4, <2>1, <2>2, <2>3, <2>4 DEF Held, None
<1>7. CASE Revoke \/ server' = [server EXCEPT !.live = {}]
  <2>1. server'.live = {} /\ server'.issued = server.issued
    BY <1>1, <1>3, <1>7 DEF Revoke
  <2>. QED
    BY <1>4, <2>1 DEF Held
<1>. QED
  BY <1>5, <1>6, <1>7 DEF Moves

\* What a check was just answered names an issued session, or no session is left.
ChecksTrue ==
    \A c \in checks' :
        \/ c \in checks
        \/ /\ c.answer.session <= server'.issued
           /\ c.answer = Nothing \/ c.answer.kind \in {"session", "ended", "outage"}
           /\ c.answer.kind = "session" => c.answer.session # None
           /\ c.answer.kind = "ended" => server'.live = {}

\* A step that adopts nothing: what is displayed stays or goes, and nothing else is said of it.
LEMMA NothingShown ==
    ASSUME IInv, DInv, Moves,
           store'.snapshot.identity \in {None, store.snapshot.identity},
           store'.timers = store.timers, store'.expiry \in {0, store.expiry}, fired' \in {0, fired},
           store'.credential # None \/ store'.expiry # 0 =>
               store'.snapshot.identity = store'.credential,
           mutations' # <<>> => store'.snapshot.identity = None,
           store'.generation \in {store.generation, store.generation + 1},
           ChecksTrue,
           \A i \in 1 .. Len(mutations') : mutations'[i].answer.session <= server'.issued
    PROVE  DInv'
<1>1. /\ Held' /\ server.issued \in Nat /\ server'.issued \in Nat
      /\ server.issued <= server'.issued /\ None \notin server'.live
      /\ \A s \in Maybe : s <= server.issued /\ s \notin server.live => s \notin server'.live
  BY ServerMoves
<1>2. Maybe \subseteq Nat /\ None \in Maybe
  BY Ranges, AuthAssumption DEF Session, Maybe, None
<1>3. store.snapshot.identity \in Maybe /\ store.generation \in Nat /\ store.timers \in Nat
  BY DEF IInv, TypeOK, StoreType
<1>4. Gone => Gone'
  BY <1>1, <1>3 DEF Gone, DInv, Issued
<1>5. store'.snapshot.identity = None => Gone'
  BY <1>1 DEF Gone
<1>6. \A c \in checks : c.answer.session \in Nat /\ c.epoch \in Nat
                        /\ c.epoch <= store.generation
  BY <1>2 DEF IInv, TypeOK, CheckType, Answer, Control, EpochsPast
<1>7. Issued'
  <2>1. store'.snapshot.identity <= server'.issued
    <3>1. store.snapshot.identity \in Nat /\ store.snapshot.identity <= server.issued
      BY <1>2, <1>3 DEF DInv, Issued
    <3>2. store'.snapshot.identity \in {0, store.snapshot.identity}
      BY DEF None
    <3>. QED
      BY ONLY <1>1, <3>1, <3>2
  <2>2. \A c \in checks' : c.answer.session <= server'.issued
    BY <1>1, <1>6 DEF DInv, Issued, ChecksTrue
  <2>. QED
    BY <2>1, <2>2 DEF Issued
<1>8. Displayed'
  BY DEF Displayed
<1>9. Honest'
  <2>1. fired' <= store'.timers /\ store'.expiry <= store'.timers
    BY <1>3 DEF DInv, Honest
  <2>2. fired' # 0 /\ store'.expiry = fired' => Gone'
    BY <1>4, <1>5 DEF DInv, Honest, Gone
  <2>3. ASSUME NEW c \in checks'
        PROVE  /\ c.answer = Nothing \/ c.answer.kind \in {"session", "ended", "outage"}
               /\ c.answer.kind = "session" => c.answer.session # None
               /\ c.epoch = store'.generation /\ c.answer.kind = "ended" => Gone'
    <3>1. CASE c \in checks
      <4>1. c.epoch = store'.generation => c.epoch = store.generation
        BY <1>3, <1>6, <3>1
      <4>. QED
        BY <1>4, <1>5, <3>1, <4>1 DEF DInv, Honest
    <3>2. CASE c \notin checks
      BY <2>3, <3>2 DEF Gone, ChecksTrue
    <3>. QED
      BY <3>1, <3>2
  <2>. QED
    BY <2>1, <2>2, <2>3 DEF Honest
<1>. QED
  BY <1>1, <1>7, <1>8, <1>9 DEF DInv

\* adopt() displays the session that is vouched for from now on, under a timer that did not fire yet.
LEMMA SessionShown ==
    ASSUME IInv, DInv, server' = server, fired' = fired, mutations' = <<>>,
           NEW session \in Maybe, session <= server.issued,
           store'.snapshot.identity = session, store'.credential = session,
           store'.timers = store.timers + 1, store'.expiry = store.timers + 1,
           store'.generation = store.generation, checks' \subseteq checks,
           \A c \in checks' : c.epoch = store.generation => c.answer.kind # "ended"
    PROVE  DInv'
<1>1. store.timers \in Nat /\ fired \in Nat /\ fired <= store.timers
  BY DEF IInv, TypeOK, StoreType, DInv, Honest
<1>2. fired' <= store'.timers /\ store'.expiry <= store'.timers /\ store'.expiry # fired'
  BY <1>1
<1>3. Held' /\ Issued'
  <2>1. Len(mutations') = 0
    OBVIOUS
  <2>. QED
    BY <2>1 DEF DInv, Held, Issued
<1>4. Displayed'
  BY DEF Displayed
<1>5. Honest'
  BY <1>2 DEF DInv, Honest
<1>. QED
  BY <1>3, <1>4, <1>5 DEF DInv

\* What the handlers leave on display.
LEMMA Hiding ==
    ASSUME NEW s \in StoreType, NEW revocation \in Revocation
    PROVE  /\ StopProtectedWork(s).timers = s.timers
           /\ Clear(s, revocation).timers = s.timers
           /\ Clear(s, revocation).snapshot.identity = None
           /\ Fence(s, revocation).timers = s.timers
           /\ Fence(s, revocation).snapshot.identity = None
           /\ Invalidate(s).timers = s.timers
           /\ Invalidate(s).snapshot.identity = None
<1>1. ASSUME NEW t \in StoreType, NEW r \in Revocation
      PROVE  /\ StopProtectedWork(t).timers = t.timers
             /\ Clear(t, r).timers = t.timers /\ Clear(t, r).snapshot.identity = None
  <2>. DEFINE u == StopProtectedWork(t)
              shown == SignedOut(r)
  <2>1. u \in StoreType /\ u.timers = t.timers
    BY StopStore DEF StopProtectedWork, StoreType
  <2>2. shown.identity = None
    BY DEF SignedOut, Snapshot
  <2>3. Clear(t, r) = [u EXCEPT !.snapshot = shown]
    BY DEF Clear
  <2>. HIDE DEF u, shown
  <2>4. Clear(t, r).timers = t.timers /\ Clear(t, r).snapshot.identity = None
    BY <2>1, <2>2, <2>3 DEF StoreType
  <2>. QED
    BY <2>1, <2>4 DEF u
<1>. DEFINE f == [s EXCEPT !.generation = @ + 1, !.flight = 0]
            i == [s EXCEPT !.generation = @ + 1, !.flight = 0, !.blocked = TRUE]
<1>2. f \in StoreType /\ f.timers = s.timers /\ i \in StoreType /\ i.timers = s.timers
  <2>1. s.generation + 1 \in Nat /\ 0 \in 0 .. MaxChecks
    BY Ranges DEF StoreType
  <2>. QED
    BY <2>1 DEF StoreType
<1>. HIDE DEF f, i
<1>3. Fence(s, revocation) = Clear(f, revocation) /\ Invalidate(s) = Clear(i, "none")
  BY DEF Fence, Invalidate, f, i
<1>4. "none" \in Revocation
  BY DEF Revocation
<1>. QED
  BY <1>1, <1>2, <1>3, <1>4

LEMMA FailureShows ==
    ASSUME NEW s \in StoreType, NEW answer
    PROVE  /\ SettleFailedStatus(s, answer).timers = s.timers
           /\ SettleFailedStatus(s, answer).snapshot.identity
                  = IF answer.kind = "outage" THEN s.snapshot.identity ELSE None
<1>1. CASE answer.kind = "outage"
  <2>. DEFINE shown == Snapshot("unconfirmed", s.snapshot.identity, "none")
              t == StopProtectedWork(s)
  <2>1. shown.identity = s.snapshot.identity
    BY DEF Snapshot
  <2>2. t \in StoreType /\ t.timers = s.timers
    BY StopStore, Hiding DEF Revocation
  <2>3. SettleFailedStatus(s, answer) = [t EXCEPT !.snapshot = shown]
    BY <1>1 DEF SettleFailedStatus
  <2>. HIDE DEF shown, t
  <2>4. /\ [t EXCEPT !.snapshot = shown].timers = t.timers
        /\ [t EXCEPT !.snapshot = shown].snapshot = shown
    BY <2>2 DEF StoreType
  <2>. QED
    BY <1>1, <2>1, <2>2, <2>3, <2>4
<1>2. CASE answer.kind # "outage"
  <2>. DEFINE t == [s EXCEPT !.blocked = TRUE]
  <2>1. t \in StoreType /\ t.timers = s.timers
    BY DEF StoreType
  <2>2. SettleFailedStatus(s, answer) = Clear(t, "none")
    BY <1>2 DEF SettleFailedStatus
  <2>. HIDE DEF t
  <2>. QED
    BY <1>2, <2>1, <2>2, Hiding DEF Revocation
<1>. QED
  BY <1>1, <1>2

LEMMA AdoptShows ==
    ASSUME NEW s \in StoreType, NEW session \in Maybe
    PROVE  /\ Adopt(s, session).snapshot.identity = session
           /\ Adopt(s, session).timers = s.timers + 1
           /\ Adopt(s, session).expiry = s.timers + 1
<1>1. Snapshot("authenticated", session, "none").identity = session
  BY DEF Snapshot
<1>. QED
  BY <1>1 DEF Adopt, StoreType

-----------------------------------------------------------------------------
(* The actions, and what they take off the display *)

\* Without a call of the user's, the display changes to nobody only when the server holds no session
\* of the one it showed.
Keeps ==
    store.snapshot.identity # None /\ store'.snapshot.identity = None /\ calls' = calls => Gone

Answers == \A i \in 1 .. Len(mutations') : mutations'[i].answer.session <= server'.issued

\* A session an answer names was issued before and is not forgotten.
LEMMA AnswerIssued ==
    ASSUME IInv, DInv, Moves, NEW i \in 1 .. Len(mutations)
    PROVE  mutations[i].answer.session <= server'.issued
<1>1. mutations[i].answer.session \in Nat
  <2>1. mutations[i] \in MutationType
    BY DEF IInv, TypeOK
  <2>2. Maybe \subseteq Nat
    BY AuthAssumption DEF Session, Maybe, None
  <2>. QED
    BY <2>1, <2>2 DEF MutationType, Answer
<1>2. mutations[i].answer.session <= server.issued
  BY DEF DInv, Issued
<1>3. server.issued \in Nat /\ server'.issued \in Nat /\ server.issued <= server'.issued
  BY ServerMoves
<1>. QED
  BY ONLY <1>1, <1>2, <1>3

LEMMA HeadIssued ==
    ASSUME IInv, DInv, Moves, mutations # <<>>, NEW m, Run(m),
           m.answer = Running.answer \/ m.answer.session <= server'.issued
    PROVE  Answers
<1>1. mutations \in Seq(MutationType) /\ Running = mutations[1] /\ 1 \in 1 .. Len(mutations)
  BY RunningType DEF IInv, TypeOK
<1>2. /\ Len(mutations') = Len(mutations) /\ mutations'[1] = m
      /\ \A i \in 1 .. Len(mutations) : i # 1 => mutations'[i] = mutations[i]
  BY <1>1 DEF Run
<1>. QED
  BY <1>1, <1>2, AnswerIssued DEF Answers

LEMMA TailIssued ==
    ASSUME IInv, DInv, Moves, mutations # <<>>, mutations' = Tail(mutations)
    PROVE  Answers
<1>1. mutations \in Seq(MutationType)
  BY DEF IInv, TypeOK
<1>2. Len(mutations') = Len(mutations) - 1 /\ Len(mutations) \in Nat
  BY <1>1
<1>3. \A i \in 1 .. Len(mutations') : i + 1 \in 1 .. Len(mutations) /\ mutations'[i] = mutations[i + 1]
  BY <1>1, <1>2
<1>. QED
  BY <1>3, AnswerIssued DEF Answers

\* The store keeps all that concerns the display.
Unchanged(t, s) ==
    /\ t.snapshot = s.snapshot /\ t.timers = s.timers /\ t.expiry = s.expiry
    /\ t.credential = s.credential /\ t.generation = s.generation

LEMMA DisplayStays ==
    ASSUME IInv, DInv, Moves, Unchanged(store', store), fired' = fired, Answers,
           mutations = <<>> => mutations' = <<>>,
           ChecksTrue
    PROVE  DInv' /\ Keeps
<1>1. /\ store'.snapshot.identity = store.snapshot.identity
      /\ store'.timers = store.timers /\ store'.expiry = store.expiry
      /\ store'.credential = store.credential /\ store'.generation = store.generation
  BY DEF Unchanged
<1>2. Keeps
  BY <1>1 DEF Keeps
<1>3. /\ store'.credential # None \/ store'.expiry # 0 =>
             store'.snapshot.identity = store'.credential
      /\ mutations' # <<>> => store'.snapshot.identity = None
  BY <1>1 DEF DInv, Displayed
<1>4. DInv'
  BY <1>1, <1>3, NothingShown DEF Answers
<1>. QED
  BY <1>2, <1>4

\* Nothing is vouched for any more, and the identity stays on display or goes.
LEMMA DisplayHalts ==
    ASSUME IInv, DInv, server' = server, Halted(store', store), store'.timers = store.timers,
           store'.snapshot.identity \in {None, store.snapshot.identity}, fired' \in {0, fired},
           store'.generation \in {store.generation, store.generation + 1},
           Answers, mutations = <<>> => mutations' = <<>> \/ store'.snapshot.identity = None,
           checks' \subseteq checks
    PROVE  DInv'
<1>1. store'.credential = None /\ store'.expiry = 0
  BY DEF Halted
<1>2. mutations' # <<>> => store'.snapshot.identity = None
  BY DEF DInv, Displayed
<1>3. Moves
  BY DEF Moves
<1>. QED
  BY <1>1, <1>2, <1>3, NothingShown DEF Answers, ChecksTrue

LEMMA StoreUnchanged == Unchanged(store, store)
  BY DEF Unchanged

LEMMA AnswersStay ==
    ASSUME IInv, DInv, Moves, mutations' = mutations PROVE Answers
  BY AnswerIssued DEF Answers

\* A check begins without an answer.
LEMMA StartsUnanswered ==
    ASSUME IInv, DInv
    PROVE  Check.answer = Nothing /\ Nothing.session <= server.issued /\ Nothing.kind \notin {"ended", "session"}
<1>1. server.issued \in Nat
  BY AuthAssumption DEF IInv, TypeOK, Session
<1>. QED
  BY <1>1 DEF Check, Nothing, Reply, None

LEMMA RevalidateShows == ASSUME IInv, DInv, Revalidate PROVE DInv' /\ Keeps
<1>1. /\ checks' = checks \union {Check} /\ store' = [store EXCEPT !.flight = asked + 1]
      /\ UNCHANGED <<server, mutations, fired>>
  BY DEF Revalidate
<1>2. Unchanged(store', store)
  BY <1>1 DEF Unchanged, IInv, TypeOK, StoreType
<1>3. Moves
  BY <1>1 DEF Moves
<1>4. Answers
  BY <1>1, <1>3, AnswersStay
<1>5. ChecksTrue
  BY <1>1, StartsUnanswered DEF ChecksTrue
<1>. QED
  BY <1>1, <1>2, <1>3, <1>4, <1>5, DisplayStays

LEMMA AskShows == ASSUME IInv, DInv, NEW c \in checks, Ask(c) PROVE DInv' /\ Keeps
<1>. DEFINE d == [c EXCEPT !.sent = TRUE]
<1>1. /\ checks' = (checks \ {c}) \union {d} /\ c.answer = Nothing
      /\ UNCHANGED <<server, store, mutations, fired>>
  BY DEF Ask
<1>2. d.answer = Nothing
  BY <1>1 DEF IInv, TypeOK, CheckType
<1>. HIDE DEF d
<1>3. Unchanged(store', store) /\ Moves
  BY <1>1, StoreUnchanged DEF Moves
<1>4. Answers
  BY <1>1, <1>3, AnswersStay
<1>5. ChecksTrue
  BY <1>1, <1>2, StartsUnanswered DEF ChecksTrue
<1>. QED
  BY <1>1, <1>3, <1>4, <1>5, DisplayStays

\* The server says the session ended when it holds none of the cookie's, and then it holds none.
LEMMA AnswerCheckShows ==
    ASSUME IInv, DInv, MaxBad = 0, NEW c \in checks, AnswerCheck(c) PROVE DInv' /\ Keeps
<1>1. PICK answer \in {CookieSession, Reply("outage")} :
        checks' = (checks \ {c}) \union {[c EXCEPT !.answer = answer]}
  BY DEF AnswerCheck, IInv, TypeOK
<1>2. UNCHANGED <<server, store, mutations, fired>>
  BY DEF AnswerCheck
<1>. DEFINE d == [c EXCEPT !.answer = answer]
<1>3. d.answer = answer
  BY DEF IInv, TypeOK, CheckType
<1>4. /\ answer.session <= server.issued
      /\ answer.kind \in {"session", "ended", "outage"}
      /\ answer.kind = "session" => answer.session # None
      /\ answer.kind = "ended" => server.live = {}
  <2>1. server.issued \in Nat
    BY AuthAssumption DEF IInv, TypeOK, Session
  <2>2. CASE server.cookie \in server.live /\ answer = CookieSession
    BY <2>2, Ranges DEF CookieSession, Granted, DInv, Held, IInv, TypeOK
  <2>3. CASE server.cookie \notin server.live /\ answer = CookieSession
    BY <2>1, <2>3 DEF CookieSession, Reply, None, DInv, Held
  <2>4. CASE answer = Reply("outage")
    BY <2>1, <2>4 DEF Reply, None
  <2>. QED
    BY <2>2, <2>3, <2>4
<1>5. checks' = (checks \ {c}) \union {d}
  BY <1>1
<1>. HIDE DEF d
<1>6. Unchanged(store', store) /\ Moves
  BY <1>2, StoreUnchanged DEF Moves
<1>7. Answers
  BY <1>2, <1>6, AnswersStay
<1>8. ChecksTrue
  BY <1>2, <1>3, <1>4, <1>5 DEF ChecksTrue
<1>. QED
  BY <1>2, <1>6, <1>7, <1>8, DisplayStays

\* The check that settles is the only current one; what it found ended is what was on display.
LEMMA SettleCheckShows == ASSUME IInv, DInv, NEW c \in checks, SettleCheck(c) PROVE DInv' /\ Keeps
<1>. DEFINE landed == IF Superseded(c.epoch) THEN store
                      ELSE IF c.answer.kind = "session" THEN Adopt(store, c.answer.session)
                      ELSE SettleFailedStatus(store, c.answer)
            settled == [landed EXCEPT !.flight = IF @ = c.id THEN 0 ELSE @]
<1>1. /\ c.answer # Nothing \/ Superseded(c.epoch)
      /\ checks' = checks \ {c} /\ store' = settled
      /\ UNCHANGED <<server, mutations, fired>>
  BY DEF SettleCheck, Superseded
<1>2. store \in StoreType /\ c.answer.session \in Maybe
  BY DEF IInv, TypeOK, CheckType, Answer
<1>3. landed \in StoreType /\ landed.generation = store.generation
  BY <1>2, AdoptStore, FailedStatusStore
<1>4. Unchanged(store', landed) /\ store'.lifetime = landed.lifetime /\ store'.aborted = landed.aborted
  <2>. HIDE DEF landed
  <2>. QED
    BY <1>1, <1>3 DEF StoreType, Unchanged
<1>5. Moves /\ Answers
  BY <1>1, AnswersStay DEF Moves
<1>6. CASE Superseded(c.epoch)
  <2>1. Unchanged(store', store)
    BY <1>4, <1>6
  <2>. QED
    BY <1>1, <1>5, <2>1, DisplayStays DEF ChecksTrue
<1>7. CASE ~Superseded(c.epoch) /\ c.answer.kind = "session"
  <2>. DEFINE session == c.answer.session
  <2>1. landed = Adopt(store, session) /\ session \in Maybe
    BY <1>2, <1>7
  <2>2. session <= server.issued
    BY DEF DInv, Issued
  <2>3. c.epoch = store.generation /\ mutations = <<>>
    BY <1>7, JudgedAlone DEF Superseded
  <2>4. \A e \in checks' : e.epoch # store.generation
    BY <1>1, <2>3 DEF IInv, Control, SingleCheck
  <2>. HIDE DEF landed, session
  <2>5. /\ landed.credential = session /\ landed.snapshot.identity = session
        /\ landed.timers = store.timers + 1 /\ landed.expiry = store.timers + 1
    BY ONLY <1>2, <2>1, Adopting, AdoptShows, Zenon
  <2>6. /\ store'.credential = session /\ store'.snapshot.identity = session
        /\ store'.timers = store.timers + 1 /\ store'.expiry = store.timers + 1
        /\ store'.generation = store.generation
    BY <1>3, <1>4, <2>5 DEF Unchanged
  <2>7. DInv'
    BY <1>1, <2>1, <2>2, <2>3, <2>4, <2>6, SessionShown
  <2>8. session # None
    BY <1>7 DEF session, DInv, Honest
  <2>. QED
    BY <2>6, <2>7, <2>8 DEF Keeps
<1>8. CASE ~Superseded(c.epoch) /\ c.answer.kind # "session"
  <2>1. landed = SettleFailedStatus(store, c.answer)
    BY <1>8
  <2>2. /\ Halted(landed, store) /\ landed.timers = store.timers
        /\ landed.snapshot.identity =
             IF c.answer.kind = "outage" THEN store.snapshot.identity ELSE None
    BY <1>2, <2>1, FailingStatus, FailureShows
  <2>. HIDE DEF landed
  <2>3. /\ Halted(store', store) /\ store'.timers = store.timers
        /\ store'.generation = store.generation
        /\ store'.snapshot.identity =
             IF c.answer.kind = "outage" THEN store.snapshot.identity ELSE None
    BY <1>3, <1>4, <2>2 DEF Unchanged, Halted
  <2>4. DInv'
    BY <1>1, <1>5, <2>3, DisplayHalts
  <2>5. c.answer.kind # "outage" => Gone
    BY <1>1, <1>8 DEF Superseded, DInv, Honest
  <2>. QED
    BY <2>3, <2>4, <2>5 DEF Keeps
<1>. QED
  BY <1>6, <1>7, <1>8

\* Calls of the user take the identity off the display, or find it taken off.
LEMMA EnqueueShows ==
    ASSUME IInv, DInv, NEW kind, NEW revocation \in Revocation,
           NEW s \in StoreType, Unchanged(s, store), s.lifetime = store.lifetime,
           Enqueue(kind, revocation, s), UNCHANGED <<server, checks, fired>>
    PROVE  DInv'
<1>. DEFINE m == Mutation(kind, store'.generation)
<1>1. Moves /\ mutations \in Seq(MutationType)
  BY DEF Moves, IInv, TypeOK
<1>2. CASE store' = Fence(s, revocation)
  <2>1. /\ Halted(store', store) /\ store'.timers = store.timers
        /\ store'.snapshot.identity = None /\ store'.generation = store.generation + 1
    BY <1>2, Fencing, FenceStore, Hiding DEF Halted, Unchanged
  <2>2. Answers
    <3>1. CASE mutations' = mutations
      BY <1>1, <3>1, AnswersStay
    <3>2. CASE mutations' = Append(mutations, m)
      <4>1. m.answer.session <= server'.issued
        BY StartsUnanswered DEF Mutation
      <4>. HIDE DEF m
      <4>2. \A i \in 1 .. Len(mutations') :
              \/ i \in 1 .. Len(mutations) /\ mutations'[i] = mutations[i]
              \/ mutations'[i] = m
        BY <1>1, <3>2
      <4>. QED
        BY <1>1, <4>1, <4>2, AnswerIssued DEF Answers
    <3>. QED
      BY <3>1, <3>2 DEF Enqueue
  <2>. QED
    BY <2>1, <2>2, DisplayHalts
<1>3. CASE store' = s /\ mutations' = mutations
  <2>1. Answers
    BY <1>1, <1>3, AnswersStay
  <2>. QED
    BY <1>1, <1>3, <2>1, DisplayStays DEF ChecksTrue
<1>. QED
  BY <1>2, <1>3 DEF Enqueue

LEMMA UserCallsShow == ASSUME IInv, DInv, UserCalls PROVE DInv' /\ Keeps
<1>1. calls' # calls
  <2>1. calls \in Nat /\ calls' = calls + 1
    BY AuthAssumption DEF UserCalls, Login, Logout, Close, IInv, TypeOK, AuthAssumption
  <2>. QED
    BY <2>1
<1>2. store \in StoreType
  BY DEF IInv, TypeOK
<1>3. CASE Login
  <2>1. DInv'
    BY <1>2, <1>3, EnqueueShows, StoreUnchanged DEF Login, Revocation
  <2>. QED
    BY <1>1, <2>1 DEF Keeps
<1>4. CASE Logout
  <2>. DEFINE s == [store EXCEPT !.blocked = TRUE]
  <2>1. s \in StoreType /\ Unchanged(s, store) /\ s.lifetime = store.lifetime
    BY <1>2 DEF StoreType, Unchanged
  <2>2. Enqueue("logout", "unconfirmed", s) /\ UNCHANGED <<server, checks, fired>>
    BY <1>4 DEF Logout
  <2>. HIDE DEF s
  <2>3. DInv'
    BY <2>1, <2>2, EnqueueShows DEF Revocation
  <2>. QED
    BY <1>1, <2>3 DEF Keeps
<1>5. CASE Close
  <2>. DEFINE t == StopProtectedWork(store)
  <2>1. /\ t \in StoreType /\ Halted(t, store) /\ t.timers = store.timers
        /\ t.snapshot = store.snapshot /\ t.generation = store.generation
    BY <1>2, StopStore, Halting, Hiding DEF Revocation
  <2>2. /\ store' = [t EXCEPT !.owner = @ + 1, !.generation = @ + 1, !.flight = 0]
        /\ UNCHANGED <<server, mutations, checks, fired>>
    BY <1>5 DEF Close
  <2>. HIDE DEF t
  <2>3. /\ Halted(store', store) /\ store'.timers = store.timers
        /\ store'.snapshot = store.snapshot /\ store'.generation = store.generation + 1
    BY <2>1, <2>2 DEF StoreType, Halted
  <2>4. Answers
    BY <2>2, AnswersStay DEF Moves
  <2>5. DInv'
    BY <2>2, <2>3, <2>4, DisplayHalts
  <2>. QED
    BY <1>1, <2>5 DEF Keeps
<1>. QED
  BY <1>3, <1>4, <1>5 DEF UserCalls

\* While a mutation waits or runs nobody is on display, so its steps take nobody off.
LEMMA QueueShows ==
    ASSUME IInv, DInv, StartMutation \/ AnswerLogin \/ AnswerLogout \/ AbandonMutation
    PROVE  DInv' /\ Keeps
<1>1. mutations # <<>> /\ UNCHANGED <<checks, fired>>
  BY DEF StartMutation, AnswerLogin, AnswerLogout, AbandonMutation
<1>2. Running \in MutationType /\ store \in StoreType
  BY <1>1, RunningType DEF IInv, TypeOK
<1>3. Unchanged(store', store)
  BY <1>2 DEF StartMutation, AnswerLogin, AnswerLogout, AbandonMutation, StoreType, Unchanged
<1>4. Moves
  BY DEF StartMutation, AnswerLogin, AnswerLogout, AbandonMutation, Moves
<1>5. ASSUME NEW m \in MutationType, Run(m),
             m.answer = Running.answer \/ m.answer.session <= server'.issued
      PROVE  Answers
  BY <1>1, <1>4, <1>5, HeadIssued
<1>6. \A k : Reply(k).session <= server'.issued
  BY <1>4, ServerMoves DEF Reply, None
<1>7. \A answer \in Answer :
        LET m == [Running EXCEPT !.phase = "answered", !.answer = answer] IN
          m \in MutationType /\ m.answer = answer
  BY <1>2 DEF MutationType
<1>8. CASE StartMutation
  <2>. DEFINE login == [Running EXCEPT !.phase = "sent"]
              logout == [Running EXCEPT !.phase = "sent", !.proof = store.csrf,
                                        !.again = (store.csrf = None)]
  <2>1. login \in MutationType /\ login.answer = Running.answer
    BY <1>2 DEF MutationType
  <2>2. logout \in MutationType /\ logout.answer = Running.answer
    BY <1>2 DEF MutationType, StoreType
  <2>3. Run(login) \/ Run(logout)
    BY <1>8 DEF StartMutation
  <2>. HIDE DEF login, logout
  <2>4. Answers
    BY <1>5, <2>1, <2>2, <2>3
  <2>. QED
    BY <1>1, <1>3, <1>4, <2>4, DisplayStays DEF ChecksTrue
<1>9. CASE AnswerLogin
  <2>1. ASSUME Admit PROVE server'.cookie <= server'.issued /\ Granted(server'.cookie) \in Answer
    <3>1. server.issued \in Nat
      BY <1>4, ServerMoves
    <3>2. server'.cookie = server.issued + 1 /\ server'.issued = server.issued + 1
      BY <2>1 DEF Admit
    <3>3. Granted(server'.cookie) \in Answer
      BY <2>1, AdmitType, AnswerTypes
    <3>. QED
      BY <3>1, <3>2, <3>3
  <2>2. \E answer \in Answer :
          /\ answer.session <= server'.issued
          /\ Run([Running EXCEPT !.phase = "answered", !.answer = answer])
    <3>1. CASE Admit /\ Run([Running EXCEPT !.phase = "answered", !.answer = Granted(server'.cookie)])
      <4>1. Granted(server'.cookie).session = server'.cookie
        BY DEF Granted
      <4>. QED
        BY <2>1, <3>1, <4>1
    <3>2. CASE Run([Running EXCEPT !.phase = "answered", !.answer = Reply("ended")])
      BY <1>6, <3>2, AnswerTypes
    <3>3. CASE Run([Running EXCEPT !.phase = "answered", !.answer = Reply("outage")])
      BY <1>6, <3>3, AnswerTypes
    <3>. QED
      BY <1>9, <3>1, <3>2, <3>3 DEF AnswerLogin
  <2>3. Answers
    BY <1>5, <1>7, <2>2
  <2>. QED
    BY <1>1, <1>3, <1>4, <2>3, DisplayStays DEF ChecksTrue
<1>10. CASE AnswerLogout
  <2>1. Resent(Running) \in MutationType /\ Resent(Running).answer = Running.answer
    BY <1>2, Ranges DEF MutationType, Resent
  <2>2. \A proof \in Maybe :
          LET m == [Running EXCEPT !.proof = proof] IN m \in MutationType /\ m.answer = Running.answer
    BY <1>2 DEF MutationType
  <2>3. server.cookie \in Maybe
    BY DEF IInv, TypeOK
  <2>4. \/ Run(Resent(Running))
        \/ Run([Running EXCEPT !.proof = server.cookie])
        \/ \E answer \in {Reply("gone"), Reply("ended"), Reply("outage")} :
             Run([Running EXCEPT !.phase = "answered", !.answer = answer])
    BY <1>10 DEF AnswerLogout
  <2>5. \A answer \in {Reply("gone"), Reply("ended"), Reply("outage")} :
          answer \in Answer /\ answer.session <= server'.issued
    BY <1>6, AnswerTypes
  <2>6. Answers
    BY <1>5, <1>7, <2>1, <2>2, <2>3, <2>4, <2>5
  <2>. QED
    BY <1>1, <1>3, <1>4, <2>6, DisplayStays DEF ChecksTrue
<1>11. CASE AbandonMutation
  <2>1. Answers
    BY <1>1, <1>4, <1>11, TailIssued DEF AbandonMutation
  <2>. QED
    BY <1>1, <1>3, <1>4, <2>1, DisplayStays DEF ChecksTrue
<1>. QED
  BY <1>8, <1>9, <1>10, <1>11

\* A login that is still current signs in when it lands, as the last of the queue; no other answer
\* finds anybody on display.
LEMMA SettleMutationShows == ASSUME IInv, AInv, DInv, SettleMutation PROVE DInv' /\ Keeps
<1>1. /\ mutations # <<>> /\ mutations' = Tail(mutations)
      /\ store' = IF Running.kind = "login" THEN LandLogin(Running) ELSE LandLogout(Running)
      /\ UNCHANGED <<server, checks, fired>>
  BY DEF SettleMutation
<1>2. /\ store \in StoreType /\ Running \in MutationType /\ Running.answer.session \in Maybe
      /\ 1 \in 1 .. Len(mutations) /\ Running = mutations[1]
  BY <1>1, RunningType DEF IInv, TypeOK, MutationType, Answer
<1>3. Moves
  BY <1>1 DEF Moves
<1>4. Answers
  BY <1>1, <1>3, TailIssued
<1>5. store.snapshot.identity = None /\ Keeps
  BY <1>1 DEF DInv, Displayed, Keeps
<1>6. ASSUME Unchanged(store', store) PROVE DInv'
  BY <1>1, <1>3, <1>4, <1>6, DisplayStays DEF ChecksTrue
<1>7. ASSUME NEW revocation \in Revocation, store' = Clear(store, revocation) PROVE DInv'
  <2>1. /\ Halted(store', store) /\ store'.timers = store.timers
        /\ store'.snapshot.identity = None /\ store'.generation = store.generation
    BY <1>2, <1>7, Halting, ClearStore, Hiding
  <2>. QED
    BY <1>1, <1>4, <2>1, DisplayHalts
<1>8. CASE Running.kind = "login" /\ Running.answer.kind = "session"
  <2>. DEFINE session == Running.answer.session
              known == [store EXCEPT !.csrf = session]
  <2>1. /\ known \in StoreType /\ Unchanged(known, store)
    BY <1>2 DEF StoreType, Unchanged
  <2>2. store' = IF Superseded(Running.epoch) THEN known ELSE Adopt(known, session)
    BY <1>1, <1>8 DEF LandLogin
  <2>3. session \in Maybe /\ session <= server.issued
    BY <1>2 DEF DInv, Issued
  <2>. HIDE DEF known, session
  <2>4. CASE Superseded(Running.epoch)
    <3>1. store' = known
      BY <2>2, <2>4
    <3>. QED
      BY <1>5, <1>6, <2>1, <3>1
  <2>5. CASE ~Superseded(Running.epoch)
    <3>1. store' = Adopt(known, session)
      BY <2>2, <2>5
    <3>2. /\ store'.credential = session /\ store'.snapshot.identity = session
          /\ store'.timers = known.timers + 1 /\ store'.expiry = known.timers + 1
          /\ store'.generation = known.generation
      <4>1. store'.generation = known.generation
        BY ONLY <2>1, <2>3, <3>1, AdoptStore, Zenon
      <4>. QED
        BY ONLY <2>1, <2>3, <3>1, <4>1, Adopting, AdoptShows, Zenon
    <3>3. /\ store'.timers = store.timers + 1 /\ store'.expiry = store.timers + 1
          /\ store'.generation = store.generation
      BY <2>1, <3>2 DEF Unchanged
    <3>4. mutations' = <<>>
      BY <1>1, <2>5, <3>3, TailShape DEF Superseded
    <3>5. \A c \in checks : c.epoch = store.generation => c.answer.kind # "ended"
      <4>1. \A c \in checks : c.epoch = store.generation => ~c.sent
        BY <1>1 DEF IInv, Control, AskedAlone
      <4>. QED
        BY <4>1 DEF IInv, Control, Judged, Nothing, Reply
    <3>6. /\ server' = server /\ fired' = fired /\ checks' = checks
          /\ store'.credential = session /\ store'.snapshot.identity = session
      BY <1>1, <3>2
    <3>. QED
      BY <1>5, <2>3, <3>3, <3>4, <3>5, <3>6, SessionShown
  <2>. QED
    BY <2>4, <2>5
<1>9. CASE ~(Running.kind = "login" /\ Running.answer.kind = "session")
  <2>1. store' = store \/ \E revocation \in Revocation : store' = Clear(store, revocation)
    BY <1>1, <1>9 DEF LandLogin, LandLogout, Revocation
  <2>2. ASSUME store' = store PROVE DInv'
    BY <1>6, <2>2 DEF Unchanged
  <2>. QED
    BY <1>5, <1>7, <2>1, <2>2
<1>. QED
  BY <1>5, <1>8, <1>9

LEMMA InvalidateShows ==
    ASSUME IInv, DInv, NEW flight \in 0 .. MaxChecks,
           store' = [Invalidate(store) EXCEPT !.flight = flight], fired' \in {0, fired},
           UNCHANGED <<server, mutations, checks>>
    PROVE  DInv'
<1>. DEFINE t == Invalidate(store)
<1>1. store \in StoreType
  BY DEF IInv, TypeOK
<1>2. /\ t \in StoreType /\ Halted(t, store) /\ t.timers = store.timers
      /\ t.snapshot.identity = None /\ t.generation = store.generation + 1
  BY <1>1, InvalidateStore, Fencing, Hiding DEF Revocation
<1>. HIDE DEF t
<1>3. /\ Halted(store', store) /\ store'.timers = store.timers
      /\ store'.snapshot.identity = None /\ store'.generation = store.generation + 1
  BY <1>2 DEF t, StoreType, Halted
<1>4. Answers
  BY AnswersStay DEF Moves
<1>. QED
  BY <1>3, <1>4, DisplayHalts

\* The timer that still counts fired for the session on display.
LEMMA ExpireShows == ASSUME IInv, DInv, Expire PROVE DInv' /\ Keeps
<1>1. CASE TimerIsCurrent
  <2>1. /\ store' = [Invalidate(store) EXCEPT !.flight = store.flight] /\ fired # 0 /\ fired' = 0
        /\ UNCHANGED <<server, mutations, checks>>
    BY <1>1 DEF Expire
  <2>2. store.flight \in 0 .. MaxChecks
    BY DEF IInv, TypeOK, StoreType
  <2>3. Gone
    BY <1>1, <2>1 DEF TimerIsCurrent, DInv, Honest
  <2>. QED
    BY <2>1, <2>2, <2>3, InvalidateShows DEF Keeps
<1>2. CASE ~TimerIsCurrent
  <2>1. UNCHANGED <<server, store, mutations, checks>> /\ fired' = 0
    BY <1>2 DEF Expire
  <2>2. DInv'
    BY <2>1 DEF DInv, Held, Issued, Displayed, Honest, Gone, IInv, TypeOK, StoreType
  <2>. QED
    BY <2>1, <2>2 DEF Keeps
<1>. QED
  BY <1>1, <1>2

LEMMA TimerElapsesShows == ASSUME IInv, DInv, TimerElapses PROVE DInv' /\ Keeps
<1>1. /\ store.expiry # 0 /\ store.credential \notin server.live /\ fired' = store.expiry
      /\ UNCHANGED <<server, store, mutations, checks>>
  BY DEF TimerElapses
<1>. QED
  BY <1>1 DEF DInv, Held, Issued, Displayed, Honest, Gone, Keeps

LEMMA BorrowersShow ==
    ASSUME IInv, DInv, MaxBad = 0, MaxReconnects = 0, channel = Idle, Borrowers
    PROVE  DInv' /\ Keeps
<1>1. CASE Acquire
  <2>1. UNCHANGED <<server, store, mutations, checks, fired>>
    BY <1>1 DEF Acquire
  <2>. QED
    BY <2>1 DEF DInv, Held, Issued, Displayed, Honest, Gone, Keeps
<1>2. CASE ProtectedFailure
  <2>1. /\ store.credential # None /\ store.credential \notin server.live
        /\ store' = Invalidate(store)
        /\ UNCHANGED <<server, mutations, checks, fired>>
    BY <1>2 DEF ProtectedFailure, IInv, TypeOK
  <2>2. Gone
    BY <2>1 DEF DInv, Displayed, Gone
  <2>3. DInv'
    BY <2>1, InvalidateFlight, InvalidateShows, Ranges
  <2>. QED
    BY <2>2, <2>3 DEF Keeps
<1>3. ~Reconnect /\ ~GiveUp
  BY DEF Reconnect, GiveUp, Idle, IInv, TypeOK
<1>. QED
  BY <1>1, <1>2, <1>3 DEF Borrowers

LEMMA ServerActsShows == ASSUME IInv, DInv, ServerActs PROVE DInv' /\ Keeps
<1>1. UNCHANGED <<store, mutations, checks, fired>> /\ Moves
  BY DEF ServerActs, Moves
<1>2. Answers
  BY <1>1, AnswersStay
<1>. QED
  BY <1>1, <1>2, StoreUnchanged, DisplayStays DEF ChecksTrue

LEMMA NextShows ==
    ASSUME IInv, AInv, DInv, MaxBad = 0, MaxReconnects = 0, channel = Idle, [Next]_vars
    PROVE  DInv' /\ Keeps
<1>1. CASE UserCalls
  BY <1>1, UserCallsShow
<1>2. CASE Revalidate
  BY <1>2, RevalidateShows
<1>3. CASE ChecksRun
  BY <1>3, AskShows, AnswerCheckShows, SettleCheckShows DEF ChecksRun
<1>4. CASE MutationsRun
  BY <1>4, QueueShows, SettleMutationShows DEF MutationsRun
<1>5. CASE Borrowers
  BY <1>5, BorrowersShow
<1>6. CASE TimerElapses \/ Expire \/ ServerActs
  BY <1>6, TimerElapsesShows, ExpireShows, ServerActsShows
<1>7. CASE UNCHANGED vars
  BY <1>7 DEF vars, DInv, Held, Issued, Displayed, Honest, Gone, Keeps
<1>. QED
  BY <1>1, <1>2, <1>3, <1>4, <1>5, <1>6, <1>7 DEF Next

-----------------------------------------------------------------------------
(* The theorems *)

\* Every variable of the store keeps its type, and no more mutations wait than the queue's bound.
THEOREM StoreTypeCorrect == Spec => []TypeOK
<1>1. IInv => TypeOK
  BY DEF IInv
<1>. QED
  BY <1>1, Invariance, PTL

\* After logout(), expiry, a rejection or an invalidation, no answer that arrives late signs in
\* again: only a later login() does.
THEOREM SignedOutForGood == Spec => []SignedOutStaysOut
<1>1. IInv => SignedOutStaysOut
  BY DEF IInv, Control, TornDown, SignedOutStaysOut
<1>. QED
  BY <1>1, Invariance, PTL

\* With no mutation outstanding, the session the store vouches for is the one the cookie names,
\* unless another tab changed it: the stale answer of a check or a login signs in no other.
THEOREM QuietlyAgrees == Spec => []QuietAgreement
<1>1. IInv /\ AInv => QuietAgreement
  BY DEF AInv, Agreement, QuietAgreement
<1>. QED
  BY <1>1, AgreementInvariance, PTL

\* A lease whose lifetime still runs was handed out for the session the store vouches for now,
\* unless another tab changed the cookie: no protected call outlives its session.
THEOREM LeasesFollow == Spec => []LeasesFollowSession
<1>1. IInv /\ AInv => LeasesFollowSession
  BY DEF AInv, Agreement, LeasesFollowSession
<1>. QED
  BY <1>1, AgreementInvariance, PTL

\* When the store reports a logout as confirmed, the server holds no session this tab's cookie could
\* still use, until another tab signs in.
THEOREM ConfirmedIsGone == Spec => []ConfirmedMeansGone
<1>1. IInv /\ AInv => ConfirmedMeansGone
  BY Ranges DEF IInv, TypeOK, AInv, Agreement, ConfirmedMeansGone
<1>. QED
  BY <1>1, AgreementInvariance, PTL

\* As long as no channel reconnects, the user's last call, a login that the server granted, signs
\* in when its answer lands: only another call could supersede it.  A channel that gives up the
\* check which the login aborted invalidates the session, and the login with it.
THEOREM LastLoginSignsIn == MaxReconnects = 0 => (Spec => LastLoginLands)
<1>. SUFFICES ASSUME MaxReconnects = 0 PROVE Spec => LastLoginLands
  OBVIOUS
<1>1. ASSUME IInv, AInv, LastCall, mutations # <<>>, SettleMutation,
             Running.answer.kind = "session", Running.call = calls
      PROVE  store'.credential = Running.answer.session
  <2>1. 1 \in 1 .. Len(mutations) /\ Running = mutations[1] /\ Running \in MutationType
    BY <1>1, RunningType
  <2>2. Running.kind = "login" /\ ~Superseded(Running.epoch)
    BY <1>1, <2>1 DEF AInv, QueueShape, LastCall, Superseded
  <2>. DEFINE session == Running.answer.session
              known == [store EXCEPT !.csrf = session]
  <2>3. store' = Adopt(known, session)
    BY <1>1, <2>2 DEF SettleMutation, LandLogin
  <2>4. session \in Maybe
    BY <2>1 DEF MutationType, Answer
  <2>5. known \in StoreType
    BY <1>1, <2>4 DEF IInv, TypeOK, StoreType
  <2>. HIDE DEF session, known
  <2>6. store'.credential = session
    BY <2>3, <2>4, <2>5, Adopting
  <2>. QED
    BY <2>6 DEF session
<1>2. IInv /\ AInv /\ LastCall =>
          [mutations # <<>> /\ SettleMutation /\ Running.answer.kind = "session"
               /\ Running.call = calls => store'.credential = Running.answer.session]_vars
  BY <1>1
<1>3. Spec => []LastCall
  BY LastCallInvariance
<1>. QED
  BY <1>2, <1>3, AgreementInvariance, PTL DEF LastLoginLands

\* "A slow network never shows a signed-in user as a guest", as long as no channel reconnects and
\* the server answers nothing untrustworthy: whatever times out, the identity on display goes only
\* by a call of the user's or when the server no longer holds its session.
THEOREM SlowNetworkKeepsTheUser == MaxReconnects = 0 /\ MaxBad = 0 => (Spec => KeepsTheUser)
<1>. SUFFICES ASSUME MaxReconnects = 0, MaxBad = 0 PROVE Spec => KeepsTheUser
  OBVIOUS
<1>1. Init => DInv
  BY InitDInv
<1>2. IInv /\ AInv /\ LastCall /\ DInv /\ [Next]_vars => DInv'
  BY NextShows DEF LastCall
<1>3. IInv /\ AInv /\ LastCall /\ DInv /\ [Next]_vars =>
          [store.snapshot.identity # None /\ store'.snapshot.identity = None /\ ~UserCalled =>
               store.snapshot.identity \notin server.live]_vars
  BY NextShows DEF LastCall, Keeps, Gone, UserCalled
<1>4. Spec => []LastCall
  BY LastCallInvariance
<1>. QED
  BY <1>1, <1>2, <1>3, <1>4, AgreementInvariance, PTL DEF Spec, KeepsTheUser
=============================================================================
