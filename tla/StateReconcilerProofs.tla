----------------------- MODULE StateReconcilerProofs -----------------------
(***************************************************************************)
(* The safety of StateReconciler for every set of values and every bound.  *)
(* Its safety invariants are not inductive: what makes them true is that   *)
(* tickets and revisions only grow, that no read starts while a write is   *)
(* pending, and that the newest write is always the last one the drain     *)
(* will run.                                                               *)
(***************************************************************************)
EXTENDS StateReconciler, TLAPS

\* The installed controller is the one of the current lifetime.
LifetimeInv == controller = IF active THEN lifetimes ELSE 0

\* Reads carry tickets, revisions and lifetimes already handed out.
StampsInv == \A p \in pulls : /\ p.ticket <= latestPull
                              /\ p.startedAt <= writeRevision

\* A pending write has outdated every read in flight.
WriteOutdatesReads == writing => \A p \in pulls : p.startedAt # writeRevision

\* The newest read at the current revision belongs to the current lifetime.
NewestReadInv == \A p \in pulls : MayApply(p) => p.lifetime = controller

\* Nothing waits behind an idle drain, and a waiting write has not run.
QueueInv == queued # Nothing => writing /\ ~queued.persisted

\* The newest write is the last one the drain will run, and the slot holds it once it ran.
OwedInv ==
    owed # Nothing =>
      /\ queued # Nothing => queued.value = owed
      /\ queued = Nothing /\ writing =>
           inflight.value = owed /\ (inflight.persisted => stored = owed)
      /\ ~writing => stored = owed

IInv == /\ TypeOK /\ LifetimeInv /\ StampsInv /\ WriteOutdatesReads /\ NewestReadInv
        /\ QueueInv /\ OwedInv /\ PendingWriteIsShown

-----------------------------------------------------------------------------
\* What a started read looks like: it holds the newest ticket and the current revision.
LEMMA BeginPullStamps ==
    ASSUME TypeOK, NEW isInitial \in BOOLEAN, NEW lifetime \in Lifetime,
           BeginPull(isInitial, lifetime)
    PROVE  /\ latestPull' = latestPull + 1
           /\ latestPull' \in Nat
           /\ pulls' \subseteq Pull
           /\ \A p \in pulls' : \/ p \in pulls
                                \/ /\ p.ticket = latestPull + 1
                                   /\ p.startedAt = writeRevision
                                   /\ p.lifetime = lifetime
<1>. DEFINE new == [ticket |-> latestPull + 1, startedAt |-> writeRevision,
                    initial |-> isInitial, lifetime |-> lifetime, result |-> Nothing]
<1>1. writeRevision \in Nat
  BY BoundsAssumption DEF TypeOK
<1>2. new \in Pull
  BY <1>1 DEF Pull, TypeOK
<1>3. pulls' = pulls \union {new}
  BY DEF BeginPull
<1>. QED
  BY <1>2, <1>3 DEF BeginPull, TypeOK

\* A request either starts a read, when no write is pending, or only marks one as wanted.
LEMMA RequestPullCases ==
    ASSUME TypeOK, NEW isInitial \in BOOLEAN, NEW lifetime \in Lifetime,
           RequestPull(isInitial, lifetime)
    PROVE  /\ deferredPull' \in {"none", "initial", "change"}
           /\ \/ writing /\ UNCHANGED <<pulls, latestPull>>
              \/ ~writing /\ BeginPull(isInitial, lifetime)
  BY DEF RequestPull, DeferPull, TypeOK

LEMMA InitIInv == Init => IInv
<1>. SUFFICES ASSUME Init PROVE IInv
  OBVIOUS
<1>1. TypeOK
  <2>1. 0 \in Lifetime /\ 0 \in 0 .. MaxWrites /\ 0 \in 0 .. MaxExternal
    BY BoundsAssumption DEF Lifetime
  <2>. QED
    BY <2>1 DEF Init, TypeOK
<1>2. LifetimeInv /\ StampsInv /\ WriteOutdatesReads /\ NewestReadInv
  BY DEF Init, LifetimeInv, StampsInv, WriteOutdatesReads, NewestReadInv, writing
<1>. QED
  BY <1>1, <1>2 DEF Init, IInv, QueueInv, OwedInv, PendingWriteIsShown, writing

\* The invariant once the reads in flight have changed in a way that starts none of them.
LEMMA AnswerPreserves == ASSUME IInv, NEW p \in pulls, AnswerPull(p) PROVE IInv'
<1>. DEFINE answered == [p EXCEPT !.result = stored]
<1>1. /\ answered \in Pull
      /\ answered.ticket = p.ticket
      /\ answered.startedAt = p.startedAt
      /\ answered.lifetime = p.lifetime
  BY DEF IInv, TypeOK, Pull
<1>2. pulls' = (pulls \ {p}) \union {answered}
  BY DEF AnswerPull
<1>3. TypeOK'
  BY <1>1, <1>2 DEF IInv, TypeOK, AnswerPull
<1>4. StampsInv' /\ WriteOutdatesReads' /\ NewestReadInv'
  BY <1>1, <1>2 DEF IInv, StampsInv, WriteOutdatesReads, NewestReadInv, MayApply, writing,
                    AnswerPull
<1>. QED
  BY <1>3, <1>4 DEF IInv, LifetimeInv, QueueInv, OwedInv, PendingWriteIsShown, writing, Shown,
                    AnswerPull

LEMMA SettlePullPreserves == ASSUME IInv, NEW p \in pulls, SettlePull(p) PROVE IInv'
<1>1. p \in Pull /\ p.result \in Slot
  BY DEF IInv, TypeOK, Pull, SettlePull
<1>2. TypeOK'
  BY <1>1, ValuesAssumption DEF IInv, TypeOK, SettlePull, Slot
<1>3. writing => mirror' = mirror
  BY DEF IInv, WriteOutdatesReads, MayApply, SettlePull
<1>. QED
  BY <1>2, <1>3 DEF IInv, LifetimeInv, StampsInv, WriteOutdatesReads, NewestReadInv, QueueInv,
                    OwedInv, PendingWriteIsShown, MayApply, writing, Shown, SettlePull

LEMMA RejectPullPreserves == ASSUME IInv, NEW p \in pulls, RejectPull(p) PROVE IInv'
  BY DEF IInv, TypeOK, LifetimeInv, StampsInv, WriteOutdatesReads, NewestReadInv, QueueInv,
         OwedInv, PendingWriteIsShown, MayApply, writing, Shown, RejectPull

LEMMA EnqueuePreserves == ASSUME IInv, NEW value \in Slot, Enqueue(value) PROVE IInv'
<1>. DEFINE write == [value |-> value, lifetime |-> controller, persisted |-> FALSE]
<1>a. write \in Write
  BY DEF IInv, TypeOK, Write
<1>b. write # Nothing
  BY <1>a, NothingAssumption
<1>1. \/ writing /\ queued' = write /\ inflight' = inflight
      \/ ~writing /\ inflight' = write /\ queued' = queued
  BY DEF Enqueue
<1>2. writeRevision \in Nat /\ writeRevision' = writeRevision + 1 /\ writeRevision' <= MaxWrites
  BY BoundsAssumption DEF IInv, TypeOK, Enqueue
<1>3. TypeOK'
  <2>. HIDE DEF write
  <2>1. inflight' \in Write \union {Nothing} /\ queued' \in Write \union {Nothing}
    BY <1>a, <1>1 DEF IInv, TypeOK
  <2>2. mirror' \in Values
    BY ValuesAssumption DEF Enqueue, Shown, Slot
  <2>3. writeRevision' \in 0 .. MaxWrites
    BY <1>2, BoundsAssumption
  <2>4. owed' = value
        /\ UNCHANGED <<active, controller, latestPull, deferredPull, pulls, stored, notices,
                       lifetimes, externals>>
    BY DEF Enqueue
  <2>. QED
    BY <2>1, <2>2, <2>3, <2>4 DEF IInv, TypeOK
<1>4. \A p \in pulls : p.startedAt \in Nat /\ p.startedAt < writeRevision'
  BY <1>2 DEF IInv, TypeOK, StampsInv, Pull
<1>5. StampsInv' /\ WriteOutdatesReads' /\ NewestReadInv'
  BY <1>2, <1>4 DEF IInv, StampsInv, WriteOutdatesReads, NewestReadInv, MayApply, Enqueue
<1>6. QueueInv' /\ OwedInv' /\ PendingWriteIsShown'
  BY <1>b, <1>1 DEF IInv, QueueInv, OwedInv, PendingWriteIsShown, writing, Enqueue
<1>. QED
  BY <1>3, <1>5, <1>6 DEF IInv, LifetimeInv, Enqueue

LEMMA PersistWritePreserves == ASSUME IInv, PersistWrite PROVE IInv'
<1>1. inflight \in Write
  BY DEF IInv, TypeOK, PersistWrite, writing
<1>2. /\ inflight' \in Write /\ inflight' # Nothing
      /\ inflight'.value = inflight.value
      /\ stored' = inflight.value /\ stored' \in Slot
  BY <1>1, NothingAssumption DEF PersistWrite, Write
<1>3. TypeOK'
  <2>1. notices' \in Nat
    BY DEF IInv, TypeOK, PersistWrite
  <2>. QED
    BY <1>2, <2>1 DEF IInv, TypeOK, PersistWrite
<1>4. QueueInv' /\ OwedInv'
  BY <1>2 DEF IInv, QueueInv, OwedInv, writing, PersistWrite
<1>. QED
  BY <1>2, <1>3, <1>4 DEF IInv, LifetimeInv, StampsInv, WriteOutdatesReads, NewestReadInv,
                          PendingWriteIsShown, MayApply, writing, Shown, PersistWrite

\* What the drain leaves, whichever way the write before it settled.
LEMMA DrainEffect ==
    ASSUME IInv, writing, Drain, UNCHANGED <<active, controller, writeRevision, lifetimes>>
    PROVE  /\ latestPull' \in Nat /\ pulls' \subseteq Pull
           /\ inflight' \in Write \union {Nothing}
           /\ queued' = Nothing
           /\ deferredPull' \in {"none", "initial", "change"}
           /\ StampsInv' /\ WriteOutdatesReads' /\ NewestReadInv'
<1>1. controller \in Lifetime /\ writeRevision \in Nat
  BY BoundsAssumption DEF IInv, TypeOK
<1>2. CASE queued # Nothing
  <2>1. inflight' \in Write /\ inflight' # Nothing
    BY <1>1, <1>2, NothingAssumption DEF IInv, TypeOK, Drain, Write
  <2>. QED
    BY <1>2, <2>1 DEF IInv, TypeOK, Drain, StampsInv, WriteOutdatesReads, NewestReadInv,
                      MayApply
<1>3. CASE queued = Nothing /\ ~(deferredPull # "none" /\ active)
  BY <1>3 DEF IInv, TypeOK, Drain, StampsInv, WriteOutdatesReads, NewestReadInv, MayApply,
              writing
<1>4. CASE queued = Nothing /\ deferredPull # "none" /\ active
  <2>1. BeginPull(deferredPull = "initial", controller) /\ inflight' = Nothing
    BY <1>4 DEF Drain
  <2>2. /\ latestPull' = latestPull + 1 /\ latestPull' \in Nat /\ pulls' \subseteq Pull
        /\ \A p \in pulls' : \/ p \in pulls
                             \/ /\ p.ticket = latestPull + 1
                                /\ p.startedAt = writeRevision
                                /\ p.lifetime = controller
    BY <1>1, <2>1, BeginPullStamps DEF IInv
  <2>3. \A p \in pulls : p.ticket \in Nat /\ p.startedAt \in Nat /\ p.ticket <= latestPull
    BY DEF IInv, TypeOK, Pull, StampsInv
  <2>4. StampsInv'
    BY <1>1, <2>2, <2>3 DEF IInv, TypeOK, StampsInv
  <2>5. NewestReadInv'
    BY <2>2, <2>3 DEF IInv, TypeOK, NewestReadInv, MayApply
  <2>. QED
    BY <1>4, <2>1, <2>2, <2>4, <2>5 DEF Drain, WriteOutdatesReads, writing
<1>. QED
  BY <1>2, <1>3, <1>4

LEMMA ResolveWritePreserves == ASSUME IInv, ResolveWrite PROVE IInv'
<1>1. TypeOK' /\ StampsInv' /\ WriteOutdatesReads' /\ NewestReadInv' /\ queued' = Nothing
  BY DrainEffect DEF IInv, TypeOK, ResolveWrite
<1>2. \/ queued # Nothing /\ inflight' = [queued EXCEPT !.lifetime = controller]
      \/ queued = Nothing /\ inflight' = Nothing
  BY DEF ResolveWrite, Drain
<1>3. ASSUME queued # Nothing
      PROVE  inflight' # Nothing /\ inflight'.value = queued.value /\ ~inflight'.persisted
  <2>1. queued \in Write /\ controller \in Lifetime /\ inflight' = [queued EXCEPT !.lifetime = controller]
    BY <1>2, <1>3 DEF IInv, TypeOK
  <2>2. inflight' \in Write /\ inflight'.value = queued.value /\ ~inflight'.persisted
    BY <1>3, <2>1 DEF IInv, Write, QueueInv
  <2>. QED
    BY <2>2, NothingAssumption
<1>4. OwedInv'
  <2>1. CASE queued # Nothing
    BY <1>1, <1>2, <1>3, <2>1 DEF IInv, OwedInv, writing, ResolveWrite
  <2>2. CASE queued = Nothing
    BY <1>1, <1>2, <2>2 DEF IInv, OwedInv, writing, ResolveWrite
  <2>. QED
    BY <2>1, <2>2
<1>. QED
  BY <1>1, <1>4 DEF IInv, LifetimeInv, QueueInv, PendingWriteIsShown, writing, Shown,
                    ResolveWrite

LEMMA RejectWritePreserves == ASSUME IInv, RejectWrite PROVE IInv'
<1>1. TypeOK' /\ StampsInv' /\ WriteOutdatesReads' /\ NewestReadInv' /\ queued' = Nothing
  BY DrainEffect DEF IInv, TypeOK, RejectWrite
<1>2. \/ queued # Nothing /\ inflight' = [queued EXCEPT !.lifetime = controller]
      \/ queued = Nothing /\ inflight' = Nothing
  BY DEF RejectWrite, Drain
<1>3. ASSUME queued # Nothing
      PROVE  inflight' # Nothing /\ inflight'.value = queued.value /\ ~inflight'.persisted
  <2>1. queued \in Write /\ controller \in Lifetime /\ inflight' = [queued EXCEPT !.lifetime = controller]
    BY <1>2, <1>3 DEF IInv, TypeOK
  <2>2. inflight' \in Write /\ inflight'.value = queued.value /\ ~inflight'.persisted
    BY <1>3, <2>1 DEF IInv, Write, QueueInv
  <2>. QED
    BY <2>2, NothingAssumption
<1>4. OwedInv'
  <2>1. CASE queued # Nothing
    BY <1>1, <1>2, <1>3, <2>1 DEF IInv, OwedInv, writing, RejectWrite
  <2>2. CASE queued = Nothing
    BY <1>1, <1>2, <2>2 DEF IInv, OwedInv, writing, RejectWrite
  <2>. QED
    BY <2>1, <2>2
<1>. QED
  BY <1>1, <1>4 DEF IInv, LifetimeInv, QueueInv, PendingWriteIsShown, writing, Shown,
                    RejectWrite

LEMMA StartPreserves == ASSUME IInv, Start PROVE IInv'
<1>1. lifetimes' \in Lifetime /\ lifetimes' = lifetimes + 1 /\ controller' = lifetimes'
  BY BoundsAssumption DEF IInv, TypeOK, Start, Lifetime
<1>2. /\ deferredPull' \in {"none", "initial", "change"}
      /\ \/ writing /\ UNCHANGED <<pulls, latestPull>>
         \/ ~writing /\ BeginPull(TRUE, lifetimes + 1)
  BY <1>1, RequestPullCases DEF IInv, Start
<1>3. CASE writing /\ UNCHANGED <<pulls, latestPull>>
  BY <1>1, <1>2, <1>3 DEF IInv, TypeOK, LifetimeInv, StampsInv, WriteOutdatesReads,
       NewestReadInv, QueueInv, OwedInv, PendingWriteIsShown, MayApply, writing, Shown, Start
<1>4. CASE ~writing /\ BeginPull(TRUE, lifetimes + 1)
  <2>1. /\ latestPull' = latestPull + 1 /\ latestPull' \in Nat /\ pulls' \subseteq Pull
        /\ \A p \in pulls' : \/ p \in pulls
                             \/ /\ p.ticket = latestPull + 1
                                /\ p.startedAt = writeRevision
                                /\ p.lifetime = lifetimes + 1
    BY <1>1, <1>4, BeginPullStamps DEF IInv
  <2>2. \A p \in pulls : p.ticket \in Nat /\ p.startedAt \in Nat /\ p.ticket <= latestPull
    BY DEF IInv, TypeOK, Pull, StampsInv
  <2>3. StampsInv'
    BY <2>1, <2>2, BoundsAssumption DEF IInv, TypeOK, StampsInv, Start
  <2>4. NewestReadInv'
    BY <1>1, <2>1, <2>2 DEF IInv, TypeOK, NewestReadInv, MayApply
  <2>5. TypeOK'
    BY <1>1, <1>2, <2>1 DEF IInv, TypeOK, Start
  <2>. QED
    BY <1>1, <1>4, <2>3, <2>4, <2>5 DEF IInv, LifetimeInv, WriteOutdatesReads, QueueInv,
         OwedInv, PendingWriteIsShown, writing, Shown, Start
<1>. QED
  BY <1>2, <1>3, <1>4

LEMMA TeardownPreserves == ASSUME IInv, Teardown PROVE IInv'
<1>1. TypeOK'
  <2>1. 0 \in Lifetime
    BY BoundsAssumption DEF Lifetime
  <2>. QED
    BY <2>1 DEF IInv, TypeOK, Teardown
<1>2. LifetimeInv' /\ StampsInv' /\ WriteOutdatesReads' /\ NewestReadInv' /\ QueueInv'
  BY DEF IInv, LifetimeInv, StampsInv, WriteOutdatesReads, NewestReadInv, QueueInv, MayApply,
         writing, Teardown
<1>3. OwedInv' /\ PendingWriteIsShown'
  BY DEF IInv, QueueInv, OwedInv, PendingWriteIsShown, writing, Shown, Teardown
<1>. QED
  BY <1>1, <1>2, <1>3 DEF IInv

LEMMA NotifyPreserves == ASSUME IInv, Notify PROVE IInv'
<1>1. controller \in Lifetime /\ writeRevision \in Nat /\ notices' \in Nat
  BY BoundsAssumption DEF IInv, TypeOK, Notify
<1>2. /\ deferredPull' \in {"none", "initial", "change"}
      /\ \/ writing /\ UNCHANGED <<pulls, latestPull>>
         \/ ~writing /\ BeginPull(FALSE, controller)
  BY <1>1, RequestPullCases DEF IInv, Notify
<1>3. CASE writing /\ UNCHANGED <<pulls, latestPull>>
  BY <1>1, <1>2, <1>3 DEF IInv, TypeOK, LifetimeInv, StampsInv, WriteOutdatesReads,
       NewestReadInv, QueueInv, OwedInv, PendingWriteIsShown, MayApply, writing, Shown, Notify
<1>4. CASE ~writing /\ BeginPull(FALSE, controller)
  <2>1. /\ latestPull' = latestPull + 1 /\ latestPull' \in Nat /\ pulls' \subseteq Pull
        /\ \A p \in pulls' : \/ p \in pulls
                             \/ /\ p.ticket = latestPull + 1
                                /\ p.startedAt = writeRevision
                                /\ p.lifetime = controller
    BY <1>1, <1>4, BeginPullStamps DEF IInv
  <2>2. \A p \in pulls : p.ticket \in Nat /\ p.startedAt \in Nat /\ p.ticket <= latestPull
    BY DEF IInv, TypeOK, Pull, StampsInv
  <2>3. StampsInv'
    BY <1>1, <2>1, <2>2 DEF IInv, TypeOK, StampsInv, Notify
  <2>4. NewestReadInv'
    BY <2>1, <2>2 DEF IInv, TypeOK, NewestReadInv, MayApply, Notify
  <2>5. TypeOK'
    BY <1>1, <1>2, <2>1 DEF IInv, TypeOK, Notify
  <2>. QED
    BY <1>4, <2>3, <2>4, <2>5 DEF IInv, LifetimeInv, WriteOutdatesReads, QueueInv,
         OwedInv, PendingWriteIsShown, writing, Shown, Notify
<1>. QED
  BY <1>2, <1>3, <1>4

LEMMA ExternalChangePreserves == ASSUME IInv, NEW value \in Slot, ExternalChange(value) PROVE IInv'
<1>1. TypeOK'
  BY BoundsAssumption DEF IInv, TypeOK, ExternalChange
<1>2. OwedInv'
  <2>1. CASE queued # Nothing \/ (writing /\ ~inflight.persisted)
    BY <2>1 DEF IInv, OwedInv, QueueInv, writing, ExternalChange
  <2>2. CASE ~(queued # Nothing \/ (writing /\ ~inflight.persisted))
    BY <2>2 DEF OwedInv, ExternalChange
  <2>. QED
    BY <2>1, <2>2
<1>3. PendingWriteIsShown'
  BY DEF IInv, PendingWriteIsShown, writing, Shown, ExternalChange
<1>. QED
  BY <1>1, <1>2, <1>3 DEF IInv, LifetimeInv, StampsInv, WriteOutdatesReads, NewestReadInv,
                          QueueInv, MayApply, writing, ExternalChange

LEMMA NextIInv == IInv /\ [Next]_vars => IInv'
<1>. SUFFICES ASSUME IInv, [Next]_vars PROVE IInv'
  OBVIOUS
<1>1. CASE UNCHANGED vars
  BY <1>1 DEF vars, IInv, TypeOK, LifetimeInv, StampsInv, WriteOutdatesReads, NewestReadInv,
              QueueInv, OwedInv, PendingWriteIsShown, MayApply, writing, Shown
<1>2. ASSUME NEW p \in pulls, AnswerPull(p) \/ SettlePull(p) \/ RejectPull(p) PROVE IInv'
  BY <1>2, AnswerPreserves, SettlePullPreserves, RejectPullPreserves
<1>3. ASSUME NEW value \in Slot, Enqueue(value) \/ ExternalChange(value) PROVE IInv'
  BY <1>3, EnqueuePreserves, ExternalChangePreserves
<1>4. CASE PersistWrite \/ SettleWrite
  BY <1>4, PersistWritePreserves, ResolveWritePreserves, RejectWritePreserves DEF SettleWrite
<1>5. CASE Start \/ Teardown \/ Notify
  BY <1>5, StartPreserves, TeardownPreserves, NotifyPreserves
<1>. QED
  BY <1>1, <1>2, <1>3, <1>4, <1>5 DEF Next

LEMMA InvariantHolds == Spec => []IInv
  BY InitIInv, NextIInv, PTL DEF Spec

-----------------------------------------------------------------------------
\* Every variable keeps its type (createSourceReconciler's private state).
THEOREM TypeCorrect == Spec => []TypeOK
<1>1. IInv => TypeOK
  BY DEF IInv
<1>. QED
  BY <1>1, InvariantHolds, PTL

\* A read that may still reach the mirror was begun by the current lifetime, with no local
\* write pending: the ticket, revision and drain guards of pull() are enough together.
THEOREM ReadsNeverOverwriteNewer == Spec => []OnlyCurrentReadsLand
<1>1. IInv => OnlyCurrentReadsLand
  BY DEF IInv, OnlyCurrentReadsLand, NewestReadInv, WriteOutdatesReads, QueueInv, MayApply
<1>. QED
  BY <1>1, InvariantHolds, PTL

\* The mirror keeps showing the newest local value until its write settles.
THEOREM PendingWriteStaysShown == Spec => []PendingWriteIsShown
<1>1. IInv => PendingWriteIsShown
  BY DEF IInv
<1>. QED
  BY <1>1, InvariantHolds, PTL

\* The serialized, newest-replaces-waiting drain leaves the backend on the newest local write.
THEOREM BackendOnLatest == Spec => []BackendEndsOnLatest
<1>1. IInv => BackendEndsOnLatest
  BY DEF IInv, OwedInv, BackendEndsOnLatest
<1>. QED
  BY <1>1, InvariantHolds, PTL

-----------------------------------------------------------------------------
(* The mirror at rest, when the backend rejects nothing it was not asked to abort *)

\* A write of another lifetime, which may be cancelled, is followed by a read.
OldWriteInv == active /\ writing /\ inflight.lifetime # controller => deferredPull # "none"

\* A read that may still apply brings what the slot holds, or a change has yet to be announced.
FreshReadInv == \A p \in pulls : MayApply(p) => notices > 0 \/ p.result \in {Nothing, stored}

\* If no change has yet to be announced, the mirror will show the slot: once the writes drained, once
\* the newest read lands, or already.
AgreesInv ==
    active /\ notices = 0 =>
      \/ writing /\ (owed # Nothing \/ deferredPull # "none")
      \/ ~writing /\ \E p \in pulls : MayApply(p)
      \/ ~writing /\ (stored = Empty \/ mirror = stored)

MirrorInv == OldWriteInv /\ FreshReadInv /\ AgreesInv

LEMMA InitMirrorInv == Init => MirrorInv
  BY DEF Init, MirrorInv, OldWriteInv, FreshReadInv, AgreesInv

\* A read that starts under an active lifetime may apply, alone, and has no result yet.
LEMMA BegunPullApplies ==
    ASSUME IInv, NEW isInitial \in BOOLEAN, NEW lifetime \in Lifetime,
           BeginPull(isInitial, lifetime), active', writeRevision' = writeRevision
    PROVE  FreshReadInv' /\ \E p \in pulls' : MayApply(p)'
<1>. DEFINE new == [ticket |-> latestPull + 1, startedAt |-> writeRevision,
                    initial |-> isInitial, lifetime |-> lifetime, result |-> Nothing]
<1>1. /\ pulls' = pulls \union {new} /\ latestPull' = latestPull + 1
      /\ new.ticket = latestPull' /\ new.startedAt = writeRevision /\ new.result = Nothing
  BY DEF BeginPull
<1>. HIDE DEF new
<1>2. \A p \in pulls : p.ticket # latestPull'
  BY <1>1 DEF IInv, TypeOK, StampsInv, Pull
<1>3. FreshReadInv'
  BY <1>1, <1>2 DEF FreshReadInv, MayApply
<1>4. \E p \in pulls' : p.ticket = latestPull' /\ p.startedAt = writeRevision
  BY <1>1
<1>. QED
  BY <1>3, <1>4 DEF MayApply

LEMMA AnswerMirrors ==
    ASSUME IInv, MirrorInv, NEW p \in pulls, AnswerPull(p)
    PROVE  MirrorInv'
<1>. DEFINE answered == [p EXCEPT !.result = stored]
<1>1. /\ answered.ticket = p.ticket /\ answered.startedAt = p.startedAt /\ answered.result = stored
      /\ pulls' = (pulls \ {p}) \union {answered}
  BY DEF IInv, TypeOK, Pull, AnswerPull
<1>. HIDE DEF answered
<1>2. \A q : MayApply(q)' <=> MayApply(q)
  BY DEF MayApply, AnswerPull
<1>3. MayApply(answered) <=> MayApply(p)
  BY <1>1 DEF MayApply
<1>4. FreshReadInv'
  BY <1>1, <1>2 DEF MirrorInv, FreshReadInv, AnswerPull
<1>5. (\E q \in pulls : MayApply(q)) => \E q \in pulls' : MayApply(q)'
  BY <1>1, <1>2, <1>3
<1>6. AgreesInv'
  BY <1>5 DEF MirrorInv, AgreesInv, writing, AnswerPull
<1>. QED
  BY <1>4, <1>6 DEF MirrorInv, OldWriteInv, writing, AnswerPull

\* The newest read that lands brings the mirror what the slot holds.
LEMMA SettleMirrors ==
    ASSUME IInv, MirrorInv, NEW p \in pulls, SettlePull(p)
    PROVE  MirrorInv'
<1>1. \A q : MayApply(q)' <=> MayApply(q)
  BY DEF MayApply, SettlePull
<1>2. FreshReadInv'
  BY <1>1 DEF MirrorInv, FreshReadInv, SettlePull
<1>3. AgreesInv'
  <2>1. CASE MayApply(p)
    <3>1. ~writing /\ (notices > 0 \/ p.result = stored)
      BY <2>1 DEF IInv, WriteOutdatesReads, MayApply, MirrorInv, FreshReadInv, SettlePull
    <3>2. notices = 0 /\ stored # Empty => mirror' = stored
      BY <2>1, <3>1 DEF SettlePull
    <3>. QED
      BY <3>1, <3>2 DEF AgreesInv, writing, SettlePull
  <2>2. CASE ~MayApply(p)
    <3>1. (\E q \in pulls : MayApply(q)) => \E q \in pulls' : MayApply(q)'
      BY <1>1, <2>2 DEF SettlePull
    <3>2. mirror' = mirror
      BY <2>2 DEF SettlePull
    <3>. QED
      BY <3>1, <3>2 DEF MirrorInv, AgreesInv, writing, SettlePull
  <2>. QED
    BY <2>1, <2>2
<1>. QED
  BY <1>2, <1>3 DEF MirrorInv, OldWriteInv, writing, SettlePull

\* A read is rejected only with its lifetime, and then it was outdated.
LEMMA RejectMirrors ==
    ASSUME IInv, MirrorInv, ~Faults, NEW p \in pulls, RejectPull(p)
    PROVE  MirrorInv'
<1>1. \A q : MayApply(q)' <=> MayApply(q)
  BY DEF MayApply, RejectPull
<1>2. ~MayApply(p)
  BY DEF IInv, NewestReadInv, RejectPull, Aborted
<1>3. FreshReadInv'
  BY <1>1 DEF MirrorInv, FreshReadInv, RejectPull
<1>4. (\E q \in pulls : MayApply(q)) => \E q \in pulls' : MayApply(q)'
  BY <1>1, <1>2 DEF RejectPull
<1>5. AgreesInv'
  BY <1>4 DEF MirrorInv, AgreesInv, writing, RejectPull
<1>. QED
  BY <1>3, <1>5 DEF MirrorInv, OldWriteInv, writing, RejectPull

LEMMA EnqueueMirrors ==
    ASSUME IInv, MirrorInv, NEW value \in Slot, Enqueue(value)
    PROVE  MirrorInv'
<1>. DEFINE write == [value |-> value, lifetime |-> controller, persisted |-> FALSE]
<1>1. write \in Write /\ write.lifetime = controller
  BY DEF IInv, TypeOK, Write
<1>2. write # Nothing /\ value # Nothing
  BY <1>1, NothingAssumption, ValuesAssumption DEF Slot
<1>3. \/ writing /\ inflight' = inflight
      \/ ~writing /\ inflight' = write
  BY DEF Enqueue
<1>. HIDE DEF write
<1>4. writing'
  BY <1>2, <1>3 DEF writing
<1>5. \A p \in pulls' : ~MayApply(p)'
  BY BoundsAssumption DEF IInv, TypeOK, StampsInv, Pull, MayApply, Enqueue
<1>6. OldWriteInv'
  BY <1>1, <1>3 DEF MirrorInv, OldWriteInv, Enqueue
<1>. QED
  BY <1>2, <1>4, <1>5, <1>6 DEF MirrorInv, FreshReadInv, AgreesInv, Enqueue

LEMMA PersistMirrors ==
    ASSUME IInv, MirrorInv, PersistWrite
    PROVE  MirrorInv'
<1>1. inflight \in Write /\ inflight' = [inflight EXCEPT !.persisted = TRUE] /\ writing
  BY DEF IInv, TypeOK, PersistWrite, writing
<1>2. inflight' \in Write /\ inflight'.lifetime = inflight.lifetime
  BY <1>1 DEF Write
<1>3. writing'
  BY <1>2, NothingAssumption DEF writing
<1>4. \A p \in pulls' : ~MayApply(p)'
  BY <1>1 DEF IInv, WriteOutdatesReads, MayApply, PersistWrite
<1>5. notices' = 0 => notices = 0
  BY DEF IInv, TypeOK, PersistWrite
<1>. QED
  BY <1>1, <1>2, <1>3, <1>4, <1>5 DEF MirrorInv, OldWriteInv, FreshReadInv, AgreesInv, PersistWrite

\* What the drain leaves of a write that settled: the waiting write, the read that was put off, or,
\* with neither, a slot the mirror agrees with.
LEMMA DrainMirrors ==
    ASSUME IInv, MirrorInv, writing, Drain,
           UNCHANGED <<mirror, active, controller, writeRevision, stored, notices>>,
           queued # Nothing => owed' = owed,
           queued = Nothing /\ deferredPull = "none" /\ active =>
             notices > 0 \/ stored = Empty \/ mirror = stored
    PROVE  MirrorInv'
<1>1. CASE queued # Nothing
  <2>1. queued \in Write /\ controller \in Lifetime /\ inflight' = [queued EXCEPT !.lifetime = controller]
    BY <1>1 DEF IInv, TypeOK, Drain
  <2>2. inflight' \in Write /\ inflight'.lifetime = controller
    BY <2>1 DEF Write
  <2>3. writing'
    BY <2>2, NothingAssumption DEF writing
  <2>4. UNCHANGED <<deferredPull, pulls, latestPull>>
    BY <1>1 DEF Drain
  <2>5. \A p \in pulls' : ~MayApply(p)'
    BY <2>4 DEF IInv, WriteOutdatesReads, MayApply
  <2>. QED
    BY <1>1, <2>2, <2>3, <2>4, <2>5 DEF MirrorInv, OldWriteInv, FreshReadInv, AgreesInv
<1>2. CASE queued = Nothing /\ deferredPull # "none" /\ active
  <2>1. BeginPull(deferredPull = "initial", controller) /\ inflight' = Nothing
    BY <1>2 DEF Drain
  <2>2. controller \in Lifetime /\ (deferredPull = "initial") \in BOOLEAN
    BY DEF IInv, TypeOK
  <2>3. active'
    BY <1>2
  <2>4. FreshReadInv' /\ \E p \in pulls' : MayApply(p)'
    BY <2>1, <2>2, <2>3, BegunPullApplies
  <2>. QED
    BY <2>1, <2>4 DEF MirrorInv, OldWriteInv, AgreesInv, writing
<1>3. CASE queued = Nothing /\ ~(deferredPull # "none" /\ active)
  <2>1. inflight' = Nothing /\ UNCHANGED <<pulls, latestPull>>
    BY <1>3 DEF Drain
  <2>2. \A p \in pulls' : ~MayApply(p)'
    BY <2>1 DEF IInv, WriteOutdatesReads, MayApply
  <2>3. active /\ notices = 0 => stored = Empty \/ mirror = stored
    BY <1>3 DEF IInv, TypeOK
  <2>. QED
    BY <2>1, <2>2, <2>3 DEF MirrorInv, OldWriteInv, FreshReadInv, AgreesInv, writing
<1>. QED
  BY <1>1, <1>2, <1>3

\* A write that resolved is in the slot, and in the mirror unless it emptied the slot.
LEMMA ResolveMirrors ==
    ASSUME IInv, MirrorInv, ResolveWrite
    PROVE  MirrorInv'
<1>1. writing /\ inflight.persisted /\ Drain
      /\ UNCHANGED <<mirror, active, controller, writeRevision, stored, notices, owed>>
  BY DEF ResolveWrite
<1>2. ASSUME queued = Nothing, deferredPull = "none", active
      PROVE  notices > 0 \/ stored = Empty \/ mirror = stored
  <2>1. notices > 0 \/ owed # Nothing
    BY <1>1, <1>2 DEF IInv, TypeOK, MirrorInv, AgreesInv
  <2>2. owed # Nothing => stored = owed /\ mirror = Shown(owed)
    BY <1>1, <1>2 DEF IInv, OwedInv, PendingWriteIsShown
  <2>. QED
    BY <2>1, <2>2 DEF Shown
<1>. QED
  BY <1>1, <1>2, DrainMirrors

\* A cancelled write is an earlier lifetime's, and a read follows it.
LEMMA RejectWriteMirrors ==
    ASSUME IInv, MirrorInv, ~Faults, RejectWrite
    PROVE  MirrorInv'
<1>1. writing /\ Drain /\ Aborted(inflight.lifetime)
      /\ UNCHANGED <<mirror, active, controller, writeRevision, stored, notices>>
      /\ (queued # Nothing => owed' = owed)
  BY DEF RejectWrite
<1>2. active => deferredPull # "none"
  BY <1>1 DEF MirrorInv, OldWriteInv, Aborted
<1>. QED
  BY <1>1, <1>2, DrainMirrors

\* A read that is asked for is the newest at once, or follows the writes.
LEMMA RequestMirrors ==
    ASSUME IInv, NEW isInitial \in BOOLEAN, NEW lifetime \in Lifetime, RequestPull(isInitial, lifetime),
           active', UNCHANGED <<writeRevision, inflight>>
    PROVE  MirrorInv'
<1>1. CASE DeferPull(isInitial)
  <2>1. writing' /\ deferredPull' # "none" /\ UNCHANGED <<pulls, latestPull>>
    BY <1>1 DEF DeferPull, writing
  <2>2. \A p \in pulls' : ~MayApply(p)'
    BY <1>1, <2>1 DEF IInv, WriteOutdatesReads, MayApply, DeferPull
  <2>. QED
    BY <2>1, <2>2 DEF MirrorInv, OldWriteInv, FreshReadInv, AgreesInv
<1>2. CASE ~writing /\ BeginPull(isInitial, lifetime)
  <2>1. FreshReadInv' /\ \E p \in pulls' : MayApply(p)'
    BY <1>2, BegunPullApplies
  <2>. QED
    BY <1>2, <2>1 DEF MirrorInv, OldWriteInv, AgreesInv, writing
<1>. QED
  BY <1>1, <1>2 DEF RequestPull

LEMMA StartMirrors == ASSUME IInv, Start PROVE MirrorInv'
<1>1. lifetimes + 1 \in Lifetime
  BY BoundsAssumption DEF IInv, TypeOK, Start, Lifetime
<1>2. RequestPull(TRUE, lifetimes + 1) /\ active' /\ UNCHANGED <<writeRevision, inflight>>
  BY DEF Start
<1>. QED
  BY <1>1, <1>2, RequestMirrors

LEMMA NotifyMirrors == ASSUME IInv, Notify PROVE MirrorInv'
<1>1. controller \in Lifetime
  BY DEF IInv, TypeOK
<1>2. RequestPull(FALSE, controller) /\ active' /\ UNCHANGED <<writeRevision, inflight>>
  BY DEF Notify
<1>. QED
  BY <1>1, <1>2, RequestMirrors

LEMMA ExternalChangeMirrors ==
    ASSUME IInv, MirrorInv, NEW value \in Slot, ExternalChange(value)
    PROVE  MirrorInv'
<1>1. OldWriteInv'
  BY DEF MirrorInv, OldWriteInv, writing, ExternalChange
<1>2. CASE active
  <2>1. notices' > 0 /\ notices' # 0
    BY <1>2 DEF IInv, TypeOK, ExternalChange
  <2>. QED
    BY <1>1, <2>1 DEF MirrorInv, FreshReadInv, AgreesInv
<1>3. CASE ~active
  BY <1>1, <1>3 DEF MirrorInv, FreshReadInv, AgreesInv, MayApply, ExternalChange
<1>. QED
  BY <1>2, <1>3

LEMMA NextMirrorInv == ~Faults /\ IInv /\ MirrorInv /\ [Next]_vars => MirrorInv'
<1>. SUFFICES ASSUME ~Faults, IInv, MirrorInv, [Next]_vars PROVE MirrorInv'
  OBVIOUS
<1>1. CASE UNCHANGED vars
  BY <1>1 DEF vars, MirrorInv, OldWriteInv, FreshReadInv, AgreesInv, MayApply, writing
<1>2. ASSUME NEW p \in pulls, AnswerPull(p) \/ SettlePull(p) \/ RejectPull(p) PROVE MirrorInv'
  BY <1>2, AnswerMirrors, SettleMirrors, RejectMirrors
<1>3. ASSUME NEW value \in Slot, Enqueue(value) \/ ExternalChange(value) PROVE MirrorInv'
  BY <1>3, EnqueueMirrors, ExternalChangeMirrors
<1>4. CASE PersistWrite \/ SettleWrite
  BY <1>4, PersistMirrors, ResolveMirrors, RejectWriteMirrors DEF SettleWrite
<1>5. CASE Teardown
  BY <1>5 DEF MirrorInv, OldWriteInv, FreshReadInv, AgreesInv, MayApply, Teardown
<1>6. CASE Start \/ Notify
  BY <1>6, StartMirrors, NotifyMirrors
<1>. QED
  BY <1>1, <1>2, <1>3, <1>4, <1>5, <1>6 DEF Next

\* If the backend rejects nothing it was not asked to abort, a mirror at rest shows what an occupied
\* slot holds, whatever writes, restarts, reads and other writers came before: every change of
\* the slot is the newest local write or is followed by a read that only a newer one, or a newer local
\* write, may discard (state-reconciler.ts pull and drain).
THEOREM RestingMirrorAgrees == ~Faults => (Spec => []QuietMirrorAgrees)
<1>. SUFFICES ASSUME ~Faults PROVE Spec => []QuietMirrorAgrees
  OBVIOUS
<1>1. Init => MirrorInv
  BY InitMirrorInv
<1>2. IInv /\ MirrorInv /\ [Next]_vars => MirrorInv'
  BY NextMirrorInv
<1>3. MirrorInv => QuietMirrorAgrees
  BY DEF MirrorInv, AgreesInv, QuietMirrorAgrees, Quiet
<1>. QED
  BY <1>1, <1>2, <1>3, InvariantHolds, PTL DEF Spec
=============================================================================
