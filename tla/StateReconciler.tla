-------------------------- MODULE StateReconciler --------------------------
(***************************************************************************)
(* createSourceReconciler (packages/std/src/seam/state-reconciler.ts): one *)
(* StateSource backend feeding one mirror.  Reads and writes are promises, *)
(* so each is a call, an effect on the backend and a settlement, and any   *)
(* other callback may run in between.  The backend, its other writers and  *)
(* its change notifications are the environment.                           *)
(***************************************************************************)
EXTENDS Integers, FiniteSets

CONSTANTS
    Values,        \* what a slot may hold
    Initial,       \* the mirror's configured initial value
    Empty,         \* the empty slot: get() resolves undefined, remove() stores it
    Nothing,       \* no write, no read result
    Faults,        \* whether the backend may reject a call it was not asked to abort
    MaxWrites,     \* bound on local set and remove calls
    MaxLifetimes,  \* bound on start calls
    MaxExternal    \* bound on changes other writers make to the backend

ASSUME ValuesAssumption ==
    /\ Initial \in Values
    /\ Empty \notin Values
    /\ Nothing \notin Values \union {Empty}
    /\ Faults \in BOOLEAN

ASSUME BoundsAssumption ==
    /\ MaxWrites \in Nat /\ MaxLifetimes \in Nat /\ MaxExternal \in Nat

VARIABLES
    mirror,         \* the value the application reads
    active,         \* between start and its teardown
    controller,     \* the lifetime whose AbortController is installed, 0 for none
    writeRevision,  \* bumped by every local write
    latestPull,     \* ticket of the newest read
    inflight,       \* the write the drain awaits, Nothing when not writing
    queued,         \* the one waiting write, Nothing for none
    deferredPull,   \* "none", or the kind of pull to run when the writes drain
    pulls,          \* reads in flight
    stored,         \* the backend's slot
    notices,        \* change notifications the subscription has yet to deliver
    lifetimes,      \* start calls so far
    externals,      \* external changes so far
    owed            \* history: the newest local write the backend still has to end on

vars == <<mirror, active, controller, writeRevision, latestPull, inflight, queued,
          deferredPull, pulls, stored, notices, lifetimes, externals, owed>>

Slot == Values \union {Empty}
Lifetime == 0 .. MaxLifetimes

Pull == [ticket : Nat, startedAt : Nat, initial : BOOLEAN, lifetime : Lifetime,
         result : Slot \union {Nothing}]

Write == [value : Slot, lifetime : Lifetime, persisted : BOOLEAN]

ASSUME NothingAssumption == Nothing \notin Write

\* What the caller puts in the mirror before it persists a write.
Shown(value) == IF value = Empty THEN Initial ELSE value

writing == inflight # Nothing

\* A signal is aborted once its lifetime is torn down; a write issued outside one has none.
Aborted(lifetime) == lifetime # 0 /\ lifetime # controller

Init ==
    /\ mirror \in Values       \* the seed
    /\ stored \in Slot
    /\ active = FALSE
    /\ controller = 0
    /\ writeRevision = 0
    /\ latestPull = 0
    /\ inflight = Nothing
    /\ queued = Nothing
    /\ deferredPull = "none"
    /\ pulls = {}
    /\ notices = 0
    /\ lifetimes = 0
    /\ externals = 0
    /\ owed = Nothing

-----------------------------------------------------------------------------
(* Reads *)

\* A pull asked for while a write is pending waits for the drain; it stays initial if either was.
DeferPull(isInitial) ==
    /\ writing
    /\ deferredPull' = IF isInitial \/ deferredPull = "initial" THEN "initial" ELSE "change"
    /\ UNCHANGED <<pulls, latestPull>>

\* A pull takes a ticket and remembers the write revision and signal it starts under.
BeginPull(isInitial, lifetime) ==
    /\ latestPull' = latestPull + 1
    /\ pulls' = pulls \union
         {[ticket |-> latestPull + 1, startedAt |-> writeRevision,
           initial |-> isInitial, lifetime |-> lifetime, result |-> Nothing]}

RequestPull(isInitial, lifetime) ==
    \/ DeferPull(isInitial)
    \/ ~writing /\ BeginPull(isInitial, lifetime) /\ UNCHANGED deferredPull

\* The backend answers a read with what the slot holds at that moment.
AnswerPull(p) ==
    /\ p.result = Nothing
    /\ pulls' = (pulls \ {p}) \union {[p EXCEPT !.result = stored]}
    /\ UNCHANGED <<mirror, active, controller, writeRevision, latestPull, inflight, queued,
                   deferredPull, stored, notices, lifetimes, externals, owed>>

\* Slips: the revision check, or the ticket check, is dropped.
MayApply_IgnoresRevision(p) == active /\ p.ticket = latestPull
MayApply_IgnoresTicket(p) == active /\ p.startedAt = writeRevision

\* Only the newest read of an active lifetime, started at the current revision, may apply.
MayApply(p) == active /\ p.ticket = latestPull /\ p.startedAt = writeRevision

SettlePull(p) ==
    /\ p.result # Nothing
    /\ pulls' = pulls \ {p}
    /\ mirror' = IF ~MayApply(p) THEN mirror
                 ELSE IF p.result # Empty THEN p.result
                 ELSE IF p.initial THEN mirror ELSE Initial
    /\ UNCHANGED <<active, controller, writeRevision, latestPull, inflight, queued,
                   deferredPull, stored, notices, lifetimes, externals, owed>>

\* A rejected read is reported or, after its teardown, dropped; it applies nothing.
RejectPull(p) ==
    /\ Faults \/ Aborted(p.lifetime)
    /\ pulls' = pulls \ {p}
    /\ UNCHANGED <<mirror, active, controller, writeRevision, latestPull, inflight, queued,
                   deferredPull, stored, notices, lifetimes, externals, owed>>

-----------------------------------------------------------------------------
(* Writes *)

\* Slip: a waiting write keeps its place instead of giving it to the newer one.
Enqueue_KeepsWaiting(value) ==
    /\ writeRevision < MaxWrites
    /\ writeRevision' = writeRevision + 1
    /\ mirror' = Shown(value)
    /\ LET write == [value |-> value, lifetime |-> controller, persisted |-> FALSE]
       IN  \/ writing /\ queued' = (IF queued = Nothing THEN write ELSE queued) /\ UNCHANGED inflight
           \/ ~writing /\ inflight' = write /\ UNCHANGED queued
    /\ owed' = value
    /\ UNCHANGED <<active, controller, latestPull, deferredPull, pulls, stored, notices,
                   lifetimes, externals>>

\* set (value in Values) and remove (value = Empty), the mirror already holding the value:
\* the newest write replaces one still waiting and runs at once when none is in flight.
Enqueue(value) ==
    /\ writeRevision < MaxWrites
    /\ writeRevision' = writeRevision + 1
    /\ mirror' = Shown(value)
    /\ LET write == [value |-> value, lifetime |-> controller, persisted |-> FALSE]
       IN  \/ writing /\ queued' = write /\ UNCHANGED inflight
           \/ ~writing /\ inflight' = write /\ UNCHANGED queued
    /\ owed' = value
    /\ UNCHANGED <<active, controller, latestPull, deferredPull, pulls, stored, notices,
                   lifetimes, externals>>

\* The write in flight takes effect; a source may notify its own subscribers of it.
PersistWrite ==
    /\ writing /\ ~inflight.persisted
    /\ stored' = inflight.value
    /\ inflight' = [inflight EXCEPT !.persisted = TRUE]
    /\ notices' \in IF active THEN {notices, notices + 1} ELSE {notices}
    /\ UNCHANGED <<mirror, active, controller, writeRevision, latestPull, queued,
                   deferredPull, pulls, lifetimes, externals, owed>>

\* Slip: the deferred pull is cleared without being run.
Drain_ForgetsPull ==
    \/ /\ queued # Nothing
       /\ inflight' = [queued EXCEPT !.lifetime = controller]
       /\ queued' = Nothing
       /\ UNCHANGED <<deferredPull, pulls, latestPull>>
    \/ /\ queued = Nothing
       /\ inflight' = Nothing
       /\ deferredPull' = "none"
       /\ UNCHANGED <<queued, pulls, latestPull>>

\* drain: run the waiting write under the current signal, or the pull that waited for the writes.
Drain ==
    \/ /\ queued # Nothing
       /\ inflight' = [queued EXCEPT !.lifetime = controller]
       /\ queued' = Nothing
       /\ UNCHANGED <<deferredPull, pulls, latestPull>>
    \/ /\ queued = Nothing
       /\ inflight' = Nothing
       /\ deferredPull' = "none"
       /\ IF deferredPull # "none" /\ active
            THEN BeginPull(deferredPull = "initial", controller)
            ELSE UNCHANGED <<pulls, latestPull>>
       /\ UNCHANGED queued

ResolveWrite ==
    /\ writing /\ inflight.persisted
    /\ Drain
    /\ UNCHANGED <<mirror, active, controller, writeRevision, stored, notices, lifetimes,
                   externals, owed>>

\* A write fails, or its abort is honoured, before it took effect.
RejectWrite ==
    /\ writing /\ ~inflight.persisted
    /\ Faults \/ Aborted(inflight.lifetime)
    /\ Drain
    /\ owed' = IF queued = Nothing THEN Nothing ELSE owed
    /\ UNCHANGED <<mirror, active, controller, writeRevision, stored, notices, lifetimes,
                   externals>>

-----------------------------------------------------------------------------
(* Lifetime, and the backend's other writers *)

Start ==
    /\ ~active
    /\ lifetimes < MaxLifetimes
    /\ active' = TRUE
    /\ lifetimes' = lifetimes + 1
    /\ controller' = lifetimes + 1
    /\ RequestPull(TRUE, lifetimes + 1)
    /\ UNCHANGED <<mirror, writeRevision, inflight, queued, stored, notices, externals, owed>>

\* Teardown aborts the reads and the write in flight and cancels the waiting write.
Teardown ==
    /\ active
    /\ active' = FALSE
    /\ controller' = 0
    /\ deferredPull' = "none"
    /\ queued' = Nothing
    /\ notices' = 0
    /\ owed' = IF writing THEN Nothing ELSE owed
    /\ UNCHANGED <<mirror, writeRevision, latestPull, inflight, pulls, stored, lifetimes,
                   externals>>

\* The subscription's callback.
Notify ==
    /\ active
    /\ notices > 0
    /\ notices' = notices - 1
    /\ RequestPull(FALSE, controller)
    /\ UNCHANGED <<mirror, active, controller, writeRevision, inflight, queued, stored,
                   lifetimes, externals, owed>>

\* Another tab, a navigation or a remote push changes the slot.
ExternalChange(value) ==
    /\ externals < MaxExternal
    /\ value # stored
    /\ externals' = externals + 1
    /\ stored' = value
    /\ notices' = IF active THEN notices + 1 ELSE notices
    /\ owed' = IF queued # Nothing \/ (writing /\ ~inflight.persisted) THEN owed ELSE Nothing
    /\ UNCHANGED <<mirror, active, controller, writeRevision, latestPull, inflight, queued,
                   deferredPull, pulls, lifetimes>>

-----------------------------------------------------------------------------
SettleWrite == ResolveWrite \/ RejectWrite

Next ==
    \/ \E p \in pulls : AnswerPull(p) \/ SettlePull(p) \/ RejectPull(p)
    \/ \E value \in Slot : Enqueue(value) \/ ExternalChange(value)
    \/ PersistWrite \/ SettleWrite
    \/ Start \/ Teardown \/ Notify

\* Promises settle and subscriptions deliver; nobody has to call set, start or teardown.
Fairness ==
    /\ WF_vars(\E p \in pulls : AnswerPull(p))
    /\ WF_vars(\E p \in pulls : SettlePull(p))
    /\ WF_vars(PersistWrite)
    /\ WF_vars(SettleWrite)
    /\ WF_vars(Notify)

Spec == Init /\ [][Next]_vars
FairSpec == Spec /\ Fairness

-----------------------------------------------------------------------------
TypeOK ==
    /\ mirror \in Values
    /\ active \in BOOLEAN
    /\ controller \in Lifetime
    /\ writeRevision \in 0 .. MaxWrites
    /\ latestPull \in Nat
    /\ inflight \in Write \union {Nothing}
    /\ queued \in Write \union {Nothing}
    /\ deferredPull \in {"none", "initial", "change"}
    /\ pulls \subseteq Pull
    /\ stored \in Slot
    /\ notices \in Nat
    /\ lifetimes \in Lifetime
    /\ externals \in 0 .. MaxExternal
    /\ owed \in Slot \union {Nothing}

\* A read that may still apply belongs to the current lifetime and no local write is pending:
\* neither a restart nor a write can let a read begun before it reach the mirror.
OnlyCurrentReadsLand ==
    \A p \in pulls : MayApply(p) => p.lifetime = controller /\ ~writing /\ queued = Nothing

\* While a local write is unsettled the mirror shows the newest local value, whatever reads,
\* failures of older writes and restarts happen in between.
PendingWriteIsShown == writing /\ owed # Nothing => mirror = Shown(owed)

\* "The backend always ends on the latest value": once no write is pending the slot holds the
\* newest local write, unless it failed, a teardown cancelled it or another writer followed it.
BackendEndsOnLatest == ~writing /\ owed # Nothing => stored = owed

\* Nothing is left that could still change the mirror.
Quiet == active /\ ~writing /\ pulls = {} /\ notices = 0

\* At rest an occupied slot and the mirror agree, when the backend rejects nothing.
QuietMirrorAgrees == Quiet /\ stored # Empty => mirror = stored

\* The mirror of a lifetime that lasts ends up on the slot's value for good.
Converges == <>[]active => <>[](stored # Empty => mirror = stored)

=============================================================================
