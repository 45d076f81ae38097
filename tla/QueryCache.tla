------------------------------ MODULE QueryCache ------------------------------
(***************************************************************************)
(* One entry of the query cache with the two parts of packages/query that  *)
(* change it: the live query that refetches a snapshot after every event   *)
(* (cache/live-query.ts), and optimistic mutations (mutation/optimistic.ts *)
(* over cache/routing.ts).  The cache itself (TanStack Query) is external: *)
(* it is modelled by what these files use of it.                           *)
(*                                                                         *)
(* A generation is modelled by whether the snapshot under way began at it. *)
(* The cached value is the version of the resource a fetch read, with the  *)
(* mutations folded into it since.                                         *)
(***************************************************************************)
EXTENDS Integers, FiniteSets

CONSTANTS
    Mutations,     \* optimistic mutations of the entry's key
    Evictors,      \* those whose folds may clear the entry
    Nobody,        \* no mutation
    MaxRefetches,  \* maxRefetches
    MaxChanges     \* bound on the versions of the resource

ASSUME QueryAssumption ==
    /\ MaxRefetches \in Nat \ {0} /\ MaxChanges \in Nat
    /\ IsFiniteSet(Mutations) /\ Evictors \subseteq Mutations /\ Nobody \notin Mutations

VARIABLES
    version,    \* the resource at the backend
    announced,  \* the newest version a frame delivered to the live query covers
    slot,       \* the cache entry of the key
    status, attempts, started, running, exhausted, closed,
    recovery,   \* the recover() loop and its fetch
    mutations,  \* one MutationObserver.mutate() each
    cut,        \* history: someone else cancelled or evicted the fetch of the current generation
    unsynced,   \* history: a mutation began since the last final invalidation
    newest      \* history: the mutation that wrote the slot last, if no snapshot or rollback followed

live == <<status, attempts, started, running, exhausted, closed>>
history == <<cut, unsynced, newest>>
vars == <<version, announced, slot, live, recovery, mutations, history>>

NoQuery == 0
NoData == [base |-> -1, ops |-> {}]
Evicted == [query |-> NoQuery, data |-> NoData, updates |-> 0, invalidated |-> FALSE]
Mute(stage) ==
    [at |-> stage, wrote |-> FALSE, previous |-> NoData, query |-> NoQuery, revision |-> 0]
Stopped == [at |-> "none", current |-> FALSE, query |-> NoQuery, base |-> 0]

Cached == slot.data # NoData
Pending == {m \in Mutations : mutations[m].at \notin {"unused", "over"}}

Init ==
    /\ version = 0 /\ announced = 0
    /\ slot = [Evicted EXCEPT !.query = 1]   \* createLiveQuery builds the query
    /\ status = "waiting" /\ attempts = 0
    /\ started = FALSE /\ running = FALSE /\ exhausted = FALSE /\ closed = FALSE
    /\ recovery = Stopped
    /\ mutations = [m \in Mutations |-> Mute("unused")]
    /\ cut = FALSE /\ unsynced = FALSE /\ newest = Nobody

-----------------------------------------------------------------------------
(* The cache *)

Fetching == recovery.at \in {"sent", "read", "resolved"} /\ recovery.query = slot.query

\* The promise of the fetch settles.
Over(stage) == [Stopped EXCEPT !.at = stage, !.current = recovery.current]

\* An answer that passed the check of its generation may be adopted although it is cancelled now.
Adopting == {r \in {recovery} : r.at = "resolved"}

\* cancelQueries rejects the fetch in flight at once; with data in the entry its promise resolves
\* with that data.
AfterCancel ==
    IF ~Fetching THEN {recovery}
    ELSE {Over(IF Cached THEN "succeeded" ELSE "failed")} \union Adopting

Invalidated(entry) == IF entry.query = NoQuery THEN entry ELSE [entry EXCEPT !.invalidated = TRUE]

\* Query objects and their dataUpdateCount are only compared with those a mutation remembers: a new
\* one is any that is not in use.
Unused(held) == CHOOSE n \in 1 .. Cardinality(held) + 1 : n \notin held

NewQuery == Unused({slot.query, recovery.query} \union {mutations[m].query : m \in Mutations})
NewRevision == Unused({slot.updates} \union {mutations[m].revision : m \in Mutations})

\* setQueryData: an absent query is built first.
SetData(data) ==
    slot' = [query |-> IF slot.query = NoQuery THEN NewQuery ELSE slot.query, data |-> data,
             updates |-> NewRevision, invalidated |-> FALSE]

\* removeQueries takes the query away, and its fetch with it.
RemoveQuery ==
    /\ slot' = Evicted
    /\ recovery' \in IF ~Fetching THEN {recovery}
                     ELSE {Over("failed")} \union Adopting
    /\ cut' = (cut \/ Fetching)

\* setOrEvict with the value m's fold returns.
SetOrEvict(m) ==
    /\ \/ SetData([slot.data EXCEPT !.ops = @ \union {m}]) /\ UNCHANGED <<recovery, cut>>
       \/ m \in Evictors /\ RemoveQuery
    /\ newest' = m

-----------------------------------------------------------------------------
(* The live query *)

MayRetry == attempts < MaxRefetches

Waiting == [Stopped EXCEPT !.at = "wait"]

GiveUp ==
    /\ exhausted' = TRUE /\ running' = FALSE /\ status' = "stale"
    /\ recovery' = Stopped
    /\ slot' = Invalidated(slot)
    /\ UNCHANGED attempts

\* The head of the loop in recover(): wait for the next attempt, or stop without an attempt or
\* without enough of the budget left.
LoopHead ==
    \/ MayRetry /\ recovery' = Waiting /\ UNCHANGED <<status, running, exhausted, attempts, slot>>
    \/ GiveUp

\* Slip: an event during a recovery leaves its snapshot current.
Raced_Not(r) == r

Raced(r) == [r EXCEPT !.current = FALSE]

\* invalidate(): mark the entry stale, race the snapshot under way, and recover unless that is
\* already under way, not wanted yet or given up.
Invalidate(wanted, spent) ==
    /\ started' = wanted /\ cut' = FALSE
    /\ slot' = Invalidated(slot)
    /\ \/ /\ wanted /\ ~running /\ ~spent
          /\ \/ running' = TRUE /\ status' = "refreshing" /\ recovery' = Waiting /\ exhausted' = spent
             \/ running' = FALSE /\ status' = "stale" /\ recovery' = Stopped /\ exhausted' = TRUE
       \/ /\ ~wanted \/ running \/ spent
          /\ recovery' \in {Raced(r) : r \in AfterCancel}
          /\ exhausted' = spent
          /\ UNCHANGED <<running, status>>

\* Slip: an event or a boundary starts the count of attempts over.
AttemptsKept_Reset == 0

\* "without resetting the bounded budget"
AttemptsKept == attempts

\* deliver(): any event; the version it tells of is at most what the backend holds.
Deliver ==
    /\ ~closed
    /\ attempts' = AttemptsKept
    /\ announced' = version
    /\ Invalidate(started, exhausted)
    /\ UNCHANGED <<version, closed, mutations, unsynced, newest>>

\* connected() and reset().
Boundary ==
    /\ ~closed
    /\ attempts' = AttemptsKept
    /\ announced' = version
    /\ Invalidate(TRUE, exhausted)
    /\ UNCHANGED <<version, closed, mutations, unsynced, newest>>

Refresh ==
    /\ ~running /\ ~closed
    /\ attempts' = 0
    /\ Invalidate(TRUE, FALSE)
    /\ UNCHANGED <<version, announced, closed, mutations, unsynced, newest>>

\* The wait is over: the fetch begins, building the query if it was evicted.
Begin ==
    /\ recovery.at = "wait"
    /\ attempts' = attempts + 1
    /\ slot' = IF slot.query = NoQuery THEN [Evicted EXCEPT !.query = NewQuery] ELSE slot
    /\ recovery' = [at |-> "sent", current |-> TRUE, query |-> slot'.query, base |-> 0]
    /\ UNCHANGED <<version, announced, status, started, running, exhausted, closed,
                   mutations, history>>

\* The backend reads the snapshot.
Read ==
    /\ recovery.at = "sent"
    /\ recovery' = [recovery EXCEPT !.at = "read", !.base = version]
    /\ UNCHANGED <<version, announced, slot, live, mutations, history>>

\* The answer arrives, or the query fails.  queryFn refuses an answer its generation has left.
Arrive ==
    /\ recovery.at \in {"sent", "read"}
    /\ \/ recovery' = Over("failed")
       \/ /\ recovery.at = "read" /\ recovery.current
          /\ recovery' = [recovery EXCEPT !.at = "resolved"]
    /\ UNCHANGED <<version, announced, slot, live, mutations, history>>

Committed ==
    IF recovery.query # slot.query THEN slot
    ELSE [slot EXCEPT !.data = [base |-> recovery.base, ops |-> {}], !.updates = NewRevision,
                      !.invalidated = FALSE]

Commit ==
    /\ recovery.at = "resolved"
    /\ slot' = Committed
    /\ recovery' = Over("succeeded")
    /\ newest' = IF slot' = slot THEN newest ELSE Nobody
    /\ UNCHANGED <<version, announced, live, mutations, cut, unsynced>>

\* Slip: recover() trusts the fetch without asking whether its generation has passed.
Confirmed_Any == recovery.at = "succeeded"

Confirmed == recovery.at = "succeeded" /\ recovery.current

\* recover() resumes with the outcome of the fetch.
Resume ==
    /\ recovery.at \in {"succeeded", "failed"}
    /\ \/ /\ Confirmed
          /\ attempts' = 0 /\ running' = FALSE /\ status' = "fresh"
          /\ recovery' = Stopped
          /\ UNCHANGED <<slot, exhausted>>
       \/ ~Confirmed /\ closed /\ recovery' = Stopped
          /\ UNCHANGED <<slot, attempts, running, status, exhausted>>
       \/ ~Confirmed /\ ~closed /\ ~recovery.current /\ LoopHead
       \/ ~Confirmed /\ ~closed /\ recovery.current /\ GiveUp
    /\ UNCHANGED <<version, announced, started, closed, mutations, history>>

\* The budget passes with the fetch in flight: either way out of the loop ends it.
Timeout ==
    /\ recovery.at \in {"sent", "read"}
    /\ GiveUp
    /\ UNCHANGED <<version, announced, started, closed, mutations, history>>

\* close(): the loop ends at its await, unless the fetch settled just before.
Close ==
    /\ ~closed
    /\ closed' = TRUE /\ running' = FALSE /\ status' = "closed"
    /\ slot' \in {Invalidated(slot)} \union {Committed : r \in Adopting}
    /\ recovery' \in {Stopped} \union {r \in {recovery} : r.at = "succeeded"}
    /\ UNCHANGED <<version, announced, attempts, started, exhausted, mutations,
                   history>>

-----------------------------------------------------------------------------
(* Other owners of the entry *)

\* invalidateQueries: an entry already marked tells nobody; otherwise the live query hears of it.
InvalidateQueries ==
    IF slot.query = NoQuery \/ slot.invalidated \/ closed
    THEN slot' = Invalidated(slot) /\ UNCHANGED <<status, started, running, exhausted, recovery, cut>>
    ELSE Invalidate(started, exhausted)

\* cancelQueries by an owner that is not the live query.
CancelQueries ==
    /\ recovery' \in AfterCancel
    /\ cut' = (cut \/ recovery' # recovery)

\* createCacheInvalidator over a target that takes the entry in.
InvalidateTarget ==
    /\ InvalidateQueries
    /\ UNCHANGED <<version, announced, attempts, closed, mutations, unsynced, newest>>

\* Its signal aborts while it refetches other entries of the target.
AbortInvalidation ==
    /\ Fetching
    /\ CancelQueries
    /\ UNCHANGED <<version, announced, slot, live, mutations, unsynced, newest>>

Changes == version < MaxChanges /\ version' = version + 1

Change ==
    /\ Changes
    /\ UNCHANGED <<announced, slot, live, recovery, mutations, history>>

-----------------------------------------------------------------------------
(* Optimistic mutations *)

MutationGoes(m, stage) == mutations' = [mutations EXCEPT ![m].at = stage]

\* mutate(): the mutation is pending; onMutate cancels the reads of the key and waits.
Mutate(m) ==
    /\ mutations[m].at = "unused"
    /\ MutationGoes(m, "cancelling")
    /\ CancelQueries
    /\ unsynced' = TRUE
    /\ UNCHANGED <<version, announced, slot, live, newest>>

\* onMutate goes on: optimisticUpdate, when something is cached.
Apply(m) ==
    /\ mutations[m].at = "cancelling"
    /\ \/ ~Cached /\ MutationGoes(m, "pending") /\ UNCHANGED <<slot, recovery, cut, newest>>
       \/ /\ Cached
          /\ SetOrEvict(m)
          /\ mutations' = [mutations EXCEPT
                ![m] = [at |-> "pending", wrote |-> TRUE, previous |-> slot.data,
                        query |-> slot'.query, revision |-> slot'.updates]]
    /\ UNCHANGED <<version, announced, live, unsynced>>

\* mutationFn takes effect at the backend, which may make a version of it.
Record(m) ==
    /\ mutations[m].at = "pending"
    /\ MutationGoes(m, "recorded")
    /\ Changes \/ UNCHANGED version
    /\ UNCHANGED <<announced, slot, live, recovery, history>>

\* onSuccess: the result is folded in when reconcile is given and something is cached.
Succeed(m) ==
    /\ mutations[m].at = "recorded"
    /\ mutations' = [mutations EXCEPT ![m] = Mute("settling")]
    /\ \/ UNCHANGED <<slot, recovery, cut, newest>>
       \/ Cached /\ SetOrEvict(m)
    /\ UNCHANGED <<version, announced, live, unsynced>>

\* Slip: a rollback does not ask whether the write it undoes is still the newest.
StillOwn_Always(m) == TRUE

\* The slot still holds exactly what m wrote: the query object and its revision are the same.
StillOwn(m) ==
    /\ slot.query = mutations[m].query
    /\ slot.query # NoQuery => slot.updates = mutations[m].revision

\* onError: rollback() of a write that was made, if it is still the newest.
FailMutation(m) ==
    /\ mutations[m].at \in {"pending", "recorded"}
    /\ mutations' = [mutations EXCEPT ![m] = Mute("settling")]
    /\ IF mutations[m].wrote /\ StillOwn(m)
       THEN SetData(mutations[m].previous) /\ newest' = Nobody
       ELSE UNCHANGED <<slot, newest>>
    /\ UNCHANGED <<version, announced, live, recovery, cut, unsynced>>

\* isMutating counts every mutation of the key that has not settled, the asking one included.
IsLast == Cardinality(Pending) = 1

\* onSettled, which the mutation awaits before it settles.
Settle(m) ==
    /\ mutations[m].at = "settling"
    /\ MutationGoes(m, "settled")
    /\ IF IsLast THEN InvalidateQueries /\ unsynced' = FALSE
       ELSE UNCHANGED <<slot, status, started, running, exhausted, recovery, cut, unsynced>>
    /\ UNCHANGED <<version, announced, attempts, closed, newest>>

Finish(m) ==
    /\ mutations[m].at = "settled"
    /\ MutationGoes(m, "over")
    /\ UNCHANGED <<version, announced, slot, live, recovery, history>>

-----------------------------------------------------------------------------
LiveQuery ==
    \/ Deliver \/ Boundary \/ Refresh \/ Close
    \/ Begin \/ Read \/ Arrive \/ Commit \/ Resume \/ Timeout

Mutation(m) ==
    Mutate(m) \/ Apply(m) \/ Record(m) \/ Succeed(m) \/ FailMutation(m) \/ Settle(m) \/ Finish(m)

Next ==
    \/ LiveQuery
    \/ InvalidateTarget \/ AbortInvalidation \/ Change
    \/ \E m \in Mutations : Mutation(m)

\* Timers fire and promise continuations run; no event, answer or mutation has to come.
Fairness == WF_vars(Begin) /\ WF_vars(Commit) /\ WF_vars(Resume) /\ WF_vars(Timeout)

Spec == Init /\ [][Next]_vars
FairSpec == Spec /\ Fairness

-----------------------------------------------------------------------------
Data == [base : -1 .. MaxChanges, ops : SUBSET Mutations]

TypeOK ==
    /\ version \in 0 .. MaxChanges /\ announced \in 0 .. version
    /\ slot \in [query : Nat, data : Data, updates : Nat, invalidated : BOOLEAN]
    /\ status \in {"waiting", "refreshing", "fresh", "stale", "closed"}
    /\ attempts \in 0 .. MaxRefetches
    /\ started \in BOOLEAN /\ running \in BOOLEAN /\ exhausted \in BOOLEAN /\ closed \in BOOLEAN
    /\ recovery \in [at : {"none", "wait", "sent", "read", "resolved", "succeeded", "failed"},
                     current : BOOLEAN, query : Nat, base : 0 .. version]
    /\ mutations \in
         [Mutations -> [at : {"unused", "cancelling", "pending", "recorded", "settling", "settled",
                              "over"},
                        wrote : BOOLEAN, previous : Data, query : Nat, revision : Nat]]
    /\ cut \in BOOLEAN /\ unsynced \in BOOLEAN /\ newest \in Mutations \union {Nobody}

\* "A raced fetch is cancelled and cannot commit": what is shown as fresh was read after the last
\* event or boundary, whatever mutations wrote and undid meanwhile, unless someone else cancelled
\* the fetch.
FreshIsCurrent == status = "fresh" /\ Cached /\ ~cut => slot.data.base >= announced

\* After the final invalidation nothing a mutation guessed is shown as fresh: a rollback that was
\* skipped, or a fold the server never confirmed, ends with the next snapshot.
GuessesAreResynced ==
    status = "fresh" /\ Cached /\ ~cut /\ ~closed /\ Pending = {} /\ ~unsynced => slot.data.ops = {}

\* "a failed older mutation never overwrites a newer one": a rollback undoes the newest write of the
\* slot or nothing.
RollbackIsOwn == [][\A m \in Mutations : FailMutation(m) /\ slot' # slot => newest = m]_vars

\* "churn does not reset this budget": a recovery ends although events keep racing it.
RecoveryEnds == status = "refreshing" ~> status # "refreshing"
=============================================================================
