-------------------------- MODULE QueryCacheProofs --------------------------
(***************************************************************************)
(* The safety of QueryCache for any number of mutations, refetches and     *)
(* changes.  What the entry shows is vouched for while it is fresh, and    *)
(* from the moment a current fetch committed it: no event has raced it, no *)
(* other owner cancelled it, and what mutations write over it keeps the    *)
(* version that was read.                                                  *)
(***************************************************************************)
EXTENDS QueryCache, FiniteSetTheorems, TLAPS

\* With two mutations that may both evict the entry, an absent entry looks the same to both.
OneEvictor == \A m, n \in Evictors : m = n

Running == {"sent", "read", "resolved"}

\* The loop of recover() and the flags of the live query.
LoopInv ==
    /\ recovery.at # "none" => started /\ ~exhausted /\ (running \/ closed)
    /\ recovery.at = "wait" => attempts < MaxRefetches
    /\ closed => ~running /\ recovery.at \in {"none", "succeeded"}
    /\ running => started /\ ~exhausted /\ status = "refreshing"
    /\ ~running /\ ~exhausted /\ ~closed => attempts = 0
    /\ status = "fresh" => started /\ ~exhausted

\* A current fetch nobody cut is that of the entry, and reads nothing older than what was announced.
FetchInv ==
    /\ slot.query = NoQuery => slot.data = NoData
    /\ recovery.at \in Running => recovery.query # NoQuery
    /\ recovery.at \in Running /\ recovery.current /\ ~cut => recovery.query = slot.query
    /\ recovery.at \in {"read", "resolved"} /\ recovery.current => recovery.base >= announced

\* What is cached is the snapshot of the current generation, and what mutations made of it since.
Vouched == ~cut /\ (status = "fresh" \/ (recovery.at = "succeeded" /\ recovery.current))

\* Once the last mutation has invalidated the entry, a guess is not vouched for.
SyncInv ==
    /\ ~unsynced => \A m \in Mutations : mutations[m].at \in {"unused", "settled", "over"}
    /\ Vouched /\ ~closed => ~slot.invalidated
    /\ Vouched /\ ~closed /\ ~unsynced /\ Cached => slot.data.ops = {}

\* What m's rollback would restore was read no earlier than what it replaces.
OwnGood(m) ==
    mutations[m].wrote =>
        /\ /\ mutations[m].query # NoQuery /\ slot.query = mutations[m].query
           /\ slot.updates = mutations[m].revision
           => newest = m /\ Cached /\ mutations[m].previous.base = slot.data.base
        /\ mutations[m].query = NoQuery =>
             /\ m \in Evictors
             /\ slot.query = NoQuery =>
                  newest = m /\ (Vouched => mutations[m].previous.base >= announced)

OwnInv ==
    /\ Vouched /\ Cached => slot.data.base >= announced
    /\ \A m \in Mutations : OwnGood(m)

IInv == TypeOK /\ LoopInv /\ FetchInv /\ SyncInv /\ (OneEvictor => OwnInv)

-----------------------------------------------------------------------------
(* Types *)

SlotType == [query : Nat, data : Data, updates : Nat, invalidated : BOOLEAN]
RecoveryType ==
    [at : {"none", "wait", "sent", "read", "resolved", "succeeded", "failed"},
     current : BOOLEAN, query : Nat, base : 0 .. version]
MutationType ==
    [at : {"unused", "cancelling", "pending", "recorded", "settling", "settled", "over"},
     wrote : BOOLEAN, previous : Data, query : Nat, revision : Nat]

LEMMA Typed ==
    ASSUME TypeOK
    PROVE  /\ slot \in SlotType /\ slot.query \in Nat /\ slot.data \in Data /\ slot.updates \in Nat
           /\ slot.invalidated \in BOOLEAN
           /\ recovery \in RecoveryType /\ recovery.query \in Nat /\ recovery.base \in 0 .. version
           /\ recovery.current \in BOOLEAN
           /\ recovery.at \in {"none", "wait", "sent", "read", "resolved", "succeeded", "failed"}
           /\ mutations \in [Mutations -> MutationType]
           /\ \A m \in Mutations :
                /\ mutations[m] \in MutationType
                /\ mutations[m].wrote \in BOOLEAN /\ mutations[m].previous \in Data
                /\ mutations[m].query \in Nat /\ mutations[m].revision \in Nat
           /\ version \in 0 .. MaxChanges /\ announced \in 0 .. version
           /\ attempts \in 0 .. MaxRefetches
  BY DEF TypeOK, SlotType, RecoveryType, MutationType

\* A finite set of numbers leaves one out.
LEMMA UnusedIsNew ==
    ASSUME NEW held, IsFiniteSet(held)
    PROVE  Unused(held) \in Nat \ {0} /\ Unused(held) \notin held
  <1> DEFINE c == Cardinality(held)
             I == 1 .. c + 1
  <1>1. c \in Nat
    BY FS_CardinalityType
  <1>2. IsFiniteSet(I) /\ Cardinality(I) = c + 1
    <2>1. 1 \in Int /\ c + 1 \in Int /\ ~(1 > c + 1)
      BY <1>1
    <2>2. IsFiniteSet(I) /\ Cardinality(I) = IF 1 > c + 1 THEN 0 ELSE (c + 1) - 1 + 1
      BY <2>1, FS_Interval
    <2> QED
      BY <1>1, <2>1, <2>2
  <1>3. ~(I \subseteq held)
    <2>1. I \subseteq held => Cardinality(I) <= c
      BY FS_Subset
    <2> QED
      BY <1>1, <1>2, <2>1
  <1>4. \E n \in I : n \notin held
    BY <1>3
  <1>5. Unused(held) \in I /\ Unused(held) \notin held
    BY <1>4 DEF Unused
  <1> QED
    BY <1>1, <1>5

\* A query object or a revision that is made is nobody's yet.
LEMMA NewOnes ==
    ASSUME TypeOK
    PROVE  /\ NewQuery \in Nat \ {0} /\ NewRevision \in Nat
           /\ NewQuery # slot.query /\ NewRevision # slot.updates
           /\ \A m \in Mutations :
                NewQuery # mutations[m].query /\ NewRevision # mutations[m].revision
  <1> DEFINE queries == {mutations[m].query : m \in Mutations}
             revisions == {mutations[m].revision : m \in Mutations}
  <1>1. IsFiniteSet(Mutations)
    BY QueryAssumption
  <1>2. IsFiniteSet(queries) /\ IsFiniteSet(revisions)
    <2> DEFINE f == [m \in Mutations |-> mutations[m].query]
               g == [m \in Mutations |-> mutations[m].revision]
    <2>1. f \in [Mutations -> Nat] /\ g \in [Mutations -> Nat]
      BY Typed
    <2>2. f \in Surjection(Mutations, queries) /\ g \in Surjection(Mutations, revisions)
      BY DEF Surjection
    <2> QED
      BY <1>1, <2>2, FS_Surjection
  <1>3. IsFiniteSet({slot.query, recovery.query}) /\ IsFiniteSet({slot.updates})
    <2>1. IsFiniteSet({slot.query}) /\ IsFiniteSet({slot.updates})
      BY FS_Singleton
    <2>2. {slot.query, recovery.query} = {slot.query} \union {recovery.query}
      OBVIOUS
    <2> QED
      BY <2>1, <2>2, FS_AddElement
  <1>4. /\ IsFiniteSet({slot.query, recovery.query} \union queries)
        /\ IsFiniteSet({slot.updates} \union revisions)
    BY <1>2, <1>3, FS_Union
  <1>5. /\ NewQuery \in Nat \ {0} /\ NewQuery \notin {slot.query, recovery.query} \union queries
        /\ NewRevision \in Nat \ {0} /\ NewRevision \notin {slot.updates} \union revisions
    BY <1>4, UnusedIsNew DEF NewQuery, NewRevision
  <1> QED
    BY <1>5

-----------------------------------------------------------------------------
(* The fetch *)

\* No fetch, and the wait for one.
LEMMA StoppedType ==
    ASSUME TypeOK
    PROVE  /\ Waiting \in RecoveryType /\ ~Waiting.current /\ Waiting.at = "wait"
           /\ Stopped \in RecoveryType /\ ~Stopped.current /\ Stopped.at = "none"
           /\ Stopped.query = 0 /\ Stopped.base = 0
  <1>1. 0 \in 0 .. version
    BY Typed
  <1>2. /\ Stopped \in RecoveryType /\ ~Stopped.current /\ Stopped.at = "none"
        /\ Stopped.query = 0 /\ Stopped.base = 0
    BY <1>1 DEF Stopped, NoQuery, RecoveryType
  <1>3. Waiting \in RecoveryType /\ Waiting.current = Stopped.current /\ Waiting.at = "wait"
    BY <1>2 DEF Waiting, RecoveryType
  <1> QED
    BY <1>2, <1>3

\* The fetch that a cancellation leaves, and the one that was there.
LEMMA Cancelled ==
    ASSUME TypeOK, NEW r \in AfterCancel
    PROVE  /\ r \in RecoveryType
           /\ \/ r = recovery
              \/ /\ r.at \in {"succeeded", "failed"} /\ recovery.at \in Running
                 /\ r.query = 0 /\ r.base = 0 /\ r.current = recovery.current
  <1>1. recovery \in RecoveryType /\ recovery.current \in BOOLEAN /\ version \in Nat
    BY Typed
  <1>2. \A stage \in {"succeeded", "failed"} :
          /\ Over(stage) \in RecoveryType /\ Over(stage).at = stage
          /\ Over(stage).query = 0 /\ Over(stage).base = 0
          /\ Over(stage).current = recovery.current
    <2> SUFFICES ASSUME NEW stage \in {"succeeded", "failed"}
                 PROVE  /\ Over(stage) \in RecoveryType /\ Over(stage).at = stage
                        /\ Over(stage).query = 0 /\ Over(stage).base = 0
                        /\ Over(stage).current = recovery.current
      OBVIOUS
    <2>1. Stopped \in RecoveryType /\ Stopped.query = 0 /\ Stopped.base = 0
      BY StoppedType
    <2> QED
      BY <1>1, <2>1 DEF Over, RecoveryType
  <1>3. CASE Fetching
    <2>1. r \in {Over("succeeded"), Over("failed"), recovery}
      BY <1>3 DEF AfterCancel, Adopting
    <2>2. recovery.at \in Running
      BY <1>3 DEF Fetching, Running
    <2> QED
      BY <1>1, <1>2, <2>1, <2>2
  <1>4. CASE ~Fetching
    BY <1>1, <1>4 DEF AfterCancel
  <1> QED
    BY <1>3, <1>4

\* A generation that has passed vouches for nothing.
LEMMA RacedType ==
    ASSUME TypeOK, NEW r \in RecoveryType
    PROVE  /\ Raced(r) \in RecoveryType /\ ~Raced(r).current
           /\ Raced(r).at = r.at /\ Raced(r).query = r.query /\ Raced(r).base = r.base
  BY DEF Raced, RecoveryType

\* invalidate() leaves the loop in order and takes back what was vouched for; the value stays.
LEMMA Invalidating ==
    ASSUME TypeOK, LoopInv, FetchInv, ~closed, closed' = closed, version' = version,
           NEW wanted \in BOOLEAN, NEW spent \in BOOLEAN, Invalidate(wanted, spent),
           \/ wanted \in {started, TRUE} /\ spent = exhausted /\ attempts' = attempts
           \/ wanted /\ ~spent /\ ~running /\ attempts' = 0
    PROVE  /\ slot' \in SlotType /\ recovery' \in RecoveryType
           /\ status' \in {"waiting", "refreshing", "fresh", "stale", "closed"}
           /\ started' \in BOOLEAN /\ running' \in BOOLEAN /\ exhausted' \in BOOLEAN
           /\ cut' \in BOOLEAN /\ attempts' \in 0 .. MaxRefetches
           /\ slot'.query = slot.query /\ slot'.data = slot.data /\ slot'.updates = slot.updates
           /\ LoopInv' /\ FetchInv' /\ ~Vouched'
  <1>1. /\ slot \in SlotType /\ recovery \in RecoveryType /\ version \in Nat
        /\ attempts \in 0 .. MaxRefetches
    BY Typed
  <1>2. /\ started' = wanted /\ cut' = FALSE /\ slot' = Invalidated(slot)
    BY DEF Invalidate
  <1>3. /\ slot' \in SlotType /\ slot'.query = slot.query /\ slot'.data = slot.data
        /\ slot'.updates = slot.updates
    BY <1>1, <1>2 DEF Invalidated, SlotType
  <1>4. /\ Waiting \in RecoveryType /\ ~Waiting.current /\ Waiting.at = "wait"
        /\ Stopped \in RecoveryType /\ ~Stopped.current /\ Stopped.at = "none"
    BY StoppedType
  <1>5. attempts' \in 0 .. MaxRefetches /\ MaxRefetches \in Nat \ {0}
    <2>1. attempts' = attempts \/ attempts' = 0
      OBVIOUS
    <2> QED
      BY <1>1, <2>1, QueryAssumption
  <1>6. CASE wanted /\ ~running /\ ~spent
    <2>1. \/ running' = TRUE /\ status' = "refreshing" /\ recovery' = Waiting /\ exhausted' = spent
          \/ running' = FALSE /\ status' = "stale" /\ recovery' = Stopped /\ exhausted' = TRUE
      BY <1>6 DEF Invalidate
    <2>2. attempts' = 0
      BY <1>6 DEF LoopInv
    <2>3. LoopInv'
      BY <1>2, <1>4, <1>5, <1>6, <2>1, <2>2 DEF LoopInv
    <2>4. FetchInv'
      BY <1>3, <1>4, <2>1 DEF FetchInv, Running
    <2> QED
      BY <1>2, <1>3, <1>4, <1>5, <1>6, <2>1, <2>3, <2>4 DEF Vouched
  <1>7. CASE ~wanted \/ running \/ spent
    <2>1. /\ wanted \in {started, TRUE} /\ spent = exhausted /\ attempts' = attempts
          /\ exhausted' = spent /\ running' = running /\ status' = status
      BY <1>7 DEF Invalidate
    <2>2. PICK r \in AfterCancel : recovery' = Raced(r)
      BY <1>7 DEF Invalidate
    <2>3. /\ r \in RecoveryType
          /\ \/ r = recovery
             \/ /\ r.at \in {"succeeded", "failed"} /\ recovery.at \in Running
                /\ r.query = 0 /\ r.base = 0 /\ r.current = recovery.current
      BY Cancelled
    <2>4. /\ recovery' \in RecoveryType /\ ~recovery'.current
          /\ recovery'.at = r.at /\ recovery'.query = r.query
      BY <2>2, <2>3, RacedType
    <2>5. recovery'.at = recovery.at \/ (recovery'.at \in {"succeeded", "failed"} /\ recovery.at \in Running)
      BY <2>3, <2>4
    <2>6. LoopInv'
      BY <1>2, <2>1, <2>5 DEF LoopInv, Running
    <2>7. FetchInv'
      BY <1>3, <2>3, <2>4 DEF FetchInv, Running
    <2>8. status # "fresh"
      BY <1>7, <2>1 DEF LoopInv
    <2>9. /\ status' \in {"waiting", "refreshing", "fresh", "stale", "closed"}
          /\ started' \in BOOLEAN /\ running' \in BOOLEAN /\ exhausted' \in BOOLEAN
      BY <1>2, <2>1 DEF TypeOK
    <2> QED
      BY <1>2, <1>3, <1>5, <2>1, <2>4, <2>6, <2>7, <2>8, <2>9 DEF Vouched
  <1>8. (wanted /\ ~running /\ ~spent) \/ ~wanted \/ running \/ spent
    OBVIOUS
  <1> QED
    BY <1>6, <1>7

\* A cancellation from elsewhere leaves a loop in order, and vouches for nothing it made.
LEMMA Cancelling ==
    ASSUME TypeOK, LoopInv, FetchInv, CancelQueries, UNCHANGED <<version, announced, slot, live>>
    PROVE  /\ recovery' \in RecoveryType /\ cut' \in BOOLEAN
           /\ LoopInv' /\ FetchInv' /\ (Vouched' => Vouched)
  <1>1. UNCHANGED <<status, attempts, started, running, exhausted, closed>>
    BY DEF live
  <1>2. recovery' \in AfterCancel /\ cut' = (cut \/ recovery' # recovery)
    BY DEF CancelQueries
  <1>3. /\ recovery' \in RecoveryType
        /\ \/ recovery' = recovery
           \/ /\ recovery'.at \in {"succeeded", "failed"} /\ recovery.at \in Running
              /\ recovery' # recovery
    <2> DEFINE r == recovery'
    <2>1. /\ r \in RecoveryType
          /\ \/ r = recovery
             \/ /\ r.at \in {"succeeded", "failed"} /\ recovery.at \in Running
      BY <1>2, Cancelled
    <2> QED
      BY <2>1
  <1>4. cut \in BOOLEAN
    BY DEF TypeOK
  <1>5. CASE recovery' = recovery
    <2>1. cut' = cut
      BY <1>2, <1>4, <1>5
    <2> QED
      BY <1>1, <1>3, <1>4, <1>5, <2>1 DEF LoopInv, FetchInv, Vouched
  <1>6. CASE recovery'.at \in {"succeeded", "failed"} /\ recovery.at \in Running /\ recovery' # recovery
    <2>1. cut' = TRUE
      BY <1>2, <1>6
    <2>2. recovery'.at \notin {"none", "wait", "sent", "read", "resolved"} /\ recovery.at # "none"
          /\ ~closed
      BY <1>6 DEF Running, LoopInv
    <2>3. LoopInv'
      BY <1>1, <2>2 DEF LoopInv
    <2>4. FetchInv'
      BY <2>2 DEF FetchInv, Running
    <2> QED
      BY <1>3, <2>1, <2>3, <2>4 DEF Vouched
  <1> QED
    BY <1>3, <1>5, <1>6

\* The eviction of the entry likewise.
LEMMA Removing ==
    ASSUME TypeOK, LoopInv, FetchInv, RemoveQuery, UNCHANGED <<version, announced, live>>
    PROVE  /\ slot' \in SlotType /\ slot'.query = NoQuery /\ ~Cached' /\ slot'.updates = 0
           /\ ~slot'.invalidated
           /\ recovery' \in RecoveryType /\ cut' \in BOOLEAN
           /\ LoopInv' /\ FetchInv' /\ (Vouched' => Vouched)
  <1>1. UNCHANGED <<status, attempts, started, running, exhausted, closed>>
    BY DEF live
  <1>2. /\ slot' = Evicted /\ cut' = (cut \/ Fetching)
        /\ recovery' \in IF ~Fetching THEN {recovery} ELSE {Over("failed")} \union Adopting
    BY DEF RemoveQuery
  <1>3. /\ slot' \in SlotType /\ slot'.query = NoQuery /\ slot'.data = NoData /\ slot'.updates = 0
        /\ ~slot'.invalidated
    BY <1>2, QueryAssumption DEF Evicted, SlotType, NoQuery, NoData, Data
  <1>4. cut \in BOOLEAN /\ recovery \in RecoveryType
    BY Typed DEF TypeOK
  <1>5. CASE ~Fetching
    <2>1. recovery' = recovery /\ cut' = cut
      BY <1>2, <1>4, <1>5 DEF Fetching
    <2>2. recovery.at \in Running /\ recovery.current => cut
      BY <1>5 DEF FetchInv, Fetching, Running
    <2>3. LoopInv'
      BY <1>1, <2>1 DEF LoopInv
    <2>4. FetchInv'
      BY <1>3, <2>1, <2>2 DEF FetchInv
    <2> QED
      BY <1>1, <1>3, <1>4, <2>1, <2>3, <2>4 DEF Vouched, Cached
  <1>6. CASE Fetching
    <2>1. cut' = TRUE
      BY <1>2, <1>6
    <2>2. recovery' \in {Over("failed"), recovery}
      BY <1>2, <1>6 DEF Adopting
    <2>3. recovery.at \in Running
      BY <1>6 DEF Fetching, Running
    <2>4. CASE recovery' = recovery
      <3>1. LoopInv' /\ FetchInv'
        BY <1>1, <1>3, <2>1, <2>4 DEF LoopInv, FetchInv
      <3> QED
        BY <1>3, <1>4, <2>1, <2>4, <3>1 DEF Vouched, Cached
    <2>5. CASE recovery' = Over("failed")
      <3>1. recovery' \in RecoveryType /\ recovery'.at = "failed"
        <4>1. Stopped \in RecoveryType /\ recovery.current \in BOOLEAN
          BY StoppedType, Typed
        <4> QED
          BY <2>5, <4>1 DEF Over, RecoveryType
      <3>2. LoopInv'
        BY <1>1, <2>3, <3>1 DEF LoopInv, Running
      <3>3. FetchInv'
        BY <1>3, <3>1 DEF FetchInv, Running
      <3> QED
        BY <1>3, <2>1, <3>1, <3>2, <3>3 DEF Vouched, Cached
    <2> QED
      BY <2>2, <2>4, <2>5
  <1> QED
    BY <1>5, <1>6

\* The loop's end without a snapshot.
LEMMA GivingUp ==
    ASSUME TypeOK, LoopInv, FetchInv, GiveUp, UNCHANGED <<version, announced, started, closed>>
    PROVE  /\ slot' \in SlotType /\ slot'.query = slot.query /\ slot'.data = slot.data
           /\ slot'.updates = slot.updates
           /\ recovery' \in RecoveryType /\ attempts' = attempts
           /\ status' = "stale" /\ running' = FALSE /\ exhausted' = TRUE
           /\ LoopInv' /\ FetchInv' /\ ~Vouched'
  <1>1. /\ exhausted' = TRUE /\ running' = FALSE /\ status' = "stale" /\ recovery' = Stopped
        /\ slot' = Invalidated(slot) /\ attempts' = attempts
    BY DEF GiveUp
  <1>2. slot \in SlotType
    BY Typed
  <1>3. /\ slot' \in SlotType /\ slot'.query = slot.query /\ slot'.data = slot.data
        /\ slot'.updates = slot.updates
    BY <1>1, <1>2 DEF Invalidated, SlotType
  <1>4. recovery' \in RecoveryType /\ recovery'.at = "none"
    BY <1>1, StoppedType
  <1>5. LoopInv'
    BY <1>1, <1>4 DEF LoopInv
  <1>6. FetchInv'
    BY <1>3, <1>4 DEF FetchInv, Running
  <1> QED
    BY <1>1, <1>3, <1>4, <1>5, <1>6 DEF Vouched

\* What mutations and snapshots say of each other while the value stays.
LEMMA OwnKept ==
    ASSUME OwnInv, newest' = newest,
           slot'.query = slot.query, slot'.data = slot.data, slot'.updates = slot.updates,
           \A m \in Mutations :
             mutations'[m].wrote =>
               /\ mutations[m].wrote /\ mutations'[m].previous = mutations[m].previous
               /\ mutations'[m].query = mutations[m].query
               /\ mutations'[m].revision = mutations[m].revision,
           Vouched' => Vouched /\ announced' = announced
    PROVE  OwnInv'
  <1>1. Vouched' /\ Cached' => slot'.data.base >= announced'
    BY DEF OwnInv, Cached
  <1>2. ASSUME NEW m \in Mutations PROVE OwnGood(m)'
    <2>1. CASE ~mutations'[m].wrote
      BY <2>1 DEF OwnGood
    <2>2. CASE mutations'[m].wrote
      <3>1. /\ mutations[m].wrote /\ mutations'[m].previous = mutations[m].previous
            /\ mutations'[m].query = mutations[m].query
            /\ mutations'[m].revision = mutations[m].revision
        BY <2>2
      <3>2. OwnGood(m)
        BY DEF OwnInv
      <3> QED
        BY <3>1, <3>2 DEF OwnGood, Cached
    <2> QED
      BY <2>1, <2>2
  <1> QED
    BY <1>1, <1>2 DEF OwnInv

\* A value with a new revision, or a new entry, is not what m wrote.
LEMMA Replaced ==
    ASSUME TypeOK, slot'.query # NoQuery,
           slot'.updates = NewRevision \/ slot'.query = NewQuery,
           NEW m \in Mutations, OwnGood(m),
           mutations'[m].wrote =>
             /\ mutations[m].wrote
             /\ mutations'[m].query = mutations[m].query
             /\ mutations'[m].revision = mutations[m].revision
    PROVE  OwnGood(m)'
  <1>1. NewRevision # mutations[m].revision /\ NewQuery # mutations[m].query
    BY NewOnes
  <1>2. CASE ~mutations'[m].wrote
    BY <1>2 DEF OwnGood
  <1>3. CASE mutations'[m].wrote
    <2>1. /\ mutations[m].wrote /\ mutations'[m].query = mutations[m].query
          /\ mutations'[m].revision = mutations[m].revision
      BY <1>3
    <2>2. mutations[m].query = NoQuery => m \in Evictors
      BY <2>1 DEF OwnGood
    <2> QED
      BY <1>1, <2>1, <2>2 DEF OwnGood
  <1> QED
    BY <1>2, <1>3

LEMMA OwnReplaced ==
    ASSUME TypeOK, slot'.query # NoQuery,
           slot'.updates = NewRevision \/ slot'.query = NewQuery,
           mutations' = mutations, \A m \in Mutations : OwnGood(m)
    PROVE  \A m \in Mutations : OwnGood(m)'
  BY Replaced

\* What the sync of guesses needs while no mutation begins or ends.
LEMMA SyncKept ==
    ASSUME SyncInv, UNCHANGED <<mutations, unsynced>>,
           Vouched' /\ ~closed' =>
             Vouched /\ ~closed /\ slot'.data = slot.data /\ slot'.invalidated = slot.invalidated
    PROVE  SyncInv'
  BY DEF SyncInv, Cached

-----------------------------------------------------------------------------
(* The live query's steps *)

\* The invariant again, from its parts, over a step of the live query.
LEMMA LiveStep ==
    ASSUME IInv, version' = version, announced' \in 0 .. version,
           slot' \in SlotType, recovery' \in RecoveryType, attempts' \in 0 .. MaxRefetches,
           status' \in {"waiting", "refreshing", "fresh", "stale", "closed"},
           started' \in BOOLEAN, running' \in BOOLEAN, exhausted' \in BOOLEAN,
           closed' \in BOOLEAN, cut' \in BOOLEAN, newest' \in Mutations \union {Nobody},
           UNCHANGED <<mutations, unsynced>>,
           LoopInv', FetchInv', SyncInv', OneEvictor => OwnInv'
    PROVE  IInv'
  <1>1. TypeOK
    BY DEF IInv
  <1>2. TypeOK'
    BY <1>1 DEF TypeOK, SlotType, RecoveryType
  <1> QED
    BY <1>2 DEF IInv

\* An event, a boundary or a refresh.
LEMMA StepInvalidates ==
    ASSUME IInv, Deliver \/ Boundary \/ Refresh
    PROVE  IInv'
  <1>1. PICK wanted \in BOOLEAN, spent \in BOOLEAN :
          /\ Invalidate(wanted, spent)
          /\ \/ wanted \in {started, TRUE} /\ spent = exhausted /\ attempts' = attempts
             \/ wanted /\ ~spent /\ ~running /\ attempts' = 0
    <2>1. started \in BOOLEAN /\ exhausted \in BOOLEAN
      BY DEF IInv, TypeOK
    <2>2. CASE Deliver
      BY <2>1, <2>2 DEF Deliver, AttemptsKept
    <2>3. CASE Boundary
      BY <2>1, <2>3 DEF Boundary, AttemptsKept
    <2>4. CASE Refresh
      BY <2>1, <2>4 DEF Refresh
    <2> QED
      BY <2>2, <2>3, <2>4
  <1>2. ~closed /\ UNCHANGED <<version, closed, mutations, unsynced, newest>>
    BY DEF Deliver, Boundary, Refresh
  <1>3. announced' \in 0 .. version /\ closed' \in BOOLEAN /\ newest' \in Mutations \union {Nobody}
    <2>1. TypeOK /\ announced' \in {announced, version}
      BY DEF IInv, Deliver, Boundary, Refresh
    <2> QED
      BY <1>2, <2>1 DEF TypeOK
  <1>4. TypeOK /\ LoopInv /\ FetchInv /\ SyncInv /\ (OneEvictor => OwnInv)
    BY DEF IInv
  <1>5. /\ slot' \in SlotType /\ recovery' \in RecoveryType
        /\ status' \in {"waiting", "refreshing", "fresh", "stale", "closed"}
        /\ started' \in BOOLEAN /\ running' \in BOOLEAN /\ exhausted' \in BOOLEAN
        /\ cut' \in BOOLEAN /\ attempts' \in 0 .. MaxRefetches
        /\ slot'.query = slot.query /\ slot'.data = slot.data /\ slot'.updates = slot.updates
        /\ LoopInv' /\ FetchInv' /\ ~Vouched'
    <2>1. version' = version /\ closed' = closed /\ ~closed
      BY <1>2
    <2> QED
      BY ONLY <1>1, <1>4, <2>1, Invalidating
  <1>6. SyncInv'
    BY <1>2, <1>4, <1>5, SyncKept
  <1>7. OneEvictor => OwnInv'
    BY <1>2, <1>4, <1>5, OwnKept
  <1> QED
    BY <1>2, <1>3, <1>5, <1>6, <1>7, LiveStep

LEMMA StepBegin == IInv /\ Begin => IInv'
  <1> SUFFICES ASSUME IInv, Begin PROVE IInv'
    OBVIOUS
  <1>1. TypeOK /\ LoopInv /\ FetchInv /\ SyncInv /\ (OneEvictor => OwnInv)
    BY DEF IInv
  <1>2. /\ recovery.at = "wait" /\ attempts' = attempts + 1
        /\ slot' = IF slot.query = NoQuery THEN [Evicted EXCEPT !.query = NewQuery] ELSE slot
        /\ recovery' = [at |-> "sent", current |-> TRUE, query |-> slot'.query, base |-> 0]
        /\ UNCHANGED <<version, announced, status, started, running, exhausted, closed, mutations,
                       cut, unsynced, newest>>
    BY DEF Begin, history
  <1>3. /\ slot' \in SlotType /\ slot'.query # NoQuery /\ slot'.query \in Nat
        /\ slot.query = NoQuery => slot'.query = NewQuery
        /\ slot.query # NoQuery => slot' = slot
    <2>1. NewQuery \in Nat \ {0} /\ slot \in SlotType /\ slot.query \in Nat
      BY <1>1, NewOnes, Typed
    <2>2. Evicted \in SlotType
      BY QueryAssumption DEF Evicted, SlotType, NoQuery, NoData, Data
    <2>3. [Evicted EXCEPT !.query = NewQuery] \in SlotType
          /\ [Evicted EXCEPT !.query = NewQuery].query = NewQuery
      BY <2>1, <2>2 DEF SlotType
    <2> QED
      BY <1>2, <2>1, <2>3 DEF NoQuery
  <1>4. recovery' \in RecoveryType /\ recovery'.at = "sent" /\ recovery'.query = slot'.query
    <2>1. 0 \in 0 .. version
      BY <1>1, Typed
    <2> QED
      BY <1>2, <1>3, <2>1 DEF RecoveryType
  <1>5. attempts' \in 0 .. MaxRefetches
    BY <1>1, <1>2, Typed, QueryAssumption DEF LoopInv
  <1>6. running /\ status = "refreshing" /\ started /\ ~exhausted /\ ~closed
    BY <1>1, <1>2 DEF LoopInv
  <1>7. LoopInv'
    BY <1>2, <1>4, <1>6 DEF LoopInv
  <1>8. FetchInv'
    BY <1>3, <1>4 DEF FetchInv, Running
  <1>9. ~Vouched'
    BY <1>2, <1>4, <1>6 DEF Vouched
  <1>10. SyncInv'
    BY <1>1, <1>2, <1>9, SyncKept
  <1>11. OneEvictor => OwnInv'
    <2> SUFFICES ASSUME OneEvictor PROVE OwnInv'
      OBVIOUS
    <2>1. CASE slot.query = NoQuery
      <3>1. \A m \in Mutations : OwnGood(m)'
        BY <1>1, <1>2, <1>3, <2>1, OwnReplaced DEF OwnInv
      <3> QED
        BY <1>9, <3>1 DEF OwnInv
    <2>2. CASE slot.query # NoQuery
      BY <1>1, <1>2, <1>3, <1>9, <2>2, OwnKept
    <2> QED
      BY <2>1, <2>2
  <1>12. /\ announced' \in 0 .. version /\ closed' \in BOOLEAN /\ cut' \in BOOLEAN
         /\ newest' \in Mutations \union {Nobody} /\ started' \in BOOLEAN
         /\ running' \in BOOLEAN /\ exhausted' \in BOOLEAN
         /\ status' \in {"waiting", "refreshing", "fresh", "stale", "closed"}
    BY <1>1, <1>2 DEF TypeOK
  <1> QED
    BY <1>2, <1>3, <1>4, <1>5, <1>7, <1>8, <1>10, <1>11, <1>12, LiveStep

\* The fetch under way changes, but commits nothing.
LEMMA FetchMoves ==
    ASSUME IInv, recovery.at \in {"sent", "read"}, recovery' \in RecoveryType,
           recovery'.at \in {"read", "resolved", "failed"}, recovery'.current = recovery.current,
           recovery'.at # "failed" =>
             recovery'.query = recovery.query /\ recovery'.base >= announced,
           UNCHANGED <<version, announced, slot, status, attempts, started, running, exhausted,
                       closed, mutations, cut, unsynced, newest>>
    PROVE  IInv'
  <1>1. TypeOK /\ LoopInv /\ FetchInv /\ SyncInv /\ (OneEvictor => OwnInv)
    BY DEF IInv
  <1>2. running /\ status = "refreshing" /\ started /\ ~exhausted /\ ~closed
    BY <1>1 DEF LoopInv
  <1>3. LoopInv'
    BY <1>1, <1>2 DEF LoopInv
  <1>4. FetchInv'
    BY <1>1 DEF FetchInv, Running
  <1>5. ~Vouched'
    BY <1>2 DEF Vouched
  <1>6. SyncInv'
    BY <1>1, <1>5, SyncKept
  <1>7. OneEvictor => OwnInv'
    BY <1>1, <1>5, OwnKept
  <1>8. /\ announced' \in 0 .. version /\ closed' \in BOOLEAN /\ cut' \in BOOLEAN
        /\ newest' \in Mutations \union {Nobody} /\ started' \in BOOLEAN
        /\ running' \in BOOLEAN /\ exhausted' \in BOOLEAN
        /\ status' \in {"waiting", "refreshing", "fresh", "stale", "closed"}
        /\ slot' \in SlotType /\ attempts' \in 0 .. MaxRefetches
    BY <1>1, Typed DEF TypeOK
  <1> QED
    BY <1>3, <1>4, <1>6, <1>7, <1>8, LiveStep

LEMMA StepRead == IInv /\ Read => IInv'
  <1> SUFFICES ASSUME IInv, Read PROVE IInv'
    OBVIOUS
  <1>1. /\ recovery.at = "sent" /\ recovery' = [recovery EXCEPT !.at = "read", !.base = version]
        /\ UNCHANGED <<version, announced, slot, status, attempts, started, running, exhausted,
                       closed, mutations, cut, unsynced, newest>>
    BY DEF Read, live, history
  <1>2. recovery \in RecoveryType /\ version \in 0 .. MaxChanges /\ announced \in 0 .. version
    BY Typed DEF IInv
  <1>3. /\ recovery' \in RecoveryType /\ recovery'.at = "read"
        /\ recovery'.current = recovery.current /\ recovery'.query = recovery.query
        /\ recovery'.base = version
    <2>1. version \in 0 .. version
      BY <1>2
    <2> QED
      BY <1>1, <1>2, <2>1 DEF RecoveryType
  <1>4. recovery'.base >= announced
    BY <1>2, <1>3
  <1> QED
    BY <1>1, <1>3, <1>4, FetchMoves

LEMMA StepArrive == IInv /\ Arrive => IInv'
  <1> SUFFICES ASSUME IInv, Arrive PROVE IInv'
    OBVIOUS
  <1>1. /\ recovery.at \in {"sent", "read"}
        /\ UNCHANGED <<version, announced, slot, status, attempts, started, running, exhausted,
                       closed, mutations, cut, unsynced, newest>>
    BY DEF Arrive, live, history
  <1>2. TypeOK /\ FetchInv /\ recovery \in RecoveryType /\ recovery.current \in BOOLEAN
    BY Typed DEF IInv
  <1>3. CASE recovery' = Over("failed")
    <2>1. Stopped \in RecoveryType
      BY <1>2, StoppedType
    <2>2. /\ recovery' \in RecoveryType /\ recovery'.at = "failed"
          /\ recovery'.current = recovery.current
      BY <1>2, <1>3, <2>1 DEF Over, RecoveryType
    <2> QED
      BY <1>1, <2>2, FetchMoves
  <1>4. CASE /\ recovery.at = "read" /\ recovery.current
             /\ recovery' = [recovery EXCEPT !.at = "resolved"]
    <2>1. /\ recovery' \in RecoveryType /\ recovery'.at = "resolved"
          /\ recovery'.current = recovery.current /\ recovery'.query = recovery.query
          /\ recovery'.base = recovery.base
      BY <1>2, <1>4 DEF RecoveryType
    <2>2. recovery.base >= announced
      BY <1>2, <1>4 DEF FetchInv
    <2> QED
      BY <1>1, <2>1, <2>2, FetchMoves
  <1> QED
    BY <1>3, <1>4 DEF Arrive

\* What a commit makes of the entry.
LEMMA Committing ==
    ASSUME TypeOK, FetchInv, recovery.at = "resolved"
    PROVE  /\ Committed \in SlotType /\ Committed.query = slot.query
           /\ recovery.query # slot.query => Committed = slot
           /\ recovery.query = slot.query =>
                /\ slot.query # NoQuery /\ Committed.updates = NewRevision
                /\ Committed.data.base = recovery.base /\ Committed.data.ops = {}
                /\ ~Committed.invalidated
  <1>1. /\ slot \in SlotType /\ recovery.base \in 0 .. version /\ version \in 0 .. MaxChanges
        /\ NewRevision \in Nat
    BY Typed, NewOnes
  <1> DEFINE data == [base |-> recovery.base, ops |-> {}]
  <1>2. data \in Data /\ data.base = recovery.base /\ data.ops = {}
    BY <1>1, QueryAssumption DEF Data
  <1>3. CASE recovery.query # slot.query
    <2>1. Committed = slot
      BY <1>3 DEF Committed
    <2> QED
      BY <1>1, <1>3, <2>1
  <1>4. CASE recovery.query = slot.query
    <2>1. Committed = [slot EXCEPT !.data = data, !.updates = NewRevision, !.invalidated = FALSE]
      BY <1>4 DEF Committed
    <2>2. slot.query # NoQuery
      BY <1>4 DEF FetchInv, Running
    <2> HIDE DEF data
    <2>3. /\ Committed \in SlotType /\ Committed.query = slot.query
          /\ Committed.updates = NewRevision /\ Committed.data = data /\ ~Committed.invalidated
      BY <1>1, <1>2, <2>1 DEF SlotType
    <2> QED
      BY <1>2, <1>4, <2>2, <2>3
  <1> QED
    BY <1>3, <1>4

LEMMA StepCommit == IInv /\ Commit => IInv'
  <1> SUFFICES ASSUME IInv, Commit PROVE IInv'
    OBVIOUS
  <1>1. TypeOK /\ LoopInv /\ FetchInv /\ SyncInv /\ (OneEvictor => OwnInv)
    BY DEF IInv
  <1>2. /\ recovery.at = "resolved" /\ slot' = Committed /\ recovery' = Over("succeeded")
        /\ newest' = (IF slot' = slot THEN newest ELSE Nobody)
        /\ UNCHANGED <<version, announced, status, attempts, started, running, exhausted, closed,
                       mutations, cut, unsynced>>
    BY DEF Commit, live
  <1>3. /\ slot' \in SlotType /\ slot'.query = slot.query
        /\ recovery.query # slot.query => slot' = slot
        /\ recovery.query = slot.query =>
             /\ slot.query # NoQuery /\ slot'.updates = NewRevision
             /\ slot'.data.base = recovery.base /\ slot'.data.ops = {}
             /\ ~slot'.invalidated
    BY <1>1, <1>2, Committing
  <1>4. /\ recovery' \in RecoveryType /\ recovery'.at = "succeeded"
        /\ recovery'.current = recovery.current
    <2>1. Stopped \in RecoveryType /\ recovery.current \in BOOLEAN
      BY <1>1, StoppedType, Typed
    <2> QED
      BY <1>2, <2>1 DEF Over, RecoveryType
  <1>5. running /\ status = "refreshing" /\ started /\ ~exhausted /\ ~closed
    BY <1>1, <1>2 DEF LoopInv
  <1>6. LoopInv'
    BY <1>1, <1>2, <1>4, <1>5 DEF LoopInv
  <1>7. FetchInv'
    BY <1>1, <1>3, <1>4 DEF FetchInv, Running
  <1>8. Vouched' => recovery.query = slot.query /\ recovery.base >= announced
    BY <1>1, <1>2, <1>4, <1>5 DEF Vouched, FetchInv, Running
  <1>9. SyncInv'
    BY <1>1, <1>2, <1>3, <1>8 DEF SyncInv
  <1>10. OneEvictor => OwnInv'
    <2> SUFFICES ASSUME OneEvictor PROVE OwnInv'
      OBVIOUS
    <2>1. CASE recovery.query = slot.query
      <3>1. \A m \in Mutations : OwnGood(m)'
        BY <1>1, <1>2, <1>3, <2>1, OwnReplaced DEF OwnInv
      <3> QED
        BY <1>2, <1>3, <1>8, <2>1, <3>1 DEF OwnInv
    <2>2. CASE recovery.query # slot.query
      <3>1. slot' = slot /\ newest' = newest /\ ~Vouched'
        BY <1>2, <1>3, <1>8, <2>2
      <3> QED
        BY <1>1, <1>2, <3>1, OwnKept
    <2> QED
      BY <2>1, <2>2
  <1>11. /\ announced' \in 0 .. version /\ closed' \in BOOLEAN /\ cut' \in BOOLEAN
         /\ newest' \in Mutations \union {Nobody} /\ started' \in BOOLEAN
         /\ running' \in BOOLEAN /\ exhausted' \in BOOLEAN
         /\ status' \in {"waiting", "refreshing", "fresh", "stale", "closed"}
         /\ attempts' \in 0 .. MaxRefetches
    BY <1>1, <1>2 DEF TypeOK
  <1> QED
    BY <1>2, <1>3, <1>4, <1>6, <1>7, <1>9, <1>10, <1>11, LiveStep

\* A recovery that gives up.
LEMMA StepGiveUp ==
    ASSUME IInv, GiveUp,
           UNCHANGED <<version, announced, started, closed, mutations, cut, unsynced, newest>>
    PROVE  IInv'
  <1>1. TypeOK /\ LoopInv /\ FetchInv /\ SyncInv /\ (OneEvictor => OwnInv)
    BY DEF IInv
  <1>2. /\ slot' \in SlotType /\ slot'.query = slot.query /\ slot'.data = slot.data
        /\ slot'.updates = slot.updates
        /\ recovery' \in RecoveryType /\ attempts' = attempts
        /\ status' = "stale" /\ running' = FALSE /\ exhausted' = TRUE
        /\ LoopInv' /\ FetchInv' /\ ~Vouched'
    BY <1>1, GivingUp
  <1>3. SyncInv'
    BY <1>1, <1>2, SyncKept
  <1>4. OneEvictor => OwnInv'
    BY <1>1, <1>2, OwnKept
  <1>5. /\ announced' \in 0 .. version /\ closed' \in BOOLEAN /\ cut' \in BOOLEAN
        /\ newest' \in Mutations \union {Nobody} /\ started' \in BOOLEAN
        /\ attempts' \in 0 .. MaxRefetches
    BY <1>1, <1>2 DEF TypeOK
  <1> QED
    BY <1>2, <1>3, <1>4, <1>5, LiveStep

LEMMA StepResume == IInv /\ Resume => IInv'
  <1> SUFFICES ASSUME IInv, Resume PROVE IInv'
    OBVIOUS
  <1>1. TypeOK /\ LoopInv /\ FetchInv /\ SyncInv /\ (OneEvictor => OwnInv)
    BY DEF IInv
  <1>2. /\ recovery.at \in {"succeeded", "failed"}
        /\ UNCHANGED <<version, announced, started, closed, mutations, cut, unsynced, newest>>
    BY DEF Resume, history
  <1>3. started /\ ~exhausted /\ (running \/ closed)
    BY <1>1, <1>2 DEF LoopInv
  <1>4. CASE GiveUp
    BY <1>2, <1>4, StepGiveUp
  <1>5. ASSUME slot' = slot, exhausted' = exhausted, recovery' \in {Waiting, Stopped},
               \/ /\ Confirmed /\ attempts' = 0 /\ running' = FALSE /\ status' = "fresh"
                  /\ recovery' = Stopped
               \/ /\ closed /\ recovery' = Stopped /\ UNCHANGED <<attempts, running, status>>
               \/ /\ ~closed /\ MayRetry /\ recovery' = Waiting
                  /\ UNCHANGED <<attempts, running, status>>
        PROVE  IInv'
    <2>1. /\ recovery' \in RecoveryType /\ recovery'.at \in {"wait", "none"}
          /\ recovery'.at = "wait" => ~closed /\ MayRetry /\ attempts' = attempts /\ running' = running
      BY <1>1, <1>5, StoppedType
    <2>2. LoopInv'
      BY <1>1, <1>2, <1>3, <1>5, <2>1 DEF LoopInv, MayRetry
    <2>3. FetchInv'
      BY <1>1, <1>5, <2>1 DEF FetchInv, Running
    <2>4. Vouched' => Vouched
      BY <1>2, <1>5, <2>1 DEF Vouched, Confirmed
    <2>5. SyncInv'
      BY <1>1, <1>2, <1>5, <2>4, SyncKept
    <2>6. OneEvictor => OwnInv'
      BY <1>1, <1>2, <1>5, <2>4, OwnKept
    <2>7. /\ announced' \in 0 .. version /\ closed' \in BOOLEAN /\ cut' \in BOOLEAN
          /\ newest' \in Mutations \union {Nobody} /\ started' \in BOOLEAN
          /\ running' \in BOOLEAN /\ exhausted' \in BOOLEAN
          /\ status' \in {"waiting", "refreshing", "fresh", "stale", "closed"}
      BY <1>1, <1>2, <1>5 DEF TypeOK
    <2>8. slot' \in SlotType
      BY <1>1, <1>5, Typed
    <2>9. attempts' \in 0 .. MaxRefetches
      <3>1. attempts' \in {0, attempts}
        BY <1>5
      <3> QED
        BY <1>1, <3>1, QueryAssumption DEF TypeOK
    <2> QED
      BY <1>2, <2>1, <2>2, <2>3, <2>5, <2>6, <2>7, <2>8, <2>9, LiveStep
  <1>6. CASE /\ Confirmed /\ attempts' = 0 /\ running' = FALSE /\ status' = "fresh"
             /\ recovery' = Stopped /\ UNCHANGED <<slot, exhausted>>
    BY <1>5, <1>6
  <1>7. CASE closed /\ recovery' = Stopped /\ UNCHANGED <<slot, attempts, running, status, exhausted>>
    BY <1>5, <1>7
  <1>8. CASE ~closed /\ LoopHead
    BY <1>4, <1>5, <1>8 DEF LoopHead
  <1> QED
    BY <1>4, <1>6, <1>7, <1>8 DEF Resume

LEMMA StepTimeout == IInv /\ Timeout => IInv'
  BY StepGiveUp DEF Timeout, history

LEMMA StepClose == IInv /\ Close => IInv'
  <1> SUFFICES ASSUME IInv, Close PROVE IInv'
    OBVIOUS
  <1>1. TypeOK /\ LoopInv /\ FetchInv /\ SyncInv /\ (OneEvictor => OwnInv)
    BY DEF IInv
  <1>2. /\ closed' = TRUE /\ running' = FALSE /\ status' = "closed"
        /\ UNCHANGED <<version, announced, attempts, started, exhausted, mutations, cut, unsynced,
                       newest>>
    BY DEF Close, history
  <1>3. slot' = Invalidated(slot) \/ (recovery.at = "resolved" /\ slot' = Committed)
    BY DEF Close, Adopting
  <1>4. recovery' = Stopped \/ (recovery.at = "succeeded" /\ recovery' = recovery)
    BY DEF Close
  <1>5. /\ recovery' \in RecoveryType /\ recovery'.at \in {"none", "succeeded"}
        /\ recovery'.at = "succeeded" => recovery' = recovery
    BY <1>1, <1>4, StoppedType, Typed
  <1>6. LoopInv'
    BY <1>1, <1>2, <1>5 DEF LoopInv
  <1>7. slot \in SlotType
    BY <1>1, Typed
  <1>8. /\ slot' \in SlotType /\ slot'.query = slot.query
        /\ \/ slot'.data = slot.data /\ slot'.updates = slot.updates
           \/ slot.query # NoQuery /\ slot'.updates = NewRevision /\ recovery.at = "resolved"
    <2>1. CASE slot' = Invalidated(slot)
      BY <1>7, <2>1 DEF Invalidated, SlotType
    <2>2. CASE recovery.at = "resolved" /\ slot' = Committed
      BY <1>1, <1>7, <2>2, Committing
    <2> QED
      BY <1>3, <2>1, <2>2
  <1>9. FetchInv'
    BY <1>1, <1>5, <1>8 DEF FetchInv, Running
  <1>10. Vouched' => Vouched /\ recovery.at = "succeeded"
    BY <1>2, <1>5 DEF Vouched
  <1>11. SyncInv'
    BY <1>1, <1>2 DEF SyncInv
  <1>12. OneEvictor => OwnInv'
    <2> SUFFICES ASSUME OneEvictor PROVE OwnInv'
      OBVIOUS
    <2>1. CASE slot'.data = slot.data /\ slot'.updates = slot.updates
      BY <1>1, <1>2, <1>8, <1>10, <2>1, OwnKept
    <2>2. CASE slot.query # NoQuery /\ slot'.updates = NewRevision /\ recovery.at = "resolved"
      <3>1. ~Vouched'
        BY <1>10, <2>2
      <3>2. \A m \in Mutations : OwnGood(m)'
        BY <1>1, <1>2, <1>8, <2>2, OwnReplaced DEF OwnInv
      <3> QED
        BY <3>1, <3>2 DEF OwnInv
    <2> QED
      BY <1>8, <2>1, <2>2
  <1>13. /\ announced' \in 0 .. version /\ closed' \in BOOLEAN /\ cut' \in BOOLEAN
         /\ newest' \in Mutations \union {Nobody} /\ started' \in BOOLEAN
         /\ running' \in BOOLEAN /\ exhausted' \in BOOLEAN
         /\ status' \in {"waiting", "refreshing", "fresh", "stale", "closed"}
         /\ attempts' \in 0 .. MaxRefetches
    BY <1>1, <1>2 DEF TypeOK
  <1> QED
    BY <1>2, <1>5, <1>6, <1>8, <1>9, <1>11, <1>12, <1>13, LiveStep

-----------------------------------------------------------------------------
(* Other owners of the entry *)

\* invalidateQueries takes back what is vouched for, unless the entry has nothing to take back.
LEMMA InvalidatingQueries ==
    ASSUME IInv, InvalidateQueries, UNCHANGED <<version, announced, attempts, closed>>
    PROVE  /\ slot' \in SlotType /\ recovery' \in RecoveryType
           /\ status' \in {"waiting", "refreshing", "fresh", "stale", "closed"}
           /\ started' \in BOOLEAN /\ running' \in BOOLEAN /\ exhausted' \in BOOLEAN
           /\ cut' \in BOOLEAN /\ attempts' \in 0 .. MaxRefetches
           /\ slot'.query = slot.query /\ slot'.data = slot.data /\ slot'.updates = slot.updates
           /\ LoopInv' /\ FetchInv'
           /\ Vouched' =>
                /\ Vouched /\ (closed \/ slot.query = NoQuery \/ slot.invalidated)
                /\ slot'.invalidated = slot.invalidated \/ closed
  <1>1. TypeOK /\ LoopInv /\ FetchInv
    BY DEF IInv
  <1>2. slot \in SlotType /\ slot.invalidated \in BOOLEAN /\ recovery \in RecoveryType
    BY <1>1, Typed
  <1>3. CASE slot.query = NoQuery \/ slot.invalidated \/ closed
    <2>1. /\ slot' = Invalidated(slot)
          /\ UNCHANGED <<status, started, running, exhausted, recovery, cut>>
      BY <1>3 DEF InvalidateQueries
    <2>2. /\ slot' \in SlotType /\ slot'.query = slot.query /\ slot'.data = slot.data
          /\ slot'.updates = slot.updates
          /\ slot'.invalidated = slot.invalidated \/ closed
      <3>1. CASE slot.query = NoQuery
        BY <1>2, <2>1, <3>1 DEF Invalidated
      <3>2. CASE slot.query # NoQuery
        <4>1. slot' = [slot EXCEPT !.invalidated = TRUE]
          BY <2>1, <3>2 DEF Invalidated
        <4>2. /\ slot' \in SlotType /\ slot'.query = slot.query /\ slot'.data = slot.data
              /\ slot'.updates = slot.updates /\ slot'.invalidated = TRUE
          BY <1>2, <4>1 DEF SlotType
        <4> QED
          BY <1>2, <1>3, <3>2, <4>2
      <3> QED
        BY <3>1, <3>2
    <2>3. LoopInv'
      BY <1>1, <2>1 DEF LoopInv
    <2>4. FetchInv'
      BY <1>1, <2>1, <2>2 DEF FetchInv
    <2>5. Vouched' => Vouched
      BY <2>1 DEF Vouched
    <2>6. /\ status' \in {"waiting", "refreshing", "fresh", "stale", "closed"}
          /\ started' \in BOOLEAN /\ running' \in BOOLEAN /\ exhausted' \in BOOLEAN
          /\ cut' \in BOOLEAN /\ attempts' \in 0 .. MaxRefetches
      BY <1>1, <2>1 DEF TypeOK
    <2> QED
      BY <1>2, <1>3, <2>1, <2>2, <2>3, <2>4, <2>5, <2>6
  <1>4. CASE ~(slot.query = NoQuery \/ slot.invalidated \/ closed)
    <2>1. Invalidate(started, exhausted) /\ ~closed
      BY <1>4 DEF InvalidateQueries
    <2>2. /\ started \in BOOLEAN /\ exhausted \in BOOLEAN /\ started \in {started, TRUE}
          /\ closed' = closed /\ version' = version /\ attempts' = attempts
      BY <1>1 DEF TypeOK
    <2>3. /\ slot' \in SlotType /\ recovery' \in RecoveryType
          /\ status' \in {"waiting", "refreshing", "fresh", "stale", "closed"}
          /\ started' \in BOOLEAN /\ running' \in BOOLEAN /\ exhausted' \in BOOLEAN
          /\ cut' \in BOOLEAN /\ attempts' \in 0 .. MaxRefetches
          /\ slot'.query = slot.query /\ slot'.data = slot.data /\ slot'.updates = slot.updates
          /\ LoopInv' /\ FetchInv' /\ ~Vouched'
      BY ONLY <1>1, <2>1, <2>2, Invalidating
    <2> QED
      BY <2>3
  <1> QED
    BY <1>3, <1>4

LEMMA StepInvalidateTarget == IInv /\ InvalidateTarget => IInv'
  <1> SUFFICES ASSUME IInv, InvalidateTarget PROVE IInv'
    OBVIOUS
  <1>1. TypeOK /\ LoopInv /\ FetchInv /\ SyncInv /\ (OneEvictor => OwnInv)
    BY DEF IInv
  <1>2. /\ InvalidateQueries
        /\ UNCHANGED <<version, announced, attempts, closed, mutations, unsynced, newest>>
    BY DEF InvalidateTarget
  <1>3. /\ slot' \in SlotType /\ recovery' \in RecoveryType
        /\ status' \in {"waiting", "refreshing", "fresh", "stale", "closed"}
        /\ started' \in BOOLEAN /\ running' \in BOOLEAN /\ exhausted' \in BOOLEAN
        /\ cut' \in BOOLEAN /\ attempts' \in 0 .. MaxRefetches
        /\ slot'.query = slot.query /\ slot'.data = slot.data /\ slot'.updates = slot.updates
        /\ LoopInv' /\ FetchInv'
        /\ Vouched' => Vouched /\ (slot'.invalidated = slot.invalidated \/ closed)
    BY <1>2, InvalidatingQueries
  <1>4. SyncInv'
    BY <1>1, <1>2, <1>3, SyncKept
  <1>5. OneEvictor => OwnInv'
    BY <1>1, <1>2, <1>3, OwnKept
  <1>6. /\ announced' \in 0 .. version /\ closed' \in BOOLEAN
        /\ newest' \in Mutations \union {Nobody}
    BY <1>1, <1>2 DEF TypeOK
  <1> QED
    BY <1>2, <1>3, <1>4, <1>5, <1>6, LiveStep

LEMMA StepAbortInvalidation == IInv /\ AbortInvalidation => IInv'
  <1> SUFFICES ASSUME IInv, AbortInvalidation PROVE IInv'
    OBVIOUS
  <1>1. TypeOK /\ LoopInv /\ FetchInv /\ SyncInv /\ (OneEvictor => OwnInv)
    BY DEF IInv
  <1>2. /\ CancelQueries
        /\ UNCHANGED <<version, announced, slot, live, mutations, unsynced, newest>>
        /\ UNCHANGED <<status, attempts, started, running, exhausted, closed>>
    BY DEF AbortInvalidation, live
  <1>3. /\ recovery' \in RecoveryType /\ cut' \in BOOLEAN
        /\ LoopInv' /\ FetchInv' /\ (Vouched' => Vouched)
    BY <1>1, <1>2, Cancelling
  <1>4. SyncInv'
    BY <1>1, <1>2, <1>3, SyncKept
  <1>5. OneEvictor => OwnInv'
    BY <1>1, <1>2, <1>3, OwnKept
  <1>6. /\ announced' \in 0 .. version /\ closed' \in BOOLEAN
        /\ newest' \in Mutations \union {Nobody} /\ started' \in BOOLEAN
        /\ running' \in BOOLEAN /\ exhausted' \in BOOLEAN
        /\ status' \in {"waiting", "refreshing", "fresh", "stale", "closed"}
        /\ slot' \in SlotType /\ attempts' \in 0 .. MaxRefetches
    BY <1>1, <1>2, Typed DEF TypeOK
  <1> QED
    BY <1>2, <1>3, <1>4, <1>5, <1>6, LiveStep

-----------------------------------------------------------------------------
(* Mutations *)

\* The invariant again, from its parts, over a step of a mutation.
LEMMA MutationStep ==
    ASSUME IInv, version' \in version .. MaxChanges,
           slot' \in SlotType, recovery' \in RecoveryType,
           status' \in {"waiting", "refreshing", "fresh", "stale", "closed"},
           started' \in BOOLEAN, running' \in BOOLEAN, exhausted' \in BOOLEAN, cut' \in BOOLEAN,
           UNCHANGED <<announced, attempts, closed>>,
           mutations' \in [Mutations -> MutationType],
           unsynced' \in BOOLEAN, newest' \in Mutations \union {Nobody},
           LoopInv', FetchInv', SyncInv', OneEvictor => OwnInv'
    PROVE  IInv'
  <1>1. TypeOK
    BY DEF IInv
  <1>2. version \in Nat /\ version' \in Nat /\ version' >= version
    BY <1>1, QueryAssumption DEF TypeOK
  <1>3. recovery' \in [at : {"none", "wait", "sent", "read", "resolved", "succeeded", "failed"},
                       current : BOOLEAN, query : Nat, base : 0 .. version']
    <2>1. \A b \in 0 .. version : b \in 0 .. version'
      BY <1>2
    <2> QED
      BY <2>1 DEF RecoveryType
  <1>4. version' \in 0 .. MaxChanges /\ announced' \in 0 .. version'
    BY <1>1, <1>2, QueryAssumption DEF TypeOK
  <1>5. TypeOK'
    BY <1>1, <1>3, <1>4 DEF TypeOK, SlotType, MutationType
  <1> QED
    BY <1>5 DEF IInv

Stages == {"unused", "cancelling", "pending", "recorded", "settling", "settled", "over"}

\* A mutation's stage changes, and nothing of what it wrote.
LEMMA Going ==
    ASSUME TypeOK, NEW m \in Mutations, NEW stage \in Stages, MutationGoes(m, stage)
    PROVE  /\ mutations' \in [Mutations -> MutationType] /\ mutations'[m].at = stage
           /\ \A n \in Mutations :
                /\ n # m => mutations'[n] = mutations[n]
                /\ mutations'[n].wrote = mutations[n].wrote
                /\ mutations'[n].previous = mutations[n].previous
                /\ mutations'[n].query = mutations[n].query
                /\ mutations'[n].revision = mutations[n].revision
  <1> DEFINE r == [mutations[m] EXCEPT !.at = stage]
  <1>1. mutations \in [Mutations -> MutationType] /\ mutations[m] \in MutationType
    BY Typed
  <1>2. /\ r \in MutationType /\ r.at = stage /\ r.wrote = mutations[m].wrote
        /\ r.previous = mutations[m].previous /\ r.query = mutations[m].query
        /\ r.revision = mutations[m].revision
    BY <1>1 DEF MutationType, Stages
  <1>3. mutations' = [mutations EXCEPT ![m] = r]
    BY <1>1 DEF MutationGoes
  <1> HIDE DEF r
  <1>4. /\ mutations' \in [Mutations -> MutationType] /\ mutations'[m] = r
        /\ \A n \in Mutations : n # m => mutations'[n] = mutations[n]
    BY <1>1, <1>2, <1>3
  <1> QED
    BY <1>2, <1>4

\* A mutation that settles forgets what it wrote.
LEMMA Muting ==
    ASSUME TypeOK, NEW m \in Mutations,
           mutations' = [mutations EXCEPT ![m] = Mute("settling")]
    PROVE  /\ mutations' \in [Mutations -> MutationType]
           /\ mutations'[m].at = "settling" /\ ~mutations'[m].wrote
           /\ \A n \in Mutations : n # m => mutations'[n] = mutations[n]
  <1> DEFINE r == Mute("settling")
  <1>1. mutations \in [Mutations -> MutationType]
    BY Typed
  <1>2. r \in MutationType /\ r.at = "settling" /\ ~r.wrote
    BY QueryAssumption DEF Mute, MutationType, NoData, Data, NoQuery
  <1> HIDE DEF r
  <1>3. mutations' = [mutations EXCEPT ![m] = r]
    BY DEF r
  <1>4. /\ mutations' \in [Mutations -> MutationType] /\ mutations'[m] = r
        /\ \A n \in Mutations : n # m => mutations'[n] = mutations[n]
    BY <1>1, <1>2, <1>3
  <1> QED
    BY <1>2, <1>4

\* While a mutation is under way the last invalidation has not come.
LEMMA StillUnsynced ==
    ASSUME IInv, NEW m \in Mutations, mutations[m].at \in {"cancelling", "pending", "recorded", "settling"}
    PROVE  unsynced
  BY DEF IInv, SyncInv

\* With guesses unsynced there is only the mark of the entry to look at.
LEMMA UnsyncedKept ==
    ASSUME SyncInv, unsynced', Vouched' => Vouched, closed' = closed,
           slot'.invalidated = slot.invalidated \/ ~slot'.invalidated
    PROVE  SyncInv'
  BY DEF SyncInv

LEMMA StepMutate == ASSUME IInv, NEW m \in Mutations, Mutate(m) PROVE IInv'
  <1>1. TypeOK /\ LoopInv /\ FetchInv /\ SyncInv /\ (OneEvictor => OwnInv)
    BY DEF IInv
  <1>2. /\ MutationGoes(m, "cancelling") /\ CancelQueries /\ unsynced' = TRUE
        /\ UNCHANGED <<version, announced, slot, live, newest>>
        /\ UNCHANGED <<status, attempts, started, running, exhausted, closed>>
    BY DEF Mutate, live
  <1>3. /\ recovery' \in RecoveryType /\ cut' \in BOOLEAN
        /\ LoopInv' /\ FetchInv' /\ (Vouched' => Vouched)
    BY <1>1, <1>2, Cancelling
  <1>4. /\ mutations' \in [Mutations -> MutationType]
        /\ \A n \in Mutations :
             /\ mutations'[n].wrote = mutations[n].wrote
             /\ mutations'[n].previous = mutations[n].previous
             /\ mutations'[n].query = mutations[n].query
             /\ mutations'[n].revision = mutations[n].revision
    BY <1>1, <1>2, Going DEF Stages
  <1>5. SyncInv'
    BY <1>1, <1>2, <1>3, UnsyncedKept
  <1>6. OneEvictor => OwnInv'
    BY <1>1, <1>2, <1>3, <1>4, OwnKept
  <1>7. /\ newest' \in Mutations \union {Nobody} /\ started' \in BOOLEAN
        /\ running' \in BOOLEAN /\ exhausted' \in BOOLEAN
        /\ status' \in {"waiting", "refreshing", "fresh", "stale", "closed"}
        /\ slot' \in SlotType /\ version' \in version .. MaxChanges
    BY <1>1, <1>2, Typed, QueryAssumption DEF TypeOK
  <1> QED
    BY <1>2, <1>3, <1>4, <1>5, <1>6, <1>7, MutationStep

\* A fold over what is cached: a new revision over the same snapshot.
LEMMA Writing ==
    ASSUME TypeOK, NEW data \in Data, SetData(data)
    PROVE  /\ slot' \in SlotType /\ slot'.query # NoQuery /\ slot'.data = data
           /\ slot'.updates = NewRevision /\ ~slot'.invalidated
           /\ slot.query # NoQuery => slot'.query = slot.query
           /\ slot.query = NoQuery => slot'.query = NewQuery
  <1>1. slot.query \in Nat /\ NewQuery \in Nat \ {0} /\ NewRevision \in Nat
    BY Typed, NewOnes
  <1> DEFINE query == IF slot.query = NoQuery THEN NewQuery ELSE slot.query
  <1>2. query \in Nat /\ query # NoQuery
    BY <1>1 DEF NoQuery
  <1>3. slot' = [query |-> query, data |-> data, updates |-> NewRevision, invalidated |-> FALSE]
    BY DEF SetData
  <1> HIDE DEF query
  <1>4. /\ slot' \in SlotType /\ slot'.query = query /\ slot'.data = data
        /\ slot'.updates = NewRevision /\ slot'.invalidated = FALSE
    BY <1>1, <1>2, <1>3 DEF SlotType
  <1> QED
    BY <1>2, <1>4 DEF query

\* A fold of m over what is cached: a write, or the eviction of the entry.
LEMMA Folding ==
    ASSUME IInv, NEW m \in Mutations, Cached, SetOrEvict(m), UNCHANGED <<version, announced, live>>
    PROVE  /\ slot' \in SlotType /\ recovery' \in RecoveryType /\ cut' \in BOOLEAN
           /\ LoopInv' /\ FetchInv' /\ (Vouched' => Vouched)
           /\ ~slot'.invalidated /\ newest' = m
           /\ \/ /\ slot'.query # NoQuery /\ slot'.updates = NewRevision
                 /\ slot'.data.base = slot.data.base /\ Cached'
              \/ /\ m \in Evictors /\ slot'.query = NoQuery /\ slot'.updates = 0 /\ ~Cached'
  <1>1. TypeOK /\ LoopInv /\ FetchInv
    BY DEF IInv
  <1>2. newest' = m
    BY DEF SetOrEvict
  <1>3. CASE m \in Evictors /\ RemoveQuery
    BY <1>1, <1>2, <1>3, Removing
  <1> DEFINE data == [slot.data EXCEPT !.ops = @ \union {m}]
  <1>4. CASE SetData(data) /\ UNCHANGED <<recovery, cut>>
    <2>1. slot.data \in Data /\ recovery \in RecoveryType /\ cut \in BOOLEAN
      BY <1>1, Typed DEF TypeOK
    <2>2. data \in Data /\ data.base = slot.data.base /\ m \in data.ops
      BY <2>1 DEF Data
    <2> HIDE DEF data
    <2>3. /\ slot' \in SlotType /\ slot'.query # NoQuery /\ slot'.data = data
          /\ slot'.updates = NewRevision /\ ~slot'.invalidated
          /\ slot.query # NoQuery => slot'.query = slot.query
      BY <1>1, <1>4, <2>2, Writing
    <2>4. Cached'
      <3>1. NoData.ops = {}
        BY DEF NoData
      <3> QED
        BY <2>2, <2>3, <3>1 DEF Cached
    <2>5. UNCHANGED <<status, attempts, started, running, exhausted, closed>>
      BY DEF live
    <2>6. LoopInv'
      BY <1>1, <1>4, <2>5 DEF LoopInv
    <2>7. FetchInv'
      BY <1>1, <1>4, <2>3 DEF FetchInv
    <2>8. Vouched' => Vouched
      BY <1>4, <2>5 DEF Vouched
    <2> QED
      BY <1>2, <1>4, <2>1, <2>2, <2>3, <2>4, <2>6, <2>7, <2>8
  <1> QED
    BY <1>3, <1>4 DEF SetOrEvict

\* What the fold of m leaves the others to undo, and m itself if it remembers its write.
LEMMA OwnFolded ==
    ASSUME IInv, OneEvictor, NEW m \in Mutations, Cached, SetOrEvict(m),
           UNCHANGED <<version, announced, live>>,
           \A n \in Mutations : n # m => mutations'[n] = mutations[n],
           mutations'[m].wrote =>
             /\ mutations'[m].previous = slot.data
             /\ mutations'[m].query = slot'.query /\ mutations'[m].revision = slot'.updates
    PROVE  OwnInv'
  <1>1. TypeOK /\ OwnInv
    BY DEF IInv
  <1>2. (Vouched' => Vouched) /\ newest' = m
    BY Folding
  <1>3. \/ /\ slot'.query # NoQuery /\ slot'.updates = NewRevision
           /\ slot'.data.base = slot.data.base /\ Cached'
        \/ /\ m \in Evictors /\ slot'.query = NoQuery /\ ~Cached'
    BY Folding
  <1>4. Vouched' => slot.data.base >= announced'
    BY <1>1, <1>2 DEF OwnInv
  <1>5. Vouched' /\ Cached' => slot'.data.base >= announced'
    BY <1>3, <1>4
  <1>6. OwnGood(m)'
    BY <1>2, <1>3, <1>4 DEF OwnGood
  <1>7. ASSUME NEW n \in Mutations, n # m PROVE OwnGood(n)'
    <2>1. OwnGood(n) /\ mutations'[n] = mutations[n]
      BY <1>1, <1>7 DEF OwnInv
    <2>2. CASE slot'.query # NoQuery /\ slot'.updates = NewRevision
      BY <1>1, <2>1, <2>2, Replaced
    <2>3. CASE m \in Evictors /\ slot'.query = NoQuery
      <3>1. n \notin Evictors
        BY <1>7, <2>3 DEF OneEvictor
      <3> QED
        BY <2>1, <2>3, <3>1 DEF OwnGood
    <2> QED
      BY <1>3, <2>2, <2>3
  <1> QED
    BY <1>5, <1>6, <1>7 DEF OwnInv

\* What a mutation leaves alone keeps its type.
LEMMA LiveTyped ==
    ASSUME TypeOK, UNCHANGED <<announced, live>>
    PROVE  /\ UNCHANGED <<status, attempts, started, running, exhausted, closed>>
           /\ status' \in {"waiting", "refreshing", "fresh", "stale", "closed"}
           /\ started' \in BOOLEAN /\ running' \in BOOLEAN /\ exhausted' \in BOOLEAN
           /\ version \in version .. MaxChanges
  BY QueryAssumption DEF TypeOK, live

LEMMA StepApply == ASSUME IInv, NEW m \in Mutations, Apply(m) PROVE IInv'
  <1>1. TypeOK /\ LoopInv /\ FetchInv /\ SyncInv /\ (OneEvictor => OwnInv)
    BY DEF IInv
  <1>2. mutations[m].at = "cancelling" /\ UNCHANGED <<version, announced, live, unsynced>>
    BY DEF Apply
  <1>3. unsynced /\ unsynced' \in BOOLEAN /\ unsynced'
    BY <1>1, <1>2, StillUnsynced DEF TypeOK
  <1>4. /\ UNCHANGED <<status, attempts, started, running, exhausted, closed>>
        /\ status' \in {"waiting", "refreshing", "fresh", "stale", "closed"}
        /\ started' \in BOOLEAN /\ running' \in BOOLEAN /\ exhausted' \in BOOLEAN
        /\ version' \in version .. MaxChanges
    BY <1>1, <1>2, LiveTyped
  <1>5. CASE ~Cached /\ MutationGoes(m, "pending") /\ UNCHANGED <<slot, recovery, cut, newest>>
    <2>1. /\ mutations' \in [Mutations -> MutationType]
          /\ \A n \in Mutations :
               /\ mutations'[n].wrote = mutations[n].wrote
               /\ mutations'[n].previous = mutations[n].previous
               /\ mutations'[n].query = mutations[n].query
               /\ mutations'[n].revision = mutations[n].revision
      BY <1>1, <1>5, Going DEF Stages
    <2>2. Vouched' => Vouched
      BY <1>4, <1>5 DEF Vouched
    <2>3. LoopInv' /\ FetchInv'
      BY <1>1, <1>2, <1>4, <1>5 DEF LoopInv, FetchInv
    <2>4. SyncInv'
      BY <1>1, <1>3, <1>4, <1>5, <2>2, UnsyncedKept
    <2>5. OneEvictor => OwnInv'
      BY <1>1, <1>2, <1>5, <2>1, <2>2, OwnKept
    <2>6. /\ slot' \in SlotType /\ recovery' \in RecoveryType /\ cut' \in BOOLEAN
          /\ newest' \in Mutations \union {Nobody}
      BY <1>1, <1>2, <1>5, Typed DEF TypeOK, RecoveryType
    <2> QED
      BY <1>2, <1>3, <1>4, <2>1, <2>3, <2>4, <2>5, <2>6, MutationStep
  <1>6. CASE /\ Cached /\ SetOrEvict(m)
             /\ mutations' = [mutations EXCEPT
                   ![m] = [at |-> "pending", wrote |-> TRUE, previous |-> slot.data,
                           query |-> slot'.query, revision |-> slot'.updates]]
    <2> DEFINE r == [at |-> "pending", wrote |-> TRUE, previous |-> slot.data,
                     query |-> slot'.query, revision |-> slot'.updates]
    <2>1. /\ slot' \in SlotType /\ recovery' \in RecoveryType /\ cut' \in BOOLEAN
          /\ LoopInv' /\ FetchInv' /\ (Vouched' => Vouched)
          /\ ~slot'.invalidated /\ newest' = m
      BY <1>2, <1>6, Folding
    <2>2. slot.data \in Data /\ slot'.query \in Nat /\ slot'.updates \in Nat
          /\ mutations \in [Mutations -> MutationType]
      BY <1>1, <2>1, Typed DEF SlotType
    <2>3. /\ r \in MutationType /\ r.wrote /\ r.previous = slot.data
          /\ r.query = slot'.query /\ r.revision = slot'.updates
      BY <2>2 DEF MutationType
    <2>4. mutations' = [mutations EXCEPT ![m] = r]
      BY <1>6
    <2> HIDE DEF r
    <2>5. /\ mutations' \in [Mutations -> MutationType] /\ mutations'[m] = r
          /\ \A n \in Mutations : n # m => mutations'[n] = mutations[n]
      BY <2>2, <2>3, <2>4
    <2>6. SyncInv'
      BY <1>1, <1>3, <1>4, <2>1, UnsyncedKept
    <2>7. OneEvictor => OwnInv'
      BY <1>2, <1>6, <2>3, <2>5, OwnFolded
    <2> QED
      BY <1>2, <1>3, <1>4, <2>1, <2>5, <2>6, <2>7, MutationStep
  <1> QED
    BY <1>5, <1>6 DEF Apply

LEMMA StepSucceed == ASSUME IInv, NEW m \in Mutations, Succeed(m) PROVE IInv'
  <1>1. TypeOK /\ LoopInv /\ FetchInv /\ SyncInv /\ (OneEvictor => OwnInv)
    BY DEF IInv
  <1>2. /\ mutations[m].at = "recorded" /\ UNCHANGED <<version, announced, live, unsynced>>
        /\ mutations' = [mutations EXCEPT ![m] = Mute("settling")]
    BY DEF Succeed
  <1>3. unsynced /\ unsynced' \in BOOLEAN /\ unsynced'
    BY <1>1, <1>2, StillUnsynced DEF TypeOK
  <1>4. /\ UNCHANGED <<status, attempts, started, running, exhausted, closed>>
        /\ status' \in {"waiting", "refreshing", "fresh", "stale", "closed"}
        /\ started' \in BOOLEAN /\ running' \in BOOLEAN /\ exhausted' \in BOOLEAN
        /\ version' \in version .. MaxChanges
    BY <1>1, <1>2, LiveTyped
  <1>5. /\ mutations' \in [Mutations -> MutationType] /\ ~mutations'[m].wrote
        /\ \A n \in Mutations : n # m => mutations'[n] = mutations[n]
    BY <1>1, <1>2, Muting
  <1>6. CASE UNCHANGED <<slot, recovery, cut, newest>>
    <2>1. Vouched' => Vouched
      BY <1>4, <1>6 DEF Vouched
    <2>2. LoopInv' /\ FetchInv'
      BY <1>1, <1>2, <1>4, <1>6 DEF LoopInv, FetchInv
    <2>3. SyncInv'
      BY <1>1, <1>3, <1>4, <1>6, <2>1, UnsyncedKept
    <2>4. OneEvictor => OwnInv'
      BY <1>1, <1>2, <1>5, <1>6, <2>1, OwnKept
    <2>5. /\ slot' \in SlotType /\ recovery' \in RecoveryType /\ cut' \in BOOLEAN
          /\ newest' \in Mutations \union {Nobody}
      BY <1>1, <1>2, <1>6, Typed DEF TypeOK, RecoveryType
    <2> QED
      BY <1>2, <1>3, <1>4, <1>5, <2>2, <2>3, <2>4, <2>5, MutationStep
  <1>7. CASE Cached /\ SetOrEvict(m)
    <2>1. /\ slot' \in SlotType /\ recovery' \in RecoveryType /\ cut' \in BOOLEAN
          /\ LoopInv' /\ FetchInv' /\ (Vouched' => Vouched)
          /\ ~slot'.invalidated /\ newest' = m
      BY <1>2, <1>7, Folding
    <2>2. SyncInv'
      BY <1>1, <1>3, <1>4, <2>1, UnsyncedKept
    <2>3. OneEvictor => OwnInv'
      BY <1>2, <1>5, <1>7, OwnFolded
    <2> QED
      BY <1>2, <1>3, <1>4, <1>5, <2>1, <2>2, <2>3, MutationStep
  <1> QED
    BY <1>6, <1>7 DEF Succeed

\* What m may undo is the newest write of the entry, over a snapshot that is vouched for still.
LEMMA OwnUndone ==
    ASSUME TypeOK, OwnInv, NEW m \in Mutations, mutations[m].wrote, StillOwn(m)
    PROVE  newest = m /\ (Vouched => mutations[m].previous.base >= announced)
  <1>1. OwnGood(m) /\ (Vouched /\ Cached => slot.data.base >= announced)
    BY DEF OwnInv
  <1> QED
    BY <1>1 DEF OwnGood, StillOwn

LEMMA StepFailMutation == ASSUME IInv, NEW m \in Mutations, FailMutation(m) PROVE IInv'
  <1>1. TypeOK /\ LoopInv /\ FetchInv /\ SyncInv /\ (OneEvictor => OwnInv)
    BY DEF IInv
  <1>2. /\ mutations[m].at \in {"pending", "recorded"}
        /\ UNCHANGED <<version, announced, live, recovery, cut, unsynced>>
        /\ mutations' = [mutations EXCEPT ![m] = Mute("settling")]
    BY DEF FailMutation
  <1>3. unsynced /\ unsynced' \in BOOLEAN /\ unsynced'
    BY <1>1, <1>2, StillUnsynced DEF TypeOK
  <1>4. /\ UNCHANGED <<status, attempts, started, running, exhausted, closed>>
        /\ status' \in {"waiting", "refreshing", "fresh", "stale", "closed"}
        /\ started' \in BOOLEAN /\ running' \in BOOLEAN /\ exhausted' \in BOOLEAN
        /\ version' \in version .. MaxChanges
    BY <1>1, <1>2, LiveTyped
  <1>5. /\ mutations' \in [Mutations -> MutationType] /\ ~mutations'[m].wrote
        /\ \A n \in Mutations : n # m => mutations'[n] = mutations[n]
    BY <1>1, <1>2, Muting
  <1>6. Vouched' => Vouched
    BY <1>2, <1>4 DEF Vouched
  <1>7. LoopInv' /\ recovery' \in RecoveryType /\ cut' \in BOOLEAN
    BY <1>1, <1>2, <1>4, Typed DEF LoopInv, TypeOK
  <1>8. CASE UNCHANGED <<slot, newest>>
    <2>1. FetchInv'
      BY <1>1, <1>2, <1>8 DEF FetchInv
    <2>2. SyncInv'
      BY <1>1, <1>3, <1>4, <1>6, <1>8, UnsyncedKept
    <2>3. OneEvictor => OwnInv'
      BY <1>1, <1>2, <1>5, <1>6, <1>8, OwnKept
    <2>4. slot' \in SlotType /\ newest' \in Mutations \union {Nobody}
      BY <1>1, <1>8, Typed DEF TypeOK
    <2> QED
      BY <1>2, <1>3, <1>4, <1>5, <1>7, <2>1, <2>2, <2>3, <2>4, MutationStep
  <1>9. CASE /\ mutations[m].wrote /\ StillOwn(m)
             /\ SetData(mutations[m].previous) /\ newest' = Nobody
    <2>1. /\ slot' \in SlotType /\ slot'.query # NoQuery /\ slot'.data = mutations[m].previous
          /\ slot'.updates = NewRevision /\ ~slot'.invalidated
          /\ slot.query # NoQuery => slot'.query = slot.query
      BY <1>1, <1>9, Typed, Writing
    <2>2. FetchInv'
      BY <1>1, <1>2, <2>1 DEF FetchInv
    <2>3. SyncInv'
      BY <1>1, <1>3, <1>4, <1>6, <2>1, UnsyncedKept
    <2>4. OneEvictor => OwnInv'
      <3> SUFFICES ASSUME OneEvictor PROVE OwnInv'
        OBVIOUS
      <3>1. Vouched' => slot'.data.base >= announced'
        BY <1>1, <1>2, <1>6, <1>9, <2>1, OwnUndone
      <3>2. ASSUME NEW n \in Mutations PROVE OwnGood(n)'
        <4>1. /\ mutations'[n].wrote => /\ mutations[n].wrote
                                        /\ mutations'[n].query = mutations[n].query
                                        /\ mutations'[n].revision = mutations[n].revision
              /\ OwnGood(n)
          BY <1>1, <1>5 DEF OwnInv
        <4> QED
          BY <1>1, <2>1, <4>1, Replaced
      <3> QED
        BY <3>1, <3>2 DEF OwnInv
    <2> QED
      BY <1>2, <1>3, <1>4, <1>5, <1>7, <1>9, <2>1, <2>2, <2>3, <2>4, MutationStep
  <1> QED
    BY <1>8, <1>9 DEF FailMutation

\* A step that leaves the live query and the entry alone: the backend moves on, or a stage changes.
LEMMA EntryKept ==
    ASSUME IInv, UNCHANGED <<announced, slot, live, recovery, cut, newest>>,
           version' \in version .. MaxChanges, unsynced' \in BOOLEAN,
           mutations' \in [Mutations -> MutationType],
           \A n \in Mutations :
             /\ mutations'[n].wrote = mutations[n].wrote
             /\ mutations'[n].previous = mutations[n].previous
             /\ mutations'[n].query = mutations[n].query
             /\ mutations'[n].revision = mutations[n].revision,
           SyncInv'
    PROVE  IInv'
  <1>1. TypeOK /\ LoopInv /\ FetchInv /\ SyncInv /\ (OneEvictor => OwnInv)
    BY DEF IInv
  <1>2. UNCHANGED <<status, attempts, started, running, exhausted, closed>>
    BY DEF live
  <1>3. Vouched' => Vouched
    BY <1>2 DEF Vouched
  <1>4. LoopInv' /\ FetchInv'
    BY <1>1, <1>2 DEF LoopInv, FetchInv
  <1>5. OneEvictor => OwnInv'
    BY <1>1, <1>3, OwnKept
  <1>6. version \in Nat /\ version' \in Nat /\ version' >= version
    BY <1>1, QueryAssumption DEF TypeOK
  <1>7. recovery' \in [at : {"none", "wait", "sent", "read", "resolved", "succeeded", "failed"},
                       current : BOOLEAN, query : Nat, base : 0 .. version']
    <2>1. \A b \in 0 .. version : b \in 0 .. version'
      BY <1>6
    <2> QED
      BY <1>1, <2>1, Typed DEF RecoveryType
  <1>8. version' \in 0 .. MaxChanges /\ announced' \in 0 .. version'
    BY <1>1, <1>6, QueryAssumption DEF TypeOK
  <1>9. TypeOK'
    BY <1>1, <1>2, <1>7, <1>8 DEF TypeOK, MutationType
  <1> QED
    BY <1>4, <1>5, <1>9 DEF IInv

LEMMA ChangesBounded ==
    ASSUME TypeOK, Changes \/ UNCHANGED version
    PROVE  version' \in version .. MaxChanges
  BY QueryAssumption DEF TypeOK, Changes

LEMMA StepChange == IInv /\ Change => IInv'
  <1> SUFFICES ASSUME IInv, Change PROVE IInv'
    OBVIOUS
  <1>1. /\ Changes /\ UNCHANGED <<announced, slot, live, recovery, cut, newest, mutations, unsynced>>
        /\ UNCHANGED <<status, attempts, started, running, exhausted, closed>>
    BY DEF Change, history, live
  <1>2. TypeOK /\ SyncInv
    BY DEF IInv
  <1>3. Vouched' => Vouched
    BY <1>1 DEF Vouched
  <1>4. SyncInv'
    BY <1>1, <1>2, <1>3, SyncKept
  <1>5. /\ unsynced' \in BOOLEAN /\ mutations' \in [Mutations -> MutationType]
        /\ version' \in version .. MaxChanges
    BY <1>1, <1>2, Typed, ChangesBounded DEF TypeOK
  <1> QED
    BY <1>1, <1>4, <1>5, EntryKept

LEMMA StepRecord == ASSUME IInv, NEW m \in Mutations, Record(m) PROVE IInv'
  <1>1. /\ mutations[m].at = "pending" /\ MutationGoes(m, "recorded")
        /\ Changes \/ UNCHANGED version
        /\ UNCHANGED <<announced, slot, live, recovery, cut, unsynced, newest>>
        /\ UNCHANGED <<status, attempts, started, running, exhausted, closed>>
    BY DEF Record, history, live
  <1>2. TypeOK /\ SyncInv
    BY DEF IInv
  <1>3. /\ mutations' \in [Mutations -> MutationType]
        /\ \A n \in Mutations :
             /\ mutations'[n].wrote = mutations[n].wrote
             /\ mutations'[n].previous = mutations[n].previous
             /\ mutations'[n].query = mutations[n].query
             /\ mutations'[n].revision = mutations[n].revision
    BY <1>1, <1>2, Going DEF Stages
  <1>4. unsynced /\ unsynced' /\ unsynced' \in BOOLEAN
    BY <1>1, <1>2, StillUnsynced DEF TypeOK
  <1>5. Vouched' => Vouched
    BY <1>1 DEF Vouched
  <1>6. SyncInv'
    BY <1>1, <1>2, <1>4, <1>5, UnsyncedKept
  <1>7. version' \in version .. MaxChanges
    BY <1>1, <1>2, ChangesBounded
  <1> QED
    BY <1>1, <1>3, <1>4, <1>6, <1>7, EntryKept

LEMMA StepFinish == ASSUME IInv, NEW m \in Mutations, Finish(m) PROVE IInv'
  <1>1. /\ mutations[m].at = "settled" /\ MutationGoes(m, "over")
        /\ UNCHANGED <<version, announced, slot, live, recovery, cut, unsynced, newest>>
        /\ UNCHANGED <<status, attempts, started, running, exhausted, closed>>
    BY DEF Finish, history, live
  <1>2. TypeOK /\ SyncInv
    BY DEF IInv
  <1>3. /\ mutations' \in [Mutations -> MutationType] /\ mutations'[m].at = "over"
        /\ \A n \in Mutations :
             /\ n # m => mutations'[n] = mutations[n]
             /\ mutations'[n].wrote = mutations[n].wrote
             /\ mutations'[n].previous = mutations[n].previous
             /\ mutations'[n].query = mutations[n].query
             /\ mutations'[n].revision = mutations[n].revision
    BY <1>1, <1>2, Going DEF Stages
  <1>4. Vouched' => Vouched
    BY <1>1 DEF Vouched
  <1>5. ~unsynced' => \A n \in Mutations : mutations'[n].at \in {"unused", "settled", "over"}
    BY <1>1, <1>2, <1>3 DEF SyncInv
  <1>6. SyncInv'
    BY <1>1, <1>2, <1>4, <1>5 DEF SyncInv, Cached
  <1>7. version' \in version .. MaxChanges /\ unsynced' \in BOOLEAN
    BY <1>1, <1>2, ChangesBounded DEF TypeOK
  <1> QED
    BY <1>1, <1>3, <1>6, <1>7, EntryKept

\* The mutation isMutating counts alone leaves none in between.
LEMMA LastAlone ==
    ASSUME NEW m \in Mutations, IsLast, m \in Pending
    PROVE  \A n \in Mutations : n # m => mutations[n].at \in {"unused", "over"}
  <1>1. IsFiniteSet(Pending)
    <2>1. Pending \subseteq Mutations
      BY DEF Pending
    <2> QED
      BY <2>1, QueryAssumption, FS_Subset
  <1>2. \E x : Pending = {x}
    BY <1>1, FS_Singleton DEF IsLast
  <1>3. Pending = {m}
    BY <1>2
  <1>4. ASSUME NEW n \in Mutations, n # m PROVE mutations[n].at \in {"unused", "over"}
    BY <1>3, <1>4 DEF Pending
  <1> QED
    BY <1>4

LEMMA StepSettle == ASSUME IInv, NEW m \in Mutations, Settle(m) PROVE IInv'
  <1>1. TypeOK /\ LoopInv /\ FetchInv /\ SyncInv /\ (OneEvictor => OwnInv)
    BY DEF IInv
  <1>2. /\ mutations[m].at = "settling" /\ MutationGoes(m, "settled")
        /\ UNCHANGED <<version, announced, attempts, closed, newest>>
    BY DEF Settle
  <1>3. /\ mutations' \in [Mutations -> MutationType] /\ mutations'[m].at = "settled"
        /\ \A n \in Mutations :
             /\ n # m => mutations'[n] = mutations[n]
             /\ mutations'[n].wrote = mutations[n].wrote
             /\ mutations'[n].previous = mutations[n].previous
             /\ mutations'[n].query = mutations[n].query
             /\ mutations'[n].revision = mutations[n].revision
    BY <1>1, <1>2, Going DEF Stages
  <1>4. unsynced
    BY <1>2, StillUnsynced
  <1>5. version' \in version .. MaxChanges /\ newest' \in Mutations \union {Nobody}
    BY <1>1, <1>2, ChangesBounded DEF TypeOK
  <1>6. CASE IsLast
    <2>1. InvalidateQueries /\ unsynced' = FALSE
      BY <1>6 DEF Settle
    <2>2. /\ slot' \in SlotType /\ recovery' \in RecoveryType
          /\ status' \in {"waiting", "refreshing", "fresh", "stale", "closed"}
          /\ started' \in BOOLEAN /\ running' \in BOOLEAN /\ exhausted' \in BOOLEAN
          /\ cut' \in BOOLEAN
          /\ slot'.query = slot.query /\ slot'.data = slot.data /\ slot'.updates = slot.updates
          /\ LoopInv' /\ FetchInv'
          /\ Vouched' =>
               /\ Vouched /\ (closed \/ slot.query = NoQuery \/ slot.invalidated)
               /\ slot'.invalidated = slot.invalidated \/ closed
      BY <1>2, <2>1, InvalidatingQueries
    <2>3. \A n \in Mutations : mutations'[n].at \in {"unused", "settled", "over"}
      <3>1. m \in Pending
        BY <1>2 DEF Pending
      <3> QED
        BY <1>3, <1>6, <3>1, LastAlone
    <2>4. SyncInv'
      <3>1. Vouched' /\ ~closed' => Vouched /\ ~closed /\ ~slot.invalidated /\ ~slot'.invalidated
        BY <1>1, <1>2, <2>2 DEF SyncInv
      <3>2. Vouched' /\ ~closed' => ~Cached'
        BY <1>1, <1>2, <2>2, <3>1 DEF FetchInv, Cached
      <3> QED
        BY <2>3, <3>1, <3>2 DEF SyncInv
    <2>5. OneEvictor => OwnInv'
      BY <1>1, <1>2, <1>3, <2>2, OwnKept
    <2> QED
      BY <1>2, <1>3, <1>5, <2>1, <2>2, <2>4, <2>5, MutationStep
  <1>7. CASE ~IsLast
    <2>1. UNCHANGED <<slot, status, started, running, exhausted, recovery, cut, unsynced>>
      BY <1>7 DEF Settle
    <2>2. Vouched' => Vouched
      BY <2>1 DEF Vouched
    <2>3. SyncInv'
      BY <1>1, <1>2, <1>4, <2>1, <2>2, UnsyncedKept
    <2>4. UNCHANGED live /\ unsynced' \in BOOLEAN
      BY <1>1, <1>2, <2>1 DEF live, TypeOK
    <2> QED
      BY <1>2, <1>3, <1>5, <2>1, <2>3, <2>4, EntryKept
  <1> QED
    BY <1>6, <1>7

-----------------------------------------------------------------------------
(* The specification *)

LEMMA InitIInv == Init => IInv
  <1> SUFFICES ASSUME Init PROVE IInv
    OBVIOUS
  <1>1. /\ version = 0 /\ announced = 0 /\ status = "waiting" /\ attempts = 0
        /\ started = FALSE /\ running = FALSE /\ exhausted = FALSE /\ closed = FALSE
        /\ cut = FALSE /\ unsynced = FALSE /\ newest = Nobody /\ recovery = Stopped
    BY DEF Init
  <1>2. slot \in SlotType /\ slot.query = 1 /\ slot.data = NoData /\ ~slot.invalidated
    <2>1. Evicted \in SlotType /\ Evicted.data = NoData /\ ~Evicted.invalidated
      BY QueryAssumption DEF Evicted, SlotType, NoQuery, NoData, Data
    <2>2. slot = [Evicted EXCEPT !.query = 1]
      BY DEF Init
    <2> QED
      BY <2>1, <2>2 DEF SlotType
  <1>3. recovery \in RecoveryType /\ recovery.at = "none"
    <2>1. 0 \in 0 .. version
      BY <1>1
    <2> QED
      BY <1>1, <2>1 DEF Stopped, NoQuery, RecoveryType
  <1> DEFINE r == Mute("unused")
  <1>4. r \in MutationType /\ r.at = "unused" /\ ~r.wrote
    BY QueryAssumption DEF Mute, MutationType, NoData, Data, NoQuery
  <1>5. mutations = [m \in Mutations |-> r]
    BY DEF Init
  <1> HIDE DEF r
  <1>6. /\ mutations \in [Mutations -> MutationType]
        /\ \A m \in Mutations : mutations[m].at = "unused" /\ ~mutations[m].wrote
    BY <1>4, <1>5
  <1>7. TypeOK
    <2>1. version \in 0 .. MaxChanges /\ announced \in 0 .. version /\ attempts \in 0 .. MaxRefetches
      BY <1>1, QueryAssumption
    <2>2. /\ cut \in BOOLEAN /\ unsynced \in BOOLEAN /\ newest \in Mutations \union {Nobody}
          /\ started \in BOOLEAN /\ running \in BOOLEAN /\ exhausted \in BOOLEAN
          /\ closed \in BOOLEAN
          /\ status \in {"waiting", "refreshing", "fresh", "stale", "closed"}
      BY <1>1
    <2> QED
      BY <1>2, <1>3, <1>6, <2>1, <2>2 DEF TypeOK, SlotType, RecoveryType, MutationType
  <1>8. LoopInv
    BY <1>1, <1>3 DEF LoopInv
  <1>9. FetchInv
    BY <1>2, <1>3 DEF FetchInv, Running, NoQuery
  <1>10. ~Vouched
    BY <1>1, <1>3 DEF Vouched
  <1>11. SyncInv
    BY <1>6, <1>10 DEF SyncInv
  <1>12. OwnInv
    BY <1>6, <1>10 DEF OwnInv, OwnGood
  <1> QED
    BY <1>7, <1>8, <1>9, <1>11, <1>12 DEF IInv

LEMMA StepStutter == IInv /\ UNCHANGED vars => IInv'
  <1> SUFFICES ASSUME IInv, UNCHANGED vars PROVE IInv'
    OBVIOUS
  <1>1. /\ UNCHANGED <<announced, slot, live, recovery, cut, newest, mutations, unsynced, version>>
        /\ UNCHANGED <<status, attempts, started, running, exhausted, closed>>
    BY DEF vars, history, live
  <1>2. TypeOK /\ SyncInv
    BY DEF IInv
  <1>3. SyncInv'
    BY <1>1, <1>2 DEF SyncInv, Vouched, Cached
  <1>4. /\ unsynced' \in BOOLEAN /\ mutations' \in [Mutations -> MutationType]
        /\ version' \in version .. MaxChanges
    BY <1>1, <1>2, Typed, ChangesBounded DEF TypeOK
  <1> QED
    BY <1>1, <1>3, <1>4, EntryKept

LEMMA StepMutation == ASSUME IInv, NEW m \in Mutations, Mutation(m) PROVE IInv'
  BY StepMutate, StepApply, StepRecord, StepSucceed, StepFailMutation, StepSettle, StepFinish
     DEF Mutation

LEMMA StepLiveQuery == IInv /\ LiveQuery => IInv'
  BY StepInvalidates, StepClose, StepBegin, StepRead, StepArrive, StepCommit, StepResume, StepTimeout
     DEF LiveQuery

LEMMA StepIInv == IInv /\ [Next]_vars => IInv'
  <1> SUFFICES ASSUME IInv, [Next]_vars PROVE IInv'
    OBVIOUS
  <1>1. ASSUME NEW m \in Mutations, Mutation(m) PROVE IInv'
    BY <1>1, StepMutation
  <1> QED
    BY <1>1, StepStutter, StepLiveQuery, StepInvalidateTarget, StepAbortInvalidation, StepChange
       DEF Next

\* The inductive invariant: the loop of recover() agrees with its flags (live-query.ts), a fetch that
\* is current is the entry's own, and what a settled snapshot or a rollback shows is vouched for.
THEOREM Invariance == Spec => []IInv
  <1>1. Init => IInv
    BY InitIInv
  <1>2. IInv /\ [Next]_vars => IInv'
    BY StepIInv
  <1> QED
    BY <1>1, <1>2, PTL DEF Spec

\* Every variable keeps its type: in particular the recovery never spends more than maxRefetches
\* attempts, however events, boundaries and refreshes interleave with its loop.
THEOREM TypeCorrect == Spec => []TypeOK
  <1>1. IInv => TypeOK
    BY DEF IInv
  <1> QED
    BY <1>1, Invariance, PTL

\* Once the last optimistic mutation has invalidated the entry, what the live query shows as fresh
\* holds no guess of a mutation: neither one whose rollback was skipped nor one that was never
\* confirmed (optimistic.ts onSettled, live-query.ts recover).
THEOREM GuessesEnd == Spec => []GuessesAreResynced
  <1>1. IInv => GuessesAreResynced
    BY DEF IInv, SyncInv, Vouched, GuessesAreResynced
  <1> QED
    BY <1>1, Invariance, PTL

\* A raced snapshot never shows as fresh: what is fresh was read after the last announcement, through
\* any number of overlapping writes, folds and rollbacks (live-query.ts queryFn and recover()).  At
\* most one mutation's fold may evict the entry: with two, an absent entry is taken for one's own by
\* either rollback (routing.ts:66), and the older one may bring back what the newer one evicted.
THEOREM FreshHolds == OneEvictor => (Spec => []FreshIsCurrent)
  <1> SUFFICES ASSUME OneEvictor PROVE Spec => []FreshIsCurrent
    OBVIOUS
  <1>1. IInv => FreshIsCurrent
    BY DEF IInv, OwnInv, Vouched, FreshIsCurrent
  <1> QED
    BY <1>1, Invariance, PTL

\* A failed older mutation never overwrites a newer one: a rollback that changes the entry undoes
\* the newest write of it, under the same condition (optimistic.ts onError, routing.ts rollback).
THEOREM RollbackHolds == OneEvictor => (Spec => RollbackIsOwn)
  <1> SUFFICES ASSUME OneEvictor PROVE Spec => RollbackIsOwn
    OBVIOUS
  <1>1. ASSUME IInv, NEW m \in Mutations, FailMutation(m), slot' # slot PROVE newest = m
    <2>1. mutations[m].wrote /\ StillOwn(m)
      BY <1>1 DEF FailMutation
    <2> QED
      BY <1>1, <2>1, OwnUndone DEF IInv
  <1>2. IInv => [\A m \in Mutations : FailMutation(m) /\ slot' # slot => newest = m]_vars
    BY <1>1
  <1> QED
    BY <1>2, Invariance, PTL DEF RollbackIsOwn
=============================================================================
