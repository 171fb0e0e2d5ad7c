------------------------------- MODULE KVStore -------------------------------
(***************************************************************************)
(* The key-value store of src/src/kv/kv.cpp: a cache of at most MaxSize    *)
(* keys in front of the table kv_store, least recently used key out first. *)
(*                                                                         *)
(* Scripts read and write on the dispatcher thread.  A key that is pushed  *)
(* out is parked in pendingEvictions_ and written to its row later, with   *)
(* no lock held: by the dispatcher itself at the end of set, get and       *)
(* saveAll, but by a thread pool job after keys.  One action is one locked *)
(* section or one SQL statement, which is where the threads interleave.    *)
(* SQL writes may fail.  KVStore::flush has no caller and is left out.     *)
(***************************************************************************)
EXTENDS Naturals, Sequences, FiniteSets, FiniteSetsExt

CONSTANTS
    Key,
    Value,
    Worker,     \* threads of the pool
    MaxSize,    \* KVStore::MAX_SIZE
    MaxPending, \* bound on evictions and jobs under way, for the model only
    Absent,     \* no row, no cache entry
    Deleted     \* ValueWrapper::deleted

ASSUME ValueAssumption == Absent \notin Value /\ Deleted \notin Value /\ Absent # Deleted
ASSUME SizeAssumption == MaxSize \in Nat \ {0} /\ MaxPending \in Nat
ASSUME KeyAssumption == IsFiniteSet(Key)
ASSUME WorkerAssumption == "dispatcher" \notin Worker

VARIABLES
    store,     \* store_: the cached values
    lru,       \* lruQueue_, most recently used key first
    pending,   \* pendingEvictions_
    db,        \* the rows of kv_store
    pc,        \* where the dispatcher is inside an operation
    arg,       \* the key and value that get is loading
    rows,      \* the result set keys is walking through
    batch,     \* what a thread took out of pendingEvictions_, unsaved
    failed,    \* one of the dispatcher's evictions could not be saved
    jobs,      \* processEvictions jobs waiting for a worker
    current,   \* history: the last value set
    reentered, \* history: keys cached again while an eviction was unsaved
    elsewhere  \* history: keys a worker held when saveAll took the evictions

cacheVars == <<store, lru, pending>>
opVars    == <<pc, arg, rows, failed>>
poolVars  == <<batch, jobs>>
histVars  == <<current, reentered, elsewhere>>
vars == <<cacheVars, db, opVars, poolVars, histVars>>

Main   == "dispatcher"
Thread == Worker \cup {Main}
Entry  == [key : Key, value : Value \cup {Deleted}]

\* What a reader sees of a cache entry.
Seen(v) == IF v = Deleted THEN Absent ELSE v

Cached == {k \in Key : store[k] # Absent}

TypeOK ==
    /\ store \in [Key -> Value \cup {Deleted, Absent}]
    /\ lru \in Seq(Key)
    /\ pending \in Seq(Entry)
    /\ db \in [Key -> Value \cup {Absent}]
    /\ pc \in {"idle", "evict", "saving", "loaded", "prefix",
               "saveAll", "savingAll", "snapshot"}
    /\ arg \in [key : Key, value : Value] \cup {Absent}
    /\ rows \subseteq [key : Key, value : Value]
    /\ batch \in [Thread -> Seq(Entry)]
    /\ failed \in BOOLEAN
    /\ jobs \in Nat
    /\ current \in [Key -> Value \cup {Absent}]
    /\ reentered \subseteq Key
    /\ elsewhere \subseteq Key

Init ==
    /\ store = [k \in Key |-> Absent]
    /\ lru = <<>>
    /\ pending = <<>>
    /\ db \in [Key -> Value \cup {Absent}]
    /\ pc = "idle" /\ arg = Absent /\ rows = {} /\ failed = FALSE
    /\ batch = [t \in Thread |-> <<>>]
    /\ jobs = 0
    /\ current = db
    /\ reentered = {}
    /\ elsewhere = {}

-----------------------------------------------------------------------------
\* The evictions of key k that are not in the table yet.
In(k, s) == {n \in DOMAIN s : s[n].key = k}
Unsaved(k) == In(k, pending) # {} \/ \E t \in Thread : In(k, batch[t]) # {}

\* lruQueue_.splice with the iterator that the cache entry of k holds
LruIterator(k) == CHOOSE n \in DOMAIN lru : lru[n] = k
Others(k) ==
    SubSeq(lru, 1, LruIterator(k) - 1) \o SubSeq(lru, LruIterator(k) + 1, Len(lru))

Front(k) == <<k>> \o Others(k)
Back(k)  == Others(k) \o <<k>>

\* The key setLocked pushes out when a new key comes in.
Full == Cardinality(Cached) >= MaxSize /\ lru # <<>>
Last == lru[Len(lru)]

\* KVStore::setLocked
SetLocked(k, v) ==
    IF k \in Cached
    THEN /\ store' = [store EXCEPT ![k] = v]
         /\ lru' = Front(k)
         /\ UNCHANGED pending
    ELSE /\ store' = IF Full THEN [store EXCEPT ![Last] = Absent, ![k] = v]
                     ELSE [store EXCEPT ![k] = v]
         /\ lru' = <<k>> \o (IF Full THEN SubSeq(lru, 1, Len(lru) - 1) ELSE lru)
         /\ pending' = IF Full THEN Append(pending, [key |-> Last, value |-> store[Last]])
                       ELSE pending

\* History: k comes into the cache although an evicted value of it is unsaved,
\* or from a row that was read before that value was saved.
Reenter(k, stale) ==
    reentered' = IF k \notin Cached /\ (Unsaved(k) \/ stale)
                 THEN reentered \cup {k} ELSE reentered

\* The bound of the model: an operation starts only while few evictions and
\* jobs are under way; one that has started always finishes.
Room == /\ Len(pending) + MapThenSumSet(LAMBDA w : Len(batch[w]), Worker) < MaxPending
        /\ jobs < MaxPending

-----------------------------------------------------------------------------
(***************************************************************************)
(* set and remove, up to the end of the locked section.                    *)
(***************************************************************************)
Set(k, v) ==
    /\ pc = "idle" /\ Room
    /\ SetLocked(k, v)
    /\ Reenter(k, FALSE)
    /\ current' = [current EXCEPT ![k] = Seen(v)]
    /\ pc' = "evict"
    /\ UNCHANGED <<db, arg, rows, failed, poolVars, elsewhere>>

(***************************************************************************)
(* get: a cached key only changes its place in the queue, a deleted one to *)
(* the end of it.  Otherwise, or when forced, the row is read first and    *)
(* cached in a second locked section.                                      *)
(***************************************************************************)
GetCached(k) ==
    /\ pc = "idle" /\ k \in Cached
    /\ lru' = IF store[k] = Deleted THEN Back(k) ELSE Front(k)
    /\ UNCHANGED <<store, pending, db, opVars, poolVars, histVars>>

GetLoad(k) ==
    /\ pc = "idle" /\ Room
    /\ db[k] # Absent
    /\ arg' = [key |-> k, value |-> db[k]]
    /\ pc' = "loaded"
    /\ Reenter(k, FALSE)
    /\ UNCHANGED <<cacheVars, db, rows, failed, poolVars, current, elsewhere>>

GetStore ==
    /\ pc = "loaded"
    /\ IF arg.key \in Cached
       THEN UNCHANGED <<cacheVars, reentered>>
       ELSE SetLocked(arg.key, arg.value) /\ Reenter(arg.key, arg.value # db[arg.key])
    /\ arg' = Absent
    /\ pc' = "evict"
    /\ UNCHANGED <<db, rows, failed, poolVars, current, elsewhere>>

(***************************************************************************)
(* keys: loadPrefix reads the rows in one query and caches them one by     *)
(* one; if that pushed something out, a job is sent to the pool.           *)
(***************************************************************************)
KeysQuery ==
    /\ pc = "idle" /\ Room
    /\ rows' = {[key |-> k, value |-> db[k]] : k \in {x \in Key : db[x] # Absent}}
    /\ pc' = "prefix"
    /\ reentered' = reentered \cup {k \in Key : k \notin Cached /\ Unsaved(k) /\ db[k] # Absent}
    /\ UNCHANGED <<cacheVars, db, arg, failed, poolVars, current, elsewhere>>

KeysRow ==
    /\ pc = "prefix"
    /\ \E r \in rows :
          /\ rows' = rows \ {r}
          /\ IF r.key \in Cached
             THEN UNCHANGED <<cacheVars, reentered>>
             ELSE SetLocked(r.key, r.value) /\ Reenter(r.key, r.value # db[r.key])
    /\ UNCHANGED <<db, pc, arg, failed, poolVars, current, elsewhere>>

KeysEnd ==
    /\ pc = "prefix" /\ rows = {}
    /\ jobs' = IF pending # <<>> THEN jobs + 1 ELSE jobs
    /\ pc' = "idle"
    /\ UNCHANGED <<cacheVars, db, arg, rows, failed, batch, histVars>>

-----------------------------------------------------------------------------
(***************************************************************************)
(* processEvictions: everything pending is taken under the lock and saved  *)
(* without it; what could not be saved is parked again.                    *)
(***************************************************************************)
TakeEvictions ==
    /\ pc \in {"evict", "saveAll"}
    /\ batch' = [batch EXCEPT ![Main] = pending]
    /\ pending' = <<>>
    /\ failed' = FALSE
    /\ pc' = IF pc = "evict" THEN "saving" ELSE "savingAll"
    /\ elsewhere' = IF pc = "evict" THEN elsewhere
                    ELSE {k \in Key : \E w \in Worker : In(k, batch[w]) # {}}
    /\ UNCHANGED <<store, lru, db, arg, rows, jobs, current, reentered>>

\* A worker runs a detached job.
TakeJob(w) ==
    /\ jobs > 0 /\ batch[w] = <<>>
    /\ jobs' = jobs - 1
    /\ batch' = [batch EXCEPT ![w] = pending]
    /\ pending' = <<>>
    /\ UNCHANGED <<store, lru, db, opVars, histVars>>

\* KVStore::save: an upsert, or a DELETE for a deleted value
\* slip: a deleted value is stored in the row
SlipSaved(e) == [db EXCEPT ![e.key] = e.value]
Saved(e) == [db EXCEPT ![e.key] = Seen(e.value)]

SaveEviction(t) ==
    /\ batch[t] # <<>>
    /\ db' = Saved(Head(batch[t]))
    /\ batch' = [batch EXCEPT ![t] = Tail(@)]
    /\ UNCHANGED <<cacheVars, opVars, jobs, histVars>>

\* slip: an eviction that could not be saved is forgotten
SlipEvictionFails(t) ==
    /\ batch[t] # <<>>
    /\ batch' = [batch EXCEPT ![t] = Tail(@)]
    /\ failed' = IF t = Main THEN TRUE ELSE failed
    /\ UNCHANGED <<store, lru, pending, db, pc, arg, rows, jobs, histVars>>

EvictionFails(t) ==
    /\ batch[t] # <<>>
    /\ pending' = Append(pending, Head(batch[t]))
    /\ batch' = [batch EXCEPT ![t] = Tail(@)]
    /\ failed' = IF t = Main THEN TRUE ELSE failed
    /\ UNCHANGED <<store, lru, db, pc, arg, rows, jobs, histVars>>

\* set and get return; saveAll goes on only if every eviction was saved.
\* slip: saveAll goes on regardless
SlipEndEvictions ==
    /\ pc \in {"saving", "savingAll"} /\ batch[Main] = <<>>
    /\ pc' = IF pc = "savingAll" THEN "snapshot" ELSE "idle"
    /\ UNCHANGED <<cacheVars, db, arg, rows, failed, poolVars, histVars>>

EndEvictions ==
    /\ pc \in {"saving", "savingAll"} /\ batch[Main] = <<>>
    /\ pc' = IF pc = "savingAll" /\ ~failed THEN "snapshot" ELSE "idle"
    /\ UNCHANGED <<cacheVars, db, arg, rows, failed, poolVars, histVars>>

-----------------------------------------------------------------------------
(***************************************************************************)
(* saveAll: evictions, then a copy of the whole cache in one transaction.  *)
(***************************************************************************)
SaveAll ==
    /\ pc = "idle"
    /\ pc' = "saveAll"
    /\ UNCHANGED <<cacheVars, db, arg, rows, failed, poolVars, histVars>>

Commit ==
    /\ pc = "snapshot"
    /\ db' = [k \in Key |-> IF k \in Cached THEN Seen(store[k]) ELSE db[k]]
    /\ pc' = "idle"
    /\ UNCHANGED <<cacheVars, arg, rows, failed, poolVars, histVars>>

Rollback ==
    /\ pc = "snapshot"
    /\ pc' = "idle"
    /\ UNCHANGED <<cacheVars, db, arg, rows, failed, poolVars, histVars>>

Next ==
    \/ \E k \in Key : GetCached(k) \/ GetLoad(k) \/ \E v \in Value \cup {Deleted} : Set(k, v)
    \/ GetStore \/ KeysQuery \/ KeysRow \/ KeysEnd
    \/ TakeEvictions \/ EndEvictions \/ SaveAll \/ Commit \/ Rollback
    \/ \E w \in Worker : TakeJob(w)
    \/ \E t \in Thread : SaveEviction(t) \/ EvictionFails(t)

Spec == Init /\ [][Next]_vars

-----------------------------------------------------------------------------
(***************************************************************************)
(* The last value a script set is never lost, whatever the cache throws    *)
(* out and whichever write fails: it is in the cache, else it is the only  *)
(* unsaved eviction of its key, else it is the row.  The one way out is a  *)
(* key that comes back into the cache while an older value of it is still  *)
(* unsaved; for such a key the code promises nothing.                      *)
(***************************************************************************)
LastValueSurvives ==
    \A k \in Key \ reentered :
        IF k \in Cached THEN Seen(store[k]) = current[k]
        ELSE IF Unsaved(k)
        THEN /\ \A n \in In(k, pending) : Seen(pending[n].value) = current[k]
             /\ \A t \in Thread : \A n \in In(k, batch[t]) : Seen(batch[t][n].value) = current[k]
        ELSE db[k] = current[k]

(***************************************************************************)
(* When saveAll reports success, the table holds the last value of every   *)
(* key except the ones whose eviction a pool thread was holding: saveAll   *)
(* waits for no pool thread.                                               *)
(***************************************************************************)
SaveAllIsComplete ==
    [][Commit => \A k \in Key \ (reentered \cup elsewhere) : db'[k] = current[k]]_vars
=============================================================================
