---------------------------- MODULE SubtreeCache ----------------------------
(***************************************************************************)
(* get_category_subtree_ids and invalidate_category_subtree_cache          *)
(* (app/services/category_service.py) against one Redis, between requests  *)
(* that change the category table.                                         *)
(*                                                                         *)
(* Every await of the two coroutines is a step boundary.  The table is     *)
(* abstracted to rev, the number of changes committed to it, and a list of *)
(* subtree ids to the value of rev at the moment it was queried.           *)
(***************************************************************************)
EXTENDS Integers, FiniteSets

CONSTANTS
    Readers,        \* lookups in flight at once
    Writers,        \* mutating requests in flight at once
    Roots,          \* the categories whose subtree is looked up
    CacheEnabled,   \* category_subtree_cache_enabled, and a client exists
    InitialVersion, \* the version counter at the start, 0 when the key is missing
    MaxRev,         \* bound: changes committed
    MaxRestarts,    \* bound: restarts of Redis
    MaxForeign,     \* bound: entries written over by others at a time
    Unparsable,     \* a payload that json.loads rejects
    Misshapen       \* a payload that is not a list of integers

Junk == {Unparsable, Misshapen}

ASSUME CacheEnabledAssumption == CacheEnabled \in BOOLEAN
ASSUME BoundsAssumption ==
    /\ InitialVersion \in Nat
    /\ MaxRev \in Nat /\ MaxRestarts \in Nat /\ MaxForeign \in Nat
ASSUME RootsAssumption == Roots # {}
ASSUME JunkAssumption == Junk \cap Int = {}

VARIABLES
    rev,        \* changes committed so far
    version,    \* Redis: the version counter, 0 when the key is missing
    entry,      \* Redis: <<version, root>> -> payload, for the keys that exist
    wpc,        \* the await at which each writer stands
    rpc,        \* the await at which each reader stands
    look,       \* the local variables of each lookup
    given,      \* each reader's answer, -1 while there is none
    bornAt,     \* history: rev when the counter took each of its values
    doubt,      \* history: values of the counter under which Redis may keep
                \* lists from before the counter last took them
    restarts    \* restarts so far

vars == <<rev, version, entry, wpc, rpc, look, given, bornAt, doubt, restarts>>

Payloads == Nat \cup Junk

\* version and content are set when read; floor is history: the changes that
\* the last invalidation before the lookup had seen committed.
Lookups == [root : Roots, version : Nat, content : Nat, floor : Nat]

NoLookup == [root |-> CHOOSE root \in Roots : TRUE,
             version |-> 0, content |-> 0, floor |-> 0]

ReaderSteps == {"idle", "version", "entry", "query", "set", "direct"}

TypeOK ==
    /\ rev \in Nat
    /\ version \in Nat
    /\ DOMAIN entry \subseteq Nat \X Roots
    /\ \A key \in DOMAIN entry : entry[key] \in Payloads
    /\ wpc \in [Writers -> {"idle", "incr"}]
    /\ rpc \in [Readers -> ReaderSteps]
    /\ look \in [Readers -> Lookups]
    /\ given \in [Readers -> Nat \cup {-1}]
    /\ bornAt \in [0..version -> Nat]
    /\ doubt \subseteq Nat
    /\ restarts \in Nat

Init ==
    /\ rev = 0
    /\ version = InitialVersion
    /\ entry = [key \in {} |-> 0]
    /\ wpc = [w \in Writers |-> "idle"]
    /\ rpc = [r \in Readers |-> "idle"]
    /\ look = [r \in Readers |-> NoLookup]
    /\ given = [r \in Readers |-> -1]
    /\ bornAt = [v \in 0..InitialVersion |-> 0]
    /\ doubt = IF InitialVersion = 0 THEN {1} ELSE {}
    /\ restarts = 0

-----------------------------------------------------------------------------
(* Redis. *)

\* Fault: a key without the version.
FaultyKeyVersion(v) == 1

\* cache_version or "1"
KeyVersion(v) == IF v = 0 THEN 1 ELSE v

Key(l) == <<l.version, l.root>>

Incr ==
    /\ version' = version + 1
    /\ bornAt' = [v \in 0..(version + 1) |-> IF v = version + 1 THEN rev ELSE bornAt[v]]

Store(key, payload) ==
    entry' = [k \in DOMAIN entry \cup {key} |-> IF k = key THEN payload ELSE entry[k]]

Drop(key) == entry' = [k \in DOMAIN entry \ {key} |-> entry[k]]

redisVars == <<version, entry, bornAt, doubt, restarts>>
readerVars == <<rpc, look, given>>

-----------------------------------------------------------------------------
(* A request that changes the category table, from its commit on. *)

WriterAt(w, step) == wpc' = [wpc EXCEPT ![w] = step]

Commit(w) ==
    /\ wpc[w] = "idle"
    /\ rev < MaxRev
    /\ rev' = rev + 1
    /\ WriterAt(w, IF CacheEnabled THEN "incr" ELSE "idle")
    /\ UNCHANGED <<redisVars, readerVars>>

Invalidate(w) ==
    /\ wpc[w] = "incr"
    /\ Incr
    /\ WriterAt(w, "idle")
    /\ UNCHANGED <<rev, entry, doubt, restarts, readerVars>>

\* A RedisError, which is logged and swallowed, or the request dies here.
\* (When only the reply is lost the counter has moved: that is Invalidate.)
InvalidateFails(w) ==
    /\ wpc[w] = "incr"
    /\ WriterAt(w, "idle")
    /\ UNCHANGED <<rev, redisVars, readerVars>>

-----------------------------------------------------------------------------
(* A lookup. *)

ReaderAt(r, step) == rpc' = [rpc EXCEPT ![r] = step]

Answer(r, content) ==
    /\ ReaderAt(r, "idle")
    /\ given' = [given EXCEPT ![r] = content]
    /\ look' = [look EXCEPT ![r] = NoLookup]

\* What lookups that begin now must reflect.
Floor == IF doubt = {} THEN bornAt[version] ELSE 0

BeginLookup(r) ==
    /\ rpc[r] = "idle"
    /\ ReaderAt(r, IF CacheEnabled THEN "version" ELSE "direct")
    /\ \E root \in Roots :
          look' = [look EXCEPT ![r] =
                     [NoLookup EXCEPT !.root = root, !.floor = Floor]]
    /\ given' = [given EXCEPT ![r] = -1]
    /\ UNCHANGED <<rev, redisVars, wpc>>

GetVersion(r) ==
    /\ rpc[r] = "version"
    /\ ReaderAt(r, "entry")
    /\ look' = [look EXCEPT ![r].version = KeyVersion(version)]
    /\ UNCHANGED <<rev, redisVars, wpc, given>>

Miss(r, step) == ReaderAt(r, step) /\ UNCHANGED <<look, given>>

\* Fault: whatever is stored is the answer.
FaultyGetEntry(r) ==
    /\ rpc[r] = "entry"
    /\ IF Key(look[r]) \in DOMAIN entry THEN Answer(r, entry[Key(look[r])])
       ELSE Miss(r, "query")
    /\ UNCHANGED <<rev, redisVars, wpc>>

\* GET of the entry: a list of integers is the answer; nothing, or something
\* else, is a miss; what does not parse raises ValueError.
GetEntry(r) ==
    /\ rpc[r] = "entry"
    /\ LET key == Key(look[r])
           cached == IF key \in DOMAIN entry THEN entry[key] ELSE Misshapen
       IN  CASE cached \notin Junk   -> Answer(r, cached)
             [] cached = Misshapen  -> Miss(r, "query")
             [] cached = Unparsable -> Miss(r, "direct")
    /\ UNCHANGED <<rev, redisVars, wpc>>

QuerySubtree(r) ==
    /\ rpc[r] = "query"
    /\ ReaderAt(r, "set")
    /\ look' = [look EXCEPT ![r].content = rev]
    /\ UNCHANGED <<rev, redisVars, wpc, given>>

\* Fault: the list is stored under the version current when it is stored.
FaultySetEntry(r) ==
    /\ rpc[r] = "set"
    /\ Store(<<KeyVersion(version), look[r].root>>, look[r].content)
    /\ Answer(r, look[r].content)
    /\ UNCHANGED <<rev, version, bornAt, doubt, restarts, wpc>>

SetEntry(r) ==
    /\ rpc[r] = "set"
    /\ Store(Key(look[r]), look[r].content)
    /\ Answer(r, look[r].content)
    /\ UNCHANGED <<rev, version, bornAt, doubt, restarts, wpc>>

\* A SET whose reply never comes may have stored the entry all the same.
MaybeStored(r) ==
    \/ UNCHANGED entry
    \/ rpc[r] = "set" /\ Store(Key(look[r]), look[r].content)

\* RedisError at any of the three calls: a miss, then the database.
RedisFails(r) ==
    /\ rpc[r] \in {"version", "entry", "set"}
    /\ Miss(r, "direct")
    /\ MaybeStored(r)
    /\ UNCHANGED <<rev, version, bornAt, doubt, restarts, wpc>>

QueryDirect(r) ==
    /\ rpc[r] = "direct"
    /\ Answer(r, rev)
    /\ UNCHANGED <<rev, redisVars, wpc>>

\* The request that searches is cancelled, or its worker dies.
LookupDies(r) ==
    /\ rpc[r] # "idle"
    /\ ReaderAt(r, "idle")
    /\ look' = [look EXCEPT ![r] = NoLookup]
    /\ MaybeStored(r)
    /\ UNCHANGED <<rev, version, bornAt, doubt, restarts, wpc, given>>

-----------------------------------------------------------------------------
(* What happens to Redis from outside. *)

\* Fault: SET without ex.
FaultyExpire(key) == FALSE

\* The entry's TTL runs out.  The counter has no TTL.
Expire(key) ==
    /\ key \in DOMAIN entry
    /\ Drop(key)
    /\ UNCHANGED <<rev, version, bornAt, doubt, restarts, wpc, readerVars>>

\* Another program writes over an entry; the code is prepared for it.
Overwrite(key) ==
    /\ key \in DOMAIN entry
    /\ Cardinality({k \in DOMAIN entry : entry[k] \in Junk}) < MaxForeign
    /\ \E payload \in Junk : Store(key, payload)
    /\ UNCHANGED <<rev, version, bornAt, doubt, restarts, wpc, readerVars>>

\* Lookups that have read the counter and may still store a list under it.
Pinned == {look[r].version : r \in {q \in Readers : rpc[q] \in {"entry", "query", "set"}}}

\* Redis restarts from a dump, or empty: the counter falls back, and entries
\* that were not in the dump are gone.  (That others were lost too, or expired
\* meanwhile, is an Expire before this step.)
Restart ==
    /\ restarts < MaxRestarts
    /\ restarts' = restarts + 1
    /\ \E v \in 0..version :
          /\ version' = v
          /\ bornAt' = [u \in 0..v |-> bornAt[u]]
          /\ entry' = [key \in {k \in DOMAIN entry :
                                  k[1] <= KeyVersion(v) \/ k[1] \in doubt} |-> entry[key]]
          /\ doubt' = doubt \cup {KeyVersion(v)} \cup Pinned
    /\ look' = [r \in Readers |-> [look[r] EXCEPT !.floor = 0]]
    /\ UNCHANGED <<rev, wpc, rpc, given>>

WriterStep(w) == Commit(w) \/ Invalidate(w) \/ InvalidateFails(w)

LookupStep(r) ==
    \/ GetVersion(r) \/ GetEntry(r) \/ QuerySubtree(r) \/ SetEntry(r)
    \/ RedisFails(r) \/ QueryDirect(r)

ReaderStep(r) == BeginLookup(r) \/ LookupStep(r) \/ LookupDies(r)

Next ==
    \/ \E w \in Writers : WriterStep(w)
    \/ \E r \in Readers : ReaderStep(r)
    \/ \E key \in DOMAIN entry : Expire(key) \/ Overwrite(key)
    \/ Restart

Spec == Init /\ [][Next]_vars

\* A request in flight goes on: Redis and the database answer or fail.  Redis
\* drops an entry once its TTL is over.
Fairness ==
    /\ \A r \in Readers : WF_vars(LookupStep(r))
    /\ \A v \in 1..(InitialVersion + MaxRev), root \in Roots :
          WF_vars(Expire(<<v, root>>))

FairSpec == Spec /\ Fairness

-----------------------------------------------------------------------------
(* Properties. *)

Readable(key) == key \in DOMAIN entry /\ entry[key] \notin Junk

\* An invalidation takes effect at once: what a lookup that starts now would
\* be served from the cache reflects every change that was committed when the
\* counter last moved (category_service.py:169, "by bumping the global subtree cache version").
InvalidationTakesEffect ==
    \A root \in Roots :
        LET key == <<KeyVersion(version), root>>
        IN  Readable(key) => entry[key] >= bornAt[version]

\* It does so whatever happens, a restart of Redis included, except where the
\* counter stands at a value in doubt: 1 on an empty Redis, the value a restart
\* fell back to, and those pinned by lookups the restart overtook.  A slow
\* lookup cannot undo an invalidation, since it stores under the version it read
\* before its query; and the cache heals as soon as the counter is past those.
OutdatedUnlessInDoubt ==
    KeyVersion(version) \notin doubt => InvalidationTakesEffect

\* Each lookup, on whichever path it is answered (hit, miss, fallback), answers
\* between the floor set by the last invalidation before it began and the
\* latest commit: the cache implements LookupContract.  A Redis that may hold
\* lists in doubt has withdrawn the floor.
Contract == INSTANCE LookupContract WITH
    changes <- rev,
    floor <- Floor,
    asked <- [r \in Readers |-> IF rpc[r] = "idle" THEN -1 ELSE look[r].floor]

MeetsContract == Contract!ContractSpec

\* When changes stop, every stale list disappears, even if each invalidation
\* failed and slow lookups were still storing old lists: the TTL sees to it.
StaleListsDisappear ==
    <>[](\A root \in Roots :
            LET key == <<KeyVersion(version), root>>
            IN  Readable(key) => entry[key] = rev)
=============================================================================
