------------------------- MODULE SubtreeCache_proofs -------------------------
(***************************************************************************)
(* Proofs about SubtreeCache: for any number of readers, writers, roots    *)
(* changes and restarts, and whatever fails, an invalidation takes effect  *)
(* at once unless the counter stands at a value in doubt, and lookups meet *)
(* LookupContract.                                                         *)
(***************************************************************************)
EXTENDS SubtreeCache, TLAPS

USE DEF Junk

-----------------------------------------------------------------------------
(* The inductive invariant.  A list is stored under the version that was    *)
(* read before the query ran, so it is at least as new as that version;     *)
(* the versions a lookup may still read are no older than the one that was  *)
(* current when it began.  Of versions in doubt nothing is claimed but that *)
(* no list is newer than the table.                                         *)

VersionsInOrder ==
    /\ version = 0 => 1 \in doubt
    /\ \A v \in 0..version : bornAt[v] <= rev
    /\ \A u, v \in 0..version : u <= v => bornAt[u] <= bornAt[v]

EntriesFresh ==
    \A key \in DOMAIN entry :
        /\ entry[key] \notin Junk => entry[key] <= rev
        /\ key[1] \notin doubt =>
              /\ key[1] \in 0..version
              /\ entry[key] \notin Junk => bornAt[key[1]] <= entry[key]

LookupFresh(r) ==
    LET l == look[r] IN
    /\ doubt # {} => l.floor = 0
    /\ rpc[r] # "idle" /\ doubt = {} => l.floor <= bornAt[version]
    /\ rpc[r] \in {"entry", "query", "set"} /\ l.version \notin doubt =>
          l.version \in 0..version /\ l.floor <= bornAt[l.version]
    /\ rpc[r] = "set" =>
          /\ l.content <= rev
          /\ l.version \notin doubt => bornAt[l.version] <= l.content

IInv ==
    /\ TypeOK
    /\ VersionsInOrder
    /\ EntriesFresh
    /\ \A r \in Readers : LookupFresh(r)

LEMMA NoLookupType == NoLookup \in Lookups
BY RootsAssumption DEF NoLookup, Lookups

LEMMA InitIInv == Init => IInv
<1> SUFFICES ASSUME Init PROVE IInv OBVIOUS
<1>1. TypeOK
  BY NoLookupType, BoundsAssumption DEF Init, TypeOK, Payloads, ReaderSteps
<1>2. VersionsInOrder /\ EntriesFresh
  BY BoundsAssumption DEF Init, VersionsInOrder, EntriesFresh
<1>3. ASSUME NEW r \in Readers PROVE LookupFresh(r)
  <2>1. look[r].floor = 0 /\ rpc[r] = "idle" BY DEF Init, NoLookup
  <2> QED BY <2>1 DEF LookupFresh
<1> QED BY <1>1, <1>2, <1>3 DEF IInv

\* What a lookup that begins now must reflect was committed.
LEMMA FloorType ==
    ASSUME IInv
    PROVE  /\ Floor \in Nat /\ Floor <= rev
           /\ doubt = {} => Floor = bornAt[version]
           /\ doubt # {} => Floor = 0
<1>1. version \in Nat /\ rev \in Nat /\ bornAt \in [0..version -> Nat]
  BY DEF IInv, TypeOK
<1>2. version \in 0..version
  BY <1>1
<1>3. bornAt[version] \in Nat /\ bornAt[version] <= rev
  BY <1>1, <1>2 DEF IInv, VersionsInOrder
<1> QED
  BY <1>1, <1>3 DEF Floor

\* An entry put into Redis is as good as the list that is stored.
LEMMA StoreKeepsEntries ==
    ASSUME IInv, NEW key \in Nat \X Roots,
           NEW payload \in Payloads, Store(key, payload),
           payload \notin Junk => payload <= rev,
           key[1] \notin doubt =>
              /\ key[1] \in 0..version
              /\ payload \notin Junk => bornAt[key[1]] <= payload,
           UNCHANGED <<rev, version, bornAt, doubt>>
    PROVE  /\ EntriesFresh'
           /\ DOMAIN entry' \subseteq Nat \X Roots
           /\ \A k \in DOMAIN entry' : entry'[k] \in Payloads
BY DEF IInv, TypeOK, EntriesFresh, Store

\* Where a lookup goes, or ends, when Redis stays as it is but for an entry
\* that keeps EntriesFresh.
LEMMA ReaderMoves ==
    ASSUME IInv, NEW r \in Readers, NEW step \in ReaderSteps, NEW l \in Lookups,
           rpc' = [rpc EXCEPT ![r] = step], look' = [look EXCEPT ![r] = l],
           UNCHANGED <<rev, version, bornAt, doubt>>,
           LookupFresh(r)'
    PROVE  /\ rpc' \in [Readers -> ReaderSteps]
           /\ look' \in [Readers -> Lookups]
           /\ VersionsInOrder'
           /\ \A q \in Readers : LookupFresh(q)'
<1>1. ASSUME NEW q \in Readers, q # r PROVE LookupFresh(q)'
  <2>1. rpc'[q] = rpc[q] /\ look'[q] = look[q]
    BY <1>1 DEF IInv, TypeOK
  <2> QED BY <2>1 DEF IInv, LookupFresh
<1> QED BY <1>1 DEF IInv, TypeOK, VersionsInOrder

-----------------------------------------------------------------------------
(* One step.                                                                *)

LEMMA CommitKeepsIInv ==
    ASSUME IInv, NEW w \in Writers, Commit(w) PROVE IInv'
<1>1. /\ rev' = rev + 1
      /\ UNCHANGED <<version, entry, bornAt, doubt, restarts, rpc, look, given>>
  BY DEF Commit, redisVars, readerVars
<1>2. TypeOK' BY <1>1 DEF Commit, WriterAt, IInv, TypeOK
<1>3. VersionsInOrder' BY <1>1 DEF IInv, TypeOK, VersionsInOrder
<1>4. EntriesFresh'
  <2>1. ASSUME NEW key \in DOMAIN entry PROVE entry[key] \in Nat \cup Junk
    BY DEF IInv, TypeOK, Payloads
  <2> QED BY <1>1, <2>1 DEF IInv, TypeOK, EntriesFresh
<1>5. ASSUME NEW r \in Readers PROVE LookupFresh(r)'
  BY <1>1 DEF IInv, TypeOK, LookupFresh, Lookups
<1> QED BY <1>2, <1>3, <1>4, <1>5 DEF IInv

LEMMA InvalidateKeepsIInv ==
    ASSUME IInv, NEW w \in Writers, Invalidate(w) PROVE IInv'
<1> USE DEF Invalidate, Incr, WriterAt, readerVars
<1>1. /\ version' = version + 1
      /\ bornAt'[version + 1] = rev
      /\ \A v \in 0..version : bornAt'[v] = bornAt[v]
  BY DEF IInv, TypeOK
<1>2. TypeOK' BY DEF IInv, TypeOK
<1>3. VersionsInOrder' BY <1>1 DEF IInv, TypeOK, VersionsInOrder
<1>4. EntriesFresh' BY <1>1 DEF IInv, TypeOK, EntriesFresh
<1>5. ASSUME NEW r \in Readers PROVE LookupFresh(r)'
  <2>1. look[r] \in Lookups BY DEF IInv, TypeOK
  <2>2. bornAt[version] <= rev /\ bornAt[version] \in Nat /\ rev \in Nat
    BY DEF IInv, TypeOK, VersionsInOrder
  <2>3. UNCHANGED <<rev, doubt, rpc, look>> OBVIOUS
  <2>4. LookupFresh(r) BY DEF IInv
  <2>5. look[r].floor <= bornAt'[version']
     \/ doubt # {} \/ rpc[r] = "idle"
    BY <1>1, <2>1, <2>2, <2>4 DEF LookupFresh, Lookups
  <2>6. ASSUME rpc[r] \in {"entry", "query", "set"}, look[r].version \notin doubt
        PROVE  /\ look[r].version \in 0..version'
               /\ bornAt'[look[r].version] = bornAt[look[r].version]
    BY <1>1, <2>4, <2>6 DEF LookupFresh, IInv, TypeOK
  <2> QED BY <2>3, <2>4, <2>5, <2>6 DEF LookupFresh
<1> QED BY <1>2, <1>3, <1>4, <1>5 DEF IInv

LEMMA InvalidateFailsKeepsIInv ==
    ASSUME IInv, NEW w \in Writers, InvalidateFails(w) PROVE IInv'
BY DEF InvalidateFails, WriterAt, redisVars, readerVars, IInv, TypeOK,
       VersionsInOrder, EntriesFresh, LookupFresh

\* Redis is as it was and the reader moves on without an answer or ends.
LEMMA ReaderOnlyKeepsIInv ==
    ASSUME IInv, NEW r \in Readers, NEW step \in ReaderSteps, NEW l \in Lookups,
           rpc' = [rpc EXCEPT ![r] = step], look' = [look EXCEPT ![r] = l],
           UNCHANGED <<rev, version, entry, bornAt, doubt, restarts, wpc>>,
           LookupFresh(r)', given' \in [Readers -> Nat \cup {-1}]
    PROVE  IInv'
BY ReaderMoves DEF IInv, TypeOK, EntriesFresh

\* The reader stores its list, and then answers, falls back or is cut off.
LEMMA StoringKeepsIInv ==
    ASSUME IInv, NEW r \in Readers, rpc[r] = "set",
           Store(Key(look[r]), look[r].content),
           NEW step \in {"idle", "direct"}, NEW l \in Lookups, l.floor <= look[r].floor,
           rpc' = [rpc EXCEPT ![r] = step], look' = [look EXCEPT ![r] = l],
           UNCHANGED <<rev, version, bornAt, doubt, restarts, wpc>>,
           given' \in [Readers -> Nat \cup {-1}]
    PROVE  IInv'
<1> DEFINE key == Key(look[r])
<1>1. look[r] \in Lookups /\ LookupFresh(r) BY DEF IInv, TypeOK
<1>2. /\ key \in Nat \X Roots /\ key[1] = look[r].version
      /\ look[r].content \in Payloads /\ look[r].content <= rev
      /\ key[1] \notin doubt =>
            key[1] \in 0..version /\ bornAt[key[1]] <= look[r].content
  BY <1>1 DEF LookupFresh, Lookups, Key, Payloads
<1>3. /\ EntriesFresh'
      /\ DOMAIN entry' \subseteq Nat \X Roots
      /\ \A k \in DOMAIN entry' : entry'[k] \in Payloads
  BY <1>2, StoreKeepsEntries
<1>4. LookupFresh(r)'
  <2>1. look'[r] = l /\ rpc'[r] = step BY DEF IInv, TypeOK
  <2>2. doubt = {} => l.floor <= bornAt[version]
    BY <1>1 DEF LookupFresh, IInv, TypeOK, Lookups
  <2>3. doubt # {} => l.floor = 0
    BY <1>1 DEF LookupFresh, IInv, TypeOK, Lookups
  <2> QED BY <2>1, <2>2, <2>3 DEF LookupFresh
<1>5. step \in ReaderSteps BY DEF ReaderSteps
<1>6. /\ rpc' \in [Readers -> ReaderSteps] /\ look' \in [Readers -> Lookups]
      /\ VersionsInOrder' /\ \A q \in Readers : LookupFresh(q)'
  BY <1>4, <1>5, ReaderMoves
<1> QED BY <1>3, <1>6 DEF IInv, TypeOK

LEMMA BeginLookupKeepsIInv ==
    ASSUME IInv, NEW r \in Readers, BeginLookup(r) PROVE IInv'
<1>1. PICK root \in Roots :
        look' = [look EXCEPT ![r] = [NoLookup EXCEPT !.root = root, !.floor = Floor]]
  BY DEF BeginLookup
<1> DEFINE l == [NoLookup EXCEPT !.root = root, !.floor = Floor]
<1>2. Floor \in Nat BY FloorType
<1>3. l \in Lookups /\ l.floor = Floor
  BY <1>2, NoLookupType DEF NoLookup, Lookups
<1> DEFINE step == IF CacheEnabled THEN "version" ELSE "direct"
<1>4. step \in ReaderSteps /\ rpc' = [rpc EXCEPT ![r] = step]
  BY DEF BeginLookup, ReaderAt, ReaderSteps
<1>5. UNCHANGED <<rev, version, entry, bornAt, doubt, restarts, wpc>>
  BY DEF BeginLookup, redisVars
<1>6. look'[r] = l /\ rpc'[r] = step BY <1>1, <1>4 DEF IInv, TypeOK
<1>7. LookupFresh(r)'
  <2>1. step \in {"version", "direct"} OBVIOUS
  <2> HIDE DEF l, step
  <2> QED BY <1>3, <1>5, <1>6, <2>1, FloorType DEF LookupFresh
<1>8. given' \in [Readers -> Nat \cup {-1}] BY DEF BeginLookup, IInv, TypeOK
<1> HIDE DEF l, step
<1> QED BY <1>1, <1>3, <1>4, <1>5, <1>7, <1>8, ReaderOnlyKeepsIInv DEF l

LEMMA GetVersionKeepsIInv ==
    ASSUME IInv, NEW r \in Readers, GetVersion(r) PROVE IInv'
<1> DEFINE l == [look[r] EXCEPT !.version = KeyVersion(version)]
<1>1. look[r] \in Lookups /\ LookupFresh(r) BY DEF IInv, TypeOK
<1>2. /\ version \in Nat /\ KeyVersion(version) \in Nat
      /\ KeyVersion(version) \notin doubt => KeyVersion(version) = version
  BY DEF KeyVersion, IInv, TypeOK, VersionsInOrder
<1>3. l \in Lookups /\ l.version = KeyVersion(version) /\ l.floor = look[r].floor
  BY <1>1, <1>2 DEF Lookups
<1>4. /\ rpc' = [rpc EXCEPT ![r] = "entry"] /\ "entry" \in ReaderSteps
      /\ look' = [look EXCEPT ![r] = l]
      /\ UNCHANGED <<rev, version, entry, bornAt, doubt, restarts, wpc, given>>
  BY DEF GetVersion, ReaderAt, ReaderSteps, redisVars
<1>5. LookupFresh(r)'
  <2>1. look'[r] = l /\ rpc'[r] = "entry" BY <1>4 DEF IInv, TypeOK
  <2>2. doubt = {} => l.floor <= bornAt[version]
    BY <1>1, <1>3 DEF LookupFresh, GetVersion
  <2>3. doubt # {} => l.floor = 0 BY <1>1, <1>3 DEF LookupFresh
  <2>4. l.version \notin doubt =>
           l.version \in 0..version /\ l.floor <= bornAt[l.version]
    <3>1. SUFFICES ASSUME l.version \notin doubt
                   PROVE  l.version = version /\ l.floor <= bornAt[version]
      BY <1>2
    <3>2. bornAt[version] \in Nat BY DEF IInv, TypeOK
    <3> QED BY <1>2, <1>3, <2>2, <2>3, <3>1, <3>2
  <2> HIDE DEF l
  <2> QED BY <1>4, <2>1, <2>2, <2>3, <2>4 DEF LookupFresh
<1>6. given' \in [Readers -> Nat \cup {-1}] BY <1>4 DEF IInv, TypeOK
<1> HIDE DEF l
<1> QED BY <1>3, <1>4, <1>5, <1>6, ReaderOnlyKeepsIInv

\* An answer, the end of a lookup.
LEMMA AnswerKeepsIInv ==
    ASSUME IInv, NEW r \in Readers, NEW content \in Nat, Answer(r, content),
           UNCHANGED <<rev, version, entry, bornAt, doubt, restarts, wpc>>
    PROVE  IInv'
<1>1. /\ rpc' = [rpc EXCEPT ![r] = "idle"] /\ "idle" \in ReaderSteps
      /\ look' = [look EXCEPT ![r] = NoLookup]
      /\ given' \in [Readers -> Nat \cup {-1}]
  BY DEF Answer, ReaderAt, ReaderSteps, IInv, TypeOK
<1>2. LookupFresh(r)' BY <1>1 DEF LookupFresh, IInv, TypeOK, NoLookup
<1> QED BY <1>1, <1>2, NoLookupType, ReaderOnlyKeepsIInv

\* On to another await with the local variables as they are.
LEMMA MissKeepsIInv ==
    ASSUME IInv, NEW r \in Readers, NEW step \in {"query", "direct"}, Miss(r, step),
           rpc[r] # "idle", step = "query" => rpc[r] = "entry",
           UNCHANGED <<rev, version, entry, bornAt, doubt, restarts, wpc>>
    PROVE  IInv'
<1>1. /\ rpc' = [rpc EXCEPT ![r] = step] /\ step \in ReaderSteps
      /\ look' = [look EXCEPT ![r] = look[r]] /\ look[r] \in Lookups
      /\ given' \in [Readers -> Nat \cup {-1}]
  BY DEF Miss, ReaderAt, ReaderSteps, IInv, TypeOK
<1>2. LookupFresh(r)'
  <2>1. rpc'[r] = step /\ look'[r] = look[r] /\ LookupFresh(r)
    BY <1>1 DEF IInv, TypeOK
  <2> QED BY <2>1 DEF LookupFresh
<1> QED BY <1>1, <1>2, ReaderOnlyKeepsIInv

\* What a hit serves.
LEMMA HitIsFresh ==
    ASSUME IInv, NEW r \in Readers, rpc[r] = "entry",
           Key(look[r]) \in DOMAIN entry, entry[Key(look[r])] \notin Junk
    PROVE  /\ entry[Key(look[r])] \in Nat
           /\ look[r].floor <= entry[Key(look[r])]
           /\ entry[Key(look[r])] <= rev
<1> DEFINE content == entry[Key(look[r])]
<1>1. look[r] \in Lookups /\ LookupFresh(r) BY DEF IInv, TypeOK
<1>2. content \in Nat BY DEF IInv, TypeOK, Payloads
<1>3. Key(look[r])[1] = look[r].version BY DEF Key
<1>4. content <= rev BY DEF IInv, EntriesFresh
<1> HIDE DEF content
<1>5. CASE look[r].version \in doubt
  <2>1. look[r].floor = 0 BY <1>1, <1>5 DEF LookupFresh
  <2> QED BY <1>2, <1>4, <2>1 DEF content
<1>6. CASE look[r].version \notin doubt
  <2>1. /\ look[r].version \in 0..version
        /\ look[r].floor <= bornAt[look[r].version]
        /\ bornAt[look[r].version] <= content
    BY <1>1, <1>3, <1>6 DEF LookupFresh, IInv, EntriesFresh, content
  <2>2. bornAt[look[r].version] \in Nat /\ look[r].floor \in Nat
    BY <1>1, <2>1 DEF IInv, TypeOK, Lookups
  <2>3. look[r].floor <= content BY <1>2, <2>1, <2>2
  <2> QED BY <1>2, <1>4, <2>3 DEF content
<1> QED BY <1>5, <1>6

LEMMA GetEntryKeepsIInv ==
    ASSUME IInv, NEW r \in Readers, GetEntry(r) PROVE IInv'
<1> DEFINE key == Key(look[r])
<1>1. rpc[r] = "entry" /\ UNCHANGED <<rev, version, entry, bornAt, doubt, restarts, wpc>>
  BY DEF GetEntry, redisVars
<1>2. CASE key \in DOMAIN entry /\ entry[key] \notin Junk
  <2>1. Answer(r, entry[key]) BY <1>2 DEF GetEntry
  <2>2. entry[key] \in Nat BY <1>1, <1>2, HitIsFresh
  <2> QED BY <1>1, <2>1, <2>2, AnswerKeepsIInv
<1>3. CASE ~ (key \in DOMAIN entry /\ entry[key] \notin Junk)
  <2>1. Miss(r, "query") \/ Miss(r, "direct") BY <1>3 DEF GetEntry
  <2> QED BY <1>1, <2>1, MissKeepsIInv
<1> QED BY <1>2, <1>3

LEMMA QuerySubtreeKeepsIInv ==
    ASSUME IInv, NEW r \in Readers, QuerySubtree(r) PROVE IInv'
<1> DEFINE l == [look[r] EXCEPT !.content = rev]
<1>1. look[r] \in Lookups /\ LookupFresh(r) /\ rev \in Nat BY DEF IInv, TypeOK
<1>2. /\ l \in Lookups /\ l.content = rev
      /\ l.version = look[r].version /\ l.floor = look[r].floor
  BY <1>1 DEF Lookups
<1>3. /\ rpc' = [rpc EXCEPT ![r] = "set"] /\ "set" \in ReaderSteps
      /\ look' = [look EXCEPT ![r] = l]
      /\ UNCHANGED <<rev, version, entry, bornAt, doubt, restarts, wpc, given>>
  BY DEF QuerySubtree, ReaderAt, ReaderSteps, redisVars
<1>4. LookupFresh(r)'
  <2>1. look'[r] = l /\ rpc'[r] = "set" BY <1>3 DEF IInv, TypeOK
  <2>2. l.version \notin doubt =>
           l.version \in 0..version /\ l.floor <= bornAt[l.version]
    BY <1>1, <1>2 DEF LookupFresh, QuerySubtree
  <2>3. /\ doubt # {} => l.floor = 0
        /\ doubt = {} => l.floor <= bornAt[version]
    BY <1>1, <1>2 DEF LookupFresh, QuerySubtree
  <2>4. l.content <= rev /\ (l.version \notin doubt => bornAt[l.version] <= l.content)
    BY <1>1, <1>2, <2>2 DEF IInv, VersionsInOrder
  <2> HIDE DEF l
  <2> QED BY <1>3, <2>1, <2>2, <2>3, <2>4 DEF LookupFresh
<1>5. given' \in [Readers -> Nat \cup {-1}] BY <1>3 DEF IInv, TypeOK
<1> HIDE DEF l
<1> QED BY <1>2, <1>3, <1>4, <1>5, ReaderOnlyKeepsIInv

LEMMA SetEntryKeepsIInv ==
    ASSUME IInv, NEW r \in Readers, SetEntry(r) PROVE IInv'
<1>1. look[r] \in Lookups BY DEF IInv, TypeOK
<1>2. /\ rpc[r] = "set" /\ Store(Key(look[r]), look[r].content)
      /\ rpc' = [rpc EXCEPT ![r] = "idle"] /\ look' = [look EXCEPT ![r] = NoLookup]
      /\ UNCHANGED <<rev, version, bornAt, doubt, restarts, wpc>>
  BY DEF SetEntry, Answer, ReaderAt
<1>3. given' \in [Readers -> Nat \cup {-1}]
  BY <1>1 DEF SetEntry, Answer, IInv, TypeOK, Lookups
<1>4. NoLookup \in Lookups /\ NoLookup.floor <= look[r].floor
  BY <1>1, NoLookupType DEF NoLookup, Lookups
<1> QED BY <1>2, <1>3, <1>4, StoringKeepsIInv

LEMMA RedisFailsKeepsIInv ==
    ASSUME IInv, NEW r \in Readers, RedisFails(r) PROVE IInv'
<1>1. CASE UNCHANGED entry
  BY <1>1, MissKeepsIInv DEF RedisFails
<1>2. CASE rpc[r] = "set" /\ Store(Key(look[r]), look[r].content)
  <2>1. look[r] \in Lookups BY DEF IInv, TypeOK
  <2>2. /\ rpc' = [rpc EXCEPT ![r] = "direct"] /\ look' = [look EXCEPT ![r] = look[r]]
        /\ given' \in [Readers -> Nat \cup {-1}]
    BY DEF RedisFails, Miss, ReaderAt, IInv, TypeOK
  <2>3. look[r].floor <= look[r].floor BY <2>1 DEF Lookups
  <2> QED BY <1>2, <2>1, <2>2, <2>3, StoringKeepsIInv DEF RedisFails
<1> QED BY <1>1, <1>2 DEF RedisFails, MaybeStored

LEMMA QueryDirectKeepsIInv ==
    ASSUME IInv, NEW r \in Readers, QueryDirect(r) PROVE IInv'
<1>1. rev \in Nat BY DEF IInv, TypeOK
<1> QED BY <1>1, AnswerKeepsIInv DEF QueryDirect, redisVars

LEMMA LookupDiesKeepsIInv ==
    ASSUME IInv, NEW r \in Readers, LookupDies(r) PROVE IInv'
<1>1. /\ rpc' = [rpc EXCEPT ![r] = "idle"] /\ "idle" \in ReaderSteps
      /\ look' = [look EXCEPT ![r] = NoLookup]
      /\ given' \in [Readers -> Nat \cup {-1}]
      /\ UNCHANGED <<rev, version, bornAt, doubt, restarts, wpc>>
  BY DEF LookupDies, ReaderAt, ReaderSteps, IInv, TypeOK
<1>2. CASE UNCHANGED entry
  <2>1. LookupFresh(r)' BY <1>1 DEF LookupFresh, IInv, TypeOK, NoLookup
  <2> QED BY <1>1, <1>2, <2>1, NoLookupType, ReaderOnlyKeepsIInv
<1>3. CASE rpc[r] = "set" /\ Store(Key(look[r]), look[r].content)
  <2>1. look[r] \in Lookups BY DEF IInv, TypeOK
  <2>2. NoLookup \in Lookups /\ NoLookup.floor <= look[r].floor
    BY <2>1, NoLookupType DEF NoLookup, Lookups
  <2> QED BY <1>1, <1>3, <2>2, StoringKeepsIInv
<1> QED BY <1>2, <1>3 DEF LookupDies, MaybeStored

LEMMA ExpireKeepsIInv ==
    ASSUME IInv, NEW key \in DOMAIN entry, Expire(key) PROVE IInv'
<1>1. UNCHANGED <<rev, version, bornAt, doubt, restarts, wpc, rpc, look, given>>
  BY DEF Expire, readerVars
<1>2. /\ DOMAIN entry' \subseteq DOMAIN entry
      /\ \A k \in DOMAIN entry' : entry'[k] = entry[k]
  BY DEF Expire, Drop
<1>3. TypeOK' BY <1>1, <1>2 DEF IInv, TypeOK
<1>4. VersionsInOrder' /\ EntriesFresh'
  BY <1>1, <1>2 DEF IInv, VersionsInOrder, EntriesFresh
<1>5. \A r \in Readers : LookupFresh(r)' BY <1>1 DEF IInv, LookupFresh
<1> QED BY <1>3, <1>4, <1>5 DEF IInv

LEMMA OverwriteKeepsIInv ==
    ASSUME IInv, NEW key \in DOMAIN entry, Overwrite(key) PROVE IInv'
<1>1. UNCHANGED <<rev, version, bornAt, doubt, restarts, wpc, rpc, look, given>>
  BY DEF Overwrite, readerVars
<1>2. PICK payload \in Junk : Store(key, payload) BY DEF Overwrite
<1>3. key \in Nat \X Roots /\ (key[1] \notin doubt => key[1] \in 0..version)
  BY DEF IInv, TypeOK, EntriesFresh
<1>4. payload \in Payloads BY <1>2 DEF Payloads
<1>5. /\ EntriesFresh'
      /\ DOMAIN entry' \subseteq Nat \X Roots
      /\ \A k \in DOMAIN entry' : entry'[k] \in Payloads
  BY <1>1, <1>2, <1>3, <1>4, StoreKeepsEntries
<1>6. VersionsInOrder' BY <1>1 DEF IInv, VersionsInOrder
<1>7. \A r \in Readers : LookupFresh(r)' BY <1>1 DEF IInv, LookupFresh
<1> QED BY <1>1, <1>5, <1>6, <1>7 DEF IInv, TypeOK

LEMMA RestartKeepsIInv ==
    ASSUME IInv, Restart PROVE IInv'
<1>1. PICK v \in 0..version :
        /\ version' = v
        /\ bornAt' = [u \in 0..v |-> bornAt[u]]
        /\ entry' = [key \in {k \in DOMAIN entry :
                                k[1] <= KeyVersion(v) \/ k[1] \in doubt} |-> entry[key]]
        /\ doubt' = doubt \cup {KeyVersion(v)} \cup Pinned
  BY DEF Restart
<1>2. /\ restarts' = restarts + 1
      /\ look' = [r \in Readers |-> [look[r] EXCEPT !.floor = 0]]
      /\ UNCHANGED <<rev, wpc, rpc, given>>
  BY DEF Restart
<1>3. /\ v \in Nat /\ KeyVersion(v) \in Nat /\ (v = 0 => KeyVersion(v) = 1)
      /\ (v # 0 => KeyVersion(v) = v)
  BY DEF KeyVersion, IInv, TypeOK
<1>4. ASSUME NEW r \in Readers
      PROVE  /\ look'[r] \in Lookups /\ look'[r].floor = 0
             /\ look'[r].version = look[r].version /\ look'[r].content = look[r].content
  <2>1. look[r] \in Lookups BY DEF IInv, TypeOK
  <2> QED BY <1>2, <2>1 DEF Lookups
<1>5. TypeOK'
  <2>1. Pinned \subseteq Nat BY DEF Pinned, IInv, TypeOK, Lookups
  <2>2. look' \in [Readers -> Lookups] BY <1>2, <1>4
  <2>3. bornAt' \in [0..version' -> Nat] BY <1>1 DEF IInv, TypeOK
  <2>4. /\ DOMAIN entry' \subseteq DOMAIN entry
        /\ \A k \in DOMAIN entry' : entry'[k] = entry[k]
    BY <1>1
  <2>5. doubt' \subseteq Nat BY <1>1, <1>3, <2>1 DEF IInv, TypeOK
  <2>6. rev' \in Nat /\ version' \in Nat /\ restarts' \in Nat
    BY <1>1, <1>2, <1>3 DEF IInv, TypeOK
  <2> QED BY <1>2, <2>2, <2>3, <2>4, <2>5, <2>6 DEF IInv, TypeOK
<1>6. VersionsInOrder'
  BY <1>1, <1>2, <1>3 DEF IInv, TypeOK, VersionsInOrder
<1>7. EntriesFresh'
  <2> SUFFICES ASSUME NEW key \in DOMAIN entry'
               PROVE  /\ entry'[key] \notin Junk => entry'[key] <= rev'
                      /\ key[1] \notin doubt' =>
                            /\ key[1] \in 0..version'
                            /\ entry'[key] \notin Junk => bornAt'[key[1]] <= entry'[key]
    BY DEF EntriesFresh
  <2>1. /\ key \in DOMAIN entry /\ entry'[key] = entry[key]
        /\ key[1] <= KeyVersion(v) \/ key[1] \in doubt
    BY <1>1
  <2>2. key[1] \in Nat BY <2>1 DEF IInv, TypeOK
  <2>3. ASSUME key[1] \notin doubt'
        PROVE  key[1] \notin doubt /\ key[1] \in 0..v
    BY <1>1, <1>3, <2>1, <2>2, <2>3
  <2> QED BY <1>1, <1>2, <2>1, <2>3 DEF IInv, EntriesFresh
<1>8. ASSUME NEW r \in Readers PROVE LookupFresh(r)'
  <2>1. rpc[r] \in {"entry", "query", "set"} => look[r].version \in doubt'
    BY <1>1 DEF Pinned
  <2>2. doubt' # {} BY <1>1
  <2> QED BY <1>2, <1>4, <2>1, <2>2 DEF IInv, LookupFresh
<1> QED BY <1>5, <1>6, <1>7, <1>8 DEF IInv

LEMMA NextKeepsIInv == IInv /\ [Next]_vars => IInv'
<1> SUFFICES ASSUME IInv, [Next]_vars PROVE IInv' OBVIOUS
<1>1. CASE \E w \in Writers : WriterStep(w)
  BY <1>1, CommitKeepsIInv, InvalidateKeepsIInv, InvalidateFailsKeepsIInv DEF WriterStep
<1>2. CASE \E r \in Readers : ReaderStep(r)
  <2>1. PICK r \in Readers : ReaderStep(r) BY <1>2
  <2>2. CASE BeginLookup(r) BY <2>2, BeginLookupKeepsIInv
  <2>3. CASE LookupStep(r)
    BY <2>3, GetVersionKeepsIInv, GetEntryKeepsIInv, QuerySubtreeKeepsIInv,
       SetEntryKeepsIInv, RedisFailsKeepsIInv, QueryDirectKeepsIInv DEF LookupStep
  <2>4. CASE LookupDies(r) BY <2>4, LookupDiesKeepsIInv
  <2> QED BY <2>1, <2>2, <2>3, <2>4 DEF ReaderStep
<1>3. CASE \E key \in DOMAIN entry : Expire(key) \/ Overwrite(key)
  BY <1>3, ExpireKeepsIInv, OverwriteKeepsIInv
<1>4. CASE Restart BY <1>4, RestartKeepsIInv
<1>5. CASE UNCHANGED vars
  BY <1>5 DEF vars, IInv, TypeOK, VersionsInOrder, EntriesFresh, LookupFresh
<1> QED BY <1>1, <1>2, <1>3, <1>4, <1>5 DEF Next

-----------------------------------------------------------------------------
(* What follows of every behaviour.                                         *)

LEMMA SpecIInv == Spec => []IInv
BY InitIInv, NextKeepsIInv, PTL DEF Spec

\* The variables keep their types: in particular no lookup answers with a
\* payload that is not a list of ids.
THEOREM TypeCorrect == Spec => []TypeOK
<1>1. IInv => TypeOK BY DEF IInv
<1> QED BY <1>1, SpecIInv, PTL

\* What the cache serves to a lookup that starts now reflects every change
\* that was committed when the counter last moved, unless the counter stands at
\* a value in doubt; whether Redis was restarted, and how often, is left open.
THEOREM InvalidationWorks == Spec => []OutdatedUnlessInDoubt
<1>1. IInv => OutdatedUnlessInDoubt
  <2> SUFFICES ASSUME IInv, KeyVersion(version) \notin doubt,
                      NEW root \in Roots, Readable(<<KeyVersion(version), root>>)
               PROVE  entry[<<KeyVersion(version), root>>] >= bornAt[version]
    BY DEF OutdatedUnlessInDoubt, InvalidationTakesEffect
  <2> DEFINE key == <<version, root>>
  <2>1. KeyVersion(version) = version
    BY DEF KeyVersion, IInv, VersionsInOrder
  <2>2. key \in DOMAIN entry /\ entry[key] \notin Junk /\ key[1] \notin doubt
    BY <2>1 DEF Readable
  <2>3. entry[key] \in Nat /\ bornAt[version] \in Nat
    BY <2>2 DEF IInv, TypeOK, Payloads
  <2>4. bornAt[version] <= entry[key] BY <2>2 DEF IInv, EntriesFresh
  <2> QED BY <2>1, <2>3, <2>4
<1> QED BY <1>1, SpecIInv, PTL

-----------------------------------------------------------------------------
(* The cache implements LookupContract.                                     *)

Asked == [r \in Readers |-> IF rpc[r] = "idle" THEN -1 ELSE look[r].floor]

LEMMA InitImplements == Init => Contract!ContractInit
BY BoundsAssumption DEF Init, Contract!ContractInit, Floor

\* A reader that stays within a lookup changes nothing that the contract sees.
LEMMA WithinLookup ==
    ASSUME IInv, NEW r \in Readers, NEW step \in ReaderSteps \ {"idle"},
           NEW l \in Lookups, l.floor = look[r].floor, rpc[r] # "idle",
           rpc' = [rpc EXCEPT ![r] = step], look' = [look EXCEPT ![r] = l]
    PROVE  Asked' = Asked
<1>1. ASSUME NEW q \in Readers PROVE Asked'[q] = Asked[q]
  BY DEF Asked, IInv, TypeOK
<1> QED BY <1>1 DEF Asked

LEMMA EndOfLookup ==
    ASSUME IInv, NEW r \in Readers,
           rpc' = [rpc EXCEPT ![r] = "idle"], look' = [look EXCEPT ![r] = NoLookup]
    PROVE  Asked' = [Asked EXCEPT ![r] = -1]
<1>1. ASSUME NEW q \in Readers PROVE Asked'[q] = [Asked EXCEPT ![r] = -1][q]
  BY DEF Asked, IInv, TypeOK
<1> QED BY <1>1 DEF Asked

LEMMA AnswerImplements ==
    ASSUME IInv, NEW r \in Readers, rpc[r] # "idle", NEW content \in Nat,
           look[r].floor <= content, content <= rev,
           Answer(r, content), UNCHANGED <<rev, version, bornAt, doubt>>
    PROVE  Contract!Answer(r)
<1>1. Asked' = [Asked EXCEPT ![r] = -1]
  BY EndOfLookup DEF Answer, ReaderAt
<1>2. look[r].floor \in Nat /\ rev \in Nat BY DEF IInv, TypeOK, Lookups
<1>3. Asked[r] = look[r].floor /\ Asked[r] # -1 BY <1>2 DEF Asked
<1>4. content \in Asked[r]..rev BY <1>2, <1>3
<1> QED BY <1>1, <1>3, <1>4 DEF Contract!Answer, Answer, Asked, Floor

LEMMA BeginImplements ==
    ASSUME IInv, NEW r \in Readers, BeginLookup(r) PROVE Contract!Ask(r)
<1>1. PICK root \in Roots :
        look' = [look EXCEPT ![r] = [NoLookup EXCEPT !.root = root, !.floor = Floor]]
  BY DEF BeginLookup
<1> DEFINE step == IF CacheEnabled THEN "version" ELSE "direct"
<1>2. /\ rpc[r] = "idle" /\ rpc' = [rpc EXCEPT ![r] = step] /\ step # "idle"
      /\ UNCHANGED <<rev, version, bornAt, doubt>>
  BY DEF BeginLookup, ReaderAt, redisVars
<1>3. look'[r].floor = Floor
  <2> DEFINE l == [NoLookup EXCEPT !.root = root, !.floor = Floor]
  <2>1. l.floor = Floor BY DEF NoLookup
  <2> QED BY <1>1, <2>1 DEF IInv, TypeOK
<1>4. ASSUME NEW q \in Readers PROVE Asked'[q] = [Asked EXCEPT ![r] = Floor][q]
  <2>1. CASE q = r BY <1>2, <1>3, <2>1 DEF Asked, IInv, TypeOK
  <2>2. CASE q # r BY <1>1, <1>2, <2>2 DEF Asked, IInv, TypeOK
  <2> QED BY <2>1, <2>2
<1>5. Asked' = [Asked EXCEPT ![r] = Floor] BY <1>4 DEF Asked
<1>6. Asked[r] = -1 BY <1>2 DEF Asked
<1> QED BY <1>2, <1>5, <1>6, FloorType DEF Contract!Ask, BeginLookup, Asked, Floor

LEMMA WriterImplements ==
    ASSUME IInv, NEW w \in Writers, WriterStep(w)
    PROVE  [Contract!ContractNext]_Contract!contractVars
<1>1. CASE Commit(w)
  <2>1. Contract!Change
    BY <1>1 DEF Commit, redisVars, readerVars, Contract!Change, Floor
  <2> QED BY <2>1 DEF Contract!ContractNext
<1>2. CASE Invalidate(w)
  <2>1. bornAt'[version'] = rev
    BY <1>2 DEF Invalidate, Incr, IInv, TypeOK
  <2>2. UNCHANGED <<rev, doubt, rpc, look, given>>
    BY <1>2 DEF Invalidate, readerVars
  <2>3. CASE doubt = {}
    <3>1. Contract!Invalidate BY <2>1, <2>2, <2>3 DEF Contract!Invalidate, Floor
    <3> QED BY <3>1 DEF Contract!ContractNext
  <2>4. CASE doubt # {}
    BY <2>2, <2>4 DEF Contract!contractVars, Floor
  <2> QED BY <2>3, <2>4
<1>3. CASE InvalidateFails(w)
  BY <1>3 DEF InvalidateFails, redisVars, readerVars, Contract!contractVars, Floor
<1> QED BY <1>1, <1>2, <1>3 DEF WriterStep

\* The contract sees an answer, or nothing.
LEMMA LookupImplements ==
    ASSUME IInv, NEW r \in Readers, LookupStep(r)
    PROVE  Contract!Answer(r) \/ UNCHANGED Contract!contractVars
<1>1. look[r] \in Lookups /\ LookupFresh(r) /\ rev \in Nat BY DEF IInv, TypeOK
<1>2. rpc[r] # "idle" => look[r].floor <= rev
  <2>1. bornAt[version] \in Nat /\ bornAt[version] <= rev
    BY DEF IInv, TypeOK, VersionsInOrder
  <2>2. look[r].floor \in Nat BY <1>1 DEF Lookups
  <2> QED BY <1>1, <2>1, <2>2 DEF LookupFresh
<1>3. ASSUME UNCHANGED <<rev, version, bornAt, doubt, given>>, Asked' = Asked
      PROVE  UNCHANGED Contract!contractVars
  BY <1>3 DEF Contract!contractVars, Asked, Floor
<1>4. ASSUME NEW step \in {"query", "direct"}, Miss(r, step), rpc[r] # "idle"
      PROVE  Asked' = Asked /\ UNCHANGED given
  <2>1. /\ rpc' = [rpc EXCEPT ![r] = step] /\ look' = [look EXCEPT ![r] = look[r]]
        /\ step \in ReaderSteps \ {"idle"}
    BY <1>4 DEF Miss, ReaderAt, ReaderSteps, IInv, TypeOK
  <2> QED BY <1>1, <1>4, <2>1, WithinLookup DEF Miss
<1>5. CASE GetVersion(r)
  <2> DEFINE l == [look[r] EXCEPT !.version = KeyVersion(version)]
  <2>1. l \in Lookups /\ l.floor = look[r].floor
    BY <1>1 DEF Lookups, KeyVersion, IInv, TypeOK
  <2>2. /\ rpc' = [rpc EXCEPT ![r] = "entry"] /\ "entry" \in ReaderSteps \ {"idle"}
        /\ look' = [look EXCEPT ![r] = l] /\ rpc[r] # "idle"
        /\ UNCHANGED <<rev, version, bornAt, doubt, given>>
    BY <1>5 DEF GetVersion, ReaderAt, ReaderSteps, redisVars
  <2> HIDE DEF l
  <2>3. Asked' = Asked BY <2>1, <2>2, WithinLookup
  <2> QED BY <1>3, <2>2, <2>3
<1>6. CASE GetEntry(r)
  <2> DEFINE key == Key(look[r])
  <2>1. rpc[r] = "entry" /\ UNCHANGED <<rev, version, bornAt, doubt>>
    BY <1>6 DEF GetEntry, redisVars
  <2>2. CASE key \in DOMAIN entry /\ entry[key] \notin Junk
    <3>1. Answer(r, entry[key]) BY <1>6, <2>2 DEF GetEntry
    <3>2. entry[key] \in Nat /\ look[r].floor <= entry[key] /\ entry[key] <= rev
      BY <2>1, <2>2, HitIsFresh
    <3> QED BY <2>1, <3>1, <3>2, AnswerImplements
  <2>3. CASE ~ (key \in DOMAIN entry /\ entry[key] \notin Junk)
    <3>1. Miss(r, "query") \/ Miss(r, "direct") BY <1>6, <2>3 DEF GetEntry
    <3> QED BY <1>3, <1>4, <2>1, <3>1
  <2> QED BY <2>2, <2>3
<1>7. CASE QuerySubtree(r)
  <2> DEFINE l == [look[r] EXCEPT !.content = rev]
  <2>1. l \in Lookups /\ l.floor = look[r].floor BY <1>1 DEF Lookups
  <2>2. /\ rpc' = [rpc EXCEPT ![r] = "set"] /\ "set" \in ReaderSteps \ {"idle"}
        /\ look' = [look EXCEPT ![r] = l] /\ rpc[r] # "idle"
        /\ UNCHANGED <<rev, version, bornAt, doubt, given>>
    BY <1>7 DEF QuerySubtree, ReaderAt, ReaderSteps, redisVars
  <2> HIDE DEF l
  <2>3. Asked' = Asked BY <2>1, <2>2, WithinLookup
  <2> QED BY <1>3, <2>2, <2>3
<1>8. CASE SetEntry(r)
  <2>1. rpc[r] = "set" /\ Answer(r, look[r].content) /\ UNCHANGED <<rev, version, bornAt, doubt>>
    BY <1>8 DEF SetEntry
  <2>2. /\ look[r].content \in Nat /\ look[r].content <= rev
        /\ look[r].floor <= look[r].content
    <3>1. look[r].content \in Nat /\ look[r].floor \in Nat /\ look[r].content <= rev
      BY <1>1, <2>1 DEF LookupFresh, Lookups
    <3>2. CASE look[r].version \in doubt
      <4>1. look[r].floor = 0 BY <1>1, <3>2 DEF LookupFresh
      <4> QED BY <3>1, <4>1
    <3>3. CASE look[r].version \notin doubt
      <4>1. /\ bornAt[look[r].version] <= look[r].content
            /\ look[r].version \in 0..version /\ look[r].floor <= bornAt[look[r].version]
        BY <1>1, <2>1, <3>3 DEF LookupFresh
      <4>2. bornAt[look[r].version] \in Nat BY <4>1 DEF IInv, TypeOK
      <4> QED BY <3>1, <4>1, <4>2
    <3> QED BY <3>2, <3>3
  <2> QED BY <2>1, <2>2, AnswerImplements
<1>9. CASE RedisFails(r)
  BY <1>3, <1>4, <1>9 DEF RedisFails
<1>10. CASE QueryDirect(r)
  BY <1>1, <1>2, <1>10, AnswerImplements DEF QueryDirect, redisVars
<1> QED BY <1>5, <1>6, <1>7, <1>8, <1>9, <1>10 DEF LookupStep

LEMMA RestartImplements ==
    ASSUME IInv, Restart PROVE Contract!Withdraw
<1>1. /\ look' = [r \in Readers |-> [look[r] EXCEPT !.floor = 0]]
      /\ UNCHANGED <<rev, rpc, given>> /\ doubt' # {}
  BY DEF Restart
<1>2. ASSUME NEW r \in Readers
      PROVE  Asked'[r] = (IF Asked[r] = -1 THEN -1 ELSE 0)
  <2>1. look[r] \in Lookups BY DEF IInv, TypeOK
  <2>2. look'[r].floor = 0 /\ look[r].floor # -1 BY <1>1, <2>1 DEF Lookups
  <2> QED BY <1>1, <2>2 DEF Asked
<1>3. Asked' = [r \in Readers |-> IF Asked[r] = -1 THEN -1 ELSE 0]
  BY <1>2 DEF Asked
<1>4. Floor' = 0 BY <1>1 DEF Floor
<1> QED BY <1>1, <1>3, <1>4 DEF Contract!Withdraw, Asked

LEMMA NextImplements ==
    IInv /\ [Next]_vars => [Contract!ContractNext]_Contract!contractVars
<1> SUFFICES ASSUME IInv, [Next]_vars
             PROVE  [Contract!ContractNext]_Contract!contractVars
  OBVIOUS
<1>1. CASE \E w \in Writers : WriterStep(w) BY <1>1, WriterImplements
<1>2. CASE \E r \in Readers : ReaderStep(r)
  <2>1. PICK r \in Readers : ReaderStep(r) BY <1>2
  <2>2. CASE BeginLookup(r)
    BY <2>2, BeginImplements DEF Contract!ContractNext
  <2>3. CASE LookupStep(r)
    BY <2>3, LookupImplements DEF Contract!ContractNext
  <2>4. CASE LookupDies(r)
    <3>1. Asked' = [Asked EXCEPT ![r] = -1]
      BY <2>4, EndOfLookup DEF LookupDies, ReaderAt
    <3>2. Contract!GiveUp(r)
      BY <2>4, <3>1 DEF LookupDies, Contract!GiveUp, Asked, Floor
    <3> QED BY <3>2 DEF Contract!ContractNext
  <2> QED BY <2>1, <2>2, <2>3, <2>4 DEF ReaderStep
<1>3. CASE \E key \in DOMAIN entry : Expire(key) \/ Overwrite(key)
  BY <1>3 DEF Expire, Overwrite, readerVars, Contract!contractVars, Floor
<1>4. CASE Restart BY <1>4, RestartImplements DEF Contract!ContractNext
<1>5. CASE UNCHANGED vars BY <1>5 DEF vars, Contract!contractVars, Floor
<1> QED BY <1>1, <1>2, <1>3, <1>4, <1>5 DEF Next

\* Every lookup, whatever path it takes, answers between the floor that the
\* last invalidation before it had set and the latest commit.
THEOREM CacheMeetsContract == Spec => MeetsContract
BY InitImplements, NextImplements, SpecIInv, PTL DEF Spec, MeetsContract, Contract!ContractSpec
=============================================================================
