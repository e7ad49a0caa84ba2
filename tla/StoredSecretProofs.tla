------------------------- MODULE StoredSecretProofs -------------------------
(***************************************************************************)
(* The two places where values are kept: the cache and the local store.    *)
(*                                                                         *)
(* SecretCache, for every set of stores, names, scopes, objects and calls, *)
(* every deployment, and any ttl and latency.                              *)
(* The argument: whatever is in a copy of the cache, in memory or in the   *)
(* file, was got from the store of its scope and stood there when the call *)
(* that cached it began; a write only ever ends the time a version stands  *)
(* from now on, so what was true of a stamp stays true (CopiesTraced).  A  *)
(* stamp is of the past, and a fresh one of the last ttlMs: that is the    *)
(* bound on what is served.  A marker stands for a set of entries that are *)
(* not older than it, so they are fresh as long as it is, and what is left *)
(* out was absent at its stamp (CopiesCounted).                            *)
(*                                                                         *)
(* LocalStore, for every finite set of processes, every set of names and   *)
(* values and every number of commands: see the second part.               *)
(***************************************************************************)
EXTENDS SecretCache, LocalStore, FiniteSetTheorems, SequenceTheorems, WellFoundedInduction, TLAPS

-----------------------------------------------------------------------------
(* The inductive invariant.                                                *)

\* A read in flight.
Reads(t) == task[t] # None /\ task[t].call \in {"exact", "prefix"}

StoreFor(t) == StoreOf[ScopeOf[InstanceOf[t]]]

\* Version v of n in store s was written, and was not replaced before `time`.
StoodAt(h, s, n, v, time) ==
    /\ v \in 1..Len(h[s][n])
    /\ v < Len(h[s][n]) => h[s][n][v + 1].at >= time

\* Every entry holds what its scope's store held Latency before its stamp, or after that.
Traced(cache, h, d) ==
    \A c \in Scopes, n \in Names : <<c, n>> \in DOMAIN cache =>
        /\ cache[<<c, n>>].value[1] = d.storeOf[c]
        /\ StoodAt(h, d.storeOf[c], n, cache[<<c, n>>].value[2],
                   cache[<<c, n>>].cachedAt - Latency)

\* A marker of cache stands for the entries of F, and what is not in F was absent.
CountedBy(cache, h, d, c, F) ==
    LET marker == cache[<<c, All>>]
    IN  /\ marker.count = Cardinality(F)
        /\ \A n \in F : /\ <<c, n>> \in DOMAIN cache
                        /\ cache[<<c, n>>].cachedAt >= marker.cachedAt
                        /\ cache[<<c, n>>].writer = marker.writer
        /\ \A n \in Names \ F : \E v \in Versions :
              /\ StoodAt(h, d.storeOf[c], n, v, marker.cachedAt)
              /\ ~h[d.storeOf[c]][n][v].present

Counted(cache, h, d) ==
    \A c \in Scopes : <<c, All>> \in DOMAIN cache =>
        \E F \in SUBSET Names : CountedBy(cache, h, d, c, F)

\* Every entry of cache is from the past.
Past(cache, time) == \A k \in DOMAIN cache : cache[k].cachedAt <= time

\* Every entry of cache was written by b.
WrittenBy(cache, b) == \A k \in DOMAIN cache : cache[k].writer = b

Flights ==
    [call : {"exact", "prefix", "store", "delete"}, name : Names \union {All},
     startedAt : 0..MaxTime, got : [Names -> Versions] \union {None}]

\* r is a call that t can have in flight at `time`.
IsCall(r, t, time) ==
    /\ r \in Flights
    /\ r.call \in Calls[t]
    /\ r.call # "prefix" => r.name \in Names
    /\ r.startedAt <= time

HistoryTyped ==
    /\ deployed \in Deployments
    /\ now \in 0..MaxTime
    /\ history \in [Stores -> [Names -> Seq([present : BOOLEAN, at : 0..MaxTime])]]
    /\ \A s \in Stores, n \in Names : Len(history[s][n]) \in Versions

CopiesTyped ==
    /\ mem = [i \in Instances |-> mem[i]]
    /\ \A i \in Instances : mem[i] # None => IsCache(mem[i])
    /\ file # None => IsCache(file)

TasksTyped ==
    /\ task = [t \in Tasks |-> task[t]]
    /\ \A t \in Tasks : task[t] # None => IsCall(task[t], t, now)

ReadersLoaded == \A t \in Tasks : Reads(t) => mem[InstanceOf[t]] # None

TypeInv == HistoryTyped /\ CopiesTyped /\ TasksTyped /\ ReadersLoaded

\* A call in flight is not older than Latency, and its answer was current since it began.
AnswerRecent(t) ==
    task[t] # None =>
        /\ now <= task[t].startedAt + Latency
        /\ task[t].got # None => \A n \in Names :
              StoodAt(history, StoreFor(t), n, task[t].got[n], task[t].startedAt)

AnswersRecent == \A t \in Tasks : AnswerRecent(t)

\* All that is in a copy is traced, and was cached before now.
CopyTraced(cache) == Traced(cache, history, deployed) /\ Past(cache, now)

CopiesTraced ==
    /\ \A i \in Instances : mem[i] # None =>
          /\ CopyTraced(mem[i])
          /\ WrittenBy(mem[i], Build[i])
    /\ file # None => CopyTraced(file)

\* Every marker of a copy counts what it should.
CopyCounted(cache) == Counted(cache, history, deployed)

CopiesCounted ==
    /\ \A i \in Instances : mem[i] # None => CopyCounted(mem[i])
    /\ file # None => CopyCounted(file)

\* What a read finds in its copy when it returns is not newer than the read.
ReadsAreNewest == \A t \in Tasks : Reads(t) => Past(mem[InstanceOf[t]], task[t].startedAt)

\* No object has two calls in flight.
OneCallEach == \A t, u \in Tasks : InstanceOf[t] = InstanceOf[u] => t = u

-----------------------------------------------------------------------------
(* Caches.                                                                 *)

\* Every scope has a store, and every object a scope and a build.
LEMMA Places ==
    ASSUME TypeInv
    PROVE  /\ \A c \in Scopes : StoreOf[c] \in Stores
           /\ \A i \in Instances : ScopeOf[i] \in Scopes /\ Build[i] \in Builds
           /\ \A t \in Tasks : InstanceOf[t] \in Instances /\ StoreFor(t) \in Stores
  BY CacheAssumption DEF CacheAssumption, TypeInv, HistoryTyped, StoreOf, ScopeOf, Build, StoreFor

\* The number of names is a natural number.
LEMMA NameCount ==
    /\ Cardinality(Names) \in Nat
    /\ \A F \in SUBSET Names : Cardinality(F) \in 0..Cardinality(Names)
<1>1. Cardinality(Names) \in Nat
  BY CacheAssumption, FS_CardinalityType DEF CacheAssumption
<1>2. ASSUME NEW F \in SUBSET Names PROVE Cardinality(F) \in 0..Cardinality(Names)
  <2>1. IsFiniteSet(F) /\ Cardinality(F) <= Cardinality(Names)
    BY CacheAssumption, FS_Subset DEF CacheAssumption
  <2> QED
    BY <1>1, <2>1, FS_CardinalityType
<1> QED
  BY <1>1, <1>2

\* A function over keys with entries for values is a cache, and is not None.
LEMMA CacheIsNotNone ==
    ASSUME NEW D \in SUBSET CacheKeys, NEW f, f \in [D -> CacheEntries]
    PROVE  f # None
  BY CacheAssumption DEF CacheAssumption

\* Entries laid over a cache make a cache.
LEMMA OverIsCache ==
    ASSUME NEW f, NEW g, IsCache(f), IsCache(g)
    PROVE  /\ IsCache(Over(f, g))
           /\ Over(f, g) # None
           /\ DOMAIN Over(f, g) = DOMAIN f \union DOMAIN g
           /\ \A k \in DOMAIN f : Over(f, g)[k] = f[k]
           /\ \A k \in DOMAIN g \ DOMAIN f : Over(f, g)[k] = g[k]
<1>1. /\ DOMAIN Over(f, g) = DOMAIN f \union DOMAIN g
      /\ \A k \in DOMAIN f : Over(f, g)[k] = f[k]
      /\ \A k \in DOMAIN g \ DOMAIN f : Over(f, g)[k] = g[k]
  BY DEF Over
<1>2. DOMAIN f \union DOMAIN g \in SUBSET CacheKeys
  BY DEF IsCache
<1>3. Over(f, g) \in [DOMAIN f \union DOMAIN g -> CacheEntries]
  BY DEF IsCache, Over
<1>4. Over(f, g) # None
  BY <1>2, <1>3, CacheIsNotNone
<1>5. IsCache(Over(f, g))
  <2> SUFFICES ASSUME NEW k \in DOMAIN Over(f, g)
               PROVE  /\ Over(f, g)[k] \in CacheEntries
                      /\ Over(f, g)[k].value = None <=> k[2] = All
    BY <1>1, <1>2 DEF IsCache
  <2>1. CASE k \in DOMAIN f
    BY <1>1, <2>1 DEF IsCache
  <2>2. CASE k \in DOMAIN g \ DOMAIN f
    BY <1>1, <2>2 DEF IsCache
  <2> QED
    BY <1>1, <2>1, <2>2
<1> QED
  BY <1>1, <1>4, <1>5

\* A part of a cache is a cache.
LEMMA PartIsCache ==
    ASSUME NEW g, IsCache(g), NEW D \in SUBSET DOMAIN g
    PROVE  /\ IsCache([k \in D |-> g[k]])
           /\ [k \in D |-> g[k]] # None
<1>1. D \in SUBSET CacheKeys
  BY DEF IsCache
<1>2. [k \in D |-> g[k]] \in [D -> CacheEntries]
  BY DEF IsCache
<1>3. IsCache([k \in D |-> g[k]])
  BY <1>1 DEF IsCache
<1> QED
  BY <1>1, <1>2, <1>3, CacheIsNotNone

\* The copy an object works on is its own, or a part of the file.
LEMMA LoadedIsCache ==
    ASSUME TypeInv, NEW i \in Instances
    PROVE  /\ IsCache(Loaded(i))
           /\ Loaded(i) # None
           /\ mem[i] # None => Loaded(i) = mem[i]
           /\ mem[i] = None /\ file # None =>
                /\ DOMAIN Loaded(i) =
                     {k \in DOMAIN file : Fresh(file[k]) /\ file[k].writer = Build[i]}
                /\ \A k \in DOMAIN Loaded(i) : Loaded(i)[k] = file[k]
           /\ mem[i] = None /\ file = None => DOMAIN Loaded(i) = {}
<1>1. CASE mem[i] # None
  BY <1>1 DEF TypeInv, CopiesTyped, Loaded
<1>2. CASE mem[i] = None /\ file = None
  <2>1. {} \in SUBSET CacheKeys /\ Empty \in [{} -> CacheEntries] /\ IsCache(Empty)
    BY DEF Empty, IsCache
  <2>2. Empty # None
    BY <2>1, CacheIsNotNone
  <2> QED
    BY <1>2, <2>1, <2>2 DEF Loaded, Empty
<1>3. CASE mem[i] = None /\ file # None
  <2> DEFINE D == {k \in DOMAIN file : Fresh(file[k]) /\ file[k].writer = Build[i]}
  <2>1. Loaded(i) = [k \in D |-> file[k]]
    BY <1>3 DEF Loaded
  <2>2. D \in SUBSET DOMAIN file /\ IsCache(file)
    BY <1>3 DEF TypeInv, CopiesTyped
  <2> HIDE DEF D
  <2>3. IsCache([k \in D |-> file[k]]) /\ [k \in D |-> file[k]] # None
    BY <2>2, PartIsCache
  <2> QED
    BY <1>3, <2>1, <2>3 DEF D
<1> QED
  BY <1>1, <1>2, <1>3

\* An entry of a name, or a marker, alone is a cache.
LEMMA OneEntry ==
    ASSUME NEW c \in Scopes, NEW n \in Names \union {All}, NEW e \in CacheEntries,
           e.value = None <=> n = All
    PROVE  IsCache([k \in {EntryKey(c, n)} |-> e])
  BY DEF IsCache, EntryKey, CacheKeys

\* The fields of an entry.
LEMMA EntryFields ==
    ASSUME TypeInv, NEW i \in Instances, NEW value \in (Stores \X Versions) \union {None},
           NEW at \in 0..MaxTime, NEW count \in 0..Cardinality(Names)
    PROVE  /\ Entry(i, value, at, count) \in CacheEntries
           /\ Entry(i, value, at, count).value = value
           /\ Entry(i, value, at, count).cachedAt = at
           /\ Entry(i, value, at, count).writer = Build[i]
           /\ Entry(i, value, at, count).count = count
<1>1. Build[i] \in Builds
  BY Places
<1> QED
  BY <1>1 DEF Entry, CacheEntries

-----------------------------------------------------------------------------
(* Writes.                                                                 *)

\* There are finitely many writes to count.
LEMMA WritesFinite ==
    LET W == {w \in Stores \X Names \X Versions : w[3] \in 2..Current(w[1], w[2])}
    IN  IsFiniteSet(W) /\ Cardinality(W) \in Nat
<1> DEFINE P == Stores \X Names \X Versions
           Q == (Stores \X Names) \X Versions
           W == {w \in P : w[3] \in 2..Current(w[1], w[2])}
           g == [w \in P |-> <<<<w[1], w[2]>>, w[3]>>]
<1>1. IsFiniteSet(Versions)
  BY CacheAssumption, FS_Interval DEF CacheAssumption, Versions
<1>2. IsFiniteSet(Stores \X Names)
  BY CacheAssumption, FS_Product DEF CacheAssumption
<1>3. IsFiniteSet(Q)
  BY <1>1, <1>2, FS_Product
<1>4. g \in Injection(P, Q)
  <2>1. g \in [P -> Q]
    OBVIOUS
  <2>2. ASSUME NEW v \in P, NEW w \in P, g[v] = g[w] PROVE v = w
    BY <2>2
  <2> QED
    BY <2>1, <2>2 DEF Injection, IsInjective
<1>5. IsFiniteSet(P)
  BY <1>3, <1>4, FS_Injection
<1>6. W \in SUBSET P
  OBVIOUS
<1> QED
  BY <1>5, <1>6, FS_Subset, FS_CardinalityType

\* As long as a write is allowed, no name has had all of them.
LEMMA WriteRoom ==
    ASSUME TypeInv, NEW s \in Stores, NEW n \in Names, Writes < MaxWrites
    PROVE  Current(s, n) + 1 \in Versions
<1> DEFINE W == {w \in Stores \X Names \X Versions : w[3] \in 2..Current(w[1], w[2])}
           V == 2..Current(s, n)
           f == [v \in V |-> <<s, n, v>>]
<1>1. IsFiniteSet(W) /\ Cardinality(W) \in Nat /\ Cardinality(W) < MaxWrites
  BY WritesFinite DEF Writes
<1>2. MaxWrites \in Nat /\ Current(s, n) \in 1..MaxWrites + 1
  BY CacheAssumption DEF CacheAssumption, TypeInv, HistoryTyped, Current, Versions
<1>3. f \in Injection(V, W)
  <2>1. ASSUME NEW v \in V PROVE <<s, n, v>> \in W
    BY <1>2 DEF Versions
  <2>2. f \in [V -> W]
    BY <2>1
  <2>3. ASSUME NEW v \in V, NEW w \in V, f[v] = f[w] PROVE v = w
    BY <2>3
  <2> QED
    BY <2>2, <2>3 DEF Injection, IsInjective
<1> HIDE DEF W, V, f
<1>4. Cardinality(V) <= Cardinality(W)
  BY <1>1, <1>3, FS_Injection
<1>5. Cardinality(V) = IF 2 > Current(s, n) THEN 0 ELSE Current(s, n) - 2 + 1
  <2>1. Current(s, n) \in Int /\ 2 \in Int
    BY <1>2
  <2>2. Cardinality(2..Current(s, n)) = IF 2 > Current(s, n) THEN 0 ELSE Current(s, n) - 2 + 1
    BY <2>1, FS_Interval, Zenon
  <2> QED
    BY <2>2 DEF V
<1> QED
  BY <1>1, <1>2, <1>4, <1>5 DEF Versions

\* The history a write leaves: one write more, of now, and nothing else changed.
LEMMA WriteIs ==
    ASSUME TypeInv, NEW s \in Stores, NEW n \in Names, NEW present \in BOOLEAN,
           Write(s, n, present)
    PROVE  /\ history' \in [Stores -> [Names -> Seq([present : BOOLEAN, at : 0..MaxTime])]]
           /\ \A u \in Stores, m \in Names :
                 <<u, m>> # <<s, n>> => history'[u][m] = history[u][m]
           /\ Len(history'[s][n]) = Len(history[s][n]) + 1
           /\ Len(history'[s][n]) \in Versions
           /\ \A v \in 1..Len(history[s][n]) : history'[s][n][v] = history[s][n][v]
           /\ history'[s][n][Len(history[s][n]) + 1] = [present |-> present, at |-> now]
<1> DEFINE R == [present : BOOLEAN, at : 0..MaxTime]
           w == [present |-> present, at |-> now]
<1>1. w \in R /\ history[s][n] \in Seq(R)
  BY DEF TypeInv, HistoryTyped
<1>2. history' = [history EXCEPT ![s][n] = Append(history[s][n], w)]
  BY DEF Write
<1> HIDE DEF w, R
<1>3. /\ Append(history[s][n], w) \in Seq(R)
      /\ Len(Append(history[s][n], w)) = Len(history[s][n]) + 1
      /\ \A v \in 1..Len(history[s][n]) : Append(history[s][n], w)[v] = history[s][n][v]
      /\ Append(history[s][n], w)[Len(history[s][n]) + 1] = w
  BY <1>1, AppendProperties
<1>4. history \in [Stores -> [Names -> Seq(R)]]
  BY DEF TypeInv, HistoryTyped, R
<1>5. /\ history' \in [Stores -> [Names -> Seq(R)]]
      /\ history'[s][n] = Append(history[s][n], w)
      /\ \A u \in Stores, m \in Names :
            <<u, m>> # <<s, n>> => history'[u][m] = history[u][m]
  BY <1>2, <1>3, <1>4
<1>6. Len(history[s][n]) + 1 \in Versions
  BY WriteRoom DEF Write, Current
<1> QED
  BY <1>3, <1>5, <1>6 DEF w, R

\* A write keeps the history typed.
LEMMA WriteTyped ==
    ASSUME TypeInv, NEW s \in Stores, NEW n \in Names, NEW present \in BOOLEAN,
           Write(s, n, present)
    PROVE  \A u \in Stores, m \in Names : Len(history'[u][m]) \in Versions
<1> TAKE u \in Stores, m \in Names
<1>1. CASE u = s /\ m = n
  BY <1>1, WriteIs
<1>2. CASE <<u, m>> # <<s, n>>
  <2>1. history'[u][m] = history[u][m]
    BY <1>2, WriteIs
  <2> QED
    BY <2>1 DEF TypeInv, HistoryTyped
<1> QED
  BY <1>1, <1>2

-----------------------------------------------------------------------------
(* What the steps do to the copies and to the calls.                       *)

\* A copy is loaded.
LEMMA LoadTyped ==
    ASSUME TypeInv, NEW i \in Instances, mem' = [mem EXCEPT ![i] = Loaded(i)], UNCHANGED file
    PROVE  /\ CopiesTyped'
           /\ mem'[i] = Loaded(i)
           /\ mem'[i] # None
           /\ \A j \in Instances : j # i => mem'[j] = mem[j]
<1>1. IsCache(Loaded(i)) /\ Loaded(i) # None
  BY LoadedIsCache
<1>2. mem = [j \in Instances |-> mem[j]]
  BY DEF TypeInv, CopiesTyped
<1> HIDE DEF Loaded
<1>3. /\ mem'[i] = Loaded(i)
      /\ \A j \in Instances : j # i => mem'[j] = mem[j]
      /\ mem' = [j \in Instances |-> mem'[j]]
  BY <1>2
<1> QED
  BY <1>1, <1>3 DEF TypeInv, CopiesTyped

\* A copy is saved.
LEMMA SaveTyped ==
    ASSUME TypeInv, NEW i \in Instances, NEW cache, IsCache(cache), cache # None, Save(i, cache)
    PROVE  /\ CopiesTyped'
           /\ mem'[i] = cache
           /\ \A j \in Instances : j # i => mem'[j] = mem[j]
           /\ file' = cache \/ file' = file
<1>1. mem = [j \in Instances |-> mem[j]]
  BY DEF TypeInv, CopiesTyped
<1>2. /\ mem'[i] = cache
      /\ \A j \in Instances : j # i => mem'[j] = mem[j]
      /\ mem' = [j \in Instances |-> mem'[j]]
      /\ file' = cache \/ file' = file
  BY <1>1 DEF Save
<1> QED
  BY <1>2 DEF TypeInv, CopiesTyped

\* A call begins.
LEMMA BeginTyped ==
    ASSUME TypeInv, NEW t \in Tasks, NEW call \in {"exact", "prefix", "store", "delete"},
           NEW n \in Names \union {All}, NEW got \in [Names -> Versions] \union {None},
           call # "prefix" => n \in Names, UNCHANGED now, Begin(t, call, n, got)
    PROVE  /\ TasksTyped'
           /\ task'[t] = [call |-> call, name |-> n, startedAt |-> now, got |-> got]
           /\ \A u \in Tasks : u # t => task'[u] = task[u]
<1> DEFINE r == [call |-> call, name |-> n, startedAt |-> now, got |-> got]
<1>1. now \in 0..MaxTime /\ now <= now
  BY CacheAssumption DEF CacheAssumption, TypeInv, HistoryTyped
<1>2. IsCall(r, t, now)
  BY <1>1 DEF IsCall, Flights, Begin
<1>3. task = [u \in Tasks |-> task[u]] /\ task' = [task EXCEPT ![t] = r]
  BY DEF TypeInv, TasksTyped, Begin
<1> HIDE DEF r
<1>4. /\ task'[t] = r
      /\ \A u \in Tasks : u # t => task'[u] = task[u]
      /\ task' = [u \in Tasks |-> task'[u]]
  BY <1>3
<1>5. TasksTyped'
  BY <1>2, <1>4 DEF TypeInv, TasksTyped
<1> QED
  BY <1>4, <1>5 DEF r

\* A call ends.
LEMMA DoneTyped ==
    ASSUME TypeInv, NEW t \in Tasks, UNCHANGED now, Done(t)
    PROVE  /\ TasksTyped'
           /\ \A u \in Tasks : task'[u] # None => u # t /\ task'[u] = task[u]
<1>1. task = [u \in Tasks |-> task[u]] /\ task' = [task EXCEPT ![t] = None]
  BY DEF TypeInv, TasksTyped, Done
<1>2. /\ \A u \in Tasks : task'[u] # None => u # t /\ task'[u] = task[u]
      /\ task' = [u \in Tasks |-> task'[u]]
  BY <1>1
<1> QED
  BY <1>2 DEF TypeInv, TasksTyped

\* The fields of a call that has its answer.
LEMMA AnsweredIs ==
    ASSUME TypeInv, NEW t \in Tasks, Answered(t)
    PROVE  /\ IsCall(task[t], t, now)
           /\ task[t].got \in [Names -> Versions]
           /\ task[t].startedAt \in 0..MaxTime
  BY DEF Answered, TypeInv, TasksTyped, IsCall, Flights

\* The entry of a name that a read leaves.
LEMMA ReadEntryIs ==
    ASSUME TypeInv, NEW t \in Tasks, Answered(t), NEW n \in Names
    PROVE  /\ ReadEntry(t, n) \in CacheEntries
           /\ ReadEntry(t, n).value = <<StoreFor(t), task[t].got[n]>>
           /\ ReadEntry(t, n).value # None
           /\ ReadEntry(t, n).cachedAt = task[t].startedAt
           /\ ReadEntry(t, n).writer = Build[InstanceOf[t]]
<1> DEFINE value == <<StoreFor(t), task[t].got[n]>>
<1>1. value \in Stores \X Versions /\ value # None
  BY AnsweredIs, Places, CacheAssumption DEF CacheAssumption
<1>2. 0 \in 0..Cardinality(Names) /\ InstanceOf[t] \in Instances
  BY NameCount, Places
<1>3. ReadEntry(t, n) = Entry(InstanceOf[t], value, task[t].startedAt, 0)
  BY DEF ReadEntry, StoreFor
<1> HIDE DEF value
<1>4. value \in (Stores \X Versions) \union {None} /\ task[t].startedAt \in 0..MaxTime
  BY <1>1, AnsweredIs
<1>5. /\ ReadEntry(t, n) \in CacheEntries
      /\ ReadEntry(t, n).value = value
      /\ ReadEntry(t, n).cachedAt = task[t].startedAt
      /\ ReadEntry(t, n).writer = Build[InstanceOf[t]]
  BY <1>2, <1>3, <1>4, EntryFields
<1> QED
  BY <1>1, <1>5 DEF value

-----------------------------------------------------------------------------
(* The caches that calls leave.                                            *)

\* What an exact read of a name that is there leaves.
ExactCache(t) ==
    Over([k \in {EntryKey(ScopeOf[InstanceOf[t]], task[t].name)} |->
             ReadEntry(t, task[t].name)],
         mem[InstanceOf[t]])

\* What a prefix read leaves.
PrefixEntries(t) ==
    [k \in {EntryKey(ScopeOf[InstanceOf[t]], n) : n \in Found(t)} |-> ReadEntry(t, k[2])]
PrefixMarker(t) ==
    [k \in {EntryKey(ScopeOf[InstanceOf[t]], All)} |->
        Entry(InstanceOf[t], None, task[t].startedAt, Cardinality(Found(t)))]
PrefixCache(t) == Over(Over(PrefixMarker(t), PrefixEntries(t)), mem[InstanceOf[t]])

\* What a store and a delete leave.
Forgotten(t) == Without(Loaded(InstanceOf[t]), InstanceOf[t], task[t].name)
StoredEntry(t) ==
    Entry(InstanceOf[t], <<StoreFor(t), task[t].got[task[t].name]>>, now, 0)
StoredCache(t) ==
    Over([k \in {EntryKey(ScopeOf[InstanceOf[t]], task[t].name)} |-> StoredEntry(t)],
         Forgotten(t))

\* The entry that an exact read leaves, in what it had loaded.
LEMMA ExactCacheIs ==
    ASSUME TypeInv, NEW t \in Tasks, FinishExact(t)
    PROVE  LET i == InstanceOf[t]
               n == task[t].name
               key == <<ScopeOf[i], n>>
           IN  /\ n \in Names /\ mem[i] # None /\ Reads(t)
               /\ IsCache(ExactCache(t)) /\ ExactCache(t) # None
               /\ DOMAIN ExactCache(t) = {key} \union DOMAIN mem[i]
               /\ ExactCache(t)[key] = ReadEntry(t, n)
               /\ \A k \in DOMAIN mem[i] : k # key => ExactCache(t)[k] = mem[i][k]
               /\ Save(i, ExactCache(t)) \/ UNCHANGED <<mem, file>>
<1> DEFINE i == InstanceOf[t]
           n == task[t].name
           key == <<ScopeOf[i], n>>
           f == [k \in {EntryKey(ScopeOf[i], n)} |-> ReadEntry(t, n)]
<1>1. Answered(t) /\ task[t].call = "exact" /\ task[t] # None
  BY DEF FinishExact, Answered
<1>2. i \in Instances /\ ScopeOf[i] \in Scopes
  BY Places
<1>3. n \in Names
  BY <1>1, AnsweredIs DEF IsCall
<1>4. Reads(t) /\ mem[i] # None /\ IsCache(mem[i])
  BY <1>1, <1>2 DEF TypeInv, ReadersLoaded, CopiesTyped, Reads
<1>5. ReadEntry(t, n) \in CacheEntries /\ (ReadEntry(t, n).value = None <=> n = All)
  BY <1>1, <1>3, ReadEntryIs, CacheAssumption DEF CacheAssumption
<1> HIDE DEF n
<1>6. IsCache(f)
  BY <1>2, <1>3, <1>5, OneEntry
<1>7. DOMAIN f = {key} /\ f[key] = ReadEntry(t, n)
  BY DEF EntryKey
<1>8. ExactCache(t) = Over(f, mem[i])
  BY DEF ExactCache, n
<1>9. Save(i, ExactCache(t)) \/ UNCHANGED <<mem, file>>
  BY DEF FinishExact, ExactCache
<1> HIDE DEF f, i, key
<1>10. /\ IsCache(ExactCache(t)) /\ ExactCache(t) # None
       /\ DOMAIN ExactCache(t) = {key} \union DOMAIN mem[i]
       /\ ExactCache(t)[key] = ReadEntry(t, n)
       /\ \A k \in DOMAIN mem[i] : k # key => ExactCache(t)[k] = mem[i][k]
  <2> DEFINE g == mem[i]
  <2>1. IsCache(g)
    BY <1>4
  <2> HIDE DEF g
  <2>2. /\ IsCache(Over(f, g)) /\ Over(f, g) # None
        /\ DOMAIN Over(f, g) = DOMAIN f \union DOMAIN g
        /\ \A k \in DOMAIN f : Over(f, g)[k] = f[k]
        /\ \A k \in DOMAIN g \ DOMAIN f : Over(f, g)[k] = g[k]
    BY <1>6, <2>1, OverIsCache
  <2>3. ExactCache(t) = Over(f, g)
    BY <1>8 DEF g
  <2>4. /\ IsCache(ExactCache(t)) /\ ExactCache(t) # None
        /\ DOMAIN ExactCache(t) = {key} \union DOMAIN g
        /\ ExactCache(t)[key] = ReadEntry(t, n)
        /\ \A k \in DOMAIN g : k # key => ExactCache(t)[k] = g[k]
    BY <1>7, <2>2, <2>3
  <2> QED
    BY <2>4 DEF g
<1> QED
  BY <1>3, <1>4, <1>9, <1>10 DEF i, n, key

\* The names found are names, and were there at the versions that the answer gives.
LEMMA FoundAreNames ==
    ASSUME NEW t \in Tasks
    PROVE  /\ Found(t) \in SUBSET Names
           /\ \A n \in Names \ Found(t) :
                 ~history[StoreFor(t)][n][task[t].got[n]].present
  BY DEF Found, StoreFor

\* The entries of a prefix read, and their marker.
LEMMA PrefixPartsAre ==
    ASSUME TypeInv, NEW t \in Tasks, Answered(t)
    PROVE  LET i == InstanceOf[t]
               c == ScopeOf[i]
           IN  /\ IsCache(PrefixEntries(t))
               /\ DOMAIN PrefixEntries(t) = {<<c, n>> : n \in Found(t)}
               /\ \A n \in Found(t) : PrefixEntries(t)[<<c, n>>] = ReadEntry(t, n)
               /\ IsCache(PrefixMarker(t))
               /\ DOMAIN PrefixMarker(t) = {<<c, All>>}
               /\ PrefixMarker(t)[<<c, All>>].count = Cardinality(Found(t))
               /\ PrefixMarker(t)[<<c, All>>].cachedAt = task[t].startedAt
               /\ PrefixMarker(t)[<<c, All>>].writer = Build[i]
<1> DEFINE i == InstanceOf[t]
           c == ScopeOf[i]
           D == {EntryKey(c, n) : n \in Found(t)}
           at == task[t].startedAt
           e == Entry(i, None, at, Cardinality(Found(t)))
<1>1. i \in Instances /\ c \in Scopes /\ at \in 0..MaxTime
  BY Places, AnsweredIs
<1>2. Found(t) \in SUBSET Names
  BY FoundAreNames
<1>3. D = {<<c, n>> : n \in Found(t)} /\ PrefixEntries(t) = [k \in D |-> ReadEntry(t, k[2])]
  BY DEF EntryKey, PrefixEntries
<1> HIDE DEF i, c
<1>4. ASSUME NEW k \in D
      PROVE  /\ k \in CacheKeys /\ k[2] # All
             /\ ReadEntry(t, k[2]) \in CacheEntries
             /\ ReadEntry(t, k[2]).value # None
  <2>1. PICK n \in Found(t) : k = <<c, n>>
    BY <1>3
  <2>2. n \in Names /\ n # All /\ k[2] = n
    BY <1>2, <2>1, CacheAssumption DEF CacheAssumption
  <2>3. ReadEntry(t, n) \in CacheEntries /\ ReadEntry(t, n).value # None
    BY <2>2, ReadEntryIs
  <2> QED
    BY <1>1, <2>1, <2>2, <2>3 DEF CacheKeys
<1>5. IsCache(PrefixEntries(t)) /\ DOMAIN PrefixEntries(t) = D
  BY <1>3, <1>4 DEF IsCache
<1>6. \A n \in Found(t) : PrefixEntries(t)[<<c, n>>] = ReadEntry(t, n)
  BY <1>3
<1>7. Cardinality(Found(t)) \in 0..Cardinality(Names)
  BY <1>2, NameCount
<1> HIDE DEF at
<1>8. /\ e \in CacheEntries /\ e.value = None
      /\ e.cachedAt = at /\ e.writer = Build[i] /\ e.count = Cardinality(Found(t))
  BY <1>1, <1>7, EntryFields
<1>9. PrefixMarker(t) = [k \in {EntryKey(c, All)} |-> e]
  BY DEF PrefixMarker, at, c, i
<1> HIDE DEF e
<1>10. IsCache(PrefixMarker(t))
  <2>1. IsCache([k \in {EntryKey(c, All)} |-> e])
    BY <1>1, <1>8, OneEntry
  <2> QED
    BY <1>9, <2>1
<1>11. DOMAIN PrefixMarker(t) = {<<c, All>>} /\ PrefixMarker(t)[<<c, All>>] = e
  BY <1>9 DEF EntryKey
<1> QED
  BY <1>3, <1>5, <1>6, <1>8, <1>10, <1>11 DEF c, i, at

\* The marker and the entries that a prefix read leaves, in what it had loaded.
LEMMA PrefixCacheIs ==
    ASSUME TypeInv, NEW t \in Tasks, FinishPrefix(t)
    PROVE  LET i == InstanceOf[t]
               c == ScopeOf[i]
               new == {<<c, n>> : n \in Found(t) \union {All}}
           IN  /\ mem[i] # None /\ Reads(t) /\ Answered(t)
               /\ IsCache(PrefixCache(t)) /\ PrefixCache(t) # None
               /\ DOMAIN PrefixCache(t) = new \union DOMAIN mem[i]
               /\ \A n \in Found(t) : PrefixCache(t)[<<c, n>>] = ReadEntry(t, n)
               /\ PrefixCache(t)[<<c, All>>].count = Cardinality(Found(t))
               /\ PrefixCache(t)[<<c, All>>].cachedAt = task[t].startedAt
               /\ PrefixCache(t)[<<c, All>>].writer = Build[i]
               /\ \A k \in DOMAIN mem[i] \ new : PrefixCache(t)[k] = mem[i][k]
               /\ Save(i, PrefixCache(t))
<1> DEFINE i == InstanceOf[t]
           c == ScopeOf[i]
           new == {<<c, n>> : n \in Found(t) \union {All}}
           g == mem[i]
           f == Over(PrefixMarker(t), PrefixEntries(t))
<1>1. Answered(t) /\ task[t].call = "prefix" /\ task[t] # None
  BY DEF FinishPrefix, Answered
<1>2. Reads(t) /\ g # None /\ IsCache(g)
  BY <1>1, Places DEF TypeInv, ReadersLoaded, CopiesTyped, Reads
<1>3. Save(i, PrefixCache(t))
  BY DEF FinishPrefix, PrefixCache, PrefixMarker, PrefixEntries
<1>4. /\ IsCache(PrefixEntries(t))
      /\ DOMAIN PrefixEntries(t) = {<<c, n>> : n \in Found(t)}
      /\ \A n \in Found(t) : PrefixEntries(t)[<<c, n>>] = ReadEntry(t, n)
      /\ IsCache(PrefixMarker(t))
      /\ DOMAIN PrefixMarker(t) = {<<c, All>>}
      /\ PrefixMarker(t)[<<c, All>>].count = Cardinality(Found(t))
      /\ PrefixMarker(t)[<<c, All>>].cachedAt = task[t].startedAt
      /\ PrefixMarker(t)[<<c, All>>].writer = Build[i]
  BY <1>1, PrefixPartsAre
<1>5. PrefixCache(t) = Over(f, g)
  BY DEF PrefixCache
<1>6. \A n \in Found(t) : n # All
  BY FoundAreNames, CacheAssumption DEF CacheAssumption
<1> HIDE DEF i, c, g
<1>7. /\ IsCache(f)
      /\ DOMAIN f = DOMAIN PrefixMarker(t) \union DOMAIN PrefixEntries(t)
      /\ \A k \in DOMAIN PrefixMarker(t) : f[k] = PrefixMarker(t)[k]
      /\ \A k \in DOMAIN PrefixEntries(t) \ DOMAIN PrefixMarker(t) : f[k] = PrefixEntries(t)[k]
  BY <1>4, OverIsCache
<1> HIDE DEF f
<1>8. /\ DOMAIN f = new
      /\ f[<<c, All>>] = PrefixMarker(t)[<<c, All>>]
      /\ \A n \in Found(t) : f[<<c, n>>] = ReadEntry(t, n)
  BY <1>4, <1>6, <1>7
<1>9. /\ IsCache(PrefixCache(t)) /\ PrefixCache(t) # None
      /\ DOMAIN PrefixCache(t) = DOMAIN f \union DOMAIN g
      /\ \A k \in DOMAIN f : PrefixCache(t)[k] = f[k]
      /\ \A k \in DOMAIN g \ DOMAIN f : PrefixCache(t)[k] = g[k]
  <2>1. /\ IsCache(Over(f, g)) /\ Over(f, g) # None
        /\ DOMAIN Over(f, g) = DOMAIN f \union DOMAIN g
        /\ \A k \in DOMAIN f : Over(f, g)[k] = f[k]
        /\ \A k \in DOMAIN g \ DOMAIN f : Over(f, g)[k] = g[k]
    BY <1>2, <1>7, OverIsCache
  <2> QED
    BY <1>5, <2>1
<1>10. /\ \A n \in Found(t) : PrefixCache(t)[<<c, n>>] = ReadEntry(t, n)
       /\ PrefixCache(t)[<<c, All>>] = PrefixMarker(t)[<<c, All>>]
  BY <1>8, <1>9
<1> QED
  BY <1>1, <1>2, <1>3, <1>4, <1>8, <1>9, <1>10 DEF i, c, g

\* What is left of a copy after a write: nothing of the name, and no marker.
LEMMA ForgottenIs ==
    ASSUME TypeInv, NEW t \in Tasks
    PROVE  LET copy == Loaded(InstanceOf[t])
           IN  /\ IsCache(Forgotten(t)) /\ Forgotten(t) # None
               /\ DOMAIN Forgotten(t) = DOMAIN copy \ (Scopes \X {task[t].name, All})
               /\ \A k \in DOMAIN Forgotten(t) : Forgotten(t)[k] = copy[k]
<1> DEFINE copy == Loaded(InstanceOf[t])
           D == DOMAIN copy \ (Scopes \X {task[t].name, All})
<1>1. IsCache(copy)
  BY Places, LoadedIsCache
<1>2. Forgotten(t) = [k \in D |-> copy[k]]
  BY DEF Forgotten, Without
<1> HIDE DEF copy
<1>3. D \in SUBSET DOMAIN copy
  OBVIOUS
<1> HIDE DEF D
<1>4. IsCache([k \in D |-> copy[k]]) /\ [k \in D |-> copy[k]] # None
  BY <1>1, <1>3, PartIsCache
<1> QED
  BY <1>2, <1>4 DEF copy, D

\* What a store leaves: the entry of its value, and what is not forgotten.
LEMMA StoredCacheIs ==
    ASSUME TypeInv, NEW t \in Tasks, Answered(t), task[t].call = "store"
    PROVE  LET i == InstanceOf[t]
               n == task[t].name
               key == <<ScopeOf[i], n>>
           IN  /\ n \in Names
               /\ IsCache(StoredCache(t)) /\ StoredCache(t) # None
               /\ DOMAIN StoredCache(t) = {key} \union DOMAIN Forgotten(t)
               /\ StoredCache(t)[key].value = <<StoreFor(t), task[t].got[n]>>
               /\ StoredCache(t)[key].cachedAt = now
               /\ StoredCache(t)[key].writer = Build[i]
               /\ \A k \in DOMAIN Forgotten(t) : k # key => StoredCache(t)[k] = Forgotten(t)[k]
<1> DEFINE i == InstanceOf[t]
           n == task[t].name
           key == <<ScopeOf[i], n>>
           value == <<StoreFor(t), task[t].got[n]>>
           e == Entry(i, value, now, 0)
           f == [k \in {EntryKey(ScopeOf[i], n)} |-> e]
           g == Forgotten(t)
<1>1. i \in Instances /\ ScopeOf[i] \in Scopes
  BY Places
<1>2. n \in Names
  BY AnsweredIs DEF IsCall
<1>3. value \in (Stores \X Versions) \union {None} /\ value # None
  BY <1>2, AnsweredIs, Places, CacheAssumption DEF CacheAssumption
<1>4. now \in 0..MaxTime /\ 0 \in 0..Cardinality(Names)
  BY NameCount DEF TypeInv, HistoryTyped
<1>5. StoredCache(t) = Over(f, g)
  BY DEF StoredCache, StoredEntry
<1>6. DOMAIN f = {key} /\ f[key] = e
  BY DEF EntryKey
<1>7. IsCache(g)
  BY ForgottenIs
<1>8. n # All
  BY <1>2, CacheAssumption DEF CacheAssumption
<1> HIDE DEF value, i, n, g
<1>9. e \in CacheEntries /\ e.value = value /\ e.cachedAt = now /\ e.writer = Build[i]
  BY <1>1, <1>3, <1>4, EntryFields
<1> HIDE DEF e
<1>10. IsCache(f)
  BY <1>1, <1>2, <1>3, <1>8, <1>9, OneEntry
<1> HIDE DEF f, key
<1>11. /\ IsCache(StoredCache(t)) /\ StoredCache(t) # None
       /\ DOMAIN StoredCache(t) = DOMAIN f \union DOMAIN g
       /\ \A k \in DOMAIN f : StoredCache(t)[k] = f[k]
       /\ \A k \in DOMAIN g \ DOMAIN f : StoredCache(t)[k] = g[k]
  <2>1. /\ IsCache(Over(f, g)) /\ Over(f, g) # None
        /\ DOMAIN Over(f, g) = DOMAIN f \union DOMAIN g
        /\ \A k \in DOMAIN f : Over(f, g)[k] = f[k]
        /\ \A k \in DOMAIN g \ DOMAIN f : Over(f, g)[k] = g[k]
    BY <1>7, <1>10, OverIsCache
  <2> QED
    BY <1>5, <2>1
<1>12. /\ DOMAIN StoredCache(t) = {key} \union DOMAIN g
       /\ StoredCache(t)[key] = e
       /\ \A k \in DOMAIN g : k # key => StoredCache(t)[k] = g[k]
  BY <1>6, <1>11
<1> QED
  BY <1>2, <1>9, <1>11, <1>12 DEF i, n, key, value, g

\* What a write leaves: of its name its own entry, if any, and of the rest no marker.
Written(t) == IF task[t].call = "store" THEN StoredCache(t) ELSE Forgotten(t)

LEMMA WrittenIs ==
    ASSUME TypeInv, NEW t \in Tasks, FinishWrite(t)
    PROVE  LET i == InstanceOf[t]
               n == task[t].name
               key == <<ScopeOf[i], n>>
               kept == DOMAIN Loaded(i) \ (Scopes \X {n, All})
           IN  /\ n \in Names /\ Answered(t)
               /\ IsCache(Written(t)) /\ Written(t) # None
               /\ DOMAIN Written(t) \in {kept, kept \union {key}}
               /\ key \in DOMAIN Written(t) =>
                     /\ Written(t)[key].value = <<StoreFor(t), task[t].got[n]>>
                     /\ Written(t)[key].cachedAt = now
                     /\ Written(t)[key].writer = Build[i]
               /\ \A k \in DOMAIN Written(t) : k # key => Written(t)[k] = Loaded(i)[k]
               /\ Save(i, Written(t))
<1> DEFINE i == InstanceOf[t]
           n == task[t].name
           key == <<ScopeOf[i], n>>
           kept == DOMAIN Loaded(i) \ (Scopes \X {n, All})
<1>1. Answered(t) /\ task[t].call \in {"store", "delete"}
  BY DEF FinishWrite
<1>2. n \in Names /\ ScopeOf[i] \in Scopes
  BY <1>1, AnsweredIs, Places DEF IsCall
<1>3. /\ IsCache(Forgotten(t)) /\ Forgotten(t) # None
      /\ DOMAIN Forgotten(t) = kept
      /\ \A k \in DOMAIN Forgotten(t) : Forgotten(t)[k] = Loaded(i)[k]
  BY ForgottenIs
<1>4. key \notin kept
  BY <1>2
<1>5. CASE task[t].call = "store"
  <2>1. Written(t) = StoredCache(t)
    BY <1>5 DEF Written
  <2>2. Save(i, StoredCache(t))
    BY <1>5 DEF FinishWrite, Stored, StoredCache, StoredEntry, Forgotten, StoreFor
  <2>3. /\ IsCache(StoredCache(t)) /\ StoredCache(t) # None
        /\ DOMAIN StoredCache(t) = {key} \union DOMAIN Forgotten(t)
        /\ StoredCache(t)[key].value = <<StoreFor(t), task[t].got[n]>>
        /\ StoredCache(t)[key].cachedAt = now
        /\ StoredCache(t)[key].writer = Build[i]
        /\ \A k \in DOMAIN Forgotten(t) : k # key => StoredCache(t)[k] = Forgotten(t)[k]
    BY <1>1, <1>5, StoredCacheIs
  <2> QED
    BY <1>1, <1>2, <1>3, <2>1, <2>2, <2>3
<1>6. CASE task[t].call = "delete"
  <2>1. Written(t) = Forgotten(t)
    BY <1>6 DEF Written
  <2>2. Save(i, Forgotten(t))
    BY <1>6 DEF FinishWrite, Deleted, Forgotten
  <2> QED
    BY <1>1, <1>2, <1>3, <1>4, <2>1, <2>2
<1> QED
  BY <1>1, <1>5, <1>6

-----------------------------------------------------------------------------
(* Types.                                                                  *)

LEMMA TypeInit == Init => TypeInv
<1> SUFFICES ASSUME Init PROVE TypeInv
  OBVIOUS
<1> DEFINE R == [present : BOOLEAN, at : 0..MaxTime]
<1>1. PICK held \in SUBSET Names :
        history = [s \in Stores |-> [n \in Names |-> <<[present |-> n \in held, at |-> 0]>>]]
  BY DEF Init
<1>2. 0 \in 0..MaxTime /\ 1 \in Versions
  BY CacheAssumption DEF CacheAssumption, Versions
<1>3. \A n \in Names : <<[present |-> n \in held, at |-> 0]>> \in Seq(R)
                       /\ Len(<<[present |-> n \in held, at |-> 0]>>) = 1
  BY <1>2
<1>4. HistoryTyped
  <2>1. \A s \in Stores, n \in Names : history[s][n] = <<[present |-> n \in held, at |-> 0]>>
    BY <1>1
  <2>2. \A s \in Stores, n \in Names : Len(history[s][n]) \in Versions
    BY <1>2, <1>3, <2>1
  <2>3. history \in [Stores -> [Names -> Seq(R)]]
    BY <1>1, <1>3
  <2> QED
    BY <1>2, <2>2, <2>3 DEF HistoryTyped, Init
<1>5. CopiesTyped /\ TasksTyped
  BY DEF CopiesTyped, TasksTyped, Init
<1>6. ReadersLoaded
  BY DEF ReadersLoaded, Reads, Init
<1> QED
  BY <1>4, <1>5, <1>6 DEF TypeInv

\* The calls that run on while another one ends keep their copies.
LEMMA ReadersKept ==
    ASSUME TypeInv,
           \A u \in Tasks : task'[u] # None => task'[u] = task[u],
           \A j \in Instances : mem'[j] = None => mem[j] = None
    PROVE  ReadersLoaded'
<1> SUFFICES ASSUME NEW u \in Tasks, Reads(u)' PROVE mem'[InstanceOf[u]] # None
  BY DEF ReadersLoaded
<1>1. Reads(u)
  BY DEF Reads
<1> QED
  BY <1>1, Places DEF TypeInv, ReadersLoaded

LEMMA TypeNext == TypeInv /\ [Next]_vars => TypeInv'
<1> SUFFICES ASSUME TypeInv, [Next]_vars PROVE TypeInv'
  OBVIOUS
<1>1. ASSUME NEW c \in Scopes, NEW n \in Names, WriteElsewhere(StoreOf[c], n) PROVE TypeInv'
  <2>1. PICK present \in BOOLEAN : Write(StoreOf[c], n, present)
    BY <1>1 DEF WriteElsewhere
  <2>2. StoreOf[c] \in Stores
    BY Places
  <2>3. HistoryTyped'
    <3> DEFINE s == StoreOf[c]
    <3>1. s \in Stores /\ Write(s, n, present)
      BY <2>1, <2>2
    <3> HIDE DEF s
    <3>2. history' \in [Stores -> [Names -> Seq([present : BOOLEAN, at : 0..MaxTime])]]
      BY <3>1, WriteIs
    <3>3. \A u \in Stores, m \in Names : Len(history'[u][m]) \in Versions
      BY <3>1, WriteTyped
    <3> QED
      BY <1>1, <3>2, <3>3 DEF WriteElsewhere, TypeInv, HistoryTyped
  <2> QED
    BY <1>1, <2>3 DEF WriteElsewhere, TypeInv, CopiesTyped, TasksTyped, ReadersLoaded, Reads
<1>2. ASSUME NEW t \in Tasks, NEW n \in Names, StartExact(t, n) PROVE TypeInv'
  <2>1. /\ Begin(t, "exact", n, None)
        /\ mem' = [mem EXCEPT ![InstanceOf[t]] = Loaded(InstanceOf[t])]
        /\ UNCHANGED <<deployed, now, history, file>>
    BY <1>2 DEF StartExact
  <2>2. InstanceOf[t] \in Instances
    BY Places
  <2>3. TasksTyped' /\ \A u \in Tasks : u # t => task'[u] = task[u]
    BY <2>1, BeginTyped
  <2>4. /\ CopiesTyped'
        /\ mem'[InstanceOf[t]] # None
        /\ \A j \in Instances : j # InstanceOf[t] => mem'[j] = mem[j]
    BY <2>1, <2>2, LoadTyped
  <2>5. ReadersLoaded'
    BY <2>3, <2>4, Places DEF TypeInv, ReadersLoaded, Reads
  <2> QED
    BY <2>1, <2>3, <2>4, <2>5 DEF TypeInv, HistoryTyped
<1>3. ASSUME NEW t \in Tasks, NEW n \in Names, NEW call \in {"store", "delete"},
             StartWrite(t, call, n)
      PROVE  TypeInv'
  <2> DEFINE s == StoreFor(t)
             got == [m \in Names |-> Current(s, m) + IF m = n THEN 1 ELSE 0]
  <2>1. /\ Begin(t, call, n, got)
        /\ Write(s, n, call = "store")
        /\ UNCHANGED <<deployed, now, mem, file>>
    BY <1>3 DEF StartWrite, StoreFor
  <2>2. s \in Stores /\ (call = "store") \in BOOLEAN
    BY Places
  <2>3. got \in [Names -> Versions]
    <3>1. \A m \in Names : Current(s, m) \in Versions
      BY <2>2 DEF TypeInv, HistoryTyped, Current
    <3>2. Current(s, n) + 1 \in Versions
      BY <2>1, <2>2, WriteRoom DEF Write
    <3> QED
      BY <3>1, <3>2 DEF Versions
  <2> HIDE DEF got
  <2>4. /\ TasksTyped'
        /\ task'[t] = [call |-> call, name |-> n, startedAt |-> now, got |-> got]
        /\ \A u \in Tasks : u # t => task'[u] = task[u]
    BY <2>1, <2>3, BeginTyped
  <2>5. HistoryTyped'
    BY <2>1, <2>2, WriteIs, WriteTyped DEF TypeInv, HistoryTyped
  <2>6. CopiesTyped'
    BY <2>1 DEF TypeInv, CopiesTyped
  <2>7. ReadersLoaded'
    <3> SUFFICES ASSUME NEW u \in Tasks, Reads(u)' PROVE mem'[InstanceOf[u]] # None
      BY DEF ReadersLoaded
    <3>1. u # t
      BY <2>4 DEF Reads
    <3> QED
      BY <2>1, <2>4, <3>1 DEF TypeInv, ReadersLoaded, Reads
  <2> QED
    BY <2>4, <2>5, <2>6, <2>7 DEF TypeInv
<1>4. ASSUME NEW t \in Tasks, StartPrefix(t) PROVE TypeInv'
  <2>1. /\ Begin(t, "prefix", All, None)
        /\ mem' = [mem EXCEPT ![InstanceOf[t]] = Loaded(InstanceOf[t])]
        /\ UNCHANGED <<deployed, now, history, file>>
    BY <1>4 DEF StartPrefix
  <2>2. InstanceOf[t] \in Instances
    BY Places
  <2>3. TasksTyped' /\ \A u \in Tasks : u # t => task'[u] = task[u]
    BY <2>1, BeginTyped
  <2>4. /\ CopiesTyped'
        /\ mem'[InstanceOf[t]] # None
        /\ \A j \in Instances : j # InstanceOf[t] => mem'[j] = mem[j]
    BY <2>1, <2>2, LoadTyped
  <2>5. ReadersLoaded'
    BY <2>3, <2>4, Places DEF TypeInv, ReadersLoaded, Reads
  <2> QED
    BY <2>1, <2>3, <2>4, <2>5 DEF TypeInv, HistoryTyped
<1>5. ASSUME NEW t \in Tasks, BackendReads(t) PROVE TypeInv'
  <2> DEFINE got == [n \in Names |-> Current(StoreFor(t), n)]
  <2>1. /\ task[t] # None
        /\ task' = [task EXCEPT ![t].got = got]
        /\ UNCHANGED <<deployed, now, history, mem, file>>
    BY <1>5 DEF BackendReads, StoreFor
  <2>2. got \in [Names -> Versions]
    BY Places DEF TypeInv, HistoryTyped, Current
  <2> HIDE DEF got
  <2>3. IsCall(task[t], t, now) /\ task = [u \in Tasks |-> task[u]]
    BY <2>1 DEF TypeInv, TasksTyped
  <2>4. /\ task'[t] = [task[t] EXCEPT !.got = got]
        /\ \A u \in Tasks : u # t => task'[u] = task[u]
        /\ task' = [u \in Tasks |-> task'[u]]
    BY <2>1, <2>3
  <2>5. IsCall(task'[t], t, now) /\ task'[t].call = task[t].call
    BY <2>2, <2>3, <2>4 DEF IsCall, Flights
  <2>6. TasksTyped'
    BY <2>1, <2>4, <2>5 DEF TypeInv, TasksTyped
  <2>7. ReadersLoaded'
    BY <2>1, <2>4, <2>5 DEF TypeInv, ReadersLoaded, Reads
  <2> QED
    BY <2>1, <2>6, <2>7 DEF TypeInv, HistoryTyped, CopiesTyped
<1>6. ASSUME NEW t \in Tasks, BackendFails(t) PROVE TypeInv'
  <2>1. TasksTyped' /\ \A u \in Tasks : task'[u] # None => u # t /\ task'[u] = task[u]
    BY <1>6, DoneTyped DEF BackendFails
  <2>2. ReadersLoaded'
    BY <1>6, <2>1, ReadersKept DEF BackendFails
  <2> QED
    BY <1>6, <2>1, <2>2 DEF BackendFails, TypeInv, HistoryTyped, CopiesTyped
<1>7. ASSUME NEW t \in Tasks, FinishExact(t) PROVE TypeInv'
  <2>1. TasksTyped' /\ \A u \in Tasks : task'[u] # None => u # t /\ task'[u] = task[u]
    BY <1>7, DoneTyped DEF FinishExact
  <2>2. InstanceOf[t] \in Instances
    BY Places
  <2>3. CopiesTyped' /\ \A j \in Instances : mem'[j] = None => mem[j] = None
    <3>1. CASE Save(InstanceOf[t], ExactCache(t))
      <4> DEFINE i == InstanceOf[t]
                   cache == ExactCache(t)
      <4>1. IsCache(cache) /\ cache # None /\ Save(i, cache) /\ i \in Instances
        BY <1>7, <2>2, <3>1, ExactCacheIs
      <4> HIDE DEF i, cache
      <4>2. /\ CopiesTyped'
            /\ mem'[i] = cache
            /\ \A j \in Instances : j # i => mem'[j] = mem[j]
        BY <4>1, SaveTyped
      <4> QED
        BY <4>1, <4>2
    <3>2. CASE UNCHANGED <<mem, file>>
      BY <3>2 DEF TypeInv, CopiesTyped
    <3> QED
      BY <1>7, <3>1, <3>2, ExactCacheIs
  <2>4. ReadersLoaded'
    BY <2>1, <2>3, ReadersKept
  <2> QED
    BY <1>7, <2>1, <2>3, <2>4 DEF FinishExact, TypeInv, HistoryTyped
<1>8. ASSUME NEW t \in Tasks, FinishPrefix(t) PROVE TypeInv'
  <2>1. TasksTyped' /\ \A u \in Tasks : task'[u] # None => u # t /\ task'[u] = task[u]
    BY <1>8, DoneTyped DEF FinishPrefix
  <2>2. InstanceOf[t] \in Instances
    BY Places
  <2>3. CopiesTyped' /\ \A j \in Instances : mem'[j] = None => mem[j] = None
    <3> DEFINE i == InstanceOf[t]
                 cache == PrefixCache(t)
    <3>1. IsCache(cache) /\ cache # None /\ Save(i, cache) /\ i \in Instances
      BY <1>8, <2>2, PrefixCacheIs
    <3> HIDE DEF i, cache
    <3>2. /\ CopiesTyped'
          /\ mem'[i] = cache
          /\ \A j \in Instances : j # i => mem'[j] = mem[j]
      BY <3>1, SaveTyped
    <3> QED
      BY <3>1, <3>2
  <2>4. ReadersLoaded'
    BY <2>1, <2>3, ReadersKept
  <2> QED
    BY <1>8, <2>1, <2>3, <2>4 DEF FinishPrefix, TypeInv, HistoryTyped
<1>9. ASSUME NEW t \in Tasks, FinishWrite(t) PROVE TypeInv'
  <2>1. TasksTyped' /\ \A u \in Tasks : task'[u] # None => u # t /\ task'[u] = task[u]
    BY <1>9, DoneTyped DEF FinishWrite
  <2>2. InstanceOf[t] \in Instances
    BY Places
  <2>3. CopiesTyped' /\ \A j \in Instances : mem'[j] = None => mem[j] = None
    <3> DEFINE i == InstanceOf[t]
                 cache == Written(t)
    <3>1. IsCache(cache) /\ cache # None /\ Save(i, cache) /\ i \in Instances
      BY <1>9, <2>2, WrittenIs
    <3> HIDE DEF i, cache
    <3>2. /\ CopiesTyped'
          /\ mem'[i] = cache
          /\ \A j \in Instances : j # i => mem'[j] = mem[j]
      BY <3>1, SaveTyped
    <3> QED
      BY <3>1, <3>2
  <2>4. ReadersLoaded'
    BY <2>1, <2>3, ReadersKept
  <2> QED
    BY <1>9, <2>1, <2>3, <2>4 DEF FinishWrite, TypeInv, HistoryTyped
<1>10. ASSUME NEW i \in Instances, ReadHit(i) PROVE TypeInv'
  <2>1. CopiesTyped' /\ \A j \in Instances : mem'[j] = None => mem[j] = None
    BY <1>10, LoadTyped DEF ReadHit
  <2>2. ReadersLoaded'
    BY <1>10, <2>1, ReadersKept DEF ReadHit
  <2> QED
    BY <1>10, <2>1, <2>2 DEF ReadHit, TypeInv, HistoryTyped, TasksTyped
<1>11. ASSUME NEW i \in Instances, Restart(i) PROVE TypeInv'
  <2>1. mem = [j \in Instances |-> mem[j]] /\ mem' = [mem EXCEPT ![i] = None]
    BY <1>11 DEF Restart, TypeInv, CopiesTyped
  <2>2. /\ mem' = [j \in Instances |-> mem'[j]]
        /\ \A j \in Instances : mem'[j] = IF j = i THEN None ELSE mem[j]
    BY <2>1
  <2>3. CopiesTyped'
    BY <1>11, <2>2 DEF Restart, TypeInv, CopiesTyped
  <2>4. /\ task' = [t \in Tasks |-> task'[t]]
        /\ \A t \in Tasks : task'[t] = IF InstanceOf[t] = i THEN None ELSE task[t]
    BY <1>11 DEF Restart
  <2>5. TasksTyped'
    BY <1>11, <2>4 DEF Restart, TypeInv, TasksTyped
  <2>6. ReadersLoaded'
    BY <2>2, <2>4, Places DEF TypeInv, ReadersLoaded, Reads
  <2> QED
    BY <1>11, <2>3, <2>5, <2>6 DEF Restart, TypeInv, HistoryTyped
<1>12. ASSUME ClearFile PROVE TypeInv'
  BY <1>12 DEF ClearFile, TypeInv, HistoryTyped, CopiesTyped, TasksTyped, ReadersLoaded, Reads
<1>13. ASSUME Tick PROVE TypeInv'
  <2>1. now' \in 0..MaxTime /\ now <= now'
    BY <1>13, CacheAssumption DEF CacheAssumption, Tick, TypeInv, HistoryTyped
  <2>2. TasksTyped'
    <3> SUFFICES ASSUME NEW t \in Tasks, task[t] # None PROVE IsCall(task[t], t, now')
      BY <1>13 DEF Tick, TypeInv, TasksTyped
    <3>1. IsCall(task[t], t, now)
      BY DEF TypeInv, TasksTyped
    <3>2. task[t].startedAt \in Int /\ now \in Int /\ now' \in Int
      BY <2>1, <3>1 DEF IsCall, Flights, TypeInv, HistoryTyped
    <3> QED
      BY <2>1, <3>1, <3>2 DEF IsCall
  <2> QED
    BY <1>13, <2>1, <2>2 DEF Tick, TypeInv, HistoryTyped, CopiesTyped, ReadersLoaded, Reads
<1>14. ASSUME UNCHANGED vars PROVE TypeInv'
  BY <1>14 DEF vars, TypeInv, HistoryTyped, CopiesTyped, TasksTyped, ReadersLoaded, Reads
<1> QED
  BY <1>1, <1>2, <1>3, <1>4, <1>5, <1>6, <1>7, <1>8, <1>9, <1>10, <1>11, <1>12, <1>13, <1>14
     DEF Next

(***************************************************************************)
(* Every variable has its shape: the copies in memory and the file are     *)
(* caches, with an entry for a name or the marker of a scope under each    *)
(* key, and a call that reads has a copy to put its answer in.             *)
(***************************************************************************)
THEOREM TypeCorrect == Spec => []TypeOK
<1>1. TypeInv => TypeOK
  <2> SUFFICES ASSUME TypeInv PROVE TypeOK
    OBVIOUS
  <2>1. \A s \in Stores, n \in Names :
           history[s][n] \in Seq([present : BOOLEAN, at : 0..MaxTime])
    BY DEF TypeInv, HistoryTyped
  <2>2. \A t \in Tasks : task[t] # None =>
           /\ task[t].call \in Calls[t]
           /\ task[t].startedAt \in 0..now
    <3> SUFFICES ASSUME NEW t \in Tasks, task[t] # None
                 PROVE  task[t].call \in Calls[t] /\ task[t].startedAt \in 0..now
      OBVIOUS
    <3>1. IsCall(task[t], t, now) /\ now \in 0..MaxTime
      BY DEF TypeInv, TasksTyped, HistoryTyped
    <3> QED
      BY <3>1, CacheAssumption DEF IsCall, Flights, CacheAssumption
  <2> QED
    BY <2>1, <2>2 DEF TypeOK, TypeInv, HistoryTyped, CopiesTyped, ReadersLoaded, Reads
<1> QED
  BY <1>1, TypeInit, TypeNext, PTL DEF Spec

-----------------------------------------------------------------------------
(* Where the entries come from.                                            *)

\* A step adds to the history, at most a write of now, and time does not go back.
LEMMA HistoryExtends ==
    ASSUME TypeInv, [Next]_vars
    PROVE  /\ UNCHANGED deployed
           /\ now <= now'
           /\ \A s \in Stores, n \in Names :
                 /\ Len(history[s][n]) <= Len(history'[s][n])
                 /\ \A v \in 1..Len(history[s][n]) : history'[s][n][v] = history[s][n][v]
                 /\ \A v \in 1..Len(history'[s][n]) :
                       v > Len(history[s][n]) => history'[s][n][v].at = now
<1> DEFINE Q == /\ UNCHANGED deployed
                /\ now <= now'
                /\ \A s \in Stores, n \in Names :
                      /\ Len(history[s][n]) <= Len(history'[s][n])
                      /\ \A v \in 1..Len(history[s][n]) :
                            history'[s][n][v] = history[s][n][v]
                      /\ \A v \in 1..Len(history'[s][n]) :
                            v > Len(history[s][n]) => history'[s][n][v].at = now
<1> SUFFICES Q
  OBVIOUS
<1>1. /\ now \in Int
      /\ \A s \in Stores, n \in Names : Len(history[s][n]) \in Int
  BY CacheAssumption DEF CacheAssumption, TypeInv, HistoryTyped, Versions
<1>2. ASSUME UNCHANGED <<deployed, history>>, now' = now \/ now' = now + 1 PROVE Q
  BY <1>1, <1>2
<1>3. ASSUME NEW s \in Stores, NEW n \in Names, NEW present \in BOOLEAN,
             Write(s, n, present), UNCHANGED <<deployed, now>>
      PROVE  Q
  <2>1. /\ \A u \in Stores, m \in Names :
              <<u, m>> # <<s, n>> => history'[u][m] = history[u][m]
        /\ Len(history'[s][n]) = Len(history[s][n]) + 1
        /\ \A v \in 1..Len(history[s][n]) : history'[s][n][v] = history[s][n][v]
        /\ history'[s][n][Len(history[s][n]) + 1].at = now
    <3>1. history'[s][n][Len(history[s][n]) + 1] = [present |-> present, at |-> now]
      BY <1>3, WriteIs
    <3>2. history'[s][n][Len(history[s][n]) + 1].at = now
      BY <3>1
    <3>3. \A u \in Stores, m \in Names :
             <<u, m>> # <<s, n>> => history'[u][m] = history[u][m]
      BY <1>3, WriteIs
    <3>4. Len(history'[s][n]) = Len(history[s][n]) + 1
      BY <1>3, WriteIs
    <3>5. \A v \in 1..Len(history[s][n]) : history'[s][n][v] = history[s][n][v]
      BY <1>3, WriteIs
    <3> QED
      BY <3>2, <3>3, <3>4, <3>5
  <2>2. ASSUME NEW u \in Stores, NEW m \in Names
        PROVE  /\ Len(history[u][m]) <= Len(history'[u][m])
               /\ \A v \in 1..Len(history[u][m]) : history'[u][m][v] = history[u][m][v]
               /\ \A v \in 1..Len(history'[u][m]) :
                     v > Len(history[u][m]) => history'[u][m][v].at = now
    <3>1. CASE <<u, m>> # <<s, n>>
      BY <1>1, <2>1, <3>1
    <3>2. CASE u = s /\ m = n
      <4>1. Len(history[s][n]) \in Int /\ Len(history'[s][n]) = Len(history[s][n]) + 1
        BY <1>1, <2>1
      <4>2. \A v \in 1..Len(history'[s][n]) :
               v > Len(history[s][n]) => v = Len(history[s][n]) + 1
        BY <4>1
      <4> QED
        BY <2>1, <3>2, <4>1, <4>2
    <3> QED
      BY <3>1, <3>2
  <2> QED
    BY <1>1, <1>3, <2>2
<1>4. ASSUME NEW c \in Scopes, NEW n \in Names, WriteElsewhere(StoreOf[c], n) PROVE Q
  <2>1. PICK present \in BOOLEAN : Write(StoreOf[c], n, present)
    BY <1>4 DEF WriteElsewhere
  <2>2. StoreOf[c] \in Stores /\ UNCHANGED <<deployed, now>>
    BY <1>4, Places DEF WriteElsewhere
  <2> HIDE DEF Q
  <2> QED
    BY <1>3, <2>1, <2>2
<1>5. ASSUME NEW t \in Tasks, NEW n \in Names, NEW call \in {"store", "delete"},
             StartWrite(t, call, n)
      PROVE  Q
  <2>1. /\ Write(StoreFor(t), n, call = "store")
        /\ StoreFor(t) \in Stores /\ (call = "store") \in BOOLEAN
        /\ UNCHANGED <<deployed, now>>
    BY <1>5, Places DEF StartWrite, StoreFor
  <2> HIDE DEF Q
  <2> QED
    BY <1>3, <2>1
<1>6. CASE UNCHANGED <<deployed, now, history>>
  <2> HIDE DEF Q
  <2> QED
    BY <1>2, <1>6
<1>7. CASE Tick
  <2> HIDE DEF Q
  <2> QED
    BY <1>2, <1>7 DEF Tick
<1> HIDE DEF Q
<1> QED
  BY <1>4, <1>5, <1>6, <1>7 DEF Next, vars, StartExact, StartPrefix, BackendReads, BackendFails,
     FinishExact, FinishPrefix, FinishWrite, ReadHit, Restart, ClearFile

\* A version that stood at a time that is past stood at it, whatever is written since.
LEMMA StoodStays ==
    ASSUME TypeInv, TypeInv', [Next]_vars, NEW s \in Stores, NEW n \in Names,
           NEW v \in Versions, NEW time \in Int, time <= now,
           StoodAt(history, s, n, v, time)
    PROVE  /\ StoodAt(history', s, n, v, time)
           /\ history'[s][n][v] = history[s][n][v]
<1>1. /\ Len(history[s][n]) \in Int /\ Len(history'[s][n]) \in Int
      /\ now \in Int /\ v \in Int
  BY CacheAssumption DEF CacheAssumption, TypeInv, HistoryTyped, Versions
<1>2. /\ Len(history[s][n]) <= Len(history'[s][n])
      /\ \A w \in 1..Len(history[s][n]) : history'[s][n][w] = history[s][n][w]
      /\ \A w \in 1..Len(history'[s][n]) :
            w > Len(history[s][n]) => history'[s][n][w].at = now
  BY HistoryExtends
<1>3. v \in 1..Len(history[s][n]) /\ v \in 1..Len(history'[s][n])
  BY <1>1, <1>2 DEF StoodAt
<1>4. ASSUME v < Len(history'[s][n]) PROVE history'[s][n][v + 1].at >= time
  <2>1. CASE v < Len(history[s][n])
    <3>1. v + 1 \in 1..Len(history[s][n])
      BY <1>1, <1>3, <2>1
    <3> QED
      BY <1>2, <2>1, <3>1 DEF StoodAt
  <2>2. CASE v = Len(history[s][n])
    <3>1. v + 1 \in 1..Len(history'[s][n]) /\ v + 1 > Len(history[s][n])
      BY <1>1, <1>3, <1>4, <2>2
    <3>2. history'[s][n][v + 1].at = now
      BY <1>2, <3>1
    <3> QED
      BY <1>1, <3>2
  <2> QED
    BY <1>1, <1>3, <2>1, <2>2
<1> QED
  BY <1>2, <1>3, <1>4 DEF StoodAt

\* A version that stood at a time stood at every time before it.
LEMMA StoodBefore ==
    ASSUME TypeInv, NEW s \in Stores, NEW n \in Names, NEW v \in Versions,
           NEW time \in Int, NEW before \in Int, before <= time,
           StoodAt(history, s, n, v, time)
    PROVE  StoodAt(history, s, n, v, before)
<1>1. history[s][n] \in Seq([present : BOOLEAN, at : 0..MaxTime])
  BY DEF TypeInv, HistoryTyped
<1>2. Len(history[s][n]) \in Nat /\ v \in Nat
  BY <1>1, CacheAssumption, LenProperties DEF CacheAssumption, Versions
<1>3. ASSUME v < Len(history[s][n]) PROVE history[s][n][v + 1].at \in Int
  <2>1. v + 1 \in 1..Len(history[s][n])
    BY <1>2, <1>3 DEF StoodAt
  <2>2. history[s][n][v + 1] \in [present : BOOLEAN, at : 0..MaxTime]
    BY <1>1, <2>1, ElementOfSeq
  <2> QED
    BY <2>2
<1> QED
  BY <1>3 DEF StoodAt

\* The entries of a cache have their types.
LEMMA EntryTypes ==
    ASSUME NEW cache, IsCache(cache), NEW k \in DOMAIN cache
    PROVE  /\ cache[k] \in CacheEntries
           /\ cache[k].cachedAt \in Int
           /\ k[2] # All => cache[k].value \in Stores \X Versions
<1>1. cache[k] \in CacheEntries /\ (cache[k].value = None <=> k[2] = All)
  BY DEF IsCache
<1> QED
  BY <1>1 DEF CacheEntries

\* What was traced and past stays so.
LEMMA TracedStays ==
    ASSUME TypeInv, TypeInv', [Next]_vars, NEW cache, IsCache(cache),
           Traced(cache, history, deployed), Past(cache, now)
    PROVE  Traced(cache, history', deployed') /\ Past(cache, now')
<1>1. now \in Int /\ now' \in Int /\ now <= now' /\ deployed' = deployed /\ Latency \in Nat
  <2>1. now \in Int /\ now' \in Int /\ Latency \in Nat
    BY CacheAssumption DEF CacheAssumption, TypeInv, HistoryTyped
  <2> QED
    BY <2>1, HistoryExtends
<1>2. Past(cache, now')
  BY <1>1, EntryTypes DEF Past
<1>3. ASSUME NEW c \in Scopes, NEW n \in Names, <<c, n>> \in DOMAIN cache
      PROVE  /\ cache[<<c, n>>].value[1] = deployed.storeOf[c]
             /\ StoodAt(history', deployed.storeOf[c], n, cache[<<c, n>>].value[2],
                        cache[<<c, n>>].cachedAt - Latency)
  <2> DEFINE e == cache[<<c, n>>]
  <2>1. e.value[1] = deployed.storeOf[c]
        /\ StoodAt(history, deployed.storeOf[c], n, e.value[2], e.cachedAt - Latency)
    BY <1>3 DEF Traced
  <2>2. n # All
    BY CacheAssumption DEF CacheAssumption
  <2>3. e.cachedAt \in Int /\ e.value \in Stores \X Versions
    BY <1>3, <2>2, EntryTypes
  <2>4. deployed.storeOf[c] \in Stores /\ e.value[2] \in Versions
    BY <2>3, Places DEF StoreOf
  <2>5. e.cachedAt - Latency \in Int /\ e.cachedAt - Latency <= now
    BY <1>1, <1>3, <2>3 DEF Past
  <2> HIDE DEF e
  <2>6. StoodAt(history', deployed.storeOf[c], n, e.value[2], e.cachedAt - Latency)
    BY <2>1, <2>4, <2>5, StoodStays
  <2> QED
    BY <2>1, <2>6 DEF e
<1> QED
  BY <1>1, <1>2, <1>3 DEF Traced

\* A call that runs on is as recent as it was.
LEMMA KeptRecent ==
    ASSUME TypeInv, TypeInv', [Next]_vars, NEW u \in Tasks, AnswerRecent(u),
           task'[u] = task[u], now' = now \/ Tick
    PROVE  AnswerRecent(u)'
<1> SUFFICES ASSUME task[u] # None
             PROVE  /\ now' <= task[u].startedAt + Latency
                    /\ task[u].got # None => \A n \in Names :
                          StoodAt(history', StoreFor(u)', n, task[u].got[n], task[u].startedAt)
  BY DEF AnswerRecent
<1>1. /\ IsCall(task[u], u, now) /\ now \in Int /\ Latency \in Nat
      /\ task[u].startedAt \in Int
  BY CacheAssumption
     DEF CacheAssumption, TypeInv, HistoryTyped, TasksTyped, IsCall, Flights
<1>2. now' <= task[u].startedAt + Latency
  <2>1. CASE now' = now
    BY <2>1 DEF AnswerRecent
  <2>2. CASE Tick
    <3>1. now < task[u].startedAt + Latency /\ now' = now + 1
      BY <2>2 DEF Tick
    <3> QED
      BY <1>1, <3>1
  <2> QED
    BY <2>1, <2>2
<1>3. ASSUME task[u].got # None, NEW n \in Names
      PROVE  StoodAt(history', StoreFor(u)', n, task[u].got[n], task[u].startedAt)
  <2>1. StoreFor(u) \in Stores /\ StoreFor(u)' = StoreFor(u)
    BY Places, HistoryExtends DEF StoreFor, StoreOf, ScopeOf
  <2>2. task[u].got[n] \in Versions /\ task[u].startedAt <= now
    BY <1>1, <1>3 DEF IsCall, Flights
  <2>3. StoodAt(history, StoreFor(u), n, task[u].got[n], task[u].startedAt)
    BY <1>3 DEF AnswerRecent
  <2> DEFINE s == StoreFor(u)
             v == task[u].got[n]
             time == task[u].startedAt
  <2>4. /\ s \in Stores /\ v \in Versions /\ time \in Int /\ time <= now
        /\ StoodAt(history, s, n, v, time)
    BY <1>1, <2>1, <2>2, <2>3
  <2> HIDE DEF s, v, time
  <2>5. StoodAt(history', s, n, v, time)
    BY <2>4, StoodStays
  <2> QED
    BY <2>1, <2>5 DEF s, v, time
<1> QED
  BY <1>2, <1>3

\* The version that is current now stood at every time.
LEMMA CurrentStood ==
    ASSUME TypeInv, NEW s \in Stores, NEW n \in Names, NEW time
    PROVE  StoodAt(history, s, n, Current(s, n), time)
<1>1. Len(history[s][n]) \in Nat /\ Len(history[s][n]) >= 1
  BY CacheAssumption DEF CacheAssumption, TypeInv, HistoryTyped, Versions
<1> QED
  BY <1>1 DEF StoodAt, Current

LEMMA AnswersNext ==
    ASSUME TypeInv, TypeInv', [Next]_vars, AnswersRecent
    PROVE  AnswersRecent'
<1>1. ASSUME \A u \in Tasks : task'[u] = None \/ task'[u] = task[u], now' = now \/ Tick
      PROVE  AnswersRecent'
  <2> SUFFICES ASSUME NEW u \in Tasks PROVE AnswerRecent(u)'
    BY DEF AnswersRecent
  <2>1. CASE task'[u] = None
    BY <2>1 DEF AnswerRecent
  <2>2. CASE task'[u] = task[u]
    BY <1>1, <2>2, KeptRecent DEF AnswersRecent
  <2> QED
    BY <1>1, <2>1, <2>2
<1>2. ASSUME NEW t \in Tasks, \A u \in Tasks : u # t => task'[u] = task[u],
             UNCHANGED now, AnswerRecent(t)'
      PROVE  AnswersRecent'
  <2> SUFFICES ASSUME NEW u \in Tasks, u # t PROVE AnswerRecent(u)'
    BY <1>2 DEF AnswersRecent
  <2> QED
    BY <1>2, KeptRecent DEF AnswersRecent
<1>3. now \in Int /\ Latency \in Nat /\ now <= now + Latency
  BY CacheAssumption DEF CacheAssumption, TypeInv, HistoryTyped
<1>4. ASSUME NEW t \in Tasks, NEW call \in {"exact", "prefix"}, NEW n \in Names \union {All},
             call # "prefix" => n \in Names, Begin(t, call, n, None), UNCHANGED now
      PROVE  AnswersRecent'
  <2>1. /\ task'[t] = [call |-> call, name |-> n, startedAt |-> now, got |-> None]
        /\ \A u \in Tasks : u # t => task'[u] = task[u]
    BY <1>4, BeginTyped
  <2>2. task'[t].startedAt = now /\ task'[t].got = None
    BY <2>1
  <2>3. AnswerRecent(t)'
    BY <1>3, <1>4, <2>2 DEF AnswerRecent
  <2> QED
    BY <1>2, <1>4, <2>1, <2>3
<1>5. ASSUME NEW t \in Tasks, NEW n \in Names, StartExact(t, n) PROVE AnswersRecent'
  BY <1>4, <1>5 DEF StartExact
<1>6. ASSUME NEW t \in Tasks, StartPrefix(t) PROVE AnswersRecent'
  BY <1>4, <1>6 DEF StartPrefix
<1>7. ASSUME NEW t \in Tasks, NEW n \in Names, NEW call \in {"store", "delete"},
             StartWrite(t, call, n)
      PROVE  AnswersRecent'
  <2> DEFINE s == StoreFor(t)
             got == [m \in Names |-> Current(s, m) + IF m = n THEN 1 ELSE 0]
  <2>1. /\ Begin(t, call, n, got)
        /\ Write(s, n, call = "store")
        /\ UNCHANGED <<deployed, now, mem, file>>
    BY <1>7 DEF StartWrite, StoreFor
  <2>2. s \in Stores /\ (call = "store") \in BOOLEAN /\ s' = s
    BY <2>1, Places DEF StoreFor, StoreOf, ScopeOf
  <2>3. /\ \A m \in Names : <<s, m>> # <<s, n>> => history'[s][m] = history[s][m]
        /\ Len(history'[s][n]) = Len(history[s][n]) + 1
    <3> HIDE DEF s
    <3> QED
      BY <2>1, <2>2, WriteIs
  <2>4. \A m \in Names : got[m] = Current(s, m)'
    <3>1. \A m \in Names : Len(history[s][m]) \in Int
      BY <2>2, CacheAssumption DEF CacheAssumption, TypeInv, HistoryTyped, Versions
    <3> SUFFICES ASSUME NEW m \in Names
                 PROVE  Len(history[s][m]) + (IF m = n THEN 1 ELSE 0) = Len(history'[s][m])
      BY <2>2 DEF Current
    <3> HIDE DEF s
    <3>2. CASE m = n
      BY <2>3, <3>2
    <3>3. CASE m # n
      <4>1. history'[s][m] = history[s][m]
        BY <2>3, <3>3
      <4> QED
        BY <3>1, <3>3, <4>1
    <3> QED
      BY <3>2, <3>3
  <2>5. got \in [Names -> Versions]
    <3>1. \A m \in Names : Len(history'[s][m]) \in Versions
      BY <2>2 DEF TypeInv, HistoryTyped
    <3>2. \A m \in Names : got[m] \in Versions
      BY <2>2, <2>4, <3>1 DEF Current
    <3> QED
      BY <3>2
  <2> HIDE DEF got
  <2>6. /\ task'[t] = [call |-> call, name |-> n, startedAt |-> now, got |-> got]
        /\ \A u \in Tasks : u # t => task'[u] = task[u]
    BY <2>1, <2>5, BeginTyped
  <2>7. task'[t].startedAt = now /\ task'[t].got = got
    BY <2>6
  <2>8. \A m \in Names : StoodAt(history', s, m, Current(s, m)', now)
    <3> TAKE m \in Names
    <3>1. Len(history'[s][m]) \in Nat /\ Len(history'[s][m]) >= 1
      BY <2>2, CacheAssumption DEF CacheAssumption, TypeInv, HistoryTyped, Versions
    <3>2. Current(s, m)' = Len(history'[s][m])
      BY <2>2 DEF Current
    <3> QED
      BY <3>1, <3>2 DEF StoodAt
  <2>9. AnswerRecent(t)'
    BY <1>3, <2>1, <2>2, <2>4, <2>7, <2>8 DEF AnswerRecent
  <2> QED
    BY <1>2, <2>1, <2>6, <2>9
<1>8. ASSUME NEW t \in Tasks, BackendReads(t) PROVE AnswersRecent'
  <2> DEFINE got == [n \in Names |-> Current(StoreFor(t), n)]
  <2>1. /\ task[t] # None /\ task[t].got = None
        /\ task' = [task EXCEPT ![t].got = got]
        /\ UNCHANGED <<deployed, now, history, mem, file>>
    BY <1>8 DEF BackendReads, StoreFor
  <2>2. IsCall(task[t], t, now) /\ task = [u \in Tasks |-> task[u]]
    BY <2>1 DEF TypeInv, TasksTyped
  <2>3. \A n \in Names :
           StoodAt(history, StoreFor(t), n, Current(StoreFor(t), n), task[t].startedAt)
    BY Places, CurrentStood
  <2>4. \A n \in Names : got[n] = Current(StoreFor(t), n)
    OBVIOUS
  <2> HIDE DEF got
  <2>5. /\ task'[t] = [task[t] EXCEPT !.got = got]
        /\ \A u \in Tasks : u # t => task'[u] = task[u]
    BY <2>1, <2>2
  <2>6. task'[t].startedAt = task[t].startedAt /\ task'[t].got = got
    BY <2>2, <2>5 DEF IsCall, Flights
  <2>7. StoreFor(t)' = StoreFor(t)
    BY <2>1 DEF StoreFor, StoreOf, ScopeOf
  <2>8. AnswerRecent(t)'
    BY <2>1, <2>3, <2>4, <2>6, <2>7 DEF AnswersRecent, AnswerRecent
  <2> QED
    BY <1>2, <2>1, <2>5, <2>8
<1>9. ASSUME NEW t \in Tasks,
             BackendFails(t) \/ FinishExact(t) \/ FinishPrefix(t) \/ FinishWrite(t)
      PROVE  AnswersRecent'
  <2>1. Done(t) /\ UNCHANGED now
    BY <1>9 DEF BackendFails, FinishExact, FinishPrefix, FinishWrite
  <2> QED
    BY <1>1, <2>1, DoneTyped
<1>10. ASSUME NEW i \in Instances, Restart(i) PROVE AnswersRecent'
  BY <1>1, <1>10 DEF Restart
<1>11. CASE UNCHANGED <<now, task>>
  BY <1>1, <1>11
<1>12. CASE Tick
  BY <1>1, <1>12 DEF Tick
<1> QED
  BY <1>5, <1>6, <1>7, <1>8, <1>9, <1>10, <1>11, <1>12
     DEF Next, vars, WriteElsewhere, ReadHit, ClearFile

\* What a call takes into a copy: the answer of its store, under a stamp it stands for.
LEMMA AnswerTraced ==
    ASSUME TypeInv, AnswersRecent, NEW t \in Tasks, Answered(t), NEW n \in Names,
           NEW at \in Int, at <= task[t].startedAt + Latency
    PROVE  StoodAt(history, StoreFor(t), n, task[t].got[n], at - Latency)
<1>1. /\ task[t].got[n] \in Versions /\ task[t].startedAt \in Int
      /\ StoreFor(t) \in Stores /\ Latency \in Nat
  BY AnsweredIs, Places, CacheAssumption DEF CacheAssumption
<1>2. StoodAt(history, StoreFor(t), n, task[t].got[n], task[t].startedAt)
  BY DEF AnswersRecent, AnswerRecent, Answered
<1> DEFINE s == StoreFor(t)
           v == task[t].got[n]
           time == task[t].startedAt
           before == at - Latency
<1>3. /\ s \in Stores /\ v \in Versions /\ time \in Int /\ before \in Int /\ before <= time
      /\ StoodAt(history, s, n, v, time)
  BY <1>1, <1>2
<1> HIDE DEF s, v, time, before
<1>4. StoodAt(history, s, n, v, before)
  BY <1>3, StoodBefore
<1> QED
  BY <1>4 DEF s, v, before

\* The copy an object works on is traced, and of its own build.
LEMMA LoadedTraced ==
    ASSUME TypeInv, CopiesTraced, NEW i \in Instances
    PROVE  CopyTraced(Loaded(i)) /\ WrittenBy(Loaded(i), Build[i])
<1>1. CASE mem[i] # None
  BY <1>1, LoadedIsCache DEF CopiesTraced
<1>2. CASE mem[i] = None /\ file = None
  BY <1>2, LoadedIsCache DEF CopyTraced, Traced, Past, WrittenBy
<1>3. CASE mem[i] = None /\ file # None
  <2>1. CopyTraced(file)
    BY <1>3 DEF CopiesTraced
  <2>2. \A k \in DOMAIN Loaded(i) :
           k \in DOMAIN file /\ file[k].writer = Build[i] /\ Loaded(i)[k] = file[k]
    BY <1>3, LoadedIsCache
  <2> DEFINE copy == Loaded(i)
  <2> HIDE DEF copy
  <2>3. CopyTraced(copy) /\ WrittenBy(copy, Build[i])
    BY <2>1, <2>2 DEF CopyTraced, Traced, Past, WrittenBy, copy
  <2> QED
    BY <2>3 DEF copy
<1> QED
  BY <1>1, <1>2, <1>3

\* A cache whose entries are those of a traced one, or from an answer, is traced.
LEMMA AddedTraced ==
    ASSUME TypeInv, AnswersRecent, NEW t \in Tasks, Answered(t),
           NEW cache, IsCache(cache), NEW copy, CopyTraced(copy),
           WrittenBy(copy, Build[InstanceOf[t]]),
           \A k \in DOMAIN cache :
              \/ k \in DOMAIN copy /\ cache[k] = copy[k]
              \/ /\ cache[k].writer = Build[InstanceOf[t]]
                 /\ cache[k].cachedAt <= now
                 /\ k[2] # All =>
                       /\ k[1] = ScopeOf[InstanceOf[t]]
                       /\ cache[k].value = <<StoreFor(t), task[t].got[k[2]]>>
    PROVE  CopyTraced(cache) /\ WrittenBy(cache, Build[InstanceOf[t]])
<1>1. Past(cache, now) /\ WrittenBy(cache, Build[InstanceOf[t]])
  BY DEF CopyTraced, Past, WrittenBy
<1>2. ASSUME NEW c \in Scopes, NEW n \in Names, <<c, n>> \in DOMAIN cache
      PROVE  /\ cache[<<c, n>>].value[1] = deployed.storeOf[c]
             /\ StoodAt(history, deployed.storeOf[c], n, cache[<<c, n>>].value[2],
                        cache[<<c, n>>].cachedAt - Latency)
  <2> DEFINE k == <<c, n>>
  <2>1. CASE k \in DOMAIN copy /\ cache[k] = copy[k]
    BY <2>1 DEF CopyTraced, Traced
  <2>2. CASE /\ cache[k].cachedAt <= now
             /\ c = ScopeOf[InstanceOf[t]]
             /\ cache[k].value = <<StoreFor(t), task[t].got[n]>>
    <3>1. cache[k].cachedAt \in Int
      BY <1>2, EntryTypes
    <3>2. task[t].startedAt \in Int /\ now \in Int /\ Latency \in Nat
          /\ now <= task[t].startedAt + Latency
      <4>1. task[t].startedAt \in Int
        BY AnsweredIs
      <4>2. now \in Int /\ Latency \in Nat
        BY CacheAssumption DEF CacheAssumption, TypeInv, HistoryTyped
      <4>3. now <= task[t].startedAt + Latency
        BY DEF AnswersRecent, AnswerRecent, Answered
      <4> QED
        BY <4>1, <4>2, <4>3
    <3> DEFINE at == cache[k].cachedAt
    <3>3. at \in Int /\ at <= task[t].startedAt + Latency
      BY <2>2, <3>1, <3>2
    <3> HIDE DEF at
    <3>4. StoodAt(history, StoreFor(t), n, task[t].got[n], at - Latency)
      BY <3>3, AnswerTraced
    <3> QED
      BY <2>2, <3>4 DEF at, StoreFor, StoreOf
  <2>3. n # All
    BY CacheAssumption DEF CacheAssumption
  <2> QED
    BY <1>2, <2>1, <2>2, <2>3
<1> QED
  BY <1>1, <1>2 DEF CopyTraced, Traced

\* Copies that are traced before a step are so after it.
LEMMA CopiesStay ==
    ASSUME TypeInv, TypeInv', [Next]_vars,
           \A i \in Instances : mem'[i] # None =>
              IsCache(mem'[i]) /\ CopyTraced(mem'[i]) /\ WrittenBy(mem'[i], Build[i]),
           file' # None => IsCache(file') /\ Traced(file', history, deployed) /\ Past(file', now)
    PROVE  CopiesTraced'
<1>1. ASSUME NEW i \in Instances, mem'[i] # None
      PROVE  CopyTraced(mem[i])' /\ WrittenBy(mem'[i], Build'[i])
  <2> DEFINE cache == mem'[i]
  <2>1. /\ IsCache(cache) /\ Traced(cache, history, deployed) /\ Past(cache, now)
        /\ WrittenBy(cache, Build[i])
    BY <1>1 DEF CopyTraced
  <2> HIDE DEF cache
  <2>2. Traced(cache, history', deployed') /\ Past(cache, now')
    BY <2>1, TracedStays
  <2> QED
    BY <2>1, <2>2, HistoryExtends DEF CopyTraced, Build, cache
<1>2. ASSUME file' # None PROVE CopyTraced(file)'
  <2> DEFINE cache == file'
  <2>1. IsCache(cache) /\ Traced(cache, history, deployed) /\ Past(cache, now)
    BY <1>2
  <2> HIDE DEF cache
  <2>2. Traced(cache, history', deployed') /\ Past(cache, now')
    BY <2>1, TracedStays
  <2> QED
    BY <2>2 DEF CopyTraced, cache
<1> QED
  BY <1>1, <1>2 DEF CopiesTraced

LEMMA CopiesNext ==
    ASSUME TypeInv, TypeInv', [Next]_vars, AnswersRecent, CopiesTraced
    PROVE  CopiesTraced'
<1>1. /\ \A i \in Instances : mem[i] # None =>
            IsCache(mem[i]) /\ CopyTraced(mem[i]) /\ WrittenBy(mem[i], Build[i])
      /\ file # None => IsCache(file) /\ CopyTraced(file)
  BY DEF TypeInv, CopiesTyped, CopiesTraced
<1>2. ASSUME \A i \in Instances : mem'[i] # None => mem'[i] = mem[i],
             file' # None => file' = file
      PROVE  CopiesTraced'
  BY <1>1, <1>2, CopiesStay DEF CopyTraced
<1>3. ASSUME NEW i \in Instances, mem' = [mem EXCEPT ![i] = Loaded(i)], UNCHANGED file
      PROVE  CopiesTraced'
  <2>1. mem'[i] = Loaded(i) /\ \A j \in Instances : j # i => mem'[j] = mem[j]
    BY <1>3, LoadTyped
  <2>2. IsCache(Loaded(i)) /\ CopyTraced(Loaded(i)) /\ WrittenBy(Loaded(i), Build[i])
    BY LoadedIsCache, LoadedTraced
  <2>3. \A j \in Instances : mem'[j] # None =>
           IsCache(mem'[j]) /\ CopyTraced(mem'[j]) /\ WrittenBy(mem'[j], Build[j])
    BY <1>1, <2>1, <2>2
  <2> QED
    BY <1>1, <1>3, <2>3, CopiesStay DEF CopyTraced
<1>4. ASSUME NEW i \in Instances, NEW cache, IsCache(cache), cache # None,
             CopyTraced(cache), WrittenBy(cache, Build[i]), Save(i, cache)
      PROVE  CopiesTraced'
  <2>1. /\ mem'[i] = cache
        /\ \A j \in Instances : j # i => mem'[j] = mem[j]
        /\ file' = cache \/ file' = file
    BY <1>4, SaveTyped
  <2>2. \A j \in Instances : mem'[j] # None =>
           IsCache(mem'[j]) /\ CopyTraced(mem'[j]) /\ WrittenBy(mem'[j], Build[j])
    BY <1>1, <1>4, <2>1
  <2>3. file' # None => IsCache(file') /\ CopyTraced(file')
    BY <1>1, <1>4, <2>1
  <2> QED
    BY <2>2, <2>3, CopiesStay DEF CopyTraced
<1>5. ASSUME NEW t \in Tasks, NEW n \in Names, StartExact(t, n) PROVE CopiesTraced'
  BY <1>3, <1>5, Places DEF StartExact
<1>6. ASSUME NEW t \in Tasks, StartPrefix(t) PROVE CopiesTraced'
  BY <1>3, <1>6, Places DEF StartPrefix
<1>7. ASSUME NEW i \in Instances, ReadHit(i) PROVE CopiesTraced'
  BY <1>3, <1>7 DEF ReadHit
<1>8. ASSUME NEW t \in Tasks, FinishExact(t) PROVE CopiesTraced'
  <2> DEFINE i == InstanceOf[t]
             n == task[t].name
             cache == ExactCache(t)
             copy == mem[i]
  <2>1. CASE Save(i, cache)
    <3>1. /\ i \in Instances /\ Answered(t)
          /\ task[t].startedAt <= now
      BY <1>8, Places, AnsweredIs DEF FinishExact, IsCall
    <3>2. /\ n \in Names /\ copy # None
          /\ IsCache(cache) /\ cache # None
          /\ DOMAIN cache = {<<ScopeOf[i], n>>} \union DOMAIN copy
          /\ cache[<<ScopeOf[i], n>>] = ReadEntry(t, n)
          /\ \A k \in DOMAIN copy : k # <<ScopeOf[i], n>> => cache[k] = copy[k]
      BY <1>8, ExactCacheIs
    <3>3. CopyTraced(copy) /\ WrittenBy(copy, Build[i])
      BY <1>1, <3>1, <3>2
    <3>4. /\ ReadEntry(t, n).value = <<StoreFor(t), task[t].got[n]>>
          /\ ReadEntry(t, n).cachedAt = task[t].startedAt
          /\ ReadEntry(t, n).writer = Build[i]
      BY <3>1, <3>2, ReadEntryIs
    <3>5. \A k \in DOMAIN cache :
             \/ k \in DOMAIN copy /\ cache[k] = copy[k]
             \/ /\ cache[k].writer = Build[i]
                /\ cache[k].cachedAt <= now
                /\ k[2] # All =>
                      k[1] = ScopeOf[i] /\ cache[k].value = <<StoreFor(t), task[t].got[k[2]]>>
      BY <3>1, <3>2, <3>4
    <3> HIDE DEF cache, copy
    <3>6. CopyTraced(cache) /\ WrittenBy(cache, Build[i])
      BY <3>1, <3>2, <3>3, <3>5, AddedTraced
    <3> QED
      BY <1>4, <2>1, <3>1, <3>2, <3>6
  <2>2. CASE UNCHANGED <<mem, file>>
    BY <1>2, <2>2
  <2> QED
    BY <1>8, <2>1, <2>2, ExactCacheIs
<1>9. ASSUME NEW t \in Tasks, FinishPrefix(t) PROVE CopiesTraced'
  <2> DEFINE i == InstanceOf[t]
             c == ScopeOf[i]
             new == {<<c, n>> : n \in Found(t) \union {All}}
             cache == PrefixCache(t)
             copy == mem[i]
  <2>1. /\ copy # None /\ Answered(t)
        /\ IsCache(cache) /\ cache # None
        /\ DOMAIN cache = new \union DOMAIN copy
        /\ \A n \in Found(t) : cache[<<c, n>>] = ReadEntry(t, n)
        /\ cache[<<c, All>>].cachedAt = task[t].startedAt
        /\ cache[<<c, All>>].writer = Build[i]
        /\ \A k \in DOMAIN copy \ new : cache[k] = copy[k]
        /\ Save(i, cache)
    BY <1>9, PrefixCacheIs
  <2>2. i \in Instances /\ task[t].startedAt <= now
    BY <2>1, Places, AnsweredIs DEF IsCall
  <2>3. CopyTraced(copy) /\ WrittenBy(copy, Build[i])
    BY <1>1, <2>1, <2>2
  <2>4. \A n \in Found(t) :
           /\ cache[<<c, n>>].value = <<StoreFor(t), task[t].got[n]>>
           /\ cache[<<c, n>>].cachedAt = task[t].startedAt
           /\ cache[<<c, n>>].writer = Build[i]
    BY <2>1, FoundAreNames, ReadEntryIs
  <2>5. ASSUME NEW k \in new
        PROVE  /\ cache[k].writer = Build[i]
               /\ cache[k].cachedAt <= now
               /\ k[2] # All =>
                     k[1] = c /\ cache[k].value = <<StoreFor(t), task[t].got[k[2]]>>
    <3>1. PICK n \in Found(t) \union {All} : k = <<c, n>>
      OBVIOUS
    <3>2. k[1] = c /\ k[2] = n
      BY <3>1
    <3> HIDE DEF c, cache, i
    <3> QED
      BY <2>1, <2>2, <2>4, <3>1, <3>2
  <2>6. \A k \in DOMAIN cache :
           \/ k \in DOMAIN copy /\ cache[k] = copy[k]
           \/ /\ cache[k].writer = Build[i]
              /\ cache[k].cachedAt <= now
              /\ k[2] # All =>
                    k[1] = c /\ cache[k].value = <<StoreFor(t), task[t].got[k[2]]>>
    BY <2>1, <2>5
  <2> HIDE DEF cache, copy, new
  <2>7. CopyTraced(cache) /\ WrittenBy(cache, Build[i])
    BY <2>1, <2>3, <2>6, AddedTraced
  <2> QED
    BY <1>4, <2>1, <2>2, <2>7
<1>10. ASSUME NEW t \in Tasks, FinishWrite(t) PROVE CopiesTraced'
  <2> DEFINE i == InstanceOf[t]
             n == task[t].name
             key == <<ScopeOf[i], n>>
             kept == DOMAIN Loaded(i) \ (Scopes \X {n, All})
             cache == Written(t)
             copy == Loaded(i)
  <2>1. /\ n \in Names /\ Answered(t)
        /\ IsCache(cache) /\ cache # None
        /\ DOMAIN cache \in {kept, kept \union {key}}
        /\ key \in DOMAIN cache =>
              /\ cache[key].value = <<StoreFor(t), task[t].got[n]>>
              /\ cache[key].cachedAt = now
              /\ cache[key].writer = Build[i]
        /\ \A k \in DOMAIN cache : k # key => cache[k] = copy[k]
        /\ Save(i, cache)
    BY <1>10, WrittenIs
  <2>2. i \in Instances /\ now <= now /\ key[1] = ScopeOf[i] /\ key[2] = n
    BY Places, CacheAssumption DEF CacheAssumption, TypeInv, HistoryTyped
  <2>3. CopyTraced(copy) /\ WrittenBy(copy, Build[i])
    BY <2>2, LoadedTraced
  <2> HIDE DEF cache, copy, key
  <2>4. \A k \in DOMAIN cache :
           \/ k \in DOMAIN copy /\ cache[k] = copy[k]
           \/ /\ cache[k].writer = Build[i]
              /\ cache[k].cachedAt <= now
              /\ k[2] # All =>
                    k[1] = ScopeOf[i] /\ cache[k].value = <<StoreFor(t), task[t].got[k[2]]>>
    BY <2>1, <2>2 DEF copy
  <2>5. CopyTraced(cache) /\ WrittenBy(cache, Build[i])
    BY <2>1, <2>3, <2>4, AddedTraced
  <2> QED
    BY <1>4, <2>1, <2>2, <2>5
<1>11. CASE ClearFile
  BY <1>2, <1>11 DEF ClearFile
<1>12. ASSUME NEW i \in Instances, Restart(i) PROVE CopiesTraced'
  BY <1>2, <1>12 DEF Restart, TypeInv, CopiesTyped
<1>13. CASE UNCHANGED <<mem, file>>
  BY <1>2, <1>13
<1> QED
  BY <1>5, <1>6, <1>7, <1>8, <1>9, <1>10, <1>11, <1>12, <1>13
     DEF Next, vars, WriteElsewhere, BackendReads, BackendFails, StartWrite, Tick

Inv == TypeInv /\ AnswersRecent /\ CopiesTraced

LEMMA InvInit == Init => Inv
  BY TypeInit
     DEF Init, Inv, AnswersRecent, AnswerRecent, CopiesTraced

LEMMA InvNext == Inv /\ [Next]_vars => Inv'
  BY TypeNext, AnswersNext, CopiesNext DEF Inv

(***************************************************************************)
(* What is served from the cache for a name is what its own store held     *)
(* within ttlMs and the time of a backend call (resolve and getFresh of    *)
(* cache.ts), whatever the calls, processes and writers do in between.     *)
(***************************************************************************)
THEOREM StaleIsBounded == Spec => []StaleBounded
<1>1. Inv => StaleBounded
  <2> SUFFICES ASSUME Inv, NEW i \in Instances, NEW n \in Names, ExactHit(i, n)
               PROVE  LET value == Loaded(i)[EntryKey(ScopeOf[i], n)].value
                          s == StoreOf[ScopeOf[i]]
                      IN  /\ value[1] = s
                          /\ CurrentWithin(s, n, value[2], Ttl + Latency)
    BY DEF StaleBounded
  <2> DEFINE c == ScopeOf[i]
             e == Loaded(i)[<<c, n>>]
             s == StoreOf[c]
             v == e.value[2]
  <2>1. <<c, n>> \in DOMAIN Loaded(i) /\ now - e.cachedAt < Ttl
    BY DEF ExactHit, FreshNames, EntryKey, Fresh
  <2>2. c \in Scopes /\ s \in Stores
    BY Places DEF Inv
  <2>3. e.value[1] = s /\ StoodAt(history, s, n, v, e.cachedAt - Latency)
    BY <2>1, <2>2, LoadedTraced DEF Inv, CopyTraced, Traced, StoreOf
  <2>4. e.cachedAt \in Int
    BY <2>1, LoadedIsCache, EntryTypes DEF Inv
  <2>5. now \in Int /\ Ttl \in Int /\ Latency \in Int /\ Len(history[s][n]) \in Int
    BY <2>2, CacheAssumption DEF CacheAssumption, Inv, TypeInv, HistoryTyped, Versions
  <2> HIDE DEF e, s
  <2>6. ASSUME v # Current(s, n) PROVE history[s][n][v + 1].at + (Ttl + Latency) > now
    <3>1. v \in 1..Len(history[s][n]) /\ v < Len(history[s][n])
      BY <2>3, <2>5, <2>6 DEF StoodAt, Current
    <3>2. history[s][n][v + 1].at >= e.cachedAt - Latency
      BY <2>3, <3>1 DEF StoodAt
    <3>3. history[s][n][v + 1].at \in Int
      <4>1. history[s][n] \in Seq([present : BOOLEAN, at : 0..MaxTime])
        BY <2>2 DEF Inv, TypeInv, HistoryTyped
      <4>2. v + 1 \in 1..Len(history[s][n])
        BY <2>5, <3>1
      <4>3. history[s][n][v + 1] \in [present : BOOLEAN, at : 0..MaxTime]
        BY <4>1, <4>2, ElementOfSeq
      <4> QED
        BY <4>3
    <3> QED
      BY <2>1, <2>4, <2>5, <3>2, <3>3
  <2>7. CurrentWithin(s, n, v, Ttl + Latency)
    BY <2>6 DEF CurrentWithin
  <2> QED
    BY <2>3, <2>7 DEF e, s, EntryKey
<1> QED
  BY <1>1, InvInit, InvNext, PTL DEF Spec

(***************************************************************************)
(* What an object works on was written by its own build: loadCache of      *)
(* cache.ts drops every other entry of the file.                           *)
(***************************************************************************)
THEOREM BuildIsSame == Spec => []SameBuild
<1>1. Inv => SameBuild
  BY LoadedTraced DEF Inv, SameBuild, WrittenBy
<1> QED
  BY <1>1, InvInit, InvNext, PTL DEF Spec

(***************************************************************************)
(* After a store or a delete that could save the cache, its own process    *)
(* and those that load the file serve no older value of the name and no    *)
(* prefix, through any scope of the store (forget and putEntry, cache.ts). *)
(***************************************************************************)
THEOREM WritesReachFile == Spec => WriteReachesFile
<1> DEFINE A == \A t \in Tasks, n \in Names, v \in Versions :
                  /\ FinishWrite(t) /\ task[t].name = n /\ task[t].got[n] = v
                  /\ file' = mem'[InstanceOf[t]]
                  => \A i \in Instances :
                        /\ mem'[i] = None \/ i = InstanceOf[t]
                        /\ StoreOf[ScopeOf[i]] = StoreOf[ScopeOf[InstanceOf[t]]]
                        => ServesFrom(i, n, v)' /\ ~PrefixHit(i)'
<1>1. Inv /\ [Next]_vars => [A]_vars
  <2> SUFFICES ASSUME Inv, NEW t \in Tasks, NEW n \in Names, NEW v \in Versions,
                      FinishWrite(t), task[t].name = n, task[t].got[n] = v,
                      file' = mem'[InstanceOf[t]],
                      NEW i \in Instances, mem'[i] = None \/ i = InstanceOf[t]
               PROVE  ServesFrom(i, n, v)' /\ ~PrefixHit(i)'
    OBVIOUS
  <2> DEFINE key == <<ScopeOf[InstanceOf[t]], n>>
             cache == Written(t)
  <2>1. /\ cache # None
        /\ \A k \in DOMAIN cache : k # key => k \notin Scopes \X {n, All}
        /\ key \in DOMAIN cache => cache[key].value[2] = v
        /\ IsCache(cache) /\ Save(InstanceOf[t], cache)
    <3>1. /\ IsCache(cache) /\ cache # None
          /\ DOMAIN cache \in {DOMAIN Loaded(InstanceOf[t]) \ (Scopes \X {n, All}),
                               (DOMAIN Loaded(InstanceOf[t]) \ (Scopes \X {n, All}))
                                  \union {key}}
          /\ key \in DOMAIN cache => cache[key].value = <<StoreFor(t), task[t].got[n]>>
          /\ Save(InstanceOf[t], cache)
      BY WrittenIs DEF Inv
    <3> HIDE DEF cache
    <3>2. \A k \in DOMAIN cache : k # key => k \notin Scopes \X {n, All}
      BY <3>1
    <3> QED
      BY <3>1, <3>2
  <2>2. InstanceOf[t] \in Instances /\ ScopeOf[i] \in Scopes /\ n # All
    BY Places, CacheAssumption DEF CacheAssumption, Inv
  <2> HIDE DEF cache
  <2>3. mem'[InstanceOf[t]] = cache
    BY <2>1, <2>2, SaveTyped DEF Inv
  <2>4. \A k \in DOMAIN Loaded(i)' : k \in DOMAIN cache /\ Loaded(i)'[k] = cache[k]
    <3>1. CASE mem'[i] = None
      <4>1. \A k \in DOMAIN Loaded(i)' : k \in DOMAIN file' /\ Loaded(i)'[k] = file'[k]
        BY <2>1, <2>3, <3>1 DEF Loaded
      <4> QED
        BY <2>3, <4>1
    <3>2. CASE mem'[i] # None
      BY <2>3, <3>2 DEF Loaded
    <3> QED
      BY <3>1, <3>2
  <2>5. ScopeOf' = ScopeOf
    BY DEF FinishWrite, ScopeOf
  <2>6. ServesFrom(i, n, v)'
    <3> SUFFICES ASSUME ExactHit(i, n)' PROVE Loaded(i)'[<<ScopeOf[i], n>>].value[2] >= v
      BY <2>5 DEF ServesFrom, EntryKey
    <3>1. <<ScopeOf[i], n>> \in DOMAIN Loaded(i)'
      BY <2>5 DEF ExactHit, FreshNames, EntryKey
    <3>2. <<ScopeOf[i], n>> = key
      BY <2>1, <2>2, <2>4, <3>1
    <3>3. Loaded(i)'[<<ScopeOf[i], n>>].value[2] = v
      BY <2>1, <2>4, <3>1, <3>2
    <3>4. v \in Int
      BY CacheAssumption DEF CacheAssumption, Versions
    <3> QED
      BY <3>3, <3>4
  <2>7. ~PrefixHit(i)'
    <3> SUFFICES ASSUME <<ScopeOf[i], All>> \in DOMAIN Loaded(i)' PROVE FALSE
      BY <2>5 DEF PrefixHit, EntryKey
    <3>1. <<ScopeOf[i], All>> \in DOMAIN cache /\ <<ScopeOf[i], All>> # key
      BY <2>2, <2>4
    <3> QED
      BY <2>1, <2>2, <3>1
  <2> QED
    BY <2>6, <2>7
<1>2. Spec => [][A]_vars
  BY <1>1, InvInit, InvNext, PTL DEF Spec
<1> QED
  BY <1>2 DEF WriteReachesFile

-----------------------------------------------------------------------------
(* What a marker stands for.                                               *)

\* What was counted stays so.
LEMMA CountedStays ==
    ASSUME TypeInv, TypeInv', [Next]_vars, NEW cache, IsCache(cache),
           Counted(cache, history, deployed), Past(cache, now)
    PROVE  Counted(cache, history', deployed')
<1> SUFFICES ASSUME NEW c \in Scopes, <<c, All>> \in DOMAIN cache
             PROVE  \E F \in SUBSET Names : CountedBy(cache, history', deployed', c, F)
  BY DEF Counted
<1>1. PICK F \in SUBSET Names : CountedBy(cache, history, deployed, c, F)
  BY DEF Counted
<1>2. deployed' = deployed /\ deployed.storeOf[c] \in Stores
  BY HistoryExtends, Places DEF StoreOf
<1> DEFINE at == cache[<<c, All>>].cachedAt
           s == deployed.storeOf[c]
<1>3. at \in Int /\ at <= now
  BY EntryTypes DEF Past
<1>4. ASSUME NEW n \in Names \ F
      PROVE  \E v \in Versions : StoodAt(history', s, n, v, at) /\ ~history'[s][n][v].present
  <2>1. PICK v \in Versions : StoodAt(history, s, n, v, at) /\ ~history[s][n][v].present
    BY <1>1 DEF CountedBy
  <2>2. s \in Stores
    BY <1>2
  <2> HIDE DEF at, s
  <2>3. StoodAt(history', s, n, v, at) /\ history'[s][n][v] = history[s][n][v]
    BY <1>3, <2>1, <2>2, StoodStays
  <2> QED
    BY <2>1, <2>3
<1> QED
  BY <1>1, <1>2, <1>4 DEF CountedBy

\* The markers an object has loaded count what they should.
LEMMA LoadedCounted ==
    ASSUME TypeInv, CopiesTraced, CopiesCounted, NEW i \in Instances
    PROVE  CopyCounted(Loaded(i))
<1>1. CASE mem[i] # None
  BY <1>1, LoadedIsCache DEF CopiesCounted
<1>2. CASE mem[i] = None /\ file = None
  BY <1>2, LoadedIsCache DEF CopyCounted, Counted
<1>3. CASE mem[i] = None /\ file # None
  <2> DEFINE copy == Loaded(i)
  <2>1. /\ DOMAIN copy = {k \in DOMAIN file : Fresh(file[k]) /\ file[k].writer = Build[i]}
        /\ \A k \in DOMAIN copy : copy[k] = file[k]
    BY <1>3, LoadedIsCache
  <2> HIDE DEF copy
  <2>2. IsCache(file)
    BY <1>3 DEF TypeInv, CopiesTyped
  <2> SUFFICES ASSUME NEW c \in Scopes, <<c, All>> \in DOMAIN copy
               PROVE  \E F \in SUBSET Names : CountedBy(copy, history, deployed, c, F)
    BY DEF CopyCounted, Counted, copy
  <2> DEFINE marker == file[<<c, All>>]
  <2>3. /\ <<c, All>> \in DOMAIN file /\ copy[<<c, All>>] = marker
        /\ marker.writer = Build[i] /\ now - marker.cachedAt < Ttl
    BY <2>1 DEF Fresh
  <2>4. PICK F \in SUBSET Names : CountedBy(file, history, deployed, c, F)
    BY <1>3, <2>3 DEF CopiesCounted, CopyCounted, Counted
  <2>5. ASSUME NEW n \in F
        PROVE  /\ <<c, n>> \in DOMAIN copy
               /\ copy[<<c, n>>].cachedAt >= marker.cachedAt
               /\ copy[<<c, n>>].writer = marker.writer
    <3>1. /\ <<c, n>> \in DOMAIN file
          /\ file[<<c, n>>].cachedAt >= marker.cachedAt
          /\ file[<<c, n>>].writer = marker.writer
      BY <2>4 DEF CountedBy
    <3>2. /\ file[<<c, n>>].cachedAt \in Int /\ marker.cachedAt \in Int
          /\ now \in Int /\ Ttl \in Int
      BY <2>2, <2>3, <3>1, EntryTypes, CacheAssumption
         DEF CacheAssumption, TypeInv, HistoryTyped
    <3>3. Fresh(file[<<c, n>>])
      BY <2>3, <3>1, <3>2 DEF Fresh
    <3> QED
      BY <2>1, <2>3, <3>1, <3>3
  <2>6. CountedBy(copy, history, deployed, c, F)
    BY <2>3, <2>4, <2>5 DEF CountedBy
  <2> QED
    BY <2>6
<1> QED
  BY <1>1, <1>2, <1>3

\* What is counted before a step in all the copies is so after it.
LEMMA CountsStay ==
    ASSUME TypeInv, TypeInv', [Next]_vars,
           \A i \in Instances : mem'[i] # None =>
              IsCache(mem'[i]) /\ CopyCounted(mem'[i]) /\ Past(mem'[i], now),
           file' # None => IsCache(file') /\ CopyCounted(file') /\ Past(file', now)
    PROVE  CopiesCounted'
<1>1. ASSUME NEW cache, IsCache(cache), CopyCounted(cache), Past(cache, now)
      PROVE  Counted(cache, history', deployed')
  BY <1>1, CountedStays DEF CopyCounted
<1>2. ASSUME NEW i \in Instances, mem'[i] # None PROVE CopyCounted(mem[i])'
  BY <1>1, <1>2 DEF CopyCounted
<1>3. ASSUME file' # None PROVE CopyCounted(file)'
  BY <1>1, <1>3 DEF CopyCounted
<1> QED
  BY <1>2, <1>3 DEF CopiesCounted

\* An exact read that is not older than its copy leaves the markers counted.
LEMMA ExactCounted ==
    ASSUME TypeInv, CopiesTraced, CopiesCounted, ReadsAreNewest,
           NEW t \in Tasks, FinishExact(t)
    PROVE  CopyCounted(ExactCache(t))
<1> DEFINE i == InstanceOf[t]
           m == task[t].name
           key == <<ScopeOf[i], m>>
           cache == ExactCache(t)
           copy == mem[i]
<1>1. /\ m \in Names /\ copy # None /\ Reads(t)
      /\ DOMAIN cache = {key} \union DOMAIN copy
      /\ cache[key] = ReadEntry(t, m)
      /\ \A k \in DOMAIN copy : k # key => cache[k] = copy[k]
  BY ExactCacheIs
<1>2. i \in Instances /\ Answered(t)
  BY Places DEF FinishExact
<1>3. /\ cache[key].cachedAt = task[t].startedAt
      /\ cache[key].writer = Build[i]
  BY <1>1, <1>2, ReadEntryIs
<1>4. /\ CopyCounted(copy) /\ WrittenBy(copy, Build[i])
      /\ Past(copy, task[t].startedAt)
  BY <1>1, <1>2 DEF CopiesCounted, CopiesTraced, ReadsAreNewest
<1>5. m # All
  BY <1>1, CacheAssumption DEF CacheAssumption
<1> HIDE DEF cache, copy, i, m
<1> SUFFICES ASSUME NEW c \in Scopes, <<c, All>> \in DOMAIN cache
             PROVE  \E F \in SUBSET Names : CountedBy(cache, history, deployed, c, F)
  BY DEF CopyCounted, Counted, cache
<1>6. <<c, All>> \in DOMAIN copy /\ cache[<<c, All>>] = copy[<<c, All>>]
  BY <1>1, <1>5
<1>7. PICK F \in SUBSET Names : CountedBy(copy, history, deployed, c, F)
  BY <1>4, <1>6 DEF CopyCounted, Counted
<1>8. ASSUME NEW n \in F
      PROVE  /\ <<c, n>> \in DOMAIN cache
             /\ cache[<<c, n>>].cachedAt >= copy[<<c, All>>].cachedAt
             /\ cache[<<c, n>>].writer = copy[<<c, All>>].writer
  <2>1. /\ <<c, n>> \in DOMAIN copy
        /\ copy[<<c, n>>].cachedAt >= copy[<<c, All>>].cachedAt
        /\ copy[<<c, n>>].writer = copy[<<c, All>>].writer
    BY <1>7 DEF CountedBy
  <2>2. CASE <<c, n>> # key
    BY <1>1, <2>1, <2>2
  <2>3. CASE <<c, n>> = key
    <3>1. copy[<<c, All>>].cachedAt <= task[t].startedAt /\ copy[<<c, All>>].writer = Build[i]
      BY <1>4, <1>6 DEF Past, WrittenBy
    <3>2. cache[<<c, n>>].cachedAt >= copy[<<c, All>>].cachedAt
      BY <1>3, <2>3, <3>1
    <3> QED
      BY <1>1, <1>3, <2>3, <3>1, <3>2
  <2> QED
    BY <2>2, <2>3
<1>9. CountedBy(cache, history, deployed, c, F)
  BY <1>6, <1>7, <1>8 DEF CountedBy
<1> QED
  BY <1>9

\* A prefix read leaves a marker that counts its entries, and the other markers as they were.
LEMMA PrefixCounted ==
    ASSUME TypeInv, AnswersRecent, CopiesCounted, NEW t \in Tasks, FinishPrefix(t)
    PROVE  CopyCounted(PrefixCache(t))
<1> DEFINE i == InstanceOf[t]
           c == ScopeOf[i]
           new == {<<c, n>> : n \in Found(t) \union {All}}
           cache == PrefixCache(t)
           copy == mem[i]
<1>1. /\ copy # None /\ Answered(t)
      /\ DOMAIN cache = new \union DOMAIN copy
      /\ \A n \in Found(t) : cache[<<c, n>>] = ReadEntry(t, n)
      /\ cache[<<c, All>>].count = Cardinality(Found(t))
      /\ cache[<<c, All>>].cachedAt = task[t].startedAt
      /\ cache[<<c, All>>].writer = Build[i]
      /\ \A k \in DOMAIN copy \ new : cache[k] = copy[k]
  BY PrefixCacheIs
<1>2. i \in Instances /\ c \in Scopes /\ CopyCounted(copy)
  BY <1>1, Places DEF CopiesCounted
<1>3. /\ Found(t) \in SUBSET Names
      /\ \A n \in Names \ Found(t) : ~history[StoreFor(t)][n][task[t].got[n]].present
  BY FoundAreNames
<1>4. \A n \in Found(t) :
         /\ cache[<<c, n>>].cachedAt = task[t].startedAt
         /\ cache[<<c, n>>].writer = Build[i]
  BY <1>1, <1>3, ReadEntryIs
<1>5. task[t].got \in [Names -> Versions] /\ task[t].startedAt \in Int
  BY <1>1, AnsweredIs
<1>6. \A n \in Names :
         StoodAt(history, StoreFor(t), n, task[t].got[n], task[t].startedAt)
  BY <1>1 DEF AnswersRecent, AnswerRecent, Answered
<1>7. CountedBy(cache, history, deployed, c, Found(t))
  <2>1. deployed.storeOf[c] = StoreFor(t)
    BY DEF StoreFor, StoreOf
  <2>2. \A n \in Found(t) : <<c, n>> \in DOMAIN cache
    BY <1>1
  <2>3. \A n \in Found(t) : /\ cache[<<c, n>>].cachedAt >= cache[<<c, All>>].cachedAt
                            /\ cache[<<c, n>>].writer = cache[<<c, All>>].writer
    <3> HIDE DEF cache, c, i
    <3> QED
      BY <1>1, <1>4, <1>5
  <2>4. ASSUME NEW n \in Names \ Found(t)
        PROVE  \E v \in Versions :
                  /\ StoodAt(history, deployed.storeOf[c], n, v, cache[<<c, All>>].cachedAt)
                  /\ ~history[deployed.storeOf[c]][n][v].present
    <3>1. task[t].got[n] \in Versions
      BY <1>5
    <3> HIDE DEF cache, c, i
    <3> QED
      BY <1>1, <1>3, <1>6, <2>1, <3>1
  <2> HIDE DEF cache, c, i
  <2> QED
    BY <1>1, <2>2, <2>3, <2>4 DEF CountedBy
<1>8. ASSUME NEW d \in Scopes, d # c, <<d, All>> \in DOMAIN cache
      PROVE  \E F \in SUBSET Names : CountedBy(cache, history, deployed, d, F)
  <2>1. \A n : <<d, n>> \notin new
    BY <1>8
  <2> HIDE DEF cache, copy, new
  <2>2. <<d, All>> \in DOMAIN copy
    BY <1>1, <1>8, <2>1
  <2>3. PICK F \in SUBSET Names : CountedBy(copy, history, deployed, d, F)
    BY <1>2, <2>2 DEF CopyCounted, Counted
  <2>4. /\ cache[<<d, All>>] = copy[<<d, All>>]
        /\ \A n \in F : <<d, n>> \in DOMAIN cache /\ cache[<<d, n>>] = copy[<<d, n>>]
    BY <1>1, <2>1, <2>2, <2>3 DEF CountedBy
  <2>5. CountedBy(cache, history, deployed, d, F)
    BY <2>3, <2>4 DEF CountedBy
  <2> QED
    BY <2>5
<1> HIDE DEF cache, c
<1> QED
  BY <1>3, <1>7, <1>8 DEF CopyCounted, Counted, cache

\* A write leaves no marker.
LEMMA WrittenCounted ==
    ASSUME TypeInv, NEW t \in Tasks, FinishWrite(t)
    PROVE  CopyCounted(Written(t))
<1> DEFINE n == task[t].name
           key == <<ScopeOf[InstanceOf[t]], n>>
           kept == DOMAIN Loaded(InstanceOf[t]) \ (Scopes \X {n, All})
<1>1. n \in Names /\ DOMAIN Written(t) \in {kept, kept \union {key}}
  BY WrittenIs
<1>2. n # All
  BY <1>1, CacheAssumption DEF CacheAssumption
<1>3. \A c \in Scopes : <<c, All>> \notin DOMAIN Written(t)
  BY <1>1, <1>2
<1> QED
  BY <1>3 DEF CopyCounted, Counted

LEMMA CountedNext ==
    ASSUME TypeInv, TypeInv', [Next]_vars, AnswersRecent, CopiesTraced,
           CopiesCounted, ReadsAreNewest
    PROVE  CopiesCounted'
<1>1. /\ \A i \in Instances : mem[i] # None =>
            IsCache(mem[i]) /\ CopyCounted(mem[i]) /\ Past(mem[i], now)
      /\ file # None => IsCache(file) /\ CopyCounted(file) /\ Past(file, now)
  BY DEF TypeInv, CopiesTyped, CopiesTraced, CopyTraced, CopiesCounted
<1>2. ASSUME \A i \in Instances : mem'[i] # None => mem'[i] = mem[i],
             file' # None => file' = file
      PROVE  CopiesCounted'
  BY <1>1, <1>2, CountsStay
<1>3. ASSUME NEW i \in Instances, mem' = [mem EXCEPT ![i] = Loaded(i)], UNCHANGED file
      PROVE  CopiesCounted'
  <2>1. mem'[i] = Loaded(i) /\ \A j \in Instances : j # i => mem'[j] = mem[j]
    BY <1>3, LoadTyped
  <2>2. IsCache(Loaded(i)) /\ CopyCounted(Loaded(i)) /\ Past(Loaded(i), now)
    BY LoadedIsCache, LoadedTraced, LoadedCounted DEF CopyTraced
  <2>3. \A j \in Instances : mem'[j] # None =>
           IsCache(mem'[j]) /\ CopyCounted(mem'[j]) /\ Past(mem'[j], now)
    BY <1>1, <2>1, <2>2
  <2> QED
    BY <1>1, <1>3, <2>3, CountsStay
<1>4. ASSUME NEW i \in Instances, NEW cache, IsCache(cache), cache # None,
             CopyCounted(cache), Save(i, cache), UNCHANGED now
      PROVE  CopiesCounted'
  <2>1. /\ mem'[i] = cache
        /\ \A j \in Instances : j # i => mem'[j] = mem[j]
        /\ file' = cache \/ file' = file
    BY <1>4, SaveTyped
  <2>2. Past(cache, now)
    <3>1. CopyTraced(mem[i])'
      BY <1>4, <2>1, CopiesNext DEF CopiesTraced
    <3> QED
      BY <1>4, <2>1, <3>1 DEF CopyTraced
  <2>3. \A j \in Instances : mem'[j] # None =>
           IsCache(mem'[j]) /\ CopyCounted(mem'[j]) /\ Past(mem'[j], now)
    BY <1>1, <1>4, <2>1, <2>2
  <2>4. file' # None => IsCache(file') /\ CopyCounted(file') /\ Past(file', now)
    BY <1>1, <1>4, <2>1, <2>2
  <2> QED
    BY <2>3, <2>4, CountsStay
<1>5. ASSUME NEW t \in Tasks, NEW n \in Names, StartExact(t, n) PROVE CopiesCounted'
  BY <1>3, <1>5, Places DEF StartExact
<1>6. ASSUME NEW t \in Tasks, StartPrefix(t) PROVE CopiesCounted'
  BY <1>3, <1>6, Places DEF StartPrefix
<1>7. ASSUME NEW i \in Instances, ReadHit(i) PROVE CopiesCounted'
  BY <1>3, <1>7 DEF ReadHit
<1>8. ASSUME NEW t \in Tasks, FinishExact(t) PROVE CopiesCounted'
  <2> DEFINE cache == ExactCache(t)
  <2>1. CASE Save(InstanceOf[t], cache)
    <3>1. /\ IsCache(cache) /\ cache # None /\ CopyCounted(cache)
          /\ InstanceOf[t] \in Instances /\ UNCHANGED now
      BY <1>8, ExactCacheIs, ExactCounted, Places DEF FinishExact
    <3> HIDE DEF cache
    <3> QED
      BY <1>4, <2>1, <3>1
  <2>2. CASE UNCHANGED <<mem, file>>
    BY <1>2, <2>2
  <2> QED
    BY <1>8, <2>1, <2>2, ExactCacheIs
<1>9. ASSUME NEW t \in Tasks, FinishPrefix(t) PROVE CopiesCounted'
  <2> DEFINE cache == PrefixCache(t)
  <2>1. /\ IsCache(cache) /\ cache # None /\ CopyCounted(cache) /\ Save(InstanceOf[t], cache)
        /\ InstanceOf[t] \in Instances /\ UNCHANGED now
    BY <1>9, PrefixCacheIs, PrefixCounted, Places DEF FinishPrefix
  <2> HIDE DEF cache
  <2> QED
    BY <1>4, <2>1
<1>10. ASSUME NEW t \in Tasks, FinishWrite(t) PROVE CopiesCounted'
  <2> DEFINE cache == Written(t)
  <2>1. /\ IsCache(cache) /\ cache # None /\ CopyCounted(cache) /\ Save(InstanceOf[t], cache)
        /\ InstanceOf[t] \in Instances /\ UNCHANGED now
    BY <1>10, WrittenIs, WrittenCounted, Places DEF FinishWrite
  <2> HIDE DEF cache
  <2> QED
    BY <1>4, <2>1
<1>11. CASE ClearFile
  BY <1>2, <1>11 DEF ClearFile
<1>12. ASSUME NEW i \in Instances, Restart(i) PROVE CopiesCounted'
  BY <1>2, <1>12 DEF Restart, TypeInv, CopiesTyped
<1>13. CASE UNCHANGED <<mem, file>>
  BY <1>2, <1>13
<1> QED
  BY <1>5, <1>6, <1>7, <1>8, <1>9, <1>10, <1>11, <1>12, <1>13
     DEF Next, vars, WriteElsewhere, BackendReads, BackendFails, StartWrite, Tick

\* With one call at a time, nothing is put in the copy of a read while it waits.
LEMMA NewestNext ==
    ASSUME TypeInv, TypeInv', [Next]_vars, CopiesTraced, ReadsAreNewest, OneCallEach
    PROVE  ReadsAreNewest'
<1>1. ASSUME NEW u \in Tasks, task'[u] = task[u],
             Reads(u) => mem'[InstanceOf[u]] = mem[InstanceOf[u]]
      PROVE  Reads(u)' => Past(mem'[InstanceOf[u]], task'[u].startedAt)
  BY <1>1 DEF ReadsAreNewest, Reads
<1>2. ASSUME \A u \in Tasks :
                \/ task'[u] = None
                \/ /\ task'[u] = task[u]
                   /\ Reads(u) => mem'[InstanceOf[u]] = mem[InstanceOf[u]]
      PROVE  ReadsAreNewest'
  BY <1>1, <1>2 DEF ReadsAreNewest, Reads
<1>3. ASSUME NEW t \in Tasks, NEW call \in {"exact", "prefix"}, NEW n \in Names \union {All},
             call # "prefix" => n \in Names, Begin(t, call, n, None), UNCHANGED <<now, file>>,
             mem' = [mem EXCEPT ![InstanceOf[t]] = Loaded(InstanceOf[t])]
      PROVE  ReadsAreNewest'
  <2>1. /\ task'[t] = [call |-> call, name |-> n, startedAt |-> now, got |-> None]
        /\ \A u \in Tasks : u # t => task'[u] = task[u]
    BY <1>3, BeginTyped
  <2>2. InstanceOf[t] \in Instances
    BY Places
  <2>3. /\ mem'[InstanceOf[t]] = Loaded(InstanceOf[t])
        /\ \A j \in Instances : j # InstanceOf[t] => mem'[j] = mem[j]
    BY <1>3, <2>2, LoadTyped
  <2>4. Past(Loaded(InstanceOf[t]), now)
    BY <2>2, LoadedTraced DEF CopyTraced
  <2>5. Past(mem'[InstanceOf[t]], task'[t].startedAt)
    BY <2>1, <2>3, <2>4
  <2>6. ASSUME NEW u \in Tasks, u # t
        PROVE  task'[u] = task[u] /\ mem'[InstanceOf[u]] = mem[InstanceOf[u]]
    BY <2>1, <2>3, <2>6, Places DEF OneCallEach
  <2> QED
    BY <1>1, <2>5, <2>6 DEF ReadsAreNewest
<1>4. ASSUME NEW t \in Tasks, NEW n \in Names, StartExact(t, n) PROVE ReadsAreNewest'
  BY <1>3, <1>4 DEF StartExact
<1>5. ASSUME NEW t \in Tasks, StartPrefix(t) PROVE ReadsAreNewest'
  BY <1>3, <1>5 DEF StartPrefix
<1>6. ASSUME NEW t \in Tasks, NEW n \in Names, NEW call \in {"store", "delete"},
             StartWrite(t, call, n)
      PROVE  ReadsAreNewest'
  <2> DEFINE got == [m \in Names |-> Current(StoreFor(t), m) + IF m = n THEN 1 ELSE 0]
  <2>1. Begin(t, call, n, got) /\ UNCHANGED mem
    BY <1>6 DEF StartWrite, StoreFor
  <2> HIDE DEF got
  <2>2. task = [u \in Tasks |-> task[u]]
    BY DEF TypeInv, TasksTyped
  <2>3. /\ task'[t].call = call
        /\ \A u \in Tasks : u # t => task'[u] = task[u]
    BY <2>1, <2>2 DEF Begin
  <2>4. ~Reads(t)'
    BY <2>3 DEF Reads
  <2> QED
    BY <1>1, <2>1, <2>3, <2>4 DEF ReadsAreNewest
<1>7. ASSUME NEW t \in Tasks, BackendReads(t) PROVE ReadsAreNewest'
  <2> DEFINE got == [n \in Names |-> Current(StoreFor(t), n)]
  <2>1. /\ task[t] # None
        /\ task' = [task EXCEPT ![t].got = got]
        /\ UNCHANGED mem
    BY <1>7 DEF BackendReads, StoreFor
  <2> HIDE DEF got
  <2>2. IsCall(task[t], t, now) /\ task = [u \in Tasks |-> task[u]]
    BY <2>1 DEF TypeInv, TasksTyped
  <2>3. /\ task'[t] = [task[t] EXCEPT !.got = got]
        /\ \A u \in Tasks : u # t => task'[u] = task[u]
    BY <2>1, <2>2
  <2>4. task'[t].call = task[t].call /\ task'[t].startedAt = task[t].startedAt
    BY <2>2, <2>3 DEF IsCall, Flights
  <2>5. Reads(t)' => Past(mem'[InstanceOf[t]], task'[t].startedAt)
    BY <2>1, <2>4 DEF ReadsAreNewest, Reads
  <2> QED
    BY <1>1, <2>1, <2>3, <2>5 DEF ReadsAreNewest
<1>8. ASSUME NEW t \in Tasks,
             BackendFails(t) \/ FinishExact(t) \/ FinishPrefix(t) \/ FinishWrite(t)
      PROVE  ReadsAreNewest'
  <2>1. Done(t) /\ UNCHANGED now
    BY <1>8 DEF BackendFails, FinishExact, FinishPrefix, FinishWrite
  <2>2. \A u \in Tasks : task'[u] # None => u # t /\ task'[u] = task[u]
    BY <2>1, DoneTyped
  <2>3. mem = [j \in Instances |-> mem[j]] /\ InstanceOf[t] \in Instances
    BY Places DEF TypeInv, CopiesTyped
  <2>4. \A j \in Instances : j # InstanceOf[t] => mem'[j] = mem[j]
    BY <1>8, <2>3 DEF BackendFails, FinishExact, FinishPrefix, FinishWrite, Stored, Deleted, Save
  <2>5. \A u \in Tasks : u # t => mem'[InstanceOf[u]] = mem[InstanceOf[u]]
    BY <2>4, Places DEF OneCallEach
  <2> QED
    BY <1>2, <2>2, <2>5
<1>9. ASSUME NEW i \in Instances, ReadHit(i) PROVE ReadsAreNewest'
  <2>1. mem[i] = None /\ \A j \in Instances : j # i => mem'[j] = mem[j]
    BY <1>9, LoadTyped DEF ReadHit
  <2>2. \A u \in Tasks : Reads(u) => mem'[InstanceOf[u]] = mem[InstanceOf[u]]
    BY <2>1, Places DEF TypeInv, ReadersLoaded
  <2> QED
    BY <1>2, <1>9, <2>2 DEF ReadHit
<1>10. ASSUME NEW i \in Instances, Restart(i) PROVE ReadsAreNewest'
  <2>1. mem = [j \in Instances |-> mem[j]]
    BY DEF TypeInv, CopiesTyped
  <2>2. /\ \A u \in Tasks : task'[u] = IF InstanceOf[u] = i THEN None ELSE task[u]
        /\ \A j \in Instances : j # i => mem'[j] = mem[j]
    BY <1>10, <2>1 DEF Restart
  <2> QED
    BY <1>2, <2>2, Places
<1>11. CASE UNCHANGED <<mem, task>>
  BY <1>2, <1>11
<1> QED
  BY <1>4, <1>5, <1>6, <1>7, <1>8, <1>9, <1>10, <1>11
     DEF Next, vars, WriteElsewhere, ClearFile, Tick

CountInv == Inv /\ CopiesCounted /\ ReadsAreNewest

LEMMA CountInit == Init => CountInv
  BY InvInit DEF Init, CountInv, CopiesCounted, ReadsAreNewest, Reads

LEMMA CountNext == OneCallEach /\ CountInv /\ [Next]_vars => CountInv'
  BY InvNext, CountedNext, NewestNext DEF CountInv, Inv

(***************************************************************************)
(* A prefix read served from the cache leaves out no name that the store   *)
(* has held all through the last ttlMs (the count of the marker that       *)
(* resolve of cache.ts checks), as long as no object has two calls in      *)
(* flight.  With two the count is not enough: see the README.              *)
(***************************************************************************)
THEOREM PrefixIsComplete ==
    ASSUME OneCallEach
    PROVE  Spec => []PrefixComplete
<1>1. CountInv => PrefixComplete
  <2> SUFFICES ASSUME CountInv, NEW i \in Instances, PrefixHit(i),
                      NEW n \in Names \ FreshNames(i)
               PROVE  LET s == StoreOf[ScopeOf[i]]
                      IN  \E v \in 1..Current(s, n) :
                            ~history[s][n][v].present /\ CurrentWithin(s, n, v, Ttl)
    BY DEF PrefixComplete
  <2> DEFINE c == ScopeOf[i]
             s == StoreOf[c]
             copy == Loaded(i)
             marker == copy[<<c, All>>]
  <2>1. /\ <<c, All>> \in DOMAIN copy /\ now - marker.cachedAt < Ttl
        /\ marker.count = Cardinality(FreshNames(i))
    BY DEF PrefixHit, EntryKey, Fresh
  <2>2. c \in Scopes /\ s \in Stores
    BY Places DEF CountInv, Inv
  <2>3. PICK F \in SUBSET Names : CountedBy(copy, history, deployed, c, F)
    BY <2>1, <2>2, LoadedCounted DEF CountInv, Inv, CopyCounted, Counted
  <2>4. IsCache(copy)
    BY LoadedIsCache DEF CountInv, Inv
  <2>5. now \in Int /\ Ttl \in Int /\ Len(history[s][n]) \in Int
    BY <2>2, CacheAssumption DEF CacheAssumption, CountInv, Inv, TypeInv, HistoryTyped, Versions
  <2>6. FreshNames(i) =
          {m \in Names : <<c, m>> \in DOMAIN copy /\ now - copy[<<c, m>>].cachedAt < Ttl}
    BY DEF FreshNames, EntryKey, Fresh
  <2> HIDE DEF copy, s
  <2>7. marker.cachedAt \in Int
    BY <2>1, <2>4, EntryTypes
  <2>8. ASSUME NEW m \in F PROVE m \in FreshNames(i)
    <3>1. <<c, m>> \in DOMAIN copy /\ copy[<<c, m>>].cachedAt >= marker.cachedAt
      BY <2>3 DEF CountedBy
    <3>2. copy[<<c, m>>].cachedAt \in Int
      BY <2>4, <3>1, EntryTypes
    <3> QED
      BY <2>1, <2>5, <2>6, <2>7, <3>1, <3>2
  <2>9. F = FreshNames(i)
    <3>1. FreshNames(i) \in SUBSET Names
      BY <2>6
    <3>2. IsFiniteSet(FreshNames(i))
      BY <3>1, CacheAssumption, FS_Subset DEF CacheAssumption
    <3>3. Cardinality(F) = Cardinality(FreshNames(i)) /\ F \in SUBSET FreshNames(i)
      BY <2>1, <2>3, <2>8 DEF CountedBy
    <3> QED
      BY <3>2, <3>3, FS_Subset
  <2>10. PICK v \in Versions : /\ StoodAt(history, s, n, v, marker.cachedAt)
                               /\ ~history[s][n][v].present
    BY <2>3, <2>9 DEF CountedBy, s, StoreOf
  <2>11. v \in 1..Current(s, n)
    BY <2>10 DEF StoodAt, Current
  <2>12. ASSUME v # Current(s, n) PROVE history[s][n][v + 1].at + Ttl > now
    <3>1. v < Len(history[s][n])
      BY <2>5, <2>11, <2>12 DEF Current
    <3>2. history[s][n][v + 1].at >= marker.cachedAt
      BY <2>10, <3>1 DEF StoodAt
    <3>3. history[s][n][v + 1].at \in Int
      <4>1. history[s][n] \in Seq([present : BOOLEAN, at : 0..MaxTime])
        BY <2>2 DEF CountInv, Inv, TypeInv, HistoryTyped
      <4>2. v + 1 \in 1..Len(history[s][n])
        BY <2>5, <2>11, <3>1 DEF Current
      <4>3. history[s][n][v + 1] \in [present : BOOLEAN, at : 0..MaxTime]
        BY <4>1, <4>2, ElementOfSeq
      <4> QED
        BY <4>3
    <3> QED
      BY <2>1, <2>5, <2>7, <3>2, <3>3
  <2>13. CurrentWithin(s, n, v, Ttl)
    BY <2>12 DEF CurrentWithin
  <2> QED
    BY <2>10, <2>11, <2>13 DEF s
<1> QED
  BY <1>1, CountInit, CountNext, PTL DEF Spec
-----------------------------------------------------------------------------
(***************************************************************************)
(* LocalStore.                                                             *)
(*                                                                         *)
(* Shaped, for commands that overlap in any way, says what is known of a   *)
(* command by where it stands: the types, and that a file can be made at   *)
(* secrets.enc.tmp that nobody has open.  Ordered, for one writer at a     *)
(* time: the store can be read by who starts now, and what the writer      *)
(* knows is so: its salt is the one on the disk, what it will write is the *)
(* store with its change, and the file it renames is the one it wrote.     *)
(* From that the store implements SecretStore: a read takes effect when it *)
(* reads, a write when its file is renamed, and the rest is not seen.      *)
(***************************************************************************)

\* What is known of a command by where it stands.
ShapedCommand(c) ==
    /\ c \in [pc : Pcs, op : {"store", "delete", "read"},
              key : Keys \union {Missing}, value : Values \union {Missing},
              salt : Salts, seen : Maps \union {Missing}, write : Maps \union {Missing},
              file : {0} \union Files, result : {"none", "ok", "failed", "crashed"}]
    /\ c.pc # "idle" /\ c.op # "read" => c.key \in Keys
    /\ c.pc = "idle" => c.op = "read" /\ c.key = Missing /\ c.value = Missing
    /\ c.pc \in {"idle", "salt", "newSalt", "migrate", "command"} => c.seen = Missing
    /\ c.pc \in {"open", "fill", "rename"} => c.write \in Maps /\ (c.op = "read" => c.seen = Missing)
    /\ c.pc \in {"fill", "rename"} => c.file \in Files
    /\ c.pc \in {"metadata", "renameMetadata"} => c.op # "read"
    /\ c.pc \in {"metadata", "renameMetadata", "answer"} => c.seen # Missing

\* Neither the store nor the file at secrets.enc.tmp is gone, and they are two files.
FilesThere ==
    /\ store # 0 => files[store] # Missing
    /\ tmp # 0 => files[tmp] # Missing /\ tmp # store

Shaped ==
    /\ LocalTypeOK
    /\ FilesThere
    /\ \A p \in Procs : ShapedCommand(proc[p])

\* What readStore reads.
Contained == IF store = 0 THEN Nothing ELSE InStore.map

Disjoint == overlap \in {"none", "readers"}

\* Who may write: at most one process.
Writer(p) == ~Idle(p) /\ (overlap = "none" \/ proc[p].op # "read")

OneWriter == \A p, q \in Procs : Writer(p) /\ Writer(q) => p = q

\* The next process can read the store.
Readable ==
    /\ store # 0 => /\ InStore \in SealedFiles
                    /\ InStore.seal = Legacy \/ (salt \in Salts /\ InStore.seal = salt)
    /\ overlap = "readers" => salt = OldSalt /\ store # 0 /\ InStore.seal = OldSalt

\* What p knows of the disk is so.
Knows(p) ==
    LET c == proc[p]
    IN  /\ overlap = "readers" /\ c.op = "read" => c.pc \in {"idle", "salt", "migrate", "command", "answer"}
        /\ c.pc = "newSalt" => salt \notin Salts
        /\ c.pc \notin {"idle", "salt", "newSalt"} => salt \in Salts /\ c.salt = salt
        /\ c.pc = "command" \/ (c.pc \in {"open", "fill", "rename"} /\ ~Migrating(p)) =>
              store = 0 \/ InStore.seal = salt
        /\ c.pc \in {"open", "fill", "rename"} /\ Migrating(p) => store # 0 /\ c.write = Contained
        /\ c.pc \in {"open", "fill", "rename"} /\ ~Migrating(p) =>
              c.write = [Contained EXCEPT ![c.key] = IF c.op = "store" THEN c.value ELSE Missing]
        /\ c.pc = "fill" => tmp = c.file /\ files[tmp] = Cut
        /\ c.pc = "rename" => tmp = c.file /\ files[tmp] = Sealed(salt, c.write)
        /\ c.pc = "renameMetadata" => metaTmp

Ordered == Disjoint => OneWriter /\ Readable /\ \A p \in Procs : Knows(p)

\* Naturals have a least one.
LEMMA LeastExists ==
    ASSUME NEW S \in SUBSET Nat, S # {}
    PROVE  Min(S) \in S
<1> DEFINE R == {ss \in Nat \X Nat : ss[1] < ss[2]}
<1>1. IsWellFoundedOn({ss \in Nat \X Nat : ss[1] < ss[2]}, Nat)
  BY NatLessThanWellFounded, Zenon DEF OpToRel
<1>2. PICK x \in S : \A y \in S : ~(<<y, x>> \in R)
  BY <1>1, WFMin
<1>3. ASSUME NEW y \in S, y < x
      PROVE  FALSE
  <2>1. <<y, x>> \in R
    BY <1>3
  <2> QED
    BY <1>2, <2>1
<1>4. \A y \in S : x <= y
  BY <1>3
<1> QED
  BY <1>4 DEF Min

\* There is a file to make: each process has one open at most, and the store is one.
LEMMA TmpFileFound ==
    ASSUME Shaped
    PROVE  /\ TmpFile \in Files /\ TmpFile # store
           /\ tmp = 0 => TmpFile \notin Open
<1> USE LocalAssumption
<1>1. tmp \in {0} \union Files /\ store \in {0} \union Files
  BY DEF Shaped, LocalTypeOK
<1>2. CASE tmp # 0
  BY <1>1, <1>2 DEF TmpFile, Shaped, FilesThere
<1>3. CASE tmp = 0
  <2> DEFINE opened == [p \in Procs |-> proc[p].file]
             T == {opened[p] : p \in Procs}
             free == Files \ (Open \union {store})
  <2>1. opened \in Surjection(Procs, T)
    BY DEF Surjection
  <2>2. IsFiniteSet(T) /\ Cardinality(T) <= Cardinality(Procs)
    BY <2>1, FS_Surjection
  <2>3. Cardinality(Procs) \in Nat /\ Cardinality(T) \in Nat
    BY <2>2, FS_CardinalityType
  <2>4. Open \subseteq T
    BY DEF Open
  <2> HIDE DEF T
  <2>5. /\ IsFiniteSet(T \union {store})
        /\ Cardinality(T \union {store}) <= Cardinality(T) + 1
    <3>1. /\ IsFiniteSet(T \union {store})
          /\ \/ Cardinality(T \union {store}) = Cardinality(T)
             \/ Cardinality(T \union {store}) = Cardinality(T) + 1
      BY <2>2, FS_AddElement
    <3> HIDE DEF T
    <3> QED
      BY <2>3, <3>1
  <2>6. Cardinality(Files) = Cardinality(Procs) + 2
    BY <2>3, FS_Interval DEF Files
  <2>7. ~(Files \subseteq T \union {store})
    <3> SUFFICES ASSUME Files \subseteq T \union {store}
                 PROVE  FALSE
      OBVIOUS
    <3>1. Cardinality(Files) <= Cardinality(T \union {store})
      BY <2>5, FS_Subset
    <3>2. Cardinality(T \union {store}) \in Nat
      BY <2>5, FS_CardinalityType
    <3> QED
      BY <2>2, <2>3, <2>5, <2>6, <3>1, <3>2
  <2>8. free # {} /\ free \in SUBSET Nat
    BY <2>3, <2>4, <2>7 DEF Files
  <2>9. Min(free) \in free
    BY <2>8, LeastExists
  <2> QED
    BY <1>3, <2>9 DEF TmpFile
<1> QED
  BY <1>2, <1>3

LEMMA NoCommandShaped ==
    ASSUME NEW result \in {"none", "ok", "failed", "crashed"}
    PROVE  ShapedCommand(NoCommand(result))
BY LocalAssumption DEF NoCommand, ShapedCommand, Pcs, Salts, OldSalt

CommandRecords ==
    [pc : Pcs, op : {"store", "delete", "read"},
     key : Keys \union {Missing}, value : Values \union {Missing},
     salt : Salts, seen : Maps \union {Missing}, write : Maps \union {Missing},
     file : {0} \union Files, result : {"none", "ok", "failed", "crashed"}]

LEMMA Shapes ==
    ASSUME Shaped
    PROVE  /\ proc \in [Procs -> CommandRecords]
           /\ \A p \in Procs : ShapedCommand(proc[p]) /\ proc[p] \in CommandRecords
           /\ files \in [Files -> SealedFiles \union {Cut, Missing}]
           /\ salt \in Salts \union {Missing, Cut}
           /\ store \in {0} \union Files /\ tmp \in {0} \union Files
           /\ meta \in BOOLEAN /\ metaTmp \in BOOLEAN
           /\ overlap \in Overlaps
           /\ commands \in 0..MaxCommands
BY DEF Shaped, LocalTypeOK, CommandRecords, ShapedCommand

\* A file that can be decrypted is a sealed one.
LEMMA SealedStore ==
    ASSUME Shaped, store # 0, InStore # Cut
    PROVE  InStore \in SealedFiles /\ InStore.map \in Maps
BY Shapes DEF Shaped, FilesThere, InStore, SealedFiles

\* The record p has next.
Becomes(p, c) == proc' = [proc EXCEPT ![p] = c]

LEMMA BecomesShaped ==
    ASSUME Shaped, NEW p \in Procs, NEW c, ShapedCommand(c), Becomes(p, c)
    PROVE  /\ proc' \in [Procs -> CommandRecords]
           /\ \A q \in Procs : ShapedCommand(proc'[q])
           /\ proc'[p] = c /\ \A q \in Procs \ {p} : proc'[q] = proc[q]
<1>1. c \in CommandRecords
  BY DEF ShapedCommand, CommandRecords
<1> QED
  BY <1>1, Shapes DEF Becomes

\* What each step makes of the command of its process.
LEMMA StepsBecome ==
    ASSUME Shaped, NEW p \in Procs
    PROVE  /\ \A pc : Goes(p, pc) => Becomes(p, [proc[p] EXCEPT !.pc = pc])
           /\ LoadSalt(p) /\ salt \in Salts =>
                 Becomes(p, [proc[p] EXCEPT !.pc = "migrate", !.salt = salt])
           /\ MigrateIfNeeded(p) /\ store # 0 /\ Decrypts(Legacy) =>
                 Becomes(p, [proc[p] EXCEPT !.pc = "open", !.write = InStore.map])
           /\ OpenTmp(p) => Becomes(p, [proc[p] EXCEPT !.pc = "fill", !.file = TmpFile])
           /\ \A result : Ends(p, result) => Becomes(p, NoCommand(result))
BY Shapes DEF Goes, LoadSalt, MigrateIfNeeded, OpenTmp, Ends, Becomes

LEMMA ContainedIsMap ==
    ASSUME Shaped, store # 0 => InStore # Cut
    PROVE  Contained \in Maps
<1>1. Nothing \in Maps
  BY DEF Nothing, Maps
<1> QED
  BY <1>1, SealedStore DEF Contained

\* What a command writes after it read.
NewContents(p) ==
    [Contained EXCEPT ![proc[p].key] = IF proc[p].op = "store" THEN proc[p].value ELSE Missing]

LEMMA ReadBecomes ==
    ASSUME Shaped, NEW p \in Procs, ReadStore(p)
    PROVE  \/ store # 0 /\ ~Decrypts(proc[p].salt) /\ Becomes(p, NoCommand("failed"))
           \/ /\ store # 0 => Decrypts(proc[p].salt)
              /\ proc[p].op = "read" \/ (proc[p].op = "delete" /\ Contained[proc[p].key] = Missing)
              /\ Becomes(p, [proc[p] EXCEPT !.pc = "answer", !.seen = Contained])
              /\ Contained \in Maps
           \/ /\ store # 0 => Decrypts(proc[p].salt)
              /\ proc[p].op \in {"store", "delete"}
              /\ Becomes(p, [proc[p] EXCEPT !.pc = "open", !.seen = Contained, !.write = NewContents(p)])
              /\ Contained \in Maps /\ NewContents(p) \in Maps
<1>1. CASE store # 0 /\ ~Decrypts(proc[p].salt) /\ Ends(p, "failed")
  BY <1>1, StepsBecome
<1>2. ASSUME store # 0 => Decrypts(proc[p].salt)
      PROVE  Contained \in Maps
  BY <1>2, ContainedIsMap DEF Decrypts
<1>3. CASE /\ store # 0 => Decrypts(proc[p].salt)
           /\ proc[p].op = "read" \/ (proc[p].op = "delete" /\ Contained[proc[p].key] = Missing)
           /\ proc' = [proc EXCEPT ![p].pc = "answer", ![p].seen = Contained]
  BY <1>2, <1>3, Shapes DEF Becomes
<1>4. CASE /\ store # 0 => Decrypts(proc[p].salt)
           /\ proc[p].op = "store" \/ (proc[p].op = "delete" /\ Contained[proc[p].key] # Missing)
           /\ proc' = [proc EXCEPT ![p].pc = "open", ![p].seen = Contained, ![p].write = NewContents(p)]
  <2>1. Contained \in Maps
    BY <1>2, <1>4
  <2>2. NewContents(p) \in Maps
    <3> DEFINE v == IF proc[p].op = "store" THEN proc[p].value ELSE Missing
    <3>1. v \in Values \union {Missing}
      BY Shapes DEF CommandRecords
    <3>2. NewContents(p) = [Contained EXCEPT ![proc[p].key] = v]
      BY DEF NewContents
    <3> HIDE DEF v
    <3> QED
      BY <2>1, <3>1, <3>2 DEF Maps
  <2> HIDE DEF NewContents
  <2>3. Becomes(p, [proc[p] EXCEPT !.pc = "open", !.seen = Contained, !.write = NewContents(p)])
    BY <1>4, Shapes DEF Becomes
  <2> QED
    BY <1>4, <2>1, <2>2, <2>3
<1> QED
  BY <1>1, <1>3, <1>4 DEF ReadStore, Contained, NewContents

LEMMA StartBecomes ==
    ASSUME Shaped, NEW p \in Procs, NEW op \in {"store", "delete", "read"},
           NEW k \in Keys \union {Missing}, NEW v \in Values \union {Missing}, Start(p, op, k, v)
    PROVE  \E c : /\ Becomes(p, c) /\ ShapedCommand(c)
                  /\ c = [pc |-> "salt", op |-> op, key |-> k, value |-> v, salt |-> commands + 1,
                          seen |-> Missing, write |-> Missing, file |-> 0, result |-> "none"]
<1> DEFINE c == [pc |-> "salt", op |-> op, key |-> k, value |-> v, salt |-> commands + 1,
                 seen |-> Missing, write |-> Missing, file |-> 0, result |-> "none"]
<1>1. Becomes(p, c)
  BY DEF Start, Becomes
<1>2. commands + 1 \in Salts
  BY Shapes, LocalAssumption DEF Start, Salts
<1>3. op # "read" => k \in Keys
  BY DEF Start
<1>4. ShapedCommand(c)
  BY <1>2, <1>3 DEF ShapedCommand, Pcs
<1> QED
  BY <1>1, <1>4

LEMMA CommandStaysShaped ==
    ASSUME Shaped, NEW p \in Procs,
           \/ LoadSalt(p) \/ WriteSalt(p) \/ MigrateIfNeeded(p) \/ ReadStore(p)
           \/ OpenTmp(p) \/ FillTmp(p) \/ RenameTmp(p) \/ WriteMetadata(p) \/ RenameMetadata(p)
           \/ Answer(p) \/ Crash(p)
    PROVE  \E c : Becomes(p, c) /\ ShapedCommand(c)
<1>1. proc[p] \in CommandRecords /\ ShapedCommand(proc[p])
  BY Shapes
<1>2. ASSUME NEW result \in {"none", "ok", "failed", "crashed"}, Ends(p, result)
      PROVE  \E c : Becomes(p, c) /\ ShapedCommand(c)
  BY <1>2, NoCommandShaped, StepsBecome
<1>3. CASE LoadSalt(p)
  <2>1. CASE salt \in Salts
    <3>1. ShapedCommand([proc[p] EXCEPT !.pc = "migrate", !.salt = salt])
      BY <1>1, <1>3, <2>1 DEF LoadSalt, At, ShapedCommand, CommandRecords, Pcs
    <3> QED
      BY <1>3, <2>1, <3>1, StepsBecome
  <2>2. CASE salt \notin Salts
    <3>1. ShapedCommand([proc[p] EXCEPT !.pc = "newSalt"])
      BY <1>1, <1>3 DEF LoadSalt, At, ShapedCommand, CommandRecords, Pcs
    <3> QED
      BY <1>3, <2>2, <3>1, StepsBecome DEF LoadSalt
  <2> QED
    BY <2>1, <2>2
<1>4. CASE WriteSalt(p)
  <2>1. ShapedCommand([proc[p] EXCEPT !.pc = "migrate"])
    BY <1>1, <1>4 DEF WriteSalt, At, ShapedCommand, CommandRecords, Pcs
  <2> QED
    BY <1>4, <2>1, StepsBecome DEF WriteSalt
<1>5. CASE MigrateIfNeeded(p)
  <2>1. CASE store # 0 /\ Decrypts(Legacy)
    <3>1. InStore.map \in Maps
      BY <2>1, SealedStore DEF Decrypts
    <3>2. ShapedCommand([proc[p] EXCEPT !.pc = "open", !.write = InStore.map])
      BY <1>1, <1>5, <3>1 DEF MigrateIfNeeded, At, ShapedCommand, CommandRecords, Pcs
    <3> QED
      BY <1>5, <2>1, <3>2, StepsBecome
  <2>2. CASE ~(store # 0 /\ Decrypts(Legacy))
    <3>1. ShapedCommand([proc[p] EXCEPT !.pc = "command"])
      BY <1>1, <1>5 DEF MigrateIfNeeded, At, ShapedCommand, CommandRecords, Pcs
    <3> QED
      BY <1>5, <2>2, <3>1, StepsBecome DEF MigrateIfNeeded
  <2> QED
    BY <2>1, <2>2
<1>6. CASE ReadStore(p)
  <2>1. CASE Becomes(p, NoCommand("failed"))
    BY <2>1, NoCommandShaped
  <2>2. ASSUME Contained \in Maps
        PROVE  ShapedCommand([proc[p] EXCEPT !.pc = "answer", !.seen = Contained])
    BY <1>1, <1>6, <2>2, LocalAssumption DEF ReadStore, At, ShapedCommand, CommandRecords, Pcs
  <2>3. ASSUME Contained \in Maps, NewContents(p) \in Maps, proc[p].op # "read"
        PROVE  ShapedCommand([proc[p] EXCEPT !.pc = "open", !.seen = Contained, !.write = NewContents(p)])
    BY <1>1, <1>6, <2>3, LocalAssumption DEF ReadStore, At, ShapedCommand, CommandRecords, Pcs
  <2> QED
    BY <1>6, <2>1, <2>2, <2>3, ReadBecomes
<1>7. CASE OpenTmp(p)
  <2>1. ShapedCommand([proc[p] EXCEPT !.pc = "fill", !.file = TmpFile])
    BY <1>1, <1>7, TmpFileFound DEF OpenTmp, At, ShapedCommand, CommandRecords, Pcs
  <2> QED
    BY <1>7, <2>1, StepsBecome
<1>8. CASE FillTmp(p)
  <2>1. ShapedCommand([proc[p] EXCEPT !.pc = "rename"])
    BY <1>1, <1>8 DEF FillTmp, At, ShapedCommand, CommandRecords, Pcs
  <2> QED
    BY <1>8, <2>1, StepsBecome DEF FillTmp
<1>9. CASE RenameTmp(p)
  <2>1. CASE Migrating(p)
    <3>1. ShapedCommand([proc[p] EXCEPT !.pc = "command"])
      BY <1>1, <1>9, <2>1 DEF RenameTmp, At, ShapedCommand, CommandRecords, Pcs, Migrating
    <3> QED
      BY <1>9, <2>1, <3>1, StepsBecome DEF RenameTmp
  <2>2. CASE ~Migrating(p)
    <3>1. ShapedCommand([proc[p] EXCEPT !.pc = "metadata"])
      BY <1>1, <1>9, <2>2 DEF RenameTmp, At, ShapedCommand, CommandRecords, Pcs, Migrating
    <3>2. Goes(p, "metadata") \/ Ends(p, "failed")
      BY <1>9, <2>2 DEF RenameTmp
    <3> QED
      BY <1>2, <3>1, <3>2, StepsBecome
  <2> QED
    BY <2>1, <2>2
<1>10. ASSUME At(p, "metadata") \/ At(p, "renameMetadata"), NEW pc \in {"renameMetadata", "answer"},
              Goes(p, pc)
       PROVE  \E c : Becomes(p, c) /\ ShapedCommand(c)
  <2>1. ShapedCommand([proc[p] EXCEPT !.pc = pc])
    BY <1>1, <1>10 DEF At, ShapedCommand, CommandRecords, Pcs
  <2> QED
    BY <1>10, <2>1, StepsBecome
<1>11. CASE WriteMetadata(p)
  BY <1>10, <1>11 DEF WriteMetadata
<1>12. CASE RenameMetadata(p)
  BY <1>2, <1>10, <1>12 DEF RenameMetadata
<1> QED
  BY <1>2, <1>3, <1>4, <1>5, <1>6, <1>7, <1>8, <1>9, <1>11, <1>12 DEF Answer, Crash

LEMMA FilesStayThere ==
    ASSUME Shaped, NEW p \in Procs,
           \/ LoadSalt(p) \/ WriteSalt(p) \/ MigrateIfNeeded(p) \/ ReadStore(p)
           \/ OpenTmp(p) \/ FillTmp(p) \/ RenameTmp(p) \/ WriteMetadata(p) \/ RenameMetadata(p)
           \/ Answer(p) \/ Crash(p)
    PROVE  /\ salt' \in Salts \union {Missing, Cut}
           /\ files' \in [Files -> SealedFiles \union {Cut, Missing}]
           /\ store' \in {0} \union Files /\ tmp' \in {0} \union Files
           /\ meta' \in BOOLEAN /\ metaTmp' \in BOOLEAN
           /\ UNCHANGED <<overlap, commands>>
           /\ FilesThere'
<1> USE LocalAssumption
<1>1. /\ proc[p] \in CommandRecords /\ ShapedCommand(proc[p])
      /\ files \in [Files -> SealedFiles \union {Cut, Missing}]
      /\ salt \in Salts \union {Missing, Cut}
      /\ store \in {0} \union Files /\ tmp \in {0} \union Files
      /\ meta \in BOOLEAN /\ metaTmp \in BOOLEAN
      /\ 0 \notin Files
  BY Shapes DEF Files
<1>2. /\ store # 0 => files[store] # Missing
      /\ tmp # 0 => files[tmp] # Missing /\ tmp # store
  BY DEF Shaped, FilesThere
<1>3. CASE LoadSalt(p) \/ WriteSalt(p)
  BY <1>1, <1>2, <1>3 DEF LoadSalt, WriteSalt, CommandRecords, FilesThere
<1>4. CASE MigrateIfNeeded(p) \/ ReadStore(p) \/ Answer(p) \/ Crash(p)
  BY <1>1, <1>2, <1>4 DEF MigrateIfNeeded, ReadStore, Answer, Crash, disk, FilesThere
<1>5. CASE OpenTmp(p)
  <2>1. TmpFile \in Files /\ TmpFile # store
    BY TmpFileFound
  <2>2. /\ files' = [files EXCEPT ![TmpFile] = Cut] /\ tmp' = TmpFile
        /\ UNCHANGED <<overlap, salt, store, meta, metaTmp, commands>>
    BY <1>5 DEF OpenTmp
  <2> QED
    BY <1>1, <1>2, <2>1, <2>2 DEF FilesThere
<1>6. CASE FillTmp(p)
  <2>1. Sealed(proc[p].salt, proc[p].write) \in SealedFiles
    BY <1>1, <1>6 DEF FillTmp, At, ShapedCommand, CommandRecords, Sealed, SealedFiles
  <2>2. PICK x \in {Sealed(proc[p].salt, proc[p].write), Cut} :
               files' = [files EXCEPT ![proc[p].file] = x]
    BY <1>6 DEF FillTmp
  <2>3. x \in SealedFiles \union {Cut} /\ x # Missing
    BY <2>1, <2>2
  <2>4. UNCHANGED <<overlap, salt, store, tmp, meta, metaTmp, commands>>
    BY <1>6 DEF FillTmp
  <2>5. /\ files' \in [Files -> SealedFiles \union {Cut, Missing}]
        /\ \A f \in Files : files[f] # Missing => files'[f] # Missing
    BY <1>1, <2>2, <2>3
  <2>6. FilesThere'
    BY <1>1, <1>2, <2>4, <2>5 DEF FilesThere
  <2> QED
    BY <1>1, <2>4, <2>5, <2>6
<1>7. CASE RenameTmp(p)
  <2>1. CASE tmp # 0
    <3>1. /\ store' = tmp /\ tmp' = 0
          /\ files' = [f \in Files |-> IF f = store /\ f \notin Open THEN Missing ELSE files[f]]
          /\ UNCHANGED <<overlap, salt, meta, metaTmp, commands>>
      BY <1>7, <2>1 DEF RenameTmp
    <3> QED
      BY <1>1, <1>2, <2>1, <3>1 DEF FilesThere
  <2>2. CASE tmp = 0
    BY <1>1, <1>2, <1>7, <2>2 DEF RenameTmp, FilesThere
  <2> QED
    BY <2>1, <2>2
<1>8. CASE WriteMetadata(p) \/ RenameMetadata(p)
  BY <1>1, <1>2, <1>8 DEF WriteMetadata, RenameMetadata, FilesThere
<1> QED
  BY <1>3, <1>4, <1>5, <1>6, <1>7, <1>8

LEMMA ShapedStep ==
    ASSUME Shaped, [LocalNext]_localVars
    PROVE  Shaped'
<1>1. CASE UNCHANGED localVars
  BY <1>1 DEF localVars, disk, Shaped, LocalTypeOK, FilesThere, ShapedCommand
<1>2. ASSUME NEW p \in Procs, NEW op \in {"store", "delete", "read"},
             NEW k \in Keys \union {Missing}, NEW v \in Values \union {Missing}, Start(p, op, k, v)
      PROVE  Shaped'
  <2>1. PICK c : Becomes(p, c) /\ ShapedCommand(c)
    BY <1>2, StartBecomes
  <2>2. proc' \in [Procs -> CommandRecords] /\ \A q \in Procs : ShapedCommand(proc'[q])
    BY <2>1, BecomesShaped
  <2>3. commands' \in 0..MaxCommands
    BY <1>2, Shapes, LocalAssumption DEF Start
  <2>4. UNCHANGED <<overlap, salt, files, store, tmp, meta, metaTmp>>
    BY <1>2 DEF Start, disk
  <2> QED
    BY <2>2, <2>3, <2>4, Shapes DEF Shaped, LocalTypeOK, FilesThere, CommandRecords
<1>3. ASSUME NEW p \in Procs,
             \/ LoadSalt(p) \/ WriteSalt(p) \/ MigrateIfNeeded(p) \/ ReadStore(p)
             \/ OpenTmp(p) \/ FillTmp(p) \/ RenameTmp(p) \/ WriteMetadata(p) \/ RenameMetadata(p)
             \/ Answer(p) \/ Crash(p)
      PROVE  Shaped'
  <2>1. PICK c : Becomes(p, c) /\ ShapedCommand(c)
    BY <1>3, CommandStaysShaped
  <2>2. proc' \in [Procs -> CommandRecords] /\ \A q \in Procs : ShapedCommand(proc'[q])
    BY <2>1, BecomesShaped
  <2>3. /\ salt' \in Salts \union {Missing, Cut}
        /\ files' \in [Files -> SealedFiles \union {Cut, Missing}]
        /\ store' \in {0} \union Files /\ tmp' \in {0} \union Files
        /\ meta' \in BOOLEAN /\ metaTmp' \in BOOLEAN
        /\ UNCHANGED <<overlap, commands>>
        /\ FilesThere'
    BY <1>3, FilesStayThere
  <2> QED
    BY <2>2, <2>3, Shapes DEF Shaped, LocalTypeOK, CommandRecords
<1> QED
  BY <1>1, <1>2, <1>3 DEF LocalNext

LEMMA ShapedInitially == LocalInit => Shaped
<1> SUFFICES ASSUME LocalInit
             PROVE  Shaped
  OBVIOUS
<1> USE LocalAssumption
<1>1. PICK start \in Starts, map \in Maps :
        /\ overlap \in Overlaps
        /\ salt = IF start = "current" THEN OldSalt ELSE Missing
        /\ files = [f \in Files |->
              IF start = "none" \/ f # 1 THEN Missing
              ELSE Sealed(IF start = "legacy" THEN Legacy ELSE OldSalt, map)]
        /\ store = (IF start = "none" THEN 0 ELSE 1)
        /\ tmp = 0 /\ meta = (start = "current") /\ metaTmp = FALSE
        /\ proc = [p \in Procs |-> NoCommand("none")]
        /\ commands = 0
  BY DEF LocalInit
<1>2. ShapedCommand(NoCommand("none")) /\ NoCommand("none") \in CommandRecords
  BY NoCommandShaped DEF ShapedCommand, CommandRecords
<1>3. 1 \in Files /\ OldSalt \in Salts
  BY FS_CardinalityType DEF Files, OldSalt, Salts
<1>4. Sealed(Legacy, map) \in SealedFiles /\ Sealed(OldSalt, map) \in SealedFiles
  BY <1>3 DEF Sealed, SealedFiles
<1>5. files \in [Files -> SealedFiles \union {Cut, Missing}]
  BY <1>1, <1>4
<1>6. FilesThere
  BY <1>1, <1>3, <1>4 DEF FilesThere
<1>7. proc \in [Procs -> CommandRecords] /\ \A p \in Procs : ShapedCommand(proc[p])
  BY <1>1, <1>2
<1>8. /\ overlap \in Overlaps /\ meta \in BOOLEAN /\ metaTmp \in BOOLEAN
      /\ commands \in 0..MaxCommands
  <2>1. meta \in BOOLEAN
    BY <1>1, Zenon
  <2>2. commands = 0 /\ overlap \in Overlaps /\ metaTmp = FALSE
    BY <1>1
  <2>3. commands \in 0..MaxCommands
    BY <2>2
  <2> QED
    BY <2>1, <2>2, <2>3
<1>9. salt \in Salts \union {Missing, Cut} /\ store \in {0} \union Files /\ tmp \in {0} \union Files
  BY <1>1, <1>3
<1> QED
  BY <1>5, <1>6, <1>7, <1>8, <1>9 DEF Shaped, LocalTypeOK, CommandRecords

LEMMA AlwaysShaped == LocalSpec => []Shaped
<1>1. Shaped /\ [LocalNext]_localVars => Shaped'
  BY ShapedStep
<1> QED
  BY <1>1, ShapedInitially, PTL DEF LocalSpec

\* Every variable of the store and of its commands has its shape (LocalBackend, backends/local.ts),
\* however commands overlap and wherever they are killed: among others a file to write is found.
THEOREM LocalTypeCorrect == LocalSpec => []LocalTypeOK
<1>1. Shaped => LocalTypeOK
  BY DEF Shaped
<1> QED
  BY <1>1, AlwaysShaped, PTL
-----------------------------------------------------------------------------
(***************************************************************************)
(* Commands that do not overlap, and readers that overlap one writer.      *)
(***************************************************************************)

\* Where a command does not change what is on the disk, and where it does.
LEMMA WhoWrites ==
    ASSUME Shaped, Ordered, Disjoint, NEW p \in Procs,
           \/ LoadSalt(p) \/ WriteSalt(p) \/ MigrateIfNeeded(p) \/ ReadStore(p)
           \/ OpenTmp(p) \/ FillTmp(p) \/ RenameTmp(p) \/ WriteMetadata(p) \/ RenameMetadata(p)
           \/ Answer(p) \/ Crash(p)
    PROVE  /\ UNCHANGED disk \/ (Writer(p) /\ (overlap = "readers" => UNCHANGED salt))
           /\ ~Idle(p)
<1> USE LocalAssumption
<1>1. Readable /\ Knows(p) /\ OldSalt \in Salts
  BY DEF Ordered, Salts, OldSalt
<1>2. ~Idle(p)
  BY DEF LoadSalt, WriteSalt, MigrateIfNeeded, ReadStore, OpenTmp, FillTmp, RenameTmp, WriteMetadata,
         RenameMetadata, Answer, Crash, At, Idle
<1>3. overlap = "none" => Writer(p)
  BY <1>2 DEF Writer
<1>4. CASE MigrateIfNeeded(p) \/ ReadStore(p) \/ Answer(p) \/ Crash(p)
  BY <1>2, <1>4 DEF MigrateIfNeeded, ReadStore, Answer, Crash
<1>5. CASE LoadSalt(p) \/ WriteSalt(p)
  BY <1>1, <1>2, <1>3, <1>5 DEF LoadSalt, WriteSalt, At, Readable, Knows, disk, Disjoint
<1>6. CASE OpenTmp(p) \/ FillTmp(p) \/ RenameTmp(p) \/ WriteMetadata(p) \/ RenameMetadata(p)
  <2>1. overlap = "readers" => proc[p].op # "read"
    BY <1>1, <1>6 DEF Knows, OpenTmp, FillTmp, RenameTmp, WriteMetadata, RenameMetadata, At
  <2>2. UNCHANGED salt
    BY <1>6 DEF OpenTmp, FillTmp, RenameTmp, WriteMetadata, RenameMetadata
  <2> QED
    BY <1>2, <2>1, <2>2 DEF Writer, Disjoint
<1> QED
  BY <1>4, <1>5, <1>6

\* What a process knows stays so while another one makes a step.
LEMMA OthersKnow ==
    ASSUME Shaped, Ordered, Disjoint, NEW p \in Procs, ~Idle(p), NEW q \in Procs \ {p},
           proc'[q] = proc[q], UNCHANGED overlap, Readable',
           UNCHANGED disk \/ (Writer(p) /\ (overlap = "readers" => UNCHANGED salt))
    PROVE  Knows(q)'
<1>1. Knows(q) /\ OneWriter
  BY DEF Ordered
<1>2. CASE UNCHANGED disk
  BY <1>1, <1>2 DEF disk, Knows, Contained, InStore, Migrating
<1>3. CASE Writer(p) /\ (overlap = "readers" => UNCHANGED salt)
  <2>1. ~Writer(q)
    BY <1>1, <1>3 DEF OneWriter
  <2>2. CASE overlap = "none"
    <3>1. proc[q].pc = "idle"
      BY <2>1, <2>2 DEF Writer, Idle
    <3> QED
      BY <3>1 DEF Knows
  <2>3. CASE overlap = "readers"
    <3>1. proc[q].pc = "idle" \/ proc[q].op = "read"
      BY <2>1 DEF Writer, Idle
    <3>2. proc'[q].pc \in {"idle", "salt", "migrate", "command", "answer"}
      BY <1>1, <2>3, <3>1 DEF Knows
    <3>3. salt' = salt /\ salt' = OldSalt /\ (InStore.seal)' = OldSalt
      BY <1>3, <2>3 DEF Readable
    <3> QED
      BY <1>1, <2>3, <3>2, <3>3 DEF Knows
  <2> QED
    BY <2>2, <2>3 DEF Disjoint
<1> QED
  BY <1>2, <1>3

\* A step of a command keeps the store readable, and its process knows what it did.
LEMMA CommandKnows ==
    ASSUME Shaped, Ordered, Disjoint, NEW p \in Procs,
           \/ LoadSalt(p) \/ WriteSalt(p) \/ MigrateIfNeeded(p) \/ ReadStore(p)
           \/ OpenTmp(p) \/ FillTmp(p) \/ RenameTmp(p) \/ WriteMetadata(p) \/ RenameMetadata(p)
           \/ Answer(p) \/ Crash(p)
    PROVE  /\ Readable' /\ Knows(p)'
           /\ proc'[p].pc = "idle" \/ proc'[p].op = proc[p].op
<1> USE LocalAssumption
<1>1. /\ Readable /\ Knows(p) /\ OldSalt \in Salts
      /\ overlap' = overlap
  BY FilesStayThere DEF Ordered, Salts, OldSalt
<1>2. /\ proc[p] \in CommandRecords /\ ShapedCommand(proc[p])
      /\ files \in [Files -> SealedFiles \union {Cut, Missing}]
      /\ store \in {0} \union Files /\ 0 \notin Files
      /\ salt \in Salts \union {Missing, Cut}
      /\ store # 0 => files[store] # Missing
      /\ tmp # 0 => files[tmp] # Missing /\ tmp # store
  BY Shapes DEF Files, Shaped, FilesThere
<1>3. /\ store # 0 => /\ files[store] \in SealedFiles
                      /\ files[store].seal = Legacy \/ (salt \in Salts /\ files[store].seal = salt)
      /\ overlap = "readers" => salt = OldSalt /\ store # 0 /\ files[store].seal = OldSalt
  BY <1>1 DEF Readable, InStore
<1>4. ASSUME UNCHANGED disk
      PROVE  Readable' /\ Contained' = Contained /\ InStore' = InStore
  BY <1>1, <1>4 DEF Readable, disk, InStore, Contained
<1>5. \A c : Becomes(p, c) => proc'[p] = c
  BY Shapes DEF Becomes
<1>6. ASSUME NEW result, Ends(p, result)
      PROVE  proc'[p].pc = "idle" /\ Knows(p)'
  <2>1. proc'[p] = NoCommand(result)
    BY <1>5, <1>6, StepsBecome
  <2>2. proc'[p].pc = "idle"
    BY <2>1 DEF NoCommand
  <2> QED
    BY <2>2 DEF Knows
<1>18. ASSUME NEW pc, Goes(p, pc)
       PROVE  proc'[p].pc = pc /\ proc'[p].salt = proc[p].salt /\ proc'[p].op = proc[p].op
  <2>1. proc'[p] = [proc[p] EXCEPT !.pc = pc]
    BY <1>5, <1>18, StepsBecome
  <2> QED
    BY <1>2, <2>1 DEF CommandRecords
<1>7. CASE LoadSalt(p)
  <2>1. CASE salt \in Salts
    <3>1. proc'[p] = [proc[p] EXCEPT !.pc = "migrate", !.salt = salt] /\ UNCHANGED disk
      BY <1>5, <1>7, <2>1, StepsBecome DEF LoadSalt, disk
    <3>2. proc'[p].pc = "migrate" /\ proc'[p].salt = salt /\ proc'[p].op = proc[p].op
      BY <1>2, <3>1 DEF CommandRecords
    <3> QED
      BY <1>1, <1>4, <2>1, <3>1, <3>2 DEF Knows, disk
  <2>2. CASE salt \notin Salts
    <3>1. /\ proc'[p] = [proc[p] EXCEPT !.pc = "newSalt"]
          /\ salt' = Cut /\ UNCHANGED <<files, store, tmp, meta, metaTmp>>
      BY <1>5, <1>7, <2>2, StepsBecome DEF LoadSalt
    <3>2. proc'[p].pc = "newSalt" /\ proc'[p].op = proc[p].op
      BY <1>2, <3>1 DEF CommandRecords
    <3>3. overlap # "readers"
      BY <1>1, <1>3, <2>2
    <3> QED
      BY <1>1, <1>3, <2>2, <3>1, <3>2, <3>3 DEF Knows, Readable, InStore
  <2> QED
    BY <2>1, <2>2
<1>8. CASE WriteSalt(p)
  <2>1. salt \notin Salts
    BY <1>1, <1>8 DEF WriteSalt, At, Knows
  <2>2. /\ proc'[p] = [proc[p] EXCEPT !.pc = "migrate"]
        /\ salt' = proc[p].salt /\ UNCHANGED <<files, store, tmp, meta, metaTmp>>
    BY <1>5, <1>8, StepsBecome DEF WriteSalt
  <2>3. /\ proc'[p].pc = "migrate" /\ proc'[p].salt = proc[p].salt /\ proc'[p].op = proc[p].op
        /\ proc[p].salt \in Salts
    BY <1>2, <2>2 DEF CommandRecords
  <2>4. overlap # "readers"
    BY <1>1, <1>3, <2>1
  <2> QED
    BY <1>1, <1>3, <2>1, <2>2, <2>3, <2>4 DEF Knows, Readable, InStore
<1>9. CASE MigrateIfNeeded(p)
  <2>1. UNCHANGED disk /\ salt \in Salts /\ proc[p].salt = salt /\ proc[p].seen = Missing
    BY <1>1, <1>2, <1>9 DEF MigrateIfNeeded, At, Knows, ShapedCommand
  <2>2. CASE store # 0 /\ Decrypts(Legacy)
    <3>1. proc'[p] = [proc[p] EXCEPT !.pc = "open", !.write = InStore.map]
      BY <1>5, <1>9, <2>2, StepsBecome
    <3>2. /\ proc'[p].pc = "open" /\ proc'[p].salt = salt /\ proc'[p].op = proc[p].op
          /\ proc'[p].seen = Missing /\ proc'[p].write = Contained
      BY <1>2, <2>1, <2>2, <3>1 DEF CommandRecords, Contained
    <3>3. overlap # "readers"
      BY <1>1, <1>3, <2>2 DEF Decrypts, InStore
    <3>4. Readable' /\ Contained' = Contained /\ salt' = salt /\ store' = store
      BY <1>4, <2>1 DEF disk
    <3> QED
      BY <1>1, <2>1, <2>2, <3>2, <3>3, <3>4 DEF Knows, Migrating
  <2>3. CASE ~(store # 0 /\ Decrypts(Legacy))
    <3>1. proc'[p] = [proc[p] EXCEPT !.pc = "command"]
      BY <1>5, <1>9, <2>3, StepsBecome DEF MigrateIfNeeded
    <3>2. /\ proc'[p].pc = "command" /\ proc'[p].salt = salt /\ proc'[p].op = proc[p].op
      BY <1>2, <2>1, <3>1 DEF CommandRecords
    <3>3. store = 0 \/ InStore.seal = salt
      BY <1>2, <1>3, <2>3 DEF Decrypts, InStore
    <3>4. Readable' /\ InStore' = InStore /\ salt' = salt /\ store' = store
      BY <1>4, <2>1 DEF disk
    <3> QED
      BY <1>1, <2>1, <3>2, <3>3, <3>4 DEF Knows
  <2> QED
    BY <2>2, <2>3
<1>10. CASE ReadStore(p)
  <2>1. /\ UNCHANGED disk /\ salt \in Salts /\ proc[p].salt = salt
        /\ store = 0 \/ InStore.seal = salt
    BY <1>1, <1>10 DEF ReadStore, At, Knows
  <2>2. store # 0 => Decrypts(proc[p].salt)
    BY <1>3, <2>1 DEF Decrypts, InStore
  <2>3. Readable' /\ Contained' = Contained /\ InStore' = InStore /\ salt' = salt /\ store' = store
    BY <1>4, <2>1 DEF disk
  <2>4. \/ Becomes(p, [proc[p] EXCEPT !.pc = "answer", !.seen = Contained])
        \/ /\ proc[p].op # "read" /\ Contained \in Maps
           /\ Becomes(p, [proc[p] EXCEPT !.pc = "open", !.seen = Contained, !.write = NewContents(p)])
    BY <1>10, <2>2, ReadBecomes
  <2>5. CASE Becomes(p, [proc[p] EXCEPT !.pc = "answer", !.seen = Contained])
    <3>1. proc'[p].pc = "answer" /\ proc'[p].salt = salt /\ proc'[p].op = proc[p].op
      BY <1>2, <1>5, <2>1, <2>5 DEF CommandRecords
    <3> QED
      BY <1>1, <2>1, <2>3, <3>1 DEF Knows
  <2>6. CASE /\ proc[p].op # "read" /\ Contained \in Maps
             /\ Becomes(p, [proc[p] EXCEPT !.pc = "open", !.seen = Contained, !.write = NewContents(p)])
    <3>1. /\ proc'[p].pc = "open" /\ proc'[p].salt = salt /\ proc'[p].op = proc[p].op
          /\ proc'[p].seen = Contained /\ proc'[p].write = NewContents(p)
          /\ proc'[p].key = proc[p].key /\ proc'[p].value = proc[p].value
      BY <1>2, <1>5, <2>1, <2>6 DEF CommandRecords
    <3>2. ~Migrating(p)'
      BY <2>6, <3>1 DEF Migrating
    <3> QED
      BY <1>1, <2>1, <2>3, <2>6, <3>1, <3>2 DEF Knows, NewContents
  <2> QED
    BY <2>4, <2>5, <2>6
\* The three steps of a write.
<1>11. ASSUME proc[p].pc \in {"open", "fill", "rename"}
       PROVE  /\ salt \in Salts /\ proc[p].salt = salt
              /\ overlap = "readers" => proc[p].op # "read"
              /\ Migrating(p) => store # 0 /\ proc[p].write = Contained
              /\ ~Migrating(p) =>
                    /\ store = 0 \/ InStore.seal = salt
                    /\ proc[p].write = [Contained EXCEPT ![proc[p].key] =
                                           IF proc[p].op = "store" THEN proc[p].value ELSE Missing]
  BY <1>1, <1>11 DEF Knows
<1>12. ASSUME UNCHANGED <<salt, store, meta, metaTmp>>, store # 0 => files'[store] = files[store]
       PROVE  Readable' /\ Contained' = Contained /\ (store # 0 => InStore' = InStore)
  BY <1>1, <1>12 DEF Readable, InStore, Contained
<1>13. CASE OpenTmp(p)
  <2>1. /\ proc'[p] = [proc[p] EXCEPT !.pc = "fill", !.file = TmpFile]
        /\ files' = [files EXCEPT ![TmpFile] = Cut] /\ tmp' = TmpFile
        /\ UNCHANGED <<salt, store, meta, metaTmp>> /\ proc[p].pc = "open"
    BY <1>5, <1>13, StepsBecome DEF OpenTmp, At
  <2>2. TmpFile \in Files /\ TmpFile # store
    BY TmpFileFound
  <2>3. /\ proc'[p].pc = "fill" /\ proc'[p].file = TmpFile
        /\ proc'[p].salt = proc[p].salt /\ proc'[p].op = proc[p].op
        /\ proc'[p].seen = proc[p].seen /\ proc'[p].write = proc[p].write
        /\ proc'[p].key = proc[p].key /\ proc'[p].value = proc[p].value
    BY <1>2, <2>1 DEF CommandRecords
  <2>4. files'[TmpFile] = Cut /\ (store # 0 => files'[store] = files[store])
    BY <1>2, <2>1, <2>2
  <2>5. Readable' /\ Contained' = Contained /\ (store # 0 => InStore' = InStore)
    BY <1>12, <2>1, <2>4
  <2> HIDE DEF TmpFile
  <2> QED
    BY <1>1, <1>11, <2>1, <2>3, <2>4, <2>5 DEF Knows, Migrating
<1>14. CASE FillTmp(p)
  <2>1. tmp = proc[p].file /\ files[tmp] = Cut /\ tmp \in Files /\ proc[p].pc = "fill"
    BY <1>1, <1>2, <1>14 DEF Knows, FillTmp, At, ShapedCommand
  <2>2. /\ proc'[p] = [proc[p] EXCEPT !.pc = "rename"]
        /\ files' = [files EXCEPT ![tmp] = Sealed(proc[p].salt, proc[p].write)]
        /\ UNCHANGED <<salt, store, tmp, meta, metaTmp>>
    BY <1>5, <1>14, <2>1, StepsBecome DEF FillTmp
  <2>3. /\ proc'[p].pc = "rename" /\ proc'[p].file = proc[p].file
        /\ proc'[p].salt = proc[p].salt /\ proc'[p].op = proc[p].op
        /\ proc'[p].seen = proc[p].seen /\ proc'[p].write = proc[p].write
        /\ proc'[p].key = proc[p].key /\ proc'[p].value = proc[p].value
    BY <1>2, <2>2 DEF CommandRecords
  <2>4. /\ files'[tmp] = Sealed(proc[p].salt, proc[p].write)
        /\ store # 0 => files'[store] = files[store]
    BY <1>2, <2>1, <2>2
  <2>5. Readable' /\ Contained' = Contained /\ (store # 0 => InStore' = InStore)
    BY <1>12, <2>2, <2>4
  <2> QED
    BY <1>1, <1>11, <2>1, <2>2, <2>3, <2>4, <2>5 DEF Knows, Migrating
<1>15. CASE RenameTmp(p)
  <2>1. /\ tmp = proc[p].file /\ files[tmp] = Sealed(salt, proc[p].write) /\ tmp \in Files
        /\ proc[p].pc = "rename" /\ proc[p].write \in Maps
    BY <1>1, <1>2, <1>15 DEF Knows, RenameTmp, At, ShapedCommand
  <2>2. /\ store' = tmp /\ tmp' = 0
        /\ files' = [f \in Files |-> IF f = store /\ f \notin Open THEN Missing ELSE files[f]]
        /\ Goes(p, IF Migrating(p) THEN "command" ELSE "metadata")
        /\ UNCHANGED <<salt, meta, metaTmp>>
    BY <1>2, <1>15, <2>1 DEF RenameTmp
  <2>3. /\ proc'[p].pc = IF Migrating(p) THEN "command" ELSE "metadata"
        /\ proc'[p].salt = proc[p].salt /\ proc'[p].op = proc[p].op
    BY <1>18, <2>2
  <2>4. files'[store'] = Sealed(salt, proc[p].write) /\ store' # 0
    BY <1>2, <2>1, <2>2
  <2>5. Readable'
    BY <1>1, <1>3, <1>11, <2>1, <2>2, <2>4 DEF Readable, InStore, Sealed, SealedFiles
  <2>6. (InStore.seal)' = salt
    BY <2>4 DEF InStore, Sealed
  <2> QED
    BY <1>1, <1>11, <2>1, <2>2, <2>3, <2>5, <2>6 DEF Knows
<1>16. CASE WriteMetadata(p) \/ RenameMetadata(p)
  <2>1. proc[p].pc \in {"metadata", "renameMetadata"} /\ salt \in Salts /\ proc[p].salt = salt
        /\ UNCHANGED <<salt, files, store, tmp>>
    BY <1>1, <1>16 DEF WriteMetadata, RenameMetadata, At, Knows
  <2>2. Readable'
    BY <1>1, <2>1 DEF Readable, InStore
  <2>3. \/ Goes(p, "renameMetadata") /\ metaTmp' = TRUE
        \/ Goes(p, "answer")
    BY <1>1, <1>16 DEF WriteMetadata, RenameMetadata, At, Knows
  <2>5. overlap = "readers" => proc[p].op # "read"
    BY <1>1, <2>1 DEF Knows
  <2> QED
    BY <1>1, <2>1, <2>2, <2>3, <2>5, <1>18 DEF Knows
<1>17. CASE Answer(p) \/ Crash(p)
  BY <1>4, <1>6, <1>17 DEF Answer, Crash
<1> QED
  BY <1>7, <1>8, <1>9, <1>10, <1>13, <1>14, <1>15, <1>16, <1>17

LEMMA OrderedStep ==
    ASSUME Shaped, Ordered, [LocalNext]_localVars
    PROVE  Ordered'
<1> SUFFICES ASSUME Disjoint'
             PROVE  OneWriter' /\ Readable' /\ \A q \in Procs : Knows(q)'
  BY DEF Ordered
<1>1. CASE UNCHANGED localVars
  BY <1>1 DEF localVars, disk, Ordered, Disjoint, OneWriter, Writer, Idle, Readable, Knows, Contained,
     InStore, Migrating
<1>2. ASSUME NEW p \in Procs, NEW op \in {"store", "delete", "read"},
             NEW k \in Keys \union {Missing}, NEW v \in Values \union {Missing}, Start(p, op, k, v)
      PROVE  OneWriter' /\ Readable' /\ \A q \in Procs : Knows(q)'
  <2>1. PICK c : /\ Becomes(p, c) /\ ShapedCommand(c) /\ c.pc = "salt" /\ c.op = op
    BY <1>2, StartBecomes
  <2>2. proc'[p] = c /\ \A q \in Procs \ {p} : proc'[q] = proc[q]
    BY <2>1, BecomesShaped
  <2>3. UNCHANGED <<overlap, salt, files, store, tmp, meta, metaTmp>> /\ MayStart(op)
    BY <1>2 DEF Start, disk
  <2>4. Disjoint /\ OneWriter /\ Readable /\ \A q \in Procs : Knows(q)
    BY <2>3 DEF Ordered, Disjoint
  <2>5. ASSUME NEW q \in Procs \ {p}
        PROVE  Knows(q)'
    BY <2>2, <2>3, <2>4 DEF Knows, Contained, InStore, Migrating
  <2>6. Knows(p)'
    BY <2>1, <2>2 DEF Knows
  <2>7. OneWriter'
    <3>1. ASSUME NEW q \in Procs \ {p}
          PROVE  Writer(q)' <=> Writer(q)
      BY <2>2, <2>3 DEF Writer, Idle
    <3>2. ASSUME NEW q \in Procs \ {p}, Writer(p)'
          PROVE  ~Writer(q)
      <4>1. CASE overlap = "none"
        BY <2>3, <4>1 DEF MayStart, Writer
      <4>2. CASE overlap = "readers"
        BY <2>1, <2>2, <2>3, <3>2, <4>2 DEF MayStart, Writer
      <4> QED
        BY <2>4, <4>1, <4>2 DEF Disjoint
    <3> QED
      BY <2>4, <3>1, <3>2 DEF OneWriter
  <2>8. Readable'
    BY <2>3, <2>4 DEF Readable, InStore
  <2> QED
    BY <2>5, <2>6, <2>7, <2>8
<1>3. ASSUME NEW p \in Procs,
             \/ LoadSalt(p) \/ WriteSalt(p) \/ MigrateIfNeeded(p) \/ ReadStore(p)
             \/ OpenTmp(p) \/ FillTmp(p) \/ RenameTmp(p) \/ WriteMetadata(p) \/ RenameMetadata(p)
             \/ Answer(p) \/ Crash(p)
      PROVE  OneWriter' /\ Readable' /\ \A q \in Procs : Knows(q)'
  <2>1. UNCHANGED overlap
    BY <1>3, FilesStayThere
  <2>2. Disjoint /\ OneWriter
    BY <2>1 DEF Ordered, Disjoint
  <2>3. /\ Readable' /\ Knows(p)'
        /\ proc'[p].pc = "idle" \/ proc'[p].op = proc[p].op
    BY <1>3, <2>2, CommandKnows
  <2>4. /\ UNCHANGED disk \/ (Writer(p) /\ (overlap = "readers" => UNCHANGED salt))
        /\ ~Idle(p)
    BY <1>3, <2>2, WhoWrites
  <2>5. PICK c : Becomes(p, c) /\ ShapedCommand(c)
    BY <1>3, CommandStaysShaped
  <2>6. \A q \in Procs \ {p} : proc'[q] = proc[q]
    BY <2>5, BecomesShaped
  <2>7. ASSUME NEW q \in Procs \ {p}
        PROVE  Knows(q)'
    BY <2>1, <2>2, <2>3, <2>4, <2>6, OthersKnow
  <2>8. \A q \in Procs : Writer(q)' => Writer(q)
    BY <2>1, <2>3, <2>4, <2>6 DEF Writer, Idle
  <2>9. OneWriter'
    BY <2>2, <2>8 DEF OneWriter
  <2> QED
    BY <2>3, <2>7, <2>9
<1> QED
  BY <1>1, <1>2, <1>3 DEF LocalNext

LEMMA ReadableInitially == LocalInit => Readable
<1> SUFFICES ASSUME LocalInit
             PROVE  Readable
  OBVIOUS
<1>1. PICK start \in Starts, map \in Maps :
        /\ overlap = "readers" => start = "current"
        /\ salt = IF start = "current" THEN OldSalt ELSE Missing
        /\ files = [f \in Files |->
              IF start = "none" \/ f # 1 THEN Missing
              ELSE Sealed(IF start = "legacy" THEN Legacy ELSE OldSalt, map)]
        /\ store = (IF start = "none" THEN 0 ELSE 1)
  BY DEF LocalInit
<1>2. 1 \in Files /\ OldSalt \in Salts
  BY LocalAssumption, FS_CardinalityType DEF Files, OldSalt, Salts
<1>3. Sealed(Legacy, map) \in SealedFiles /\ Sealed(OldSalt, map) \in SealedFiles
  BY <1>2 DEF Sealed, SealedFiles
<1>4. CASE start = "none"
  BY <1>1, <1>4 DEF Readable
<1>5. CASE start = "legacy"
  <2>1. files[1] = Sealed(Legacy, map) /\ store = 1 /\ overlap # "readers"
    BY <1>1, <1>2, <1>5
  <2> QED
    BY <1>3, <2>1 DEF Readable, InStore, Sealed
<1>6. CASE start = "current"
  <2>1. files[1] = Sealed(OldSalt, map) /\ store = 1 /\ salt = OldSalt
    BY <1>1, <1>2, <1>6
  <2> QED
    BY <1>2, <1>3, <2>1 DEF Readable, InStore, Sealed
<1> QED
  BY <1>4, <1>5, <1>6, LocalAssumption

LEMMA OrderedInitially == LocalInit => Ordered
<1> SUFFICES ASSUME LocalInit
             PROVE  OneWriter /\ Readable /\ \A q \in Procs : Knows(q)
  BY DEF Ordered
<1>1. \A p \in Procs : proc[p].pc = "idle"
  BY DEF LocalInit, NoCommand
<1> QED
  BY <1>1, ReadableInitially DEF OneWriter, Writer, Idle, Knows

LEMMA AlwaysOrdered == LocalSpec => []Ordered
<1>1. Shaped /\ Ordered /\ [LocalNext]_localVars => Ordered'
  BY OrderedStep
<1> QED
  BY <1>1, OrderedInitially, AlwaysShaped, PTL DEF LocalSpec

\* A command as the commands of the promise are written.
CallOf(c) ==
    [op |-> c.op, key |-> c.key, value |-> c.value,
     seen |-> IF c.op = "read" THEN c.seen ELSE Missing,
     state |-> CASE c.pc = "idle" -> c.result
                 [] c.pc \in {"metadata", "renameMetadata", "answer"} -> "applied"
                 [] OTHER -> "asked"]

LEMMA CallBecomes ==
    ASSUME Shaped, NEW p \in Procs, NEW c, ShapedCommand(c), Becomes(p, c)
    PROVE  /\ CommandCalls[p] = CallOf(proc[p])
           /\ CommandCalls' = [CommandCalls EXCEPT ![p] = CallOf(c)]
<1>1. CommandCalls = [q \in Procs |-> CallOf(proc[q])]
  BY DEF CommandCalls, CallState, At, CallOf
<1>2. CommandCalls' = [q \in Procs |-> CallOf(proc'[q])]
  BY DEF CommandCalls, CallState, At, CallOf
<1>3. proc'[p] = c /\ \A q \in Procs \ {p} : proc'[q] = proc[q]
  BY BecomesShaped
<1> HIDE DEF CallOf
<1> QED
  BY <1>1, <1>2, <1>3

BeforeEffect == {"salt", "newSalt", "migrate", "command", "open", "fill", "rename"}
AfterEffect == {"metadata", "renameMetadata", "answer"}

\* Some fields of the command of p stay as they are.
SameCall(p) ==
    /\ proc'[p].op = proc[p].op /\ proc'[p].key = proc[p].key /\ proc'[p].value = proc[p].value
    /\ proc[p].op = "read" => proc'[p].seen = proc[p].seen

\* A step that does not show in its call.
LEMMA CallStays ==
    ASSUME Shaped, NEW p \in Procs, \E c : Becomes(p, c) /\ ShapedCommand(c), SameCall(p),
           \/ proc[p].pc \in BeforeEffect /\ proc'[p].pc \in BeforeEffect
           \/ proc[p].pc \in AfterEffect /\ proc'[p].pc \in AfterEffect
    PROVE  UNCHANGED CommandCalls
<1>1. PICK c : Becomes(p, c) /\ ShapedCommand(c)
  OBVIOUS
<1>2. proc'[p] = c
  BY <1>1, BecomesShaped
<1>3. c.op = proc[p].op /\ c.key = proc[p].key /\ c.value = proc[p].value
  BY <1>2 DEF SameCall
<1>4. (IF c.op = "read" THEN c.seen ELSE Missing)
        = (IF proc[p].op = "read" THEN proc[p].seen ELSE Missing)
  BY <1>2 DEF SameCall
<1>5. CallOf(c).state = CallOf(proc[p]).state
  BY <1>2 DEF BeforeEffect, AfterEffect, CallOf
<1>6. CallOf(c) = CallOf(proc[p])
  BY <1>3, <1>4, <1>5 DEF CallOf
<1>7. /\ CommandCalls[p] = CallOf(c)
      /\ CommandCalls' = [CommandCalls EXCEPT ![p] = CallOf(c)]
  BY <1>1, <1>6, CallBecomes
<1>8. CommandCalls = [q \in Procs |-> CommandCalls[q]]
  BY DEF CommandCalls
<1> HIDE DEF CallOf
<1> QED
  BY <1>7, <1>8

\* What a command makes of the contents.
Effect(p) ==
    CASE proc[p].op = "store"  -> [Contained EXCEPT ![proc[p].key] = proc[p].value]
      [] proc[p].op = "delete" -> [Contained EXCEPT ![proc[p].key] = Missing]
      [] proc[p].op = "read"   -> Contained

\* What a step of p is to the promise: nothing, the moment it takes effect, its answer, its end.
Unseen == UNCHANGED <<Contained, CommandCalls>>

\* A call that has taken effect, on these contents.
Took(called, found) ==
    [called EXCEPT !.state = "applied", !.seen = IF called.op = "read" THEN found ELSE Missing]

Applied(p) ==
    /\ CallOf(proc[p]).state = "asked"
    /\ Contained' = Effect(p)
    /\ CommandCalls' = [CommandCalls EXCEPT ![p] = Took(CallOf(proc[p]), Contained)]

Ended(p, states, result) ==
    /\ CallOf(proc[p]).state \in states
    /\ Contained' = Contained
    /\ CommandCalls' = [CommandCalls EXCEPT ![p] = CallOf(NoCommand(result))]

\* The steps that are not seen, by what they make of the command of p.
LEMMA UnseenStep ==
    ASSUME Shaped, NEW p \in Procs,
           \/ LoadSalt(p) \/ WriteSalt(p) \/ MigrateIfNeeded(p) \/ OpenTmp(p) \/ FillTmp(p)
           \/ WriteMetadata(p) /\ \E pc \in AfterEffect : Goes(p, pc)
           \/ RenameMetadata(p) /\ \E pc \in AfterEffect : Goes(p, pc)
           \/ RenameTmp(p) /\ Goes(p, "command")
    PROVE  UNCHANGED CommandCalls
<1>1. proc[p] \in CommandRecords /\ ShapedCommand(proc[p])
  BY Shapes
<1>2. \E c : Becomes(p, c) /\ ShapedCommand(c)
  BY CommandStaysShaped
<1>3. \A c : Becomes(p, c) => proc'[p] = c
  BY Shapes DEF Becomes
<1>4. ASSUME NEW pc, Goes(p, pc)
      PROVE  SameCall(p) /\ proc'[p].pc = pc
  <2>1. proc'[p] = [proc[p] EXCEPT !.pc = pc]
    BY <1>3, <1>4, StepsBecome
  <2> QED
    BY <1>1, <2>1 DEF CommandRecords, SameCall
<1>5. CASE LoadSalt(p)
  <2>1. CASE salt \in Salts
    <3>1. proc'[p] = [proc[p] EXCEPT !.pc = "migrate", !.salt = salt]
      BY <1>3, <1>5, <2>1, StepsBecome
    <3>2. SameCall(p) /\ proc'[p].pc = "migrate"
      BY <1>1, <3>1 DEF CommandRecords, SameCall
    <3> QED
      BY <1>2, <1>5, <3>2, CallStays DEF BeforeEffect, LoadSalt, At
  <2>2. CASE salt \notin Salts
    BY <1>2, <1>4, <1>5, <2>2, CallStays DEF BeforeEffect, LoadSalt, At
  <2> QED
    BY <2>1, <2>2
<1>6. CASE WriteSalt(p)
  BY <1>2, <1>4, <1>6, CallStays DEF BeforeEffect, WriteSalt, At
<1>7. CASE MigrateIfNeeded(p)
  <2>1. CASE store # 0 /\ Decrypts(Legacy)
    <3>1. proc'[p] = [proc[p] EXCEPT !.pc = "open", !.write = InStore.map]
      BY <1>3, <1>7, <2>1, StepsBecome
    <3>2. SameCall(p) /\ proc'[p].pc = "open"
      BY <1>1, <3>1 DEF CommandRecords, SameCall
    <3> QED
      BY <1>2, <1>7, <3>2, CallStays DEF BeforeEffect, MigrateIfNeeded, At
  <2>2. CASE ~(store # 0 /\ Decrypts(Legacy))
    BY <1>2, <1>4, <1>7, <2>2, CallStays DEF BeforeEffect, MigrateIfNeeded, At
  <2> QED
    BY <2>1, <2>2
<1>8. CASE OpenTmp(p)
  <2>1. proc'[p] = [proc[p] EXCEPT !.pc = "fill", !.file = TmpFile]
    BY <1>3, <1>8, StepsBecome
  <2>2. SameCall(p) /\ proc'[p].pc = "fill"
    BY <1>1, <2>1 DEF CommandRecords, SameCall
  <2> QED
    BY <1>2, <1>8, <2>2, CallStays DEF BeforeEffect, OpenTmp, At
<1>9. CASE FillTmp(p)
  BY <1>2, <1>4, <1>9, CallStays DEF BeforeEffect, FillTmp, At
<1>10. CASE \/ WriteMetadata(p) /\ \E pc \in AfterEffect : Goes(p, pc)
            \/ RenameMetadata(p) /\ \E pc \in AfterEffect : Goes(p, pc)
  <2>1. SameCall(p) /\ proc'[p].pc \in AfterEffect
    BY <1>4, <1>10
  <2>2. proc[p].pc \in AfterEffect
    BY <1>10 DEF WriteMetadata, RenameMetadata, At, AfterEffect
  <2> QED
    BY <1>2, <2>1, <2>2, CallStays
<1>11. CASE RenameTmp(p) /\ Goes(p, "command")
  BY <1>2, <1>4, <1>11, CallStays DEF BeforeEffect, RenameTmp, At
<1> QED
  BY <1>5, <1>6, <1>7, <1>8, <1>9, <1>10, <1>11

\* What the call of a command becomes when it takes effect.
LEMMA CallApplied ==
    ASSUME NEW b, NEW c, NEW s, b.pc \in BeforeEffect, c.pc \in AfterEffect,
           c.op = b.op, c.key = b.key, c.value = b.value, b.op = "read" => c.seen = s,
           b.seen = Missing \/ b.op # "read"
    PROVE  /\ CallOf(b).state = "asked"
           /\ CallOf(c) = Took(CallOf(b), s)
<1>1. CallOf(b) = [op |-> b.op, key |-> b.key, value |-> b.value, seen |-> Missing, state |-> "asked"]
  <2>1. (IF b.op = "read" THEN b.seen ELSE Missing) = Missing
    OBVIOUS
  <2>2. CallOf(b).state = "asked"
    BY DEF CallOf, BeforeEffect
  <2>3. CallOf(b) = [op |-> b.op, key |-> b.key, value |-> b.value,
                     seen |-> IF b.op = "read" THEN b.seen ELSE Missing, state |-> CallOf(b).state]
    BY DEF CallOf
  <2> QED
    BY <2>1, <2>2, <2>3
<1>2. CallOf(c) = [op |-> b.op, key |-> b.key, value |-> b.value,
                   seen |-> IF b.op = "read" THEN s ELSE Missing, state |-> "applied"]
  <2>1. (IF c.op = "read" THEN c.seen ELSE Missing) = (IF b.op = "read" THEN s ELSE Missing)
    OBVIOUS
  <2>2. CallOf(c).state = "applied"
    BY DEF CallOf, AfterEffect
  <2>3. CallOf(c) = [op |-> c.op, key |-> c.key, value |-> c.value,
                     seen |-> IF c.op = "read" THEN c.seen ELSE Missing, state |-> CallOf(c).state]
    BY DEF CallOf
  <2> QED
    BY <2>1, <2>2, <2>3
<1> DEFINE called == [op |-> b.op, key |-> b.key, value |-> b.value, seen |-> Missing, state |-> "asked"]
           x == IF b.op = "read" THEN s ELSE Missing
<1>3. Took(called, s) = [called EXCEPT !.state = "applied", !.seen = x]
  BY DEF Took
<1>4. [called EXCEPT !.state = "applied", !.seen = x] =
         [op |-> b.op, key |-> b.key, value |-> b.value, seen |-> x, state |-> "applied"]
  <2> HIDE DEF x
  <2> DEFINE done == [op |-> b.op, key |-> b.key, value |-> b.value, seen |-> Missing, state |-> "applied"]
  <2>1. [called EXCEPT !.state = "applied"] = done
    OBVIOUS
  <2>2. [done EXCEPT !.seen = x] =
           [op |-> b.op, key |-> b.key, value |-> b.value, seen |-> x, state |-> "applied"]
    OBVIOUS
  <2> HIDE DEF called, done
  <2> QED
    BY <2>1, <2>2
<1>5. CallOf(b) = called /\ CallOf(c) = Took(called, s)
  BY <1>1, <1>2, <1>3, <1>4
<1> QED
  BY <1>5

\* The moments a command takes effect: what it read, and the rename of what it wrote.
LEMMA ReadApplies ==
    ASSUME Shaped, Ordered, Disjoint, NEW p \in Procs, ReadStore(p)
    PROVE  Unseen \/ Applied(p)
<1> USE LocalAssumption
<1>1. proc[p] \in CommandRecords /\ ShapedCommand(proc[p]) /\ At(p, "command") /\ proc[p].seen = Missing
  BY Shapes DEF ReadStore, At, ShapedCommand
<1>2. Readable /\ salt \in Salts /\ proc[p].salt = salt /\ (store = 0 \/ InStore.seal = salt)
  BY <1>1 DEF Ordered, Knows, At
<1>3. store # 0 => Decrypts(proc[p].salt)
  BY <1>2 DEF Decrypts, Readable
<1>4. Contained' = Contained
  BY DEF ReadStore, disk, Contained, InStore
<1>5. \A c : Becomes(p, c) => proc'[p] = c
  BY Shapes DEF Becomes
<1>6. CASE /\ proc[p].op = "read" \/ (proc[p].op = "delete" /\ Contained[proc[p].key] = Missing)
           /\ Becomes(p, [proc[p] EXCEPT !.pc = "answer", !.seen = Contained])
           /\ Contained \in Maps
  <2> DEFINE c == [proc[p] EXCEPT !.pc = "answer", !.seen = Contained]
  <2>1. ShapedCommand(c)
    BY <1>5, <1>6, CommandStaysShaped
  <2>2. CommandCalls' = [CommandCalls EXCEPT ![p] = CallOf(c)]
    BY <1>6, <2>1, CallBecomes
  <2>3. /\ CallOf(proc[p]).state = "asked"
        /\ CallOf(c) = Took(CallOf(proc[p]), Contained)
    <3>1. /\ c.pc \in AfterEffect /\ c.seen = Contained /\ proc[p].pc \in BeforeEffect
          /\ c.op = proc[p].op /\ c.key = proc[p].key /\ c.value = proc[p].value
      BY <1>1 DEF CommandRecords, At, BeforeEffect, AfterEffect
    <3> HIDE DEF c
    <3> QED
      BY <1>1, <3>1, CallApplied
  <2>4. Effect(p) = Contained
    <3>1. ASSUME proc[p].op = "delete"
          PROVE  [Contained EXCEPT ![proc[p].key] = Missing] = Contained
      BY <1>6, <3>1 DEF Maps
    <3> QED
      BY <1>6, <3>1 DEF Effect
  <2> HIDE DEF c, CallOf
  <2> QED
    BY <1>4, <2>2, <2>3, <2>4 DEF Applied
<1>7. CASE /\ proc[p].op \in {"store", "delete"}
           /\ Becomes(p, [proc[p] EXCEPT !.pc = "open", !.seen = Contained, !.write = NewContents(p)])
  <2>1. proc'[p] = [proc[p] EXCEPT !.pc = "open", !.seen = Contained, !.write = NewContents(p)]
    BY <1>5, <1>7
  <2>2. SameCall(p) /\ proc'[p].pc = "open"
    BY <1>1, <1>7, <2>1 DEF CommandRecords, SameCall
  <2>3. UNCHANGED CommandCalls
    BY <1>1, <2>2, CallStays, CommandStaysShaped DEF BeforeEffect, At
  <2> QED
    BY <1>4, <2>3 DEF Unseen
<1> QED
  BY <1>3, <1>6, <1>7, ReadBecomes

LEMMA RenameApplies ==
    ASSUME Shaped, Ordered, Disjoint, NEW p \in Procs, RenameTmp(p)
    PROVE  Unseen \/ Applied(p)
<1> USE LocalAssumption
<1>1. /\ proc[p] \in CommandRecords /\ ShapedCommand(proc[p]) /\ proc[p].pc = "rename"
      /\ files \in [Files -> SealedFiles \union {Cut, Missing}]
      /\ proc[p].file \in Files /\ 0 \notin Files /\ proc[p].write \in Maps
  BY Shapes DEF RenameTmp, At, ShapedCommand, Files
<1>2. tmp = proc[p].file /\ files[tmp] = Sealed(salt, proc[p].write) /\ tmp # store
  BY <1>1 DEF Ordered, Knows, Shaped, FilesThere
<1>3. /\ store' = tmp
      /\ files' = [f \in Files |-> IF f = store /\ f \notin Open THEN Missing ELSE files[f]]
      /\ Goes(p, IF Migrating(p) THEN "command" ELSE "metadata")
  BY <1>1, <1>2 DEF RenameTmp
<1>4. store' # 0 /\ files'[store'] = Sealed(salt, proc[p].write)
  BY <1>1, <1>2, <1>3
<1>5. Contained' = proc[p].write
  BY <1>4 DEF Contained, InStore, Sealed
<1>6. CASE Migrating(p)
  <2>1. Contained' = Contained
    BY <1>1, <1>5, <1>6 DEF Ordered, Knows
  <2> QED
    BY <1>3, <1>6, <2>1, UnseenStep DEF Unseen
<1>7. CASE ~Migrating(p)
  <2> DEFINE c == [proc[p] EXCEPT !.pc = "metadata"]
  <2>1. Becomes(p, c)
    BY <1>3, <1>7, StepsBecome
  <2>2. ShapedCommand(c)
    BY <2>1, CommandStaysShaped, Shapes DEF Becomes
  <2>3. CommandCalls' = [CommandCalls EXCEPT ![p] = CallOf(c)]
    BY <2>1, <2>2, CallBecomes
  <2>4. proc[p].op \in {"store", "delete"}
    BY <1>1, <1>7 DEF ShapedCommand, Migrating
  <2>5. /\ CallOf(proc[p]).state = "asked"
        /\ CallOf(c) = Took(CallOf(proc[p]), Contained)
    <3>1. /\ c.pc \in AfterEffect /\ proc[p].pc \in BeforeEffect
          /\ c.op = proc[p].op /\ c.key = proc[p].key /\ c.value = proc[p].value
      BY <1>1 DEF CommandRecords, BeforeEffect, AfterEffect
    <3> HIDE DEF c
    <3> QED
      BY <2>4, <3>1, CallApplied
  <2>6. Effect(p) = [Contained EXCEPT ![proc[p].key] =
                        IF proc[p].op = "store" THEN proc[p].value ELSE Missing]
    BY <2>4 DEF Effect
  <2>7. proc[p].write = Effect(p)
    BY <1>1, <1>7, <2>6 DEF Ordered, Knows
  <2> HIDE DEF c, CallOf
  <2> QED
    BY <1>5, <2>3, <2>5, <2>7 DEF Applied
<1> QED
  BY <1>6, <1>7

LEMMA EndsAre ==
    ASSUME Shaped, NEW p \in Procs, Answer(p) \/ Crash(p)
    PROVE  Ended(p, {"applied"}, "ok") \/ Ended(p, {"asked", "applied"}, "crashed")
<1>1. proc[p] \in CommandRecords /\ Contained' = Contained
  BY Shapes DEF Answer, Crash, disk, Contained, InStore
<1>2. ASSUME NEW result \in {"ok", "crashed"}, Ends(p, result)
      PROVE  CommandCalls' = [CommandCalls EXCEPT ![p] = CallOf(NoCommand(result))]
  BY <1>2, StepsBecome, NoCommandShaped, CallBecomes
<1>3. CASE Answer(p)
  <2>1. CallOf(proc[p]).state = "applied"
    BY <1>3 DEF Answer, At, CallOf
  <2> HIDE DEF CallOf
  <2> QED
    BY <1>1, <1>2, <1>3, <2>1 DEF Answer, Ended
<1>4. CASE Crash(p)
  <2>1. CallOf(proc[p]).state \in {"asked", "applied"}
    BY <1>4 DEF Crash, Idle, CallOf
  <2> HIDE DEF CallOf
  <2> QED
    BY <1>1, <1>2, <1>4, <2>1 DEF Crash, Ended
<1> QED
  BY <1>3, <1>4

LEMMA CommandPromises ==
    ASSUME Shaped, Ordered, Disjoint, NEW p \in Procs,
           \/ LoadSalt(p) \/ WriteSalt(p) \/ MigrateIfNeeded(p) \/ ReadStore(p)
           \/ OpenTmp(p) \/ FillTmp(p) \/ RenameTmp(p) \/ WriteMetadata(p) \/ RenameMetadata(p)
           \/ Answer(p) \/ Crash(p)
    PROVE  \/ Unseen \/ Applied(p)
           \/ Ended(p, {"applied"}, "ok") \/ Ended(p, {"asked", "applied"}, "crashed")
<1>1. /\ Knows(p) /\ files \in [Files -> SealedFiles \union {Cut, Missing}] /\ ShapedCommand(proc[p])
      /\ store \in {0} \union Files
  BY Shapes DEF Ordered
<1>2. CASE LoadSalt(p) \/ WriteSalt(p) \/ MigrateIfNeeded(p)
  <2>1. Contained' = Contained
    BY <1>2 DEF LoadSalt, WriteSalt, MigrateIfNeeded, disk, Contained, InStore
  <2> QED
    BY <1>2, <2>1, UnseenStep DEF Unseen
<1>3. CASE OpenTmp(p)
  <2>1. TmpFile # store /\ files' = [files EXCEPT ![TmpFile] = Cut] /\ store' = store
    BY <1>3, TmpFileFound DEF OpenTmp
  <2>2. Contained' = Contained
    BY <1>1, <2>1 DEF Contained, InStore
  <2> QED
    BY <1>3, <2>2, UnseenStep DEF Unseen
<1>4. CASE FillTmp(p)
  <2>1. proc[p].file = tmp /\ proc[p].file \in Files
    BY <1>1, <1>4 DEF FillTmp, At, Knows, ShapedCommand
  <2>2. tmp # store /\ store' = store /\ \E x : files' = [files EXCEPT ![tmp] = x]
    BY <1>4, <2>1 DEF FillTmp, Shaped, FilesThere, Files
  <2>3. Contained' = Contained
    BY <1>1, <2>2 DEF Contained, InStore
  <2> QED
    BY <1>4, <2>3, UnseenStep DEF Unseen
<1>5. CASE WriteMetadata(p) \/ RenameMetadata(p)
  <2>1. Contained' = Contained
    BY <1>5 DEF WriteMetadata, RenameMetadata, Contained, InStore
  <2>2. \E pc \in AfterEffect : Goes(p, pc)
    BY <1>1, <1>5 DEF WriteMetadata, RenameMetadata, Knows, At, AfterEffect
  <2> QED
    BY <1>5, <2>1, <2>2, UnseenStep DEF Unseen
<1> QED
  BY <1>2, <1>3, <1>4, <1>5, ReadApplies, RenameApplies, EndsAre

\* What the commands of the promise see of a store that can be read.
LEMMA ContentsContained ==
    Shaped /\ Readable => Contents = Contained /\ Contained \in Maps
<1> SUFFICES ASSUME Shaped, Readable
             PROVE  Contents = Contained /\ Contained \in Maps
  OBVIOUS
<1>1. store # 0 => InStore # Cut
  BY LocalAssumption DEF Readable
<1>2. Contained \in Maps
  BY <1>1, ContainedIsMap
<1>3. Contents = Contained
  BY <1>1 DEF Contents, Contained, Readable, Decrypts
<1> QED
  BY <1>2, <1>3

LEMMA ContentsContainedNext == Shaped' /\ Readable' => Contents' = Contained'
<1>1. (Shaped /\ Readable => Contents = Contained)'
  BY ContentsContained, PTL
<1> QED
  BY <1>1

LEMMA TwoFields ==
    ASSUME NEW f, NEW p \in Procs, NEW e, f = [q \in Procs |-> f[q]]
    PROVE  [f EXCEPT ![p].state = "applied", ![p].seen = e]
             = [f EXCEPT ![p] = [f[p] EXCEPT !.state = "applied", !.seen = e]]
<1> DEFINE m == [f[p] EXCEPT !.state = "applied"]
           g == [f EXCEPT ![p] = m]
<1>1. g[p] = m /\ \A q \in Procs \ {p} : g[q] = f[q]
  OBVIOUS
<1>2. g = [q \in Procs |-> g[q]]
  OBVIOUS
<1> HIDE DEF m, g
<1>3. [g EXCEPT ![p] = [g[p] EXCEPT !.seen = e]] = [f EXCEPT ![p] = [m EXCEPT !.seen = e]]
  BY <1>1, <1>2
<1>4. [f EXCEPT ![p].state = "applied"] = g
  BY DEF g, m
<1>5. [g EXCEPT ![p].seen = e] = [f EXCEPT ![p].state = "applied", ![p].seen = e]
  BY <1>4
<1>6. [m EXCEPT !.seen = e] = [f[p] EXCEPT !.state = "applied", !.seen = e]
  BY DEF m
<1> QED
  BY <1>3, <1>5, <1>6

LEMMA Promised ==
    ASSUME Shaped, Ordered, Shaped', Ordered', Disjoint, Disjoint', [LocalNext]_localVars
    PROVE  Promise!Next \/ UNCHANGED <<Contents, CommandCalls>>
<1>1. Contents = Contained /\ Contained \in Maps
  BY ContentsContained DEF Ordered
<1>2. Contents' = Contained'
  BY ContentsContainedNext DEF Ordered
<1>3. CommandCalls = [q \in Procs |-> CommandCalls[q]]
  BY DEF CommandCalls
<1>4. CASE UNCHANGED localVars
  <2>1. UNCHANGED <<Contained, CommandCalls>>
    BY <1>4 DEF localVars, disk, Contained, InStore, CommandCalls, CallState, At
  <2> QED
    BY <1>1, <1>2, <2>1
<1>5. ASSUME NEW p \in Procs, NEW op \in {"store", "delete", "read"},
             NEW k \in Keys \union {Missing}, NEW v \in Values \union {Missing}, Start(p, op, k, v)
      PROVE  Promise!Next
  <2>1. PICK c : /\ Becomes(p, c) /\ ShapedCommand(c)
                 /\ c = [pc |-> "salt", op |-> op, key |-> k, value |-> v, salt |-> commands + 1,
                         seen |-> Missing, write |-> Missing, file |-> 0, result |-> "none"]
    BY <1>5, StartBecomes
  <2>2. /\ CommandCalls[p] = CallOf(proc[p])
        /\ CommandCalls' = [CommandCalls EXCEPT ![p] = CallOf(c)]
    BY <2>1, CallBecomes
  <2>3. CallOf(c) = [op |-> op, key |-> k, value |-> v, seen |-> Missing, state |-> "asked"]
    BY <2>1 DEF CallOf
  <2>4. CallOf(proc[p]).state \notin {"asked", "applied"}
    BY <1>5, Shapes DEF Start, Idle, CallOf, CommandRecords
  <2>5. Contained' = Contained
    BY <1>5 DEF Start, disk, Contained, InStore
  <2>6. (op = "read" <=> k = Missing) /\ (op # "store" <=> v = Missing)
    BY <1>5 DEF Start
  <2> HIDE DEF CallOf
  <2>7. Promise!Ask(p)
    BY <1>1, <1>2, <2>2, <2>3, <2>4, <2>5, <2>6 DEF Promise!Ask
  <2> QED
    BY <2>7 DEF Promise!Next
<1>6. ASSUME NEW p \in Procs,
             \/ LoadSalt(p) \/ WriteSalt(p) \/ MigrateIfNeeded(p) \/ ReadStore(p)
             \/ OpenTmp(p) \/ FillTmp(p) \/ RenameTmp(p) \/ WriteMetadata(p) \/ RenameMetadata(p)
             \/ Answer(p) \/ Crash(p)
      PROVE  Promise!Next \/ UNCHANGED <<Contents, CommandCalls>>
  <2>1. CommandCalls[p] = CallOf(proc[p])
    BY DEF CommandCalls, CallState, At, CallOf
  <2>2. CASE Unseen
    BY <1>1, <1>2, <2>2 DEF Unseen
  <2>3. CASE Applied(p)
    <3>1. CommandCalls[p].state = "asked"
      BY <2>1, <2>3 DEF Applied
    <3>2. /\ CommandCalls[p].op = proc[p].op
          /\ CommandCalls[p].key = proc[p].key /\ CommandCalls[p].value = proc[p].value
      BY <2>1 DEF CallOf
    <3> DEFINE c == CommandCalls[p]
               e == IF c.op = "read" THEN Contents ELSE Missing
    <3>3. Contents' = CASE c.op = "store"  -> [Contents EXCEPT ![c.key] = c.value]
                        [] c.op = "delete" -> [Contents EXCEPT ![c.key] = Missing]
                        [] c.op = "read"   -> Contents
      BY <1>1, <1>2, <2>3, <3>2 DEF Applied, Effect
    <3>4. CommandCalls' = [CommandCalls EXCEPT ![p] = [c EXCEPT !.state = "applied", !.seen = e]]
      BY <1>1, <2>1, <2>3 DEF Applied, Took
    <3>5. CommandCalls' = [CommandCalls EXCEPT ![p].state = "applied", ![p].seen = e]
      <4> HIDE DEF e
      <4> QED
        BY <1>3, <3>4, TwoFields
    <3>6. Promise!Apply(p)
      BY <3>1, <3>3, <3>5 DEF Promise!Apply
    <3> QED
      BY <3>6 DEF Promise!Next
  <2>4. CASE Ended(p, {"applied"}, "ok")
    <3>1. CallOf(NoCommand("ok")) = Promise!NoCall("ok")
      BY DEF CallOf, NoCommand, Promise!NoCall
    <3>2. Promise!Answer(p)
      BY <1>1, <1>2, <2>1, <2>4, <3>1 DEF Promise!Answer, Ended
    <3> QED
      BY <3>2 DEF Promise!Next
  <2>5. CASE Ended(p, {"asked", "applied"}, "crashed")
    <3>1. CallOf(NoCommand("crashed")) = Promise!NoCall("crashed")
      BY DEF CallOf, NoCommand, Promise!NoCall
    <3>2. Promise!Crash(p)
      BY <1>1, <1>2, <2>1, <2>5, <3>1 DEF Promise!Crash, Ended
    <3> QED
      BY <3>2 DEF Promise!Next
  <2> QED
    BY <1>6, <2>2, <2>3, <2>4, <2>5, CommandPromises
<1> QED
  BY <1>4, <1>5, <1>6 DEF LocalNext

LEMMA OverlapStays == Shaped /\ [LocalNext]_localVars => overlap' = overlap
BY FilesStayThere DEF LocalNext, localVars, Start

LEMMA PromisedInitially == LocalInit => Promise!Init
<1> SUFFICES ASSUME LocalInit
             PROVE  Promise!Init
  OBVIOUS
<1>1. CommandCalls = [p \in Procs |-> Promise!NoCall("none")]
  BY DEF LocalInit, CommandCalls, CallState, At, NoCommand, Promise!NoCall
<1>2. Shaped /\ Readable
  BY ShapedInitially, ReadableInitially
<1>3. Contents \in Promise!Maps
  BY <1>2, ContentsContained DEF Maps, Promise!Maps
<1> QED
  BY <1>1, <1>3 DEF Promise!Init

\* Commands of one writer and its readers, or one at a time, are seen to take effect at one
\* moment each, and none is refused (LocalBackend, backends/local.ts): from every store that
\* this or an earlier build wrote, whatever process is killed and wherever.
THEOREM LocalKeepsPromise == LocalSpec => KeepsPromise
<1>1. Shaped /\ Ordered /\ Shaped' /\ Ordered' /\ [LocalNext]_localVars
        => [PromisedStep]_<<Contents, CommandCalls>>
  <2> SUFFICES ASSUME Shaped, Ordered, Shaped', Ordered', [LocalNext]_localVars,
                      overlap \in {"none", "readers"}
               PROVE  Promise!Next \/ UNCHANGED <<Contents, CommandCalls>>
    BY DEF PromisedStep
  <2>1. overlap' = overlap
    BY OverlapStays
  <2> QED
    BY <2>1, Promised DEF Disjoint
<1> QED
  BY <1>1, AlwaysShaped, AlwaysOrdered, PromisedInitially, PTL DEF LocalSpec, KeepsPromise

\* Under the same commands the store can be decrypted by a process that starts now, at every
\* moment and after every crash (loadOrCreateSalt and writeStore, backends/local.ts).
THEOREM StoreStaysReadable == LocalSpec => [](overlap \in {"none", "readers"} => StaysReadable)
<1>1. Shaped /\ Ordered => (overlap \in {"none", "readers"} => StaysReadable)
  <2> SUFFICES ASSUME Shaped, Ordered, Disjoint
               PROVE  StaysReadable
    BY DEF Disjoint
  <2>1. Contents \in Maps
    BY ContentsContained DEF Ordered
  <2> QED
    BY <2>1, LocalAssumption DEF StaysReadable
<1> QED
  BY <1>1, AlwaysShaped, AlwaysOrdered, PTL
=============================================================================
