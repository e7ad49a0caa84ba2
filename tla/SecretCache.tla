---------------------------- MODULE SecretCache ----------------------------
(***************************************************************************)
(* The secret cache (CachedBackend, backends/cache.ts): the encrypted file *)
(* that every process of a user shares, and the copy of it that each       *)
(* CachedBackend object keeps in memory once it has loaded it.             *)
(*                                                                         *)
(* An instance is one CachedBackend object in one process.  Its calls,     *)
(* the tasks, interleave at the await of the inner backend; what a call    *)
(* does before and after it is one action each.  Other instances, and      *)
(* writers that know no cache, change the store in between.                *)
(*                                                                         *)
(* The names are the entries under one prefix, which is the prefix that is *)
(* read, so forget() removes one marker per scope.  A value is the place   *)
(* of a write in the history of its name in its store, so that every write *)
(* is a value of its own.  Encryption, and a file that does not decrypt,   *)
(* are left out: a file is there or it is not.                             *)
(***************************************************************************)
EXTENDS Integers, Sequences, FiniteSets

CONSTANTS
    Stores,      \* the secret stores
    Names,       \* the names kept in each
    Scopes,      \* cacheScope values
    Instances,   \* the CachedBackend objects
    Builds,      \* writer stamps
    Deployments, \* what a behaviour starts from: see `deployed`
    Tasks,       \* calls in flight
    InstanceOf,  \* InstanceOf[t]: the instance a call is made on
    Calls,       \* Calls[t]: what t may call: "exact", "prefix", "store", "delete"
    Ttl,         \* ttlMs
    Latency,     \* bound on the time the inner backend takes
    MaxTime,     \* bound on the clock
    MaxWrites,   \* bound on the writes after the first ones
    SaveMayFail, \* may saveCache fail (it is best-effort)?
    None

All == "__resolved__"   \* in place of a name: the marker of the prefix

Versions == 1..MaxWrites + 1
CacheKeys == Scopes \X (Names \union {All})
CacheEntries == [value : (Stores \X Versions) \union {None}, cachedAt : 0..MaxTime,
                 writer : Builds, count : 0..Cardinality(Names)]

ASSUME CacheAssumption ==
    /\ Ttl \in Nat \ {0}
    /\ Latency \in Nat
    /\ MaxTime \in Nat
    /\ MaxWrites \in Nat
    /\ Deployments \subseteq [storeOf : [Scopes -> Stores], scopeOf : [Instances -> Scopes],
                            build : [Instances -> Builds]]
    /\ InstanceOf \in [Tasks -> Instances]
    /\ All \notin Names
    /\ IsFiniteSet(Names)
    /\ IsFiniteSet(Stores)
    /\ None \notin Stores \X Versions
    /\ \A D \in SUBSET CacheKeys : None \notin [D -> CacheEntries]

VARIABLES
    deployed, \* the store of each scope, the scope of each instance, and its build
    now,      \* Date.now()
    history,  \* history[s][n]: the writes of a name, each [present, at]
    mem,      \* memCache of each instance, None until it is loaded
    file,     \* the cache file, None when there is none
    task      \* the call each task has in flight, None when it has none

vars == <<deployed, now, history, mem, file, task>>

StoreOf == deployed.storeOf
ScopeOf == deployed.scopeOf
Build == deployed.build

Current(s, n) == Len(history[s][n])
Writes == Cardinality({w \in Stores \X Names \X Versions : w[3] \in 2..Current(w[1], w[2])})
Empty == [k \in {} |-> None]

\* Mutant of EntryKey: entries are kept under the name alone.
EntryKeyMutNoScope(c, n) == <<CHOOSE any \in Scopes : TRUE, n>>

\* entryKey and markerKey: where the entry for n cached in scope c is kept.
EntryKey(c, n) == <<c, n>>

\* Mutant of Fresh: an entry is served for one reading of the clock too long.
FreshMutBoundary(entry) == now - entry.cachedAt <= Ttl

\* now - entry.cachedAt < this.ttlMs
Fresh(entry) == now - entry.cachedAt < Ttl

\* loadCache: the copy in memory, or the file without what may not be served.
Loaded(i) ==
    IF mem[i] # None THEN mem[i]
    ELSE IF file = None THEN Empty
    ELSE [k \in {j \in DOMAIN file : Fresh(file[j]) /\ file[j].writer = Build[i]} |-> file[k]]

\* The names that have a fresh entry in the scope of i.
FreshNames(i) ==
    {n \in Names : /\ EntryKey(ScopeOf[i], n) \in DOMAIN Loaded(i)
                   /\ Fresh(Loaded(i)[EntryKey(ScopeOf[i], n)])}

\* An exact read of n is served from the cache.
ExactHit(i, n) == n \in FreshNames(i)

\* A prefix read is served from the cache.
PrefixHit(i) ==
    LET marker == EntryKey(ScopeOf[i], All)
    IN  /\ marker \in DOMAIN Loaded(i)
        /\ Fresh(Loaded(i)[marker])
        /\ Loaded(i)[marker].count = Cardinality(FreshNames(i))

Entry(i, value, at, count) ==
    [value |-> value, cachedAt |-> at, writer |-> Build[i], count |-> count]

\* Mutant of Without: only the scope of the writer is cleared.
WithoutMutOwnScope(cache, i, n) ==
    [k \in DOMAIN cache \ {EntryKey(ScopeOf[i], n), EntryKey(ScopeOf[i], All)} |-> cache[k]]

\* forget: the entry of n, and the marker over it, in every scope.
Without(cache, i, n) == [k \in DOMAIN cache \ (Scopes \X {n, All}) |-> cache[k]]

\* The entries of f, over those of cache.
Over(f, cache) ==
    [k \in DOMAIN f \union DOMAIN cache |-> IF k \in DOMAIN f THEN f[k] ELSE cache[k]]

\* saveCache
Save(i, cache) ==
    /\ mem' = [mem EXCEPT ![i] = cache]
    /\ \/ file' = cache
       \/ SaveMayFail /\ UNCHANGED file

-----------------------------------------------------------------------------
Init ==
    /\ deployed \in Deployments
    /\ now = 0
    /\ \E held \in SUBSET Names :
          history = [s \in Stores |-> [n \in Names |-> <<[present |-> n \in held, at |-> 0]>>]]
    /\ mem = [i \in Instances |-> None]
    /\ file = None
    /\ task = [t \in Tasks |-> None]

Write(s, n, present) ==
    /\ Writes < MaxWrites
    /\ history' = [history EXCEPT ![s][n] = Append(@, [present |-> present, at |-> now])]

\* A console or another machine changes the store.
WriteElsewhere(s, n) ==
    /\ \E present \in BOOLEAN : Write(s, n, present)
    /\ UNCHANGED <<deployed, now, mem, file, task>>

Begin(t, call, n, got) ==
    /\ task[t] = None
    /\ call \in Calls[t]
    /\ task' = [task EXCEPT ![t] =
          [call |-> call, name |-> n, startedAt |-> now, got |-> got]]

\* resolve(n, { exact: true }) misses and asks the inner backend.
StartExact(t, n) ==
    LET i == InstanceOf[t]
    IN  /\ ~ExactHit(i, n)
        /\ Begin(t, "exact", n, None)
        /\ mem' = [mem EXCEPT ![i] = Loaded(i)]
        /\ UNCHANGED <<deployed, now, history, file>>

\* resolve(prefix) misses and asks the inner backend.
StartPrefix(t) ==
    LET i == InstanceOf[t]
    IN  /\ ~PrefixHit(i)
        /\ Begin(t, "prefix", All, None)
        /\ mem' = [mem EXCEPT ![i] = Loaded(i)]
        /\ UNCHANGED <<deployed, now, history, file>>

\* A read that is served from the cache loads it and changes nothing else.
ReadHit(i) ==
    /\ mem[i] = None
    /\ PrefixHit(i) \/ \E n \in Names : ExactHit(i, n)
    /\ mem' = [mem EXCEPT ![i] = Loaded(i)]
    /\ UNCHANGED <<deployed, now, history, file, task>>

\* The inner backend reads its store for t: every name, of which the call takes its own.
BackendReads(t) ==
    LET s == StoreOf[ScopeOf[InstanceOf[t]]]
    IN  /\ task[t] # None /\ task[t].got = None
        /\ task' = [task EXCEPT ![t].got = [n \in Names |-> Current(s, n)]]
        /\ UNCHANGED <<deployed, now, history, mem, file>>

Answered(t) == task[t] # None /\ task[t].got # None
Done(t) == task' = [task EXCEPT ![t] = None]

\* The entry a read of n leaves, stamped with the time the read began at.
ReadEntry(t, n) ==
    Entry(InstanceOf[t], <<StoreOf[ScopeOf[InstanceOf[t]]], task[t].got[n]>>,
          task[t].startedAt, 0)

\* The names of t's answer: those present at what the backend read.
Found(t) ==
    LET s == StoreOf[ScopeOf[InstanceOf[t]]]
    IN  {n \in Names : history[s][n][task[t].got[n]].present}

\* An exact read returns.  An absent entry is not cached.
FinishExact(t) ==
    LET i == InstanceOf[t]
        n == task[t].name
    IN  /\ Answered(t) /\ task[t].call = "exact"
        /\ IF n \in Found(t)
           THEN Save(i, Over([k \in {EntryKey(ScopeOf[i], n)} |-> ReadEntry(t, n)], mem[i]))
           ELSE UNCHANGED <<mem, file>>
        /\ Done(t)
        /\ UNCHANGED <<deployed, now, history>>

\* A prefix read returns: its entries, and a marker that counts them.
FinishPrefix(t) ==
    LET i == InstanceOf[t]
        entries == [k \in {EntryKey(ScopeOf[i], n) : n \in Found(t)} |-> ReadEntry(t, k[2])]
        marker == [k \in {EntryKey(ScopeOf[i], All)} |->
                      Entry(i, None, task[t].startedAt, Cardinality(Found(t)))]
    IN  /\ Answered(t) /\ task[t].call = "prefix"
        /\ Save(i, Over(Over(marker, entries), mem[i]))
        /\ Done(t)
        /\ UNCHANGED <<deployed, now, history>>

\* store or delete: the inner backend has made the write, and has not returned.
StartWrite(t, call, n) ==
    LET i == InstanceOf[t]
        s == StoreOf[ScopeOf[i]]
    IN  /\ call \in {"store", "delete"}
        /\ Begin(t, call, n, [m \in Names |-> Current(s, m) + IF m = n THEN 1 ELSE 0])
        /\ Write(s, n, call = "store")
        /\ UNCHANGED <<deployed, now, mem, file>>

\* store, after the await: forget, then the entry of the new value.
Stored(t) ==
    LET i == InstanceOf[t]
        n == task[t].name
    IN  Save(i, Over([k \in {EntryKey(ScopeOf[i], n)} |->
                         Entry(i, <<StoreOf[ScopeOf[i]], task[t].got[n]>>, now, 0)],
                     Without(Loaded(i), i, n)))

\* delete, after the await: forget.
Deleted(t) ==
    LET i == InstanceOf[t] IN Save(i, Without(Loaded(i), i, task[t].name))

\* A store or a delete returns.
FinishWrite(t) ==
    /\ Answered(t)
    /\ \/ task[t].call = "store" /\ Stored(t)
       \/ task[t].call = "delete" /\ Deleted(t)
    /\ Done(t)
    /\ UNCHANGED <<deployed, now, history>>

\* The inner backend throws: nothing is cached and nothing forgotten, made or not.
BackendFails(t) ==
    /\ task[t] # None
    /\ Done(t)
    /\ UNCHANGED <<deployed, now, history, mem, file>>

\* cache clear, in a process of its own.
ClearFile ==
    /\ file # None
    /\ file' = None
    /\ UNCHANGED <<deployed, now, history, mem, task>>

\* The process of an instance ends, and another one takes its place.
Restart(i) ==
    /\ mem[i] # None
    /\ mem' = [mem EXCEPT ![i] = None]
    /\ task' = [t \in Tasks |-> IF InstanceOf[t] = i THEN None ELSE task[t]]
    /\ UNCHANGED <<deployed, now, history, file>>

\* Time passes, and the inner backend takes no longer than Latency.
Tick ==
    /\ now < MaxTime
    /\ \A t \in Tasks : task[t] # None => now < task[t].startedAt + Latency
    /\ now' = now + 1
    /\ UNCHANGED <<deployed, history, mem, file, task>>

Next ==
    \/ \E c \in Scopes, n \in Names : WriteElsewhere(StoreOf[c], n)
    \/ \E t \in Tasks :
          \/ \E n \in Names :
                \/ StartExact(t, n)
                \/ \E call \in {"store", "delete"} : StartWrite(t, call, n)
          \/ StartPrefix(t)
          \/ BackendReads(t) \/ BackendFails(t)
          \/ FinishExact(t) \/ FinishPrefix(t) \/ FinishWrite(t)
    \/ \E i \in Instances : ReadHit(i) \/ Restart(i)
    \/ ClearFile
    \/ Tick

Spec == Init /\ [][Next]_vars
-----------------------------------------------------------------------------
IsCache(c) ==
    /\ DOMAIN c \subseteq CacheKeys
    /\ \A k \in DOMAIN c : c[k] \in CacheEntries /\ (c[k].value = None <=> k[2] = All)

\* Every variable has its shape, and the cache file is a cache.
TypeOK ==
    /\ deployed \in Deployments
    /\ now \in 0..MaxTime
    /\ \A s \in Stores, n \in Names :
          history[s][n] \in Seq([present : BOOLEAN, at : 0..MaxTime])
    /\ \A i \in Instances : mem[i] = None \/ IsCache(mem[i])
    /\ file = None \/ IsCache(file)
    /\ \A t \in Tasks : task[t] # None =>
          /\ task[t].call \in Calls[t]
          /\ task[t].startedAt \in 0..now
    /\ \A t \in Tasks : task[t] # None /\ task[t].call \in {"exact", "prefix"} =>
          mem[InstanceOf[t]] # None

\* Was version v of n the current one at some time after now - age?
CurrentWithin(s, n, v, age) ==
    v = Current(s, n) \/ history[s][n][v + 1].at + age > now

(***************************************************************************)
(* "A read is served only from entries in its own scope", and "a TTL       *)
(* bounds how stale a value may be": a value served from the cache is one  *)
(* that the store of that very scope held for the name within ttlMs and    *)
(* the time one backend call takes, whoever cached it, whichever copy it   *)
(* comes from, and whatever was written in between.                        *)
(***************************************************************************)
StaleBounded ==
    \A i \in Instances, n \in Names : ExactHit(i, n) =>
        LET value == Loaded(i)[EntryKey(ScopeOf[i], n)].value
            s == StoreOf[ScopeOf[i]]
        IN  value[1] = s /\ CurrentWithin(s, n, value[2], Ttl + Latency)

(***************************************************************************)
(* "Any shortfall is now a miss": a prefix read served from the cache      *)
(* leaves out no name that the store has held all through the last ttlMs.  *)
(* (run would inject nothing and still exit 0.)                            *)
(***************************************************************************)
PrefixComplete ==
    \A i \in Instances : PrefixHit(i) =>
        \A n \in Names \ FreshNames(i) :
            LET s == StoreOf[ScopeOf[i]]
            IN  \E v \in 1..Current(s, n) :
                    ~history[s][n][v].present /\ CurrentWithin(s, n, v, Ttl)

\* An instance that serves an exact read of n serves version v of it, or a newer one.
ServesFrom(i, n, v) ==
    ExactHit(i, n) => Loaded(i)[EntryKey(ScopeOf[i], n)].value[2] >= v

(***************************************************************************)
(* A store or a delete that has returned, and could save the cache, is     *)
(* seen through every scope of its store by its own process and by every   *)
(* process that loads the file then: an older value of the name is not     *)
(* served, and no prefix read is answered without asking the store.        *)
(***************************************************************************)
WriteReachesFile ==
    [][\A t \in Tasks, n \in Names, v \in Versions :
         /\ FinishWrite(t) /\ task[t].name = n /\ task[t].got[n] = v
         /\ file' = mem'[InstanceOf[t]]
         => \A i \in Instances :
               /\ mem'[i] = None \/ i = InstanceOf[t]
               /\ StoreOf[ScopeOf[i]] = StoreOf[ScopeOf[InstanceOf[t]]]
               => ServesFrom(i, n, v)' /\ ~PrefixHit(i)']_vars

(***************************************************************************)
(* "A cached value is only served back to the same build that produced     *)
(* it."                                                                    *)
(***************************************************************************)
SameBuild ==
    \A i \in Instances : \A k \in DOMAIN Loaded(i) : Loaded(i)[k].writer = Build[i]

(***************************************************************************)
(* "after a write or a delete in one of them no scope keeps serving the    *)
(* value from before it": when the call returns, no instance serves an     *)
(* older value of the name.                                                *)
(***************************************************************************)
NoneServesBefore ==
    [][\A t \in Tasks, n \in Names, v \in Versions :
         FinishWrite(t) /\ task[t].name = n /\ task[t].got[n] = v
         => \A i \in Instances :
               StoreOf[ScopeOf[i]] = StoreOf[ScopeOf[InstanceOf[t]]] =>
                   ServesFrom(i, n, v)']_vars

(***************************************************************************)
(* cache clear "as the remedy for a stale cached credential": the file     *)
(* that is written after it holds no entry from before it.                 *)
(***************************************************************************)
ClearedStaysCleared ==
    [][file = None /\ file' # None =>
         \A i \in Instances : mem[i] # None =>
             \A k \in DOMAIN file' : k \in DOMAIN mem[i] => file'[k] # mem[i][k]]_vars
=============================================================================
