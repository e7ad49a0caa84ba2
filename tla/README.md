# Secretless AI: TLA+ models, checks and proofs

Secretless AI keeps credentials away from AI coding tools. A local *credential broker* hands
them out under a policy; a family of *secret backends*, behind a shared encrypted *cache*, stores
them; *MCP protection* moves the secrets of MCP server configurations into a vault; a *watcher*
removes secrets from transcripts; the rest of the command line installs, scans and reports.

These modules model the parts of it that keep state which several callers, processes or
failures touch. Paths below are relative to the repository (`src/broker/...`).

- [The system](#the-system): components, their state, how they interact, what is hard
- [The modules](#the-modules): what each models, and how it corresponds to the code
- [The runs](#the-runs): what each checks, its bounds, fairness
- [What is proved](#what-is-proved)
- [Further instances](#further-instances): what fails outside the bounds of the runs
- [What is not modelled](#what-is-not-modelled), and [the plan](#the-plan)

## The system

| Component | State it keeps | Operations | What makes it correct |
|---|---|---|---|
| Rate limiter `broker/rate-limiter.ts` | timestamps per `agent:credential` | `check`, `cleanup` | no window holds more than the limit; no refusal without cause; memory bounded |
| Policy engine `broker/policy.ts` | rules, a limiter | `loadPolicies`, `evaluate` | deny wins; constraints are all applied; refused requests use no slots |
| AIM client `broker/aim-client.ts` | identity cache with expiry | `getAgentIdentity`, `isAvailable` | a revocation takes effect a ttl after the last older answer; a lookup returns unless its response is cut |
| Broker server `broker/server.ts` | token, listeners, requests in flight | `/resolve`, `/grant`, `/health`, `/status`, `start`, `stop` | every answer has its one record; nothing is handed out undecided; every request is answered |
| Daemon `broker/daemon.ts` | PID, token and socket files | `startDaemon`, `spawnDaemon`, `stopDaemon` | one broker at a time; the one that serves can be found; what stops leaves nothing; what a crash leaves stops nobody |
| Audit log `broker/audit.ts` | log, rotated files, key pair | `log`, `verify` | one chain, one key, no record lost |
| Grants `broker/grant-*.ts`, `worker.ts`, `cpi/` | nothing between calls | `POST /grant` | what is carried out was entitled to it; the one record says what was answered and commits to what was forwarded |
| Secret cache `backends/cache.ts` | one file for all processes, a copy in each | `resolve`, `store`, `delete`, `clear` | values are served to their own scope and build, for a bounded time, and complete |
| Backends `backends/*.ts` | a store each, key indexes | `resolve`, `store`, `delete` | a call takes effect at one moment or not at all; a key of one kind never reaches a secret of the other |
| Transfers `backends/migrate.ts`, `secret-sync.ts`, `secret-push.ts` | nothing between calls; `config.json` | `migrate`, `backend set`, `backend purge`, `secret sync`, `secret push` | no secret lost by a move; no value replaced unasked; the report says what was done |
| User secrets `secret-store.ts`, `secret-exposure.ts`, `secret-annotations.ts` | a store, an annotations file | `set`, `remove`, `expose`, marking | a leaked value stays marked until another one replaces it |
| MCP protection `mcp/` | client configurations, backups, stored names, one binding per pair | `protect`, `unprotect`, `start` | a secret the commands move always has a copy; a server starts only where its values are bound; an interrupted run is healed by the next |
| Watcher `watch.ts`, `transcript.ts` | PID file, timers, files | `watch`, `stop`, `transcript clean` | every secret is redacted in the end; no other line is lost |
| Identity vault `vault-core.ts` | identity file, vault, registry, log | init, register, rotate, revoke, exec, migrate | what is stored can be opened; a revoked namespace is empty; every change is logged |
| Sessions `session/` | session file, hook | `warm`, expiry | a session ends; a forged one is not accepted |
| Commands, scanner, init | configuration of other tools | `init`, `scan`, `run`, ... | mostly sequential; idempotence, all or nothing |

**Interactions.** A request to the broker is authenticated by the token file's token, evaluated by
the policy engine against the identity the AIM client returns (an HTTP call, behind a cache) and
the limiter; if allowed, the resolver asks the secret store (a backend, behind the secret cache),
the MCP vault and the environment. Every outcome is written to the audit log, synchronously. The
daemon's files connect commands of different processes: `broker start`, `broker stop`,
`broker status`, `warm` (which spawns a detached `broker start`) and clients that read the token.
The cache file, the audit log and the stores are shared by every process of a user, without locks.

**What is hard.** Node runs a handler alone between two awaits, so within one process the
interleavings are those at awaits; between processes they are at every file operation. A process
may be killed between any two of them. Remote parties (AIM, stores) answer late, wrongly or not at
all, and clocks bound what is cached. The list in `PROJECT.json` ("hazards") names each place.

## The modules

| Module | Models | Composes |
|---|---|---|
| `RateLimiter` | `RateLimiter.check` and `cleanup` | |
| `BrokerResolve` | `POST /resolve`: `handleResolve`, `evaluate`, `checkConstraints`, `getAgentIdentity`, `httpGet`, and what is recorded | `RateLimiter`, by `INSTANCE`; also the abstract specification it is shown to implement |
| `BrokerLifecycle` | `startDaemon`, `BrokerServer.start`/`stop`, `stopDaemon`, `spawnDaemon`, and their files | |
| `AuditLog` | `AuditLogger.log`, rotation, signing key | |
| `SecretCache` | `CachedBackend` | |
| `BrokerGrant` | `POST /grant`: `handleGrant`, `evaluate` of the grant policy, `GrantResolver.resolve`, the exchange and the worker | |
| `SecretStore` | the abstract store: a map whose calls take effect at one moment | |
| `LocalStore` | `LocalBackend`: salt, legacy migration, `store`, `delete`, `resolve`, `list` | shown to implement `SecretStore` |
| `SecretExposure` | `setSecret`, `removeSecret`, `recordExposure`, `markRedactedSecretsExposed`, over store and annotations | |
| `TranscriptWatch` | the watcher and `transcript clean`, over a file another program appends to | extends `SecretExposure` |
| `McpBinding` | configurations, bindings, who may start; what a user edits | |
| `McpProtect` | `protect-mcp` and `mcp-unprotect` | extends `McpBinding` |
| `IdentityVault` | the commands of `vault` | |
| `SecretTransfer` | sync, push, migration, purge, set and remove, between this machine's store and a Vault or a Secret Manager project | |
| `RateLimiterProofs`, `BrokerResolveProofs`, `BrokerDaemonProofs`, `LineFileProofs`, `StoredSecretProofs`, `IdentityVaultProofs`, `SecretTransferProofs`, `McpProtectProofs` | theorems | the second instantiates the first; `BrokerDaemonProofs` is of `BrokerGrant` and `BrokerLifecycle`, `LineFileProofs` of `AuditLog` and `TranscriptWatch` (files of lines), `StoredSecretProofs` of `SecretCache` and `LocalStore` (where values are kept). The two of each have different names (`LifeSpec`, `WatchSpec`, `LocalSpec`; `Absent` and `Missing` for `None`, ...) so that one module can extend both; the proofs of either use no assumption of the other |
| `MC...` | values of the constants for TLC | |

In each module an operator named *...Mut...* is the mutated form of the definition after it, with a
comment that says what bug it stands for. It is not part of the specification.

### RateLimiter

`windows` is the map of the class, `admitted` a history of the times `check` answered true. A check
never awaits, so it is one step: `CheckAdmitted` (which also runs `cleanup` when the map has grown
over `CleanupThreshold`) or `CheckRefused` (which drops what has expired all the same). The clock is
`Date.now()`, taken not to run backwards, and that is the one assumption about time: with a clock
that is set back the window lists are not sorted and the prefix the code drops is not what has
expired. A fractional `maxPerMinute` behaves as its ceiling, so limits are naturals.

### BrokerResolve

One record per request: `pc` (idle, fetching, resolving, hung, answered), `job`, `decision`, `log`,
`reply`. A stretch from one await of `handleResolve` to the next is one action: `Unauthorized`,
`NoResolver` (a broker built without one: 404, and no record), `Malformed` and `ScannerUnavailable` answer at once; `ResolveWithoutFetch` decides at once (no AIM
client, or a cached identity); `StartFetch` evicts and asks; `AimReplies`, `AimFails`, `AimAborts`
end the fetch in the three ways `httpGet` knows (an answer or a 404, a failure or timeout, and a
response cut in the middle, which settles nothing). The timeout is one of an idle socket, so an answer may take
any time (`Tick` is free); `Decide` is `evaluate` with the limiter and,
when refused, the record and the answer; `CredentialFound`, `CredentialMissing`, `BackendFails` end
the resolution. `AuditMayFail` lets any record fail; `RecordAndAnswer` and `Resolved` follow the
code's catch clauses from there, and `Unauthorized` ends the process, because nothing catches.

A rule is `[effect, agents, creds, hours, minTrust, capability, maxPerMinute]`: its two glob
selectors are the sets they match, its time window the clock readings inside it. `Verdict` and
`Passes` are `evaluate` and `checkConstraints` (`Vouches` the part that asks for an identity), deny rules first, then the first matching allow
rule. `KeyOf` is the string join of agent and credential, so that pairs may share a key.

`aim` is what the AIM server holds, `since` when it last changed, and `told` when the last answer composed before
that change reached the broker: the bound on revocation counts from both.

### BrokerLifecycle

One process per element of `Procs`, with the step of `startDaemon`/`start` it is at, in the code's
order: check, clear a stale file, load the grant file, create the PID file exclusively, write it
(only then are the signal handlers installed), load policies, write the token, probe the socket,
unlink it, bind it, bind the port, ask AIM and record the startup, serve. `Startup` may end as *hung*: AIM's
response was cut, `start` never returns, and the broker serves. `Terminate` is the effect of SIGTERM
at each of these stages; `Drained` ends the wait of `server.stop`; `Crash` is SIGKILL at any point.
Stop commands (`Stops`) send the signal and unlink two files in two more steps. `spawn` is a waiting
`spawnDaemon`: its poll reads the PID file (and unlinks a stale one), asks the port with the token
in the token file, and gives up by signalling. Files carry the process that wrote them, which is
what their contents say. `overlap` is fixed by the initial state: commands that follow each other
(`"none"`: each is issued when what the one before it started has settled, a drain included),
commands issued as soon as the one before has returned (`"drain"`: `broker stop` returns while the
broker drains), or commands at any time (`"any"`).

### AuditLog

`files[0]` is the log and `files[i]` the i-th rotated file; a line is a number of its own (standing
for its bytes and hash), the line it chains to, the key it is signed with, and whether it is whole.
`log()` is `Begin` (the size check), `Rotate` once per level, `ReadTail`, the key steps on the first
record of a process, and `AppendLine` or `AppendCut`. `open` says that a file ends in the middle of
a line. `overlap`, fixed by the initial state, says whether a process may call `log()` while another
one is in the middle of it.

### SecretCache

`history[s][n]` lists the writes of a name in a store, and a cached value names one of them, so
staleness is visible. `deployed`, fixed by the initial state, is the store each scope names, the scope
of each instance and its build. `mem[i]` is `memCache` of an instance, `file` the cache file. A call is three
steps: what it does before the await (`StartExact`, `StartPrefix`, `StartWrite`), the backend's work
(`BackendReads`; a write is made in `StartWrite`), and what it does after it (`FinishExact`,
`FinishPrefix`, `FinishWrite`, or `BackendFails`). An entry is stamped with the time the read began,
as in the code. `Latency` bounds how long the inner backend takes; without such a bound no value
would be stale for a bounded time.

### BrokerGrant

A broker without a grant file answers 404 and records nothing (`NotServed`). Otherwise a request waits at
three awaits, and from one to the next is one action: `Receive` (token already
checked; the ATX, and, with no AIM client, the policy), `LookedUp` (AIM's verdict, then the policy
through `Authorise`), `CredentialArrives` (life capped by `CapLife`, path check, canonical form,
commitment), `ResultArrives`. `Fail` is the catch clause of `resolve` with the `failure` it names;
`Close` writes the one record and answers. `Issue` and `CarryOut` are what the token endpoint and
the enterprise endpoint do on their own, so that an error or a timeout (`ExchangeFails`,
`CallFails`) comes before or after the effect, and `ResponseCut` after it, or in the lookup at AIM: such a request never settles. `PolicyDenial` is the
list of checks of the policy in the code's order. `MaxAuditFailures` record writes may fail.

### LocalStore and SecretStore

Every command is a process: `Start` makes the backend, `LoadSalt`/`WriteSalt` read or create the
salt, `MigrateIfNeeded` re-encrypts a first-release store, `ReadStore` decrypts, then a write goes
through `OpenTmp`, `FillTmp`, `RenameTmp`, `WriteMetadata`, `RenameMetadata`, `Answer`. A file
keeps its identity when renamed, so two writers through one temporary name share what they write.
`Crash` may come at every step. `SecretStore` has `Ask`, `Apply`, `Answer`, `Crash` on a plain map;
`KeepsPromise` maps the decrypted file to its map and each command to its call, for commands one
after the other and for readers beside one writer.

### SecretExposure and TranscriptWatch

An annotation is reduced to its open exposure, and that to the value it is about, which the code does
not record: this is what lets `ClosedOnlyByRotation` say that the *right* exposure was closed.
Marking is a process with its own awaits; it may find the store unreadable (`NotChecked`) or fail at a
name (`NotMarked`), and the history `unmarked` is what it has reported as not marked. A set stores its value and
then its annotation, so one that ends between the two leaves a record that is `stale`. A transcript is a sequence of lines, each in part, whole or
redacted, with a *stamp* for device, inode, size and time. `SayLine`/`CompleteLine` are the tool;
each change sets the timer of every running watcher; `Fire` starts a pass, whose steps are
`ReadTranscript`, `CheckUnchanged` and `Replace`; the spans it redacted go to a marking process.
`window`, fixed by the initial state, says whether the tool may append between the check and the
rename. `Stop` ends a watcher where it awaits.

### McpBinding and McpProtect

One pair of client and server name; a *place* is a configuration file that may have an entry of that
name, in a home or in a project. `Edit` is the user: other values, another command, entries added,
removed, copied, a project moved. `LaunchAllows`, `PlaceAllows` and `Starts` are what the wrapper
checks before it hands out secrets. A run of `protect-mcp` reads all configurations at its start
(`seen`), decides per entry (`PlanOf`: `FreshPlan` for an entry in the clear, `WrappedPlan`, `UnboundPlan`,
`TakesOver`, `Moved` for one already wrapped), then stores binding and secrets (`StoreBinding`,
`StoreSecret`), writes the backup and rewrites the file *as it then is* (`ReadConfig`, `WriteBackup`,
`WriteConfig`, or `WriteFails` and `StoreBack`; a write that is broken off leaves the file `Cut`, `LeavesCut`). `mcp-unprotect` restores each file and clears the
stored names one by one, the binding last. `Kill` may come at every step. What a run has yet to come to is a set
(`todo`) and the order of discovery a number of each place (`Order`, distinct numbers); the run is at
the `First`. A place holds an entry, or one of three marks that is none (`HeldAssumption`).
`owed` is what the user has put in: an edit of the user alone takes a secret out of it, and only one that nothing else
holds (`OnlyAt`). What a command writes over while only that configuration and no backup of it holds it is
in `overwritten`: the exception of `NoSecretLost`, which `NothingOverwritten` below has not.

### IdentityVault

One process per command. `Open` reads the identity and unlocks; `init` is `ReadIdentity`,
`CreateIdentity`, `InitStore`; register and migrate go `ReadValue`, `TakeName`, `Store`, `Log`; revoke goes
`Revoke`, `Delete`, `Log`; `Resolve` and `ChildExits` are `exec`. The vault library is outside: a
credential is the key it was encrypted with. `BreakIdentity` is the loss or damage of the
identity file. The histories `torn`, `late` and `crossed` name the namespaces a kill left in the middle of a
command, those stored to after their revocation, and whether two inits overlapped: the
exceptions of the invariants, each of which a further instance shows to be needed.

### SecretTransfer

Two stores: `here`, this machine's own, and `shared`, a Vault or a Secret Manager project (`product`),
which other machines use as well (`Elsewhere`). `configured` is what `config.json` names. One record
per command, with the place it is at (`at`), the keys it goes through (`plan`, `i`), the values it has
read (`vals`) and what it reports of each (`said`). `Begin` starts one; `ListToSync`, `ListToPush`,
`ListToPurge` and `Resolve` (a prefix of a migration, read as a whole) look before the first key.
A read is `ReadAtOnce`, or `ReadLabel` and `Fetch` in Secret Manager, then `Compare` and `Decide` for
sync; a write is `WriteHere`, `WriteVault`, or `CreateSecret`, `CheckLabel` and `AddVersion`; a
deletion is `DeleteHere`, `DeleteVault`, or `DeleteLabel` and `Erase`. Each is a request of its own, and
each may be refused, or applied and answered too late (`Answered`, from `boundedFetch`). `Written` is
what each command makes of a write: sync goes on, push stops and skips, a migration counts. A secret
of Secret Manager is `[held, value]`: the label tells a server's key from a plain one, and `NameOf`
lets two keys share a name. In a Vault `Lists` is one level deep, as `listPrefix` is.

`base`, `wrote`, `strayed`, `touched`, `remade` and `skipped` are histories the properties speak of. `skipped` is what
a listing left out, because the entry could not be read. `touched` and
`remade` name what *others* have changed since a command last looked: that is the exception of the
properties, and all of it; no lock of the code's would narrow it.

Left out: the cache in front of the shared store (`SecretCache` has it), the requests of one listing
(one step), tokens, the choice of a project and health checks, the Azure target of push (one request
to write, like a Vault's), and `deleteFromSource`, which no command sets.

## The runs

Every run is complete within its bounds. `CHECK_DEADLOCK FALSE` is set everywhere because every
model stops: clocks, writes, processes and requests are bounded, and a finished run has no step.

| Run | Checks | Bounds and why they are enough |
|---|---|---|
| `rate_limiter` | `SlidingWindow`, `RefusalJustified` | 3 keys with limits 1, 2, 2, threshold 2, window 2, 5 clock steps: every key can fill and expire twice, and the map exceeds the threshold |
| `resolve_trust` | `RevocationTakesEffect`, `EveryRequestSettles` | 2 requests of one agent, ttl 2, 3 clock steps, failing audit writes, an AIM server that fails, cuts a response or draws it out for any time: the identity changes while it is fetched, and a later request reads it from the cache. A third request, for two fetches that overlap and fill the cache in the other order, is in `MCResolveThree` below |
| `resolve_quota` | `LogAgreesWithReply`, `SlotsMatchDecisions`, `QuotaPerPair`, `LimiterContract` | 3 requests, 2 agents, 2 credentials, limits 1 and 2, a deny rule, a time window, failing audit writes |
| `lifecycle` | `SerialServingIsReachable`, `StoppedLeavesNothing`, `RefusedOnlyForLiving`, `SignalledEnds`, `StartSettles` | 3 starts and 1 stop one after the other (a start after a crash after a stop), 2 starts and 1 stop in every interleaving; crashes anywhere, audit writes fail |
| `audit` | `SerialChainHolds`, `SerialNoneLost`, `OneKey` | 2 processes, 2 lines to a file, 2 rotated files kept; 6 records one call at a time (two rotations, the oldest file deleted, cuts on both sides of one), 4 in full interleaving |
| `cache_shared` | `StaleBounded`, `PrefixComplete`, `WriteReachesFile` | 2 processes whose calls do not overlap within one, 2 names; a scope each on one store or on two, or one scope from two builds; one write after the first values, saves that fail, ttl 1, latency 1: an entry can expire between a read and the next while its neighbour is fresh |
| `local_store` | `KeepsPromise` (refinement) | 2 processes, 2 names, 4 commands, from no store, a first-release one and a current one; a kill at every step: a reader meets every stage of a write, and a third and fourth command meet what two kills left |
| `transcript_watch` | `NoLineLostOutsideWindow`, `RedactedIsMarkedUndisturbed`, `ClosedOnlyByRotation`, `EverySecretRedacted` | 1 watcher with two marking processes, 1 clean, 1 user, 2 lines, 3 lines and commands together, 1 name with 2 values: a pass gives up for a second line, a mark is overtaken by a new value |
| `mcp` | `NoSecretLost`, `NamesAreBound`, `ProjectStartsItsOwn`, `HealsHome`, `TakenOnlyFromGone` | 1 home configuration, 2 projects, 2 environment keys, 2 values, 2 commands, 3 runs with 2 edits between them, a kill or a failed write at every step, within the write of a configuration too: a run is killed, what it left is edited, and two more runs meet it |
| `grant` | `CarriedForTheEntitled`, `RecordTellsAnswer`, `CarriedIsCommitted`, `EveryGrantSettles` | 2 requests, 3 agents (entitled, unsigned, of low trust), 2 bindings (one whose provider is not registered) and an unknown and a malformed grant, an escaping path, an operation with no canonical form, stated lives below, above and absent, 2 failing record writes: both the record and its replacement can fail |
| `identity_vault` | `CredentialOpens`, `ActiveHasCredential`, `RevokedIsEmpty` | 2 processes, 2 namespaces, 2 keys, 5 commands, 1 loss of the identity: init, register, revoke, register and one more beside any of them |
| `transfer` | `ReportsTellTruth`, `HeldStaysApart`, `MigrationCarriesListed`, `UnforcedKeepsLocal` | 2 plain keys and a server's key that shares the name of one of them; one sync, push or migration beside one set, removal, purge or change of the configured store, and another machine; 1 new value, 1 request refused or late, a kill at every step, listings that leave entries out; both products: the second key fails after the first is written, the value a command has read changes before it is written, a secret is made between a creation and its check |

The type invariants that no run lists, and `RefusedForOwnUse`, `SerialOneOwner`, `SameBuild` and
`ChangesAreLogged`, are stated in the modules and hold in the instances of `resolve_quota`, `lifecycle`,
`cache_shared` and `identity_vault`: add them to the configuration to see it (they
are proved too). The runs with few
processes are complete state spaces, not samples.

**Fairness.** `BrokerResolve` assumes weak fairness of the steps that end an await: Node runs a
ready continuation; the timeout of `httpGet` ends a silence and `MAX_RESPONSE_SIZE` an answer that is drawn
out, so an await ends, after no bounded time (`Tick` is not held back by a fetch); and a backend call returns or throws (child
processes and fetches of the backends have deadlines). It assumes nothing of clients. With
`AimMayAbort` a request may be *hung*, and there is no step to be fair to: that is the point of
`MCResolveHang`; in the same way a grant is *cut* and a start *hung*, which serves by then. `BrokerLifecycle` assumes that a live process executes its own code, that a pending
signal is handled, and that the five-second timer of `stop` fires; it assumes nothing of commands
or crashes. `BrokerGrant` assumes that the lookup, the exchange and the call each end while their
answer is not cut: `aim-client.ts`, `http-transport.ts` and `worker.ts` have socket timeouts and bounds on
what they read; it assumes nothing of
agents, of the token endpoint or of the resource. `TranscriptWatch` assumes that the timer
of a running watcher fires and that a pass proceeds (`WF` of `Fire` and `PassStep`), which is what a
process that runs does; nothing of the tool, the user or `clean`. The other modules are safety
specifications.

## What is proved

`RateLimiterProofs` (every set of keys, every limits, window, threshold): `TypeCorrect`,
`LimitKept`, `NoFalseRefusal`, `MemoryBounded`. The window alone does not imply the sliding window
property, since it forgets; the inductive invariant says that a window is the list of the *last*
admissions of its key, cut at a place before which everything has expired, that admissions are
sorted, and that any `Limit` apart are a window apart.

`BrokerResolveProofs` (every policy, agents, credentials and requests):

- `ImplementsLimiter`: `Spec => LimiterContract`. Every broker step is a limiter step or a stutter
  of it. With the limiter's theorems, instantiated, `QuotaKept` follows.
- `TypeCorrect` and `AuditAgrees`, from one inductive invariant: `RequestsInv`, a predicate of a single
  request that ties `pc`, `job`, `answer`, `decision`, `log` and `reply` together (so a step only
  has to be shown to *move one request* from one legal record to another), and `WorldInv`, the rest.
- `SlotsCounted`, `QuotaHolds` and `RefusalsAreOwn`. A count is not inductive with times in it; what is
  is `SlotOfEach`: for each key there is a *bijection* of the requests let through under it and the
  limiter's admissions, which takes each request to the time it was decided. A step extends it by one
  pair or leaves it (`StepSlots`), as a decision, once made, is final. The number of slots follows,
  and with what the limiter guarantees of its admissions (sorted, any `Limit` apart a window apart,
  full when it refuses: `LimiterInside`) the quota of a pair in every window. The converse, that a pair is
  refused for its own use alone (`RefusedForOwnUse`), needs `OwnKeys`, that no two rated pairs share a
  key: without it the instance `CollidingKeys` below violates it. The quota does not need it.
- `RevocationIsBounded`, from `AgeBounded`: an answer in flight is what AIM holds or was taken before
  the agent's last change; a cache entry is what AIM holds, or expires within a `Ttl` of that change or of
  `told`, when the last answer composed before it reached the broker (the code bounds neither). It holds for overlapping fetches in any order of start and end.

`LineFileProofs`, of `AuditLog` (every set of loggers, size of a file, number of retained files and of records), in
layers, each proved with the ones before it:

- `TypeCorrect`: besides the shapes, every record is signed and chained to an earlier line.
- `OneKeyHolds`: `OneKey` is inductive only with who is creating the key: a logger that writes the
  key or its public half is the one whose key the file has, and before the key is written nobody
  holds one and no record is whole.
- `SerialChain` and `SerialLoss`, for calls that do not overlap: while a logger is in a call it is the
  only one, what `readTail` told it is still so, and the place its rotation fills is empty. The chain
  follows from the second and the records from the third, with two lemmas on the files: a rotation
  moves files and makes none, and an append keeps every line but an unfinished one it joins.

The same module, of `TranscriptWatch` with `SecretExposure` (every set of watchers, cleaners, processes, names and
values, every length of the session, any number of commands):

- `WatchTypeCorrect`, from `Shaped`: what is known of a command by where it stands, and that a user does
  not mark and a marker does nothing else.
- `NoLineIsLost`. `NoLineLostOutsideWindow` is about the file and not inductive: what a rewrite writes was
  read earlier. The invariant (`KeptWhole`) says the same of the text of every rewrite that is past its
  comparison, and of one that is before it *if* its stamp is still the file's. An append gives the file
  a new stamp and so takes the second case away from all; that none comes at the first is what the window rules out.
- `ExposureEndsByRotation` and `RedactedStaysMarked`, wherever a command is killed or fails. Commands read the whole
  annotation file and write it back, so both rest on `Serial`: while commands do not overlap one at most is in the
  middle, and what it read of the store and of the annotations is still there when it writes. On it, an open
  exposure is of the stored value, or is the one that the command in the middle is about to close, or is
  stale since a command ended there (`Tracked`); and a value that was redacted is marked, is on the list of a marking, or will be found by
  one that has not read the store yet, also while another command is about to take its mark away,
  or has been reported as not marked (`Owing`).

`BrokerDaemonProofs`, of `BrokerGrant` (every policy, set of agents, bindings and requests, number of refused records):

- `OnlyForTheEntitled`, `AnswersAreRecorded`, `CommitmentsHold` and `TypeCorrect`, from one invariant.
  None of the first three is inductive: the verdict is reached two awaits before the operation is
  carried out, and the record is written after it. Requests share only the count of refused audit
  writes, so the invariant is a predicate of one request (`RequestInv`) that says, for each await, what
  the handler still knows there: which checks have passed, what was handed to the worker, that nothing
  is recorded yet. The steps of other requests leave it alone (`OthersKeep`); a step of its own takes
  it from one await to the next, and `CloseSettles` and `FailSettles` show that the ends of both
  paths, a record that was refused included, leave one record and an answer that agree. The external
  effects (`Issue`, `CarryOut`) come at any time in an await, also after a cut, and are in the predicate.

`BrokerDaemonProofs`, of `BrokerLifecycle` (any number of processes and stop commands, any bound on starts):

- `StoppedIsGone`, in any interleaving: a process that has not come to create its PID file is not named
  by it (`Unnamed`), and only a process itself writes a file that names it, so what its signal handler removes
  stays removed.
- `ServingFound`, `RefusedForLiving` and `OneOwnerSerially`, while commands follow each other. None is
  inductive, and *one process at a time* is false: a second `start` finds the first serving. What holds is
  `Alone`: two processes are alive only while one serves, unsignalled, and the other has not yet read its
  PID file. So nobody takes from disk what a live process has put there (`Holds`), but a stop command, whose
  signal is then pending (`StopInv`), and a poll of `spawnDaemon`, which may unlink a stale PID file under
  the feet of its child (`SpawnInv`): until it answers, the child's PID file may be gone, and it answers
  only when the file names the child.

`IdentityVaultProofs` (every set of processes, namespaces and keys, every migration, any number of
commands and of losses of the identity file):

- `StoredOpens`, `ActiveIsFilled`, `RevokedIsEmptied`, `LogIsComplete`, `TypeCorrect`, from one invariant in
  four layers. Where a command is tells what it is and what it holds (`PlacesInv`). A command between
  the two parts of a change owes the second to its namespace, and no one else does (`PartsInv`): that is
  the disjunct *a command that is about to store it* of the properties, with the command named. `CredentialOpens`
  is not inductive: a command holds the key it unlocked with long before it stores, and an init holds
  one before there is an identity; `KeyInv` says that, while no two inits have overlapped, there is *one*
  key such that no file, credential or command has another, and none before there is a vault but in
  the one init that makes it. What is changed and not logged is pending with its command (`LogInv`).

`SecretTransferProofs` (every set of processes, plain and whole keys, every assignment of names to keys that
keeps each kind apart, both products, any number of values and faults, any commands):

- `ReportsAreTrue`, `HeldKeptApart`, `MigrationCarries`, `UnforcedKeeps`, `TypeCorrect`, from one invariant.
  Each of its parts says of one process what it still knows at its place: of the secret in its key's
  place (`KindInv`), of this machine's store while it syncs (`SyncInv`), of what it has written (`PushInv`) and
  carried (`MoveInv`). Two facts make it inductive. `Unmoved` is what a step of *any other* actor, another
  machine's included, leaves a process: its record, and of the stores everything that `touched` and
  `remade` do not name; each part is kept under it (`SyncKept`, `MoveKept`, `KnowsKept`), so interleavings are
  dealt with once. And `Placed` says which fields a record has at each place (no key twice in a
  plan among them: a key that is said to be written is not written again), so a step of the
  process itself is a case of what `Onward` makes of it.
- `MigrationCarries` is about what the source lists, whatever its listings leave out (`skipped`); that nothing is
  left out is not so, as the further instances of `MigrationCarriesAll` show.

`StoredSecretProofs`, of `SecretCache` (every set of stores, names, scopes, objects and calls, every deployment, any ttl and
latency, overlapping calls in an object included but for `PrefixIsComplete`):

- `StaleIsBounded`, `WritesReachFile`, `BuildIsSame`, `TypeCorrect`. `StaleBounded` speaks of what is fresh now and
  is not inductive: an entry that is not served yet, in the file or in another copy, and the answer of a
  call that has not returned, may be served later. The invariant dates all three. A version *stood at*
  a time when nothing replaced it before then (`StoodAt`); an answer stood when its call began
  (`AnswersRecent`), and every entry of every copy `Latency` before its stamp (`CopiesTraced`). A
  write ends the time a version stands from now on, and stamps are of the past, so no step
  undoes either (`StoodStays`, `TracedStays`). The time of a backend call is in the bound because
  `store` stamps with the time it *ends*.
- `PrefixIsComplete` has the hypothesis `OneCallEach`, no object with two calls in flight; without it the property
  is false, as a further instance shows. The code compares a count; the invariant
  (`CopiesCounted`) names the set that is counted: the entries it stands for are in the same copy, of the same
  build and not older than the marker, so they outlive it, and every other name was absent at
  its stamp. A read that returns may replace one of those entries, with its own older stamp: it
  is not older than the marker because nothing has come into its copy since it began
  (`ReadsAreNewest`), which is what two overlapping calls break.

The same module, of `LocalStore` (every finite set of processes, every set of names and values, any number of
commands and kills):

- `LocalTypeCorrect`, however commands overlap, from `Shaped`. The step that needs an argument is that `OpenTmp`
  finds a file: a process has one file open at most and the store is one, so one of the others is
  free (`TmpFileFound`, by counting).
- `LocalKeepsPromise`, the refinement of `SecretStore`: for commands one at a time, and for readers beside one
  writer of a current store. The invariant (`Ordered`) says what the writer knows on its way through the
  files (`Knows`): its salt is the one on the disk, what it will write is the store with its change, the file
  at `secrets.enc.tmp` is the one it made, and what a migration writes is what is in the store. A
  command takes effect in `ReadStore` or in `RenameTmp` (`ReadApplies`, `RenameApplies`), every other step is a
  stutter, a call, an answer or a crash, and a step that refuses a command is impossible. That
  the store is sealed with the salt on the disk or with the legacy key (`Readable`) is why a kill at any
  step leaves the contents as they were.
- `StoreStaysReadable` follows: the next process can decrypt the store at every moment. For
  two first commands at once it is false (`MCLocalSalt` below).

`McpProtectProofs` (every set of homes, projects, keys, values, commands and places to start from, any order
of discovery, any number of processes, runs, kills and edits):

- `NamesBound` and `ProjectsStartTheirOwn`, while no two runs overlap (`OneAtATime`), whatever the user does
  during one. Both speak of what is stored and started and are not inductive. The invariant (`Inv`) says
  what a run that is alone has decided and not yet done: the binding it knows is the one
  stored (`Knows`), the one it is about to store is of a command that what is stored stood with
  (`Expects`), the secrets it has yet to store are of the entry its binding is for (`Stores`), and
  where it replaces another entry's binding it moves none (`Works`).
- `BindingsTakenFromGone`, while the user too waits for a run to end (`UserWaits`): then an entry the run
  has not come to is as it was read (`Fresh`), and what it writes is made of the file as it is
  (`Writes`). One that overlaps an edit takes a binding from an entry it found gone and that is back.
- `SecretsKept`, while the user waits, wherever a run is killed or a write broken off: of each secret a run takes
  out of a file the store has that value, or the run has yet to store it and the store has no other (`Copied`).
  The run that clears has a file that holds all that is stored (`Returned`). A configuration left
  cut counts for its backup (`Stands`), so no run may move or replace the backup of one (`Moves`).
- `HomesHeal`, while the user waits: `FitsEntry` says which binding, with which id written, an entry starts
  with. Every plan's does (`PlanFits`), the rewrite writes it (`FitsWritten`), and an entry the run is done
  with keeps it (`Healed`), since a later entry that binds the pair takes it away or, where both are
  wrapped, is a second reader. `NotLeft` is why killed runs heal: no state of such an entry is left as it is.

Both hypotheses on overlaps are needed: the instances below with `Overlaps={"run"}` and `{"edit"}` violate
`NamesAreBound` and `NoSecretLost` (`{"edit"}` also `TakenOnlyFromGone` and `HealsHome`).

Assumptions: `GrantAssumption`, `ValuesAssumption` (levels are integers or absent, a life is positive,
a malformed grant has no binding, `None` is no value), `AuditAssumption` (a file has at least one line, one rotated file at least is kept),
`LimiterAssumption`, `RulesAssumption` (what `validateRule` admits, and pairs that share
a key share a limit: the code counts one window against two limits otherwise), `ResolveAssumption`
(a positive `Ttl` and window, finitely many requests, `None` is no value), `VaultAssumption` (`None` is no name, key or
command), `TransferAssumption` (there is a plain key, since sync and push are refused without a name; a plain key
and a whole one differ, and only such a pair may share a name in Secret Manager: `plainName` and
`encodeStoreKey` are injective each; an order lists each key of a set once; `None` is no value, verdict,
command or secret), `CacheAssumption` (finitely many names and stores, the marker's key is no name, `None` is no
cache and no value), `PlacesAssumption`, `HeldAssumption`, `OrderAssumption`, `UnreadAssumption`, `InitsAssumption`
(a place is a home's or a project's, the marks for no entry, no binding and not read are none, places
have different numbers), `LifecycleAssumption` (processes and commands are numbered in the order of their
start, `NoOne` is no process and no PID file), `ExposureAssumption` and
`WatchAssumption` (the mark for no value is no value; a line says a secret or nothing; the processes that
mark are not those of users), `LocalAssumption` (finitely many processes; the marks for no value, no salt, a cut file and
the legacy key are none of what they stand in place of). TLC evaluates each in the runs of its module.

**Only model-checked:** liveness (`EveryRequestSettles`, `EveryGrantSettles`, `StartSettles`, `SignalledEnds`,
`EverySecretRedacted`), which the proof system does not cover. Every invariant, action property and refinement
that a run checks is also proved, under the hypotheses named above.

## Further instances

What a comment, a document or a test says and the code does not keep, and where the exceptions of the
properties above come from. Each is a run by hand: `tlc -config X.cfg M`, with the configuration named,
or a run's own configuration with the constants and the property given. All end in a violation
unless the last column says otherwise.

| Instance | Property | Said | Happens |
|---|---|---|---|
| `MCResolveHang` | `EveryRequestAnswered` | "Fails gracefully if AIM is unavailable" (`broker/aim-client.ts:6`) | a response cut in its body leaves the request pending for ever |
| `MCResolveTrust`: `Agents={a1,a2}`, `Rules<-ShadowRules`, `AimConfigured=FALSE`, `AimMayAbort=FALSE`, `AuditMayFail=FALSE`, `MaxTime=4` | `FirstPassingRuleAllows` | "first match with passing constraints = allowed" (`broker/policy.ts:226`) | the first allow rule that matches decides, passing or not |
| `MCResolveThree` | `RevocationTakesEffect` | | passes: 3 requests, the process never ended by an audit failure |
| `MCResolveQuota`: `Rules<-RatedRules`, `KeyOf<-CollidingKeys`, `AuditMayFail=FALSE` | `RefusedForOwnUse` | a limit per agent and credential pair (`docs/use-cases/run-broker.md:128`) | pairs whose names join to one `agent:credential` string share a window |
| `MCLifecycleDrain` | `ServingIsReachable` | stop stops the daemon, and the daemon removes its files (`broker/daemon.ts:402`, `run-broker.md:393`) | a broker started during the drain loses its files to it |
| `MCLifecycle`: `Procs={1,2}`, `Overlaps={"any"}`, `AuditMayFail=FALSE` | `OneOwner` | "TOCTOU protection via O_EXCL" (`broker/daemon.ts:199`) | the unlink of a stale file before it takes another start's new file |
| the same | `AnsweredByChild` | "a 200 cannot come from another listener" (`broker/daemon.ts:336`) | with the child's PID file and another broker's token and port it does |
| `MCLifecycle`: `Procs={1,2}`, `Overlaps={"none"}` | `ShutdownLeavesNothing` | the shutdown removes socket, PID file and token (`run-broker.md:393`) | not when the shutdown record cannot be written |
| `MCAuditChain` | `ChainHolds` | "keeps one chain when two loggers write the same file" (`broker/audit.test.ts:389`) | two processes that read the tail before either appends chain to one line |
| `MCAudit`: `Overlaps={TRUE}`, `MayCrash=FALSE` | `NoneLost` | rotation "with 5 retained files" (`broker/audit.ts:4`) | two processes that rotate at once drop a file early |
| the same | `SignsWithThatKey` | "sign with that key" (`broker/audit.ts:143`) | a key file not yet written cannot be parsed, and the record is refused |
| `MCAudit`: `Overlaps={FALSE}` | `PubBesideRecords` | the public half is at `<log>.pub` (`broker/audit.ts:15`) | never, after a crash between the two writes |
| `MCCacheShortfall` | `PrefixComplete` | "Any shortfall is now a miss" (`backends/cache.ts:290`) | with two overlapping reads in one process the counts agree over different names |
| `MCCacheShared`: `Stores={st1}`, `Builds={b1}`, `Deployments<-Credentials`, `Ttl=2`, `MaxTime=3` | `NoneServesBefore` | "no scope keeps serving the value from before it" (`backends/cache.ts:401`) | another process does, from its copy in memory |
| the same | `ClearedStaysCleared` | `cache clear` is the remedy (`backends/cache.ts:500`) | a running process writes its copy back |
| `MCLocalSalt` | `StaysReadable` | "a persistent random salt" (`backends/local.ts:101`) | two first commands at once each write a salt; the store is sealed with the one that is gone |
| `MCTranscriptWatch`: `Windows={"open"}` | `NoLineLost` | the file's state is read again before the rename (`transcript.ts:455`) | a line appended after that and before the rename is lost |
| `MCWatchStop` | `RedactedIsMarked` | "Mark exposed every stored secret whose value `clean` or `watch` redacted" (`secret-exposure.ts:153`) | a watcher stopped while it marks has redacted and not marked |
| `MCTranscriptWatch`: `CommandOverlaps={"any"}`, `Stops={FALSE}` | `RedactedIsMarked` | the same | a command that rewrites the annotations it read before drops the mark |
| `MCTranscriptWatch` | `ClosedOnlyByRotationWhenStale` | "only a new value at the provider ends the exposure" (`secret-exposure.ts:5`) | a `set` killed or failed after its value and before its annotation (`secret-store.ts:142-145`), then a `set` back to the leaked value, closes it: the record is compared with the stored value, not with the leaked one |
| `MCMcpProtect` | `NothingOverwritten` | `protect-mcp` and `mcp-unprotect` take nothing out that has no copy | `mcp-unprotect` writes the backup over a secret put in since (`mcp/rewrite.ts:447`); and a write broken off leaves the configuration cut, with an older backup (`mcp/rewrite.ts:278`) |
| `MCMcpProtect`: `Overlaps={"edit"}` | `NoSecretLost` | `protect-mcp` takes nothing out that has no copy | a value the user saves between the read and the write of a configuration is overwritten |
| `MCMcpProtect`: `Projects={}`, `Runs={r1,r2}`, `Order<-JustHome`, `Overlaps={"run"}`, `MaxEdits=1` | `NamesAreBound` | binding first, deleted last | an unprotect deletes the binding a protect has just stored for its names |
| `MCMcpHomes` | all of `mcp` | | passes: two home configurations with the same pair, 2 runs |
| `MCMcpRetry` | `LeftoverDeleted` | "a binding with no names, which the wrapper refuses and a second call deletes" (`mcp/vault.ts:391`) | the second run finds nothing to restore and does not call it |
| `MCGrantLink` | `HonouredIsLinked` | the jti links the record to the token service's (`broker/cpi/types.ts:83`) | when the answer of the exchange is lost the token service has a record and the broker's has no jti |
| `MCIdentityVault` | `IdentityKept` | an identity in use is never replaced | two overlapping inits draw a key each; the second replaces the first |
| the same | `RevokeDeletes` | "Revoke a namespace (delete credential)" (`commands/vault.ts:268`) | killed between the two, the next revoke finds it revoked and deletes nothing |
| the same | `RegisteredResolves` | the message of `vault register` | a value registered into a revoked namespace is stored and never resolves |
| `MCTransferVault` | `MigrationCarriesAll` | "every entry under `path/`" (`backends/types.ts:48`), "Migrate all known prefixes." (`commands/backend.ts:388`) | a Vault is listed one level deep and names that end in a slash are skipped (`backends/vault.ts:180`), so the keys of MCP servers, `mcp/<client>/<server>/<env>`, stay behind, and the Vault is no longer the configured store |
| `MCTransferVault`: `Products={"gcp-sm"}`, `ListMaySkip=TRUE` | `MigrationCarriesAll` | "Resolves all secrets from the source backend under a given prefix" (`backends/migrate.ts:4`) | an entry the listing was refused to read is neither copied nor reported; passes with `ListMaySkip=FALSE` |
| `MCTransfer` | `NothingPushedIsSo` | "Nothing was pushed." (`commands/secrets.ts:1428`) | the first write was applied and answered too late: "may still have been applied" (`backends/vault.ts:57`) is not in the first line of the error, which is all that is kept (`secret-push.ts:223`) |
| `MCTransfer`, without `k \notin touched[p]` and `k \in touched[p]` | `ReportsTellTruth`, `UnforcedKeepsLocal` | sync "leaves a local value that differs as it is unless `--force` is given" (`docs/how-it-works.md:76`) | a value stored after the list, or after the read, is replaced and called created |

## What is not modelled

- Of the broker: the validation of a policy file; the loop of `matchGlob`; the order of the three
  stores `CredentialResolver` asks; of grants, signatures, the canonical form and the wire format of
  the token endpoint, which are a verdict each, and the lifetime events. The unlinks of one `stop` are one step. A PID is not reused, the
  clock is monotone, the program that holds the HTTP port is a broker.
- Of the cache: `clearCache` within a process, the shared temporary file, a file that does not
  decrypt, `ttlMs <= 0`.
- Of the local store: `list`'s filter. Of the other stores: the key index (`key-index.ts`), which two
  processes update without a lock, and the stores behind a command-line tool.
- Of the watcher: its PID file, the directories it watches, lines longer than the scanner reads, the
  patterns (a line says a secret or not). Several transcripts differ in nothing the model has.
- Of the user's secrets: import from a file.
- Of MCP protection: what counts as a secret, the shapes of clients' files, symbolic links between
  homes (binding homes), the search for copies above the directory of a run, wrapper versions.
- Of the audit log: at the last level of a rotation the unlink of the oldest file and the rename to its name are one step.
- Of transfers: other names on the other side (`--as`).
- Of the identity vault: that `register` looks a namespace up and makes it in two calls (one step); the encryption and the registry's own writes, which are in a library; `list`,
  `audit`, `scan` and `test`, which read.
- The scanner (`scan.ts`, `patterns.ts`, `validity.ts`), `init.ts`, `doctor.ts`, `status.ts` and the
  commands' printing are most of the lines of the repository. They are sequential programs from a
  file's text to another text or a report, with no state of their own between calls: their
  behaviour is in the patterns and the wording, which these models leave out.
- The other components, with the reason for each in `PROJECT.json` ("components").

## The plan

1. `Session` (`session/`): expiry, a stale session file, and the hook that refuses commands outside of one; the key index and the deadline of a
   child process against its late answer (`backends/key-index.ts`, `bounded-child.ts`), beside
   `SecretTransfer`.
2. Pure algorithms against a reference definition: `matchGlob`, `isWithinTimeWindow`, prefix matching.
