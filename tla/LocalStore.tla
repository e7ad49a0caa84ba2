----------------------------- MODULE LocalStore -----------------------------
(***************************************************************************)
(* The encrypted file store (LocalBackend, backends/local.ts): its salt,   *)
(* its store file and metadata, and the commands that read and write them. *)
(*                                                                         *)
(* Every command is a process of its own: it makes a LocalBackend (salt,   *)
(* key, migration from the legacy key) and then reads, stores or deletes.  *)
(* A call never awaits, so what interleaves is file operations of          *)
(* different processes, and a process may be killed between any two.       *)
(*                                                                         *)
(* A file is written by name and keeps its identity when it is renamed:    *)
(* the store and secrets.enc.tmp are numbers of files, and files holds     *)
(* what is in them, Missing for a file that is gone.  The key is derived   *)
(* from the salt, so a file is sealed with a salt, or with the legacy key, *)
(* which needs none.  Of the metadata only the version is ever read; of a  *)
(* value only which one it is matters.                                     *)
(***************************************************************************)
EXTENDS Integers, FiniteSets, FiniteSetsExt

CONSTANTS
    Procs,        \* the processes that run commands
    Keys,         \* the names of the secrets
    Values,
    Starts,       \* what a behaviour starts from: see LocalInit
    Overlaps,     \* which commands may overlap: see MayStart
    MaxCommands,  \* bound on the commands
    Missing,      \* no value, no salt, no file
    Cut,          \* what is in a file that is truncated, or written by two processes at once
    Legacy        \* in place of a salt: the key of deriveLegacyKey

VARIABLES
    overlap,   \* which commands may overlap in this behaviour
    salt,      \* .salt: Missing, Cut or a salt
    files,     \* what is in each file made at secrets.enc.tmp
    store,     \* the file at secrets.enc, 0 when there is none
    tmp,       \* the file at secrets.enc.tmp, 0 when there is none
    meta,      \* secrets.meta.json: is there a stamped version?
    metaTmp,   \* is there a file at secrets.meta.json.tmp?
    proc,      \* the command of each process
    commands   \* commands started so far

disk == <<salt, files, store, tmp, meta, metaTmp>>
localVars == <<overlap, disk, proc, commands>>

OldSalt == 0  \* a salt from before the behaviour
Salts == 0..MaxCommands

\* The store, secrets.enc.tmp, and the file each process has open.
Files == 1..Cardinality(Procs) + 2

Nothing == [k \in Keys |-> Missing]
Maps == [Keys -> Values \union {Missing}]
Sealed(s, map) == [seal |-> s, map |-> map]
SealedFiles == [seal : Salts \union {Legacy}, map : Maps]

\* The markers are none of what they stand in place of.
ASSUME LocalAssumption ==
    /\ IsFiniteSet(Procs) /\ MaxCommands \in Nat
    /\ Starts \subseteq {"none", "legacy", "current"}
    /\ Legacy \notin Salts /\ Cut \notin Salts /\ Missing \notin Salts
    /\ Cut \notin Maps /\ Missing \notin Maps /\ Cut # Missing
    /\ Cut \notin SealedFiles /\ Missing \notin SealedFiles

\* What is in the store file, which is there.
InStore == files[store]

\* A process with this salt can decrypt the store.
Decrypts(s) == InStore # Cut /\ InStore.seal = s

Idle(p) == proc[p].pc = "idle"
At(p, pc) == proc[p].pc = pc
Goes(p, pc) == proc' = [proc EXCEPT ![p].pc = pc]

\* A process without a command, and how the last one ended.
NoCommand(result) ==
    [pc |-> "idle", op |-> "read", key |-> Missing, value |-> Missing, salt |-> OldSalt,
     seen |-> Missing, write |-> Missing, file |-> 0, result |-> result]

\* The command of p ends.
Ends(p, result) == proc' = [proc EXCEPT ![p] = NoCommand(result)]

\* May a command start, by what the others are doing?
MayStart(op) ==
    LET busy == {p \in Procs : ~Idle(p)}
    IN  CASE overlap = "none"    -> busy = {}
          [] overlap = "readers" -> op = "read" \/ \A p \in busy : proc[p].op = "read"
          [] overlap = "any"     -> TRUE

Start(p, op, k, v) ==
    /\ Idle(p)
    /\ op = "read" <=> k = Missing
    /\ op # "store" <=> v = Missing
    /\ commands < MaxCommands
    /\ MayStart(op)
    /\ commands' = commands + 1
    /\ proc' = [proc EXCEPT ![p] =
          [pc |-> "salt", op |-> op, key |-> k, value |-> v, salt |-> commands + 1,
           seen |-> Missing, write |-> Missing, file |-> 0, result |-> "none"]]
    /\ UNCHANGED <<overlap, disk>>

\* loadOrCreateSalt: a whole salt is used, anything else is replaced by one of our own.
LoadSalt(p) ==
    /\ At(p, "salt")
    /\ IF salt \in Salts
       THEN /\ proc' = [proc EXCEPT ![p].pc = "migrate", ![p].salt = salt]
            /\ UNCHANGED salt
       ELSE /\ salt' = Cut
            /\ Goes(p, "newSalt")
    /\ UNCHANGED <<overlap, files, store, tmp, meta, metaTmp, commands>>

WriteSalt(p) ==
    /\ At(p, "newSalt")
    /\ salt' = proc[p].salt
    /\ Goes(p, "migrate")
    /\ UNCHANGED <<overlap, files, store, tmp, meta, metaTmp, commands>>

\* migrateIfNeeded: a store that only the legacy key opens is written again.
MigrateIfNeeded(p) ==
    /\ At(p, "migrate")
    /\ IF store # 0 /\ Decrypts(Legacy)
       THEN proc' = [proc EXCEPT ![p].pc = "open", ![p].write = InStore.map]
       ELSE Goes(p, "command")
    /\ UNCHANGED <<overlap, disk, commands>>

Migrating(p) == proc[p].seen = Missing

(***************************************************************************)
(* readStore, and what the command makes of it: a read or the deletion of  *)
(* a name that is not there is done, and the others have a new store to    *)
(* write.  A store that is there and cannot be read refuses the command.   *)
(***************************************************************************)
ReadStore(p) ==
    LET key == proc[p].key
        map == IF store = 0 THEN Nothing ELSE InStore.map
    IN  /\ At(p, "command")
        /\ \/ /\ store # 0 /\ ~Decrypts(proc[p].salt)
              /\ Ends(p, "failed")
           \/ /\ store # 0 => Decrypts(proc[p].salt)
              /\ proc[p].op = "read" \/ (proc[p].op = "delete" /\ map[key] = Missing)
              /\ proc' = [proc EXCEPT ![p].pc = "answer", ![p].seen = map]
           \/ /\ store # 0 => Decrypts(proc[p].salt)
              /\ proc[p].op = "store" \/ (proc[p].op = "delete" /\ map[key] # Missing)
              /\ proc' = [proc EXCEPT ![p].pc = "open", ![p].seen = map,
                             ![p].write = [map EXCEPT ![key] =
                                 IF proc[p].op = "store" THEN proc[p].value ELSE Missing]]
        /\ UNCHANGED <<overlap, disk, commands>>

\* The files a process writes at the moment.
Open == {proc[q].file : q \in {r \in Procs : At(r, "fill")}}

\* Mutant of TmpFile: the store is written in place.
TmpFileMutInPlace ==
    IF store # 0 THEN store ELSE IF tmp # 0 THEN tmp ELSE Min(Files \ Open)

\* What writeFileSync opens at secrets.enc.tmp: the file there, or a new one.
TmpFile == IF tmp # 0 THEN tmp ELSE Min(Files \ (Open \union {store}))

\* writeFileSync on secrets.enc.tmp opens it, which makes it or cuts it.
OpenTmp(p) ==
    /\ At(p, "open")
    /\ files' = [files EXCEPT ![TmpFile] = Cut]
    /\ tmp' = TmpFile
    /\ proc' = [proc EXCEPT ![p].pc = "fill", ![p].file = TmpFile]
    /\ UNCHANGED <<overlap, salt, store, meta, metaTmp, commands>>

\* ... and writes it, wherever it has been renamed to, over what another process wrote.
FillTmp(p) ==
    LET file == proc[p].file
    IN  /\ At(p, "fill")
        /\ \/ files' = [files EXCEPT ![file] = Sealed(proc[p].salt, proc[p].write)]
           \/ files[file] # Cut /\ files' = [files EXCEPT ![file] = Cut]
        /\ Goes(p, "rename")
        /\ UNCHANGED <<overlap, salt, store, tmp, meta, metaTmp, commands>>

\* renameSync, which fails when another process has renamed the file.
RenameTmp(p) ==
    /\ At(p, "rename")
    /\ IF tmp # 0
       THEN /\ store' = tmp
            /\ tmp' = 0
            /\ files' = [f \in Files |-> IF f = store /\ f \notin Open THEN Missing ELSE files[f]]
            /\ Goes(p, IF Migrating(p) THEN "command" ELSE "metadata")
       ELSE /\ IF Migrating(p) THEN Goes(p, "command") ELSE Ends(p, "failed")
            /\ UNCHANGED <<files, store, tmp>>
    /\ UNCHANGED <<overlap, salt, meta, metaTmp, commands>>

\* The metadata is written: always by a store, by a delete when there is some.
WriteMetadata(p) ==
    /\ At(p, "metadata")
    /\ IF proc[p].op = "store" \/ meta
       THEN metaTmp' = TRUE /\ Goes(p, "renameMetadata")
       ELSE UNCHANGED metaTmp /\ Goes(p, "answer")
    /\ UNCHANGED <<overlap, salt, files, store, tmp, meta, commands>>

\* Its rename, whose failure refuses a store and is ignored by a delete.
RenameMetadata(p) ==
    /\ At(p, "renameMetadata")
    /\ IF metaTmp
       THEN meta' = TRUE /\ metaTmp' = FALSE /\ Goes(p, "answer")
       ELSE /\ IF proc[p].op = "delete" THEN Goes(p, "answer") ELSE Ends(p, "failed")
            /\ UNCHANGED <<meta, metaTmp>>
    /\ UNCHANGED <<overlap, salt, files, store, tmp, commands>>

Answer(p) ==
    /\ At(p, "answer")
    /\ Ends(p, "ok")
    /\ UNCHANGED <<overlap, disk, commands>>

Crash(p) ==
    /\ ~Idle(p)
    /\ Ends(p, "crashed")
    /\ UNCHANGED <<overlap, disk, commands>>

(***************************************************************************)
(* A machine with no store; one from a build with the legacy key; one      *)
(* whose store is current.  Commands that overlap start from a store that  *)
(* is current, unless they may all overlap.                                *)
(***************************************************************************)
LocalInit ==
    \E start \in Starts, map \in Maps :
        /\ overlap \in Overlaps
        /\ overlap = "readers" => start = "current"
        /\ salt = IF start = "current" THEN OldSalt ELSE Missing
        /\ files = [f \in Files |->
              IF start = "none" \/ f # 1 THEN Missing
              ELSE Sealed(IF start = "legacy" THEN Legacy ELSE OldSalt, map)]
        /\ start = "none" => map = Nothing
        /\ store = IF start = "none" THEN 0 ELSE 1
        /\ tmp = 0
        /\ meta = (start = "current")
        /\ metaTmp = FALSE
        /\ proc = [p \in Procs |-> NoCommand("none")]
        /\ commands = 0

LocalNext ==
    \E p \in Procs :
        \/ \E op \in {"store", "delete", "read"}, k \in Keys \union {Missing}, v \in Values \union {Missing} :
              Start(p, op, k, v)
        \/ LoadSalt(p) \/ WriteSalt(p) \/ MigrateIfNeeded(p)
        \/ ReadStore(p)
        \/ OpenTmp(p) \/ FillTmp(p) \/ RenameTmp(p)
        \/ WriteMetadata(p) \/ RenameMetadata(p)
        \/ Answer(p)
        \/ Crash(p)

LocalSpec == LocalInit /\ [][LocalNext]_localVars
-----------------------------------------------------------------------------
Pcs == {"idle", "salt", "newSalt", "migrate", "command", "open", "fill", "rename",
        "metadata", "renameMetadata", "answer"}

\* Every variable has its shape, and the names of files name files.
LocalTypeOK ==
    /\ overlap \in Overlaps
    /\ salt \in Salts \union {Missing, Cut}
    /\ files \in [Files -> SealedFiles \union {Cut, Missing}]
    /\ store \in {0} \union Files /\ tmp \in {0} \union Files
    /\ meta \in BOOLEAN /\ metaTmp \in BOOLEAN
    /\ proc \in [Procs -> [pc : Pcs, op : {"store", "delete", "read"},
                           key : Keys \union {Missing}, value : Values \union {Missing},
                           salt : Salts, seen : Maps \union {Missing}, write : Maps \union {Missing},
                           file : {0} \union Files,
                           result : {"none", "ok", "failed", "crashed"}]]
    /\ commands \in 0..MaxCommands

\* What the next command would find in the store, and Cut when it could not be read.
Contents ==
    IF store = 0 THEN Nothing
    ELSE IF Decrypts(Legacy) \/ Decrypts(salt) THEN InStore.map
    ELSE Cut

\* How far the command of p has come.
CallState(p) ==
    CASE At(p, "idle") -> proc[p].result
      [] proc[p].pc \in {"metadata", "renameMetadata", "answer"} -> "applied"
      [] OTHER -> "asked"

CommandCalls ==
    [p \in Procs |->
        [op |-> proc[p].op, key |-> proc[p].key, value |-> proc[p].value,
         seen |-> IF proc[p].op = "read" THEN proc[p].seen ELSE Missing,
         state |-> CallState(p)]]

Promise ==
    INSTANCE SecretStore
    WITH Commands <- Procs, None <- Missing, contents <- Contents, call <- CommandCalls

PromisedStep == overlap \in {"none", "readers"} => Promise!Next

(***************************************************************************)
(* Commands that do not overlap, from any store of this or an earlier      *)
(* build, and readers that overlap one writer, see a store in which each   *)
(* command takes effect at one moment and none is refused; wherever a      *)
(* process is killed, the next command finds the store as it was before    *)
(* the change or after it: "a write is the worst possible moment to guess".*)
(***************************************************************************)
KeepsPromise ==
    /\ Promise!Init
    /\ [][PromisedStep]_<<Contents, CommandCalls>>

(***************************************************************************)
(* "Derive an encryption key using scrypt with a persistent random salt":  *)
(* the store can be decrypted by a process that starts now.                *)
(***************************************************************************)
StaysReadable == Contents # Cut
=============================================================================
