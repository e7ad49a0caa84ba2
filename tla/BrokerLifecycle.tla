-------------------------- MODULE BrokerLifecycle --------------------------
(***************************************************************************)
(* Starting and stopping the broker daemon: startDaemon, spawnDaemon and   *)
(* stopDaemon of broker/daemon.ts with start and stop of broker/server.ts. *)
(*                                                                         *)
(* Each element of Procs is one `broker start` process, started by hand or *)
(* by spawnDaemon (the warm command); each element of Stops is one         *)
(* `broker stop`.  They share the PID file, the token file, the Unix       *)
(* socket path and the TCP port of one home directory, and interleave at   *)
(* every file operation.  A process may be killed between any two of its   *)
(* steps, and what it wrote stays.                                         *)
(*                                                                         *)
(* A PID is not reused, and no other program listens on the port.          *)
(***************************************************************************)
EXTENDS Integers, FiniteSets

CONSTANTS
    Procs,         \* the broker processes, numbered in the order of their start
    Stops,         \* the stop commands, numbered in the order of their issue
    Overlaps,      \* the ways commands may overlap: "none", "drain", "any"
    MaxStarts,     \* MaxStarts[o]: bound on the processes started, by overlap
    AuditMayFail,  \* may logEvent throw?
    AimMayAbort,   \* may AIM drop the connection of the start's probe in its answer?
    NoOne          \* no file, no owner

ASSUME LifecycleAssumption ==
    /\ Procs \subseteq Nat /\ Stops \subseteq Nat
    /\ Overlaps \subseteq {"none", "drain", "any"}
    /\ NoOne \notin Procs \union [pid : Procs, written : BOOLEAN]

VARIABLES
    overlap, \* how the commands of this behaviour overlap
    at,      \* the next step of each broker process
    sig,     \* the processes with a SIGTERM to handle
    spawn,   \* the spawnDaemon call that waits for a process, if there is one
    spc,     \* the next step of each stop command
    pidFile, \* NoOne, or the process that created it and whether it has been written
    token,   \* the token file: NoOne, or the process whose token it holds
    sock,    \* the socket path: NoOne, or the process that bound it
    port     \* the process that listens on the TCP port

files == <<pidFile, token, sock>>
lifeVars == <<overlap, at, sig, spawn, spc, files, port>>

\* startDaemon before its signal handlers are installed, and after.
Unguarded == {"check", "clear", "load", "create", "write"}
Starting == Unguarded \union
            {"policy", "token", "probe", "unlink", "bindSocket", "bindPort", "startup"}
Listening == {"bindPort", "startup", "hung", "serving"}
\* Both listeners are up; in "hung" start still waits for AIM's answer, and always will.
Serving == {"hung", "serving"}
Ended == {"refused", "failed", "stopped", "unrecorded", "killed"}

Alive(p) == at[p] \notin Ended \union {"unborn"}

\* Does p accept connections on the socket path?
Accepts(p) == p # NoOne /\ at[p] \in Listening

\* readPidFile: an unwritten file reads as no PID.
ReadPid == IF pidFile # NoOne /\ pidFile.written THEN pidFile.pid ELSE NoOne

\* isDaemonRunning
Running == ReadPid # NoOne /\ Alive(ReadPid)

\* The commands a user has issued have returned.
CommandsDone ==
    /\ \A p \in Procs : at[p] \notin Starting /\ spawn[p] \notin {"waiting", "stale"}
    /\ \A s \in Stops : spc[s] \in {"idle", "done"}

Quiet == CommandsDone /\ sig = {}

\* May the next command be issued?
MayIssue ==
    \/ overlap = "none" /\ Quiet /\ \A p \in Procs : at[p] # "draining"
    \/ overlap = "drain" /\ CommandsDone
    \/ overlap = "any"

-----------------------------------------------------------------------------
LifeInit ==
    /\ overlap \in Overlaps
    /\ at = [p \in Procs |-> "unborn"]
    /\ sig = {}
    /\ spawn = [p \in Procs |-> "none"]
    /\ spc = [s \in Stops |-> "idle"]
    /\ pidFile = NoOne
    /\ token = NoOne
    /\ sock = NoOne
    /\ port = NoOne

GoesTo(p, step) == at' = [at EXCEPT ![p] = step]

\* The process ends, and the kernel closes what it listened on.
End(p, how) ==
    /\ GoesTo(p, how)
    /\ sig' = sig \ {p}
    /\ port' = IF port = p THEN NoOne ELSE port

\* p is the next broker process a command starts.
Begins(p) ==
    /\ MayIssue
    /\ at[p] = "unborn"
    /\ \A q \in Procs : q < p => at[q] # "unborn"
    /\ Cardinality({q \in Procs : at[q] # "unborn"}) < MaxStarts[overlap]

\* broker start, in the foreground.
Start(p) ==
    /\ Begins(p)
    /\ GoesTo(p, "check")
    /\ UNCHANGED <<overlap, sig, spawn, spc, files, port>>

\* warm: spawnDaemon, when no broker runs.
Spawn(p) ==
    /\ Begins(p)
    /\ ~Running
    /\ GoesTo(p, "check")
    /\ spawn' = [spawn EXCEPT ![p] = "waiting"]
    /\ UNCHANGED <<overlap, sig, spc, files, port>>

\* Mutant of CheckRunning: a file that does not parse is taken for a broker.
CheckRunningMutUnwritten(p) ==
    /\ at[p] = "check"
    /\ IF pidFile # NoOne /\ (Alive(pidFile.pid) \/ ~pidFile.written)
       THEN End(p, "refused")
       ELSE GoesTo(p, "clear") /\ UNCHANGED <<sig, port>>
    /\ UNCHANGED <<overlap, spawn, spc, files>>

\* Mutant of CheckRunning: no check, the exclusive creation is trusted with it.
CheckRunningMutSkipped(p) ==
    /\ at[p] = "check"
    /\ GoesTo(p, "clear")
    /\ UNCHANGED <<overlap, sig, port, spawn, spc, files>>

\* isDaemonRunning
CheckRunning(p) ==
    /\ at[p] = "check"
    /\ IF Running THEN End(p, "refused")
                  ELSE GoesTo(p, "clear") /\ UNCHANGED <<sig, port>>
    /\ UNCHANGED <<overlap, spawn, spc, files>>

\* The PID file taken for stale is unlinked.
ClearStalePid(p) ==
    /\ at[p] = "clear"
    /\ pidFile' = NoOne
    /\ GoesTo(p, "load")
    /\ UNCHANGED <<overlap, sig, spawn, spc, token, sock, port>>

\* resolveRoute and loadGrants, either of which may refuse its file.
LoadGrants(p) ==
    /\ at[p] = "load"
    /\ \/ GoesTo(p, "create") /\ UNCHANGED <<sig, port>>
       \/ End(p, "failed")
    /\ UNCHANGED <<overlap, spawn, spc, files>>

\* openSync(pidFile, 'wx')
CreatePid(p) ==
    /\ at[p] = "create"
    /\ IF pidFile = NoOne
       THEN /\ pidFile' = [pid |-> p, written |-> FALSE]
            /\ GoesTo(p, "write")
            /\ UNCHANGED <<sig, port>>
       ELSE /\ End(p, "refused")
            /\ UNCHANGED pidFile
    /\ UNCHANGED <<overlap, spawn, spc, token, sock>>

\* writeSync to the descriptor, whose file another process may have unlinked;
\* then the signal handlers are installed.
WritePid(p) ==
    /\ at[p] = "write"
    /\ pidFile' = IF pidFile # NoOne /\ pidFile.pid = p
                  THEN [pidFile EXCEPT !.written = TRUE] ELSE pidFile
    /\ GoesTo(p, "policy")
    /\ UNCHANGED <<overlap, sig, spawn, spc, token, sock, port>>

\* server.start throws: cleanupPidFile, and the command exits.
StartFails(p) ==
    /\ End(p, "failed")
    /\ pidFile' = NoOne

\* loadPolicies, which may refuse the policy file.
LoadPolicies(p) ==
    /\ at[p] = "policy"
    /\ \/ GoesTo(p, "token") /\ UNCHANGED <<sig, port, pidFile>>
       \/ StartFails(p)
    /\ UNCHANGED <<overlap, spawn, spc, token, sock>>

\* The bearer token is generated and written.
WriteToken(p) ==
    /\ at[p] = "token"
    /\ token' = p
    /\ GoesTo(p, "probe")
    /\ UNCHANGED <<overlap, sig, spawn, spc, pidFile, sock, port>>

\* Mutant of ProbeSocket: a socket in use is waited for.
ProbeSocketMutWaits(p) ==
    /\ at[p] = "probe"
    /\ ~Accepts(sock)
    /\ GoesTo(p, IF sock = NoOne THEN "bindSocket" ELSE "unlink")
    /\ UNCHANGED <<overlap, sig, port, files, spawn, spc>>

\* isSocketInUse, when the socket path exists.
ProbeSocket(p) ==
    /\ at[p] = "probe"
    /\ \/ /\ sock = NoOne
          /\ GoesTo(p, "bindSocket")
          /\ UNCHANGED <<sig, port, pidFile>>
       \/ /\ sock # NoOne /\ ~Accepts(sock)
          /\ GoesTo(p, "unlink")
          /\ UNCHANGED <<sig, port, pidFile>>
       \/ /\ Accepts(sock)
          /\ StartFails(p)
    /\ UNCHANGED <<overlap, spawn, spc, token, sock>>

\* The stale socket is unlinked; unlinkSync throws when it is gone by now.
UnlinkSocket(p) ==
    /\ at[p] = "unlink"
    /\ IF sock # NoOne
       THEN /\ sock' = NoOne
            /\ GoesTo(p, "bindSocket")
            /\ UNCHANGED <<sig, port, pidFile>>
       ELSE /\ StartFails(p)
            /\ UNCHANGED sock
    /\ UNCHANGED <<overlap, spawn, spc, token>>

\* socketServer.listen
BindSocket(p) ==
    /\ at[p] = "bindSocket"
    /\ IF sock = NoOne
       THEN /\ sock' = p
            /\ GoesTo(p, "bindPort")
            /\ UNCHANGED <<sig, port, pidFile>>
       ELSE /\ StartFails(p)
            /\ UNCHANGED sock
    /\ UNCHANGED <<overlap, spawn, spc, token>>

\* httpServer.listen
BindPort(p) ==
    /\ at[p] = "bindPort"
    /\ IF port = NoOne
       THEN /\ port' = p
            /\ GoesTo(p, "startup")
            /\ UNCHANGED <<sig, pidFile>>
       ELSE StartFails(p)
    /\ UNCHANGED <<overlap, spawn, spc, token, sock>>

\* The AIM probe and the startup record.  A response of AIM that is cut in its body
\* settles neither isAvailable nor start, in a broker that listens by now.
Startup(p) ==
    /\ at[p] = "startup"
    /\ \/ GoesTo(p, "serving") /\ UNCHANGED <<sig, port, pidFile>>
       \/ AimMayAbort /\ GoesTo(p, "hung") /\ UNCHANGED <<sig, port, pidFile>>
       \/ AuditMayFail /\ StartFails(p)
    /\ UNCHANGED <<overlap, spawn, spc, token, sock>>

-----------------------------------------------------------------------------
\* The files server.stop and the signal handler remove, whoever wrote them.
RemoveFiles == pidFile' = NoOne /\ token' = NoOne /\ sock' = NoOne

\* Mutant of Terminate: the token file is left for the next start to overwrite.
TerminateMutKeepsToken(p) ==
    /\ p \in sig
    /\ \/ /\ at[p] \in Unguarded
          /\ End(p, "killed")
          /\ UNCHANGED files
       \/ /\ at[p] \in Starting \ (Unguarded \union Listening)
          /\ pidFile' = NoOne /\ sock' = NoOne /\ UNCHANGED token
          /\ End(p, "stopped")
       \/ /\ at[p] \in Listening
          /\ GoesTo(p, "draining")
          /\ sock' = NoOne
          /\ sig' = sig \ {p}
          /\ port' = IF port = p THEN NoOne ELSE port
          /\ UNCHANGED <<pidFile, token>>
    /\ UNCHANGED <<overlap, spawn, spc>>

\* SIGTERM.  Its default action before the handlers are installed; then
\* server.stop, which has nothing to wait for until a server listens, and else
\* closes the listeners, removing the socket path, and waits for what is in flight.
Terminate(p) ==
    /\ p \in sig
    /\ \/ /\ at[p] \in Unguarded
          /\ End(p, "killed")
          /\ UNCHANGED files
       \/ /\ at[p] \in Starting \ (Unguarded \union Listening)
          /\ RemoveFiles
          /\ End(p, "stopped")
       \/ /\ at[p] \in Listening
          /\ GoesTo(p, "draining")
          /\ sock' = NoOne
          /\ sig' = sig \ {p}
          /\ port' = IF port = p THEN NoOne ELSE port
          /\ UNCHANGED <<pidFile, token>>
    /\ UNCHANGED <<overlap, spawn, spc>>

\* The shutdown record cannot be written: stop throws, and only the PID file goes.
TerminateUnrecorded(p) ==
    /\ AuditMayFail
    /\ p \in sig
    /\ at[p] \in (Starting \ Unguarded) \union Serving
    /\ End(p, "unrecorded")
    /\ pidFile' = NoOne
    /\ UNCHANGED <<overlap, spawn, spc, token, sock>>

\* Mutant of Drained: no timer, and a connection that stays open: a second signal ends it.
DrainedMutNoTimer(p) ==
    /\ at[p] = "draining"
    /\ p \in sig
    /\ RemoveFiles
    /\ End(p, "stopped")
    /\ UNCHANGED <<overlap, spawn, spc>>

\* The last connection is closed, five seconds have passed, or a second signal came.
Drained(p) ==
    /\ at[p] = "draining"
    /\ RemoveFiles
    /\ End(p, "stopped")
    /\ UNCHANGED <<overlap, spawn, spc>>

\* SIGKILL, or the machine goes down under the process.
Crash(p) ==
    /\ Alive(p)
    /\ End(p, "killed")
    /\ UNCHANGED <<overlap, spawn, spc, files>>

-----------------------------------------------------------------------------
\* stopDaemon reads the PID file and signals the process it names.
StopSignals(s) ==
    /\ MayIssue
    /\ spc[s] = "idle"
    /\ \A z \in Stops : z < s => spc[z] # "idle"
    /\ spc' = [spc EXCEPT ![s] = IF ReadPid = NoOne THEN "done" ELSE "unlinkPid"]
    /\ sig' = IF Running THEN sig \union {ReadPid} ELSE sig
    /\ UNCHANGED <<overlap, at, spawn, files, port>>

\* cleanupPidFile
StopUnlinksPid(s) ==
    /\ spc[s] = "unlinkPid"
    /\ pidFile' = NoOne
    /\ spc' = [spc EXCEPT ![s] = "unlinkToken"]
    /\ UNCHANGED <<overlap, at, sig, spawn, token, sock, port>>

\* cleanupTokenFile
StopUnlinksToken(s) ==
    /\ spc[s] = "unlinkToken"
    /\ token' = NoOne
    /\ spc' = [spc EXCEPT ![s] = "done"]
    /\ UNCHANGED <<overlap, at, sig, spawn, pidFile, sock, port>>

\* getDaemonStatus finds the PID of a dead process.
PollStale(p) ==
    /\ spawn[p] = "waiting"
    /\ ReadPid # NoOne /\ ~Alive(ReadPid)
    /\ spawn' = [spawn EXCEPT ![p] = "stale"]
    /\ UNCHANGED <<overlap, at, sig, spc, files, port>>

\* It unlinks the PID file.
PollUnlinksPid(p) ==
    /\ spawn[p] = "stale"
    /\ pidFile' = NoOne
    /\ spawn' = [spawn EXCEPT ![p] = "waiting"]
    /\ UNCHANGED <<overlap, at, sig, spc, token, sock, port>>

\* The PID file names the child, and the listener on the port takes the token.
PollAnswered(p) ==
    /\ spawn[p] = "waiting"
    /\ ReadPid = p
    /\ Alive(p)
    /\ port # NoOne /\ token = port
    /\ spawn' = [spawn EXCEPT ![p] = "ready"]
    /\ UNCHANGED <<overlap, at, sig, spc, files, port>>

\* The child has exited, or timeoutMs have passed: SIGTERM.
SpawnFails(p) ==
    /\ spawn[p] = "waiting"
    /\ spawn' = [spawn EXCEPT ![p] = "failed"]
    /\ sig' = IF Alive(p) THEN sig \union {p} ELSE sig
    /\ UNCHANGED <<overlap, at, spc, files, port>>

-----------------------------------------------------------------------------
StartStep(p) ==
    \/ CheckRunning(p) \/ ClearStalePid(p) \/ LoadGrants(p) \/ CreatePid(p)
    \/ WritePid(p) \/ LoadPolicies(p) \/ WriteToken(p) \/ ProbeSocket(p)
    \/ UnlinkSocket(p) \/ BindSocket(p) \/ BindPort(p) \/ Startup(p)

StopStep(p) == Terminate(p) \/ TerminateUnrecorded(p) \/ Drained(p)

LifeNext ==
    \/ \E p \in Procs :
          \/ Start(p) \/ Spawn(p)
          \/ StartStep(p) \/ StopStep(p) \/ Crash(p)
          \/ PollStale(p) \/ PollUnlinksPid(p) \/ PollAnswered(p) \/ SpawnFails(p)
    \/ \E s \in Stops : StopSignals(s) \/ StopUnlinksPid(s) \/ StopUnlinksToken(s)

\* A process runs its own code, signals are delivered, and the five-second timer
\* of closeServer fires.
LifeFairness ==
    \A p \in Procs : WF_lifeVars(StartStep(p)) /\ WF_lifeVars(StopStep(p))

LifeSpec == LifeInit /\ [][LifeNext]_lifeVars /\ LifeFairness
-----------------------------------------------------------------------------
\* Every variable has its shape, and only a process that listens owns the port.
LifeTypeOK ==
    /\ overlap \in Overlaps
    /\ at \in [Procs -> Starting \union Ended \union Serving \union {"unborn", "draining"}]
    /\ sig \subseteq {p \in Procs : Alive(p)}
    /\ spawn \in [Procs -> {"none", "waiting", "stale", "ready", "failed"}]
    /\ spc \in [Stops -> {"idle", "unlinkPid", "unlinkToken", "done"}]
    /\ pidFile \in [pid : Procs, written : BOOLEAN] \union {NoOne}
    /\ token \in Procs \union {NoOne}
    /\ sock \in Procs \union {NoOne}
    /\ port \in {p \in Procs : at[p] \in {"startup"} \union Serving} \union {NoOne}

(***************************************************************************)
(* "removes the socket, pid file, and auth token on shutdown", its own: a  *)
(* broker that serves can be found.  When no command is under way and no   *)
(* signal is pending, the PID file, the token file, the socket path and    *)
(* the port are all those of the broker that is serving, whatever          *)
(* processes were killed, refused or stopped before, and whether or not    *)
(* its start has come back from AIM.                                       *)
(***************************************************************************)
ServingIsReachable ==
    Quiet =>
        \A p \in Procs : at[p] \in Serving =>
            /\ pidFile = [pid |-> p, written |-> TRUE]
            /\ token = p /\ sock = p /\ port = p

\* ... which holds when each command waits for what the one before it started.
SerialServingIsReachable == overlap = "none" => ServingIsReachable

(***************************************************************************)
(* "TOCTOU protection via O_EXCL": two brokers are never both past the     *)
(* creation of the PID file.                                               *)
(***************************************************************************)
OneOwner ==
    Cardinality({p \in Procs :
        at[p] \in (Starting \ Unguarded) \union Serving \union {"write"}}) <= 1

\* ... which holds when commands do not overlap, and so without the protection.
SerialOneOwner == overlap = "none" => OneOwner

(***************************************************************************)
(* "Broker daemon is already running" is said only while one is: a start   *)
(* is refused for the PID file only if another process is alive, so what a *)
(* killed broker left never keeps its successor from starting.             *)
(***************************************************************************)
RefusedOnlyForLiving ==
    [][\A p \in Procs : overlap = "none" /\ at[p] # "refused" /\ at'[p] = "refused" =>
          \E q \in Procs \ {p} : Alive(q)]_lifeVars

(***************************************************************************)
(* "a refused policy file leaves no socket and no token": when a start     *)
(* fails at one of its configuration files, no file of its own is left,    *)
(* whatever other processes did to the files while it was loading.         *)
(***************************************************************************)
RefusedPolicyLeavesNothing ==
    [][\A p \in Procs : at[p] \in {"load", "policy"} /\ at'[p] = "failed" =>
          token' # p /\ sock' # p /\ (pidFile' = NoOne \/ pidFile'.pid # p)]_lifeVars

(***************************************************************************)
(* "a 200 cannot come from another listener": what answers spawnDaemon's   *)
(* request is the process it spawned.                                      *)
(***************************************************************************)
AnsweredByChild ==
    [][\A p \in Procs : spawn[p] # "ready" /\ spawn'[p] = "ready" => port = p]_lifeVars

NothingLeftOf(p) == token # p /\ sock # p /\ (pidFile = NoOne \/ pidFile.pid # p)

(***************************************************************************)
(* "The daemon removes the socket, pid file, and auth token on shutdown":  *)
(* nothing of a broker that handled its signal, and could record it, is    *)
(* left, in any interleaving with other starts and stops.                  *)
(***************************************************************************)
StoppedLeavesNothing == \A p \in Procs : at[p] = "stopped" => NothingLeftOf(p)

\* The same of every broker that handled its signal.
ShutdownLeavesNothing ==
    \A p \in Procs : at[p] \in {"stopped", "unrecorded"} => NothingLeftOf(p)

\* A broker that is signalled ends, and so does the child of a spawn that timed out.
SignalledEnds == \A p \in Procs : (p \in sig) ~> (at[p] \in Ended)

\* A start comes to an end: it serves, or its process is gone, whatever the probe of the
\* socket finds.  The one await that may never end is that of AIM's answer, and by then
\* the broker listens: it serves and it can be stopped, and only its start never returns.
StartSettles ==
    \A p \in Procs :
        (at[p] = "check") ~> (at[p] \in Ended \union Serving \union {"draining"})
=============================================================================
