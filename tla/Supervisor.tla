----------------------------- MODULE Supervisor -----------------------------
(***************************************************************************)
(* The process supervisor (internal/core/supervisor.go), used by several   *)
(* HTTP handlers at once.  Every step is one critical section of s.mu, one *)
(* blocking operation between two critical sections, or an event of the    *)
(* operating system.                                                       *)
(*                                                                         *)
(* Identities: a started process p stands for its *exec.Cmd, for the done  *)
(* channel made with it (cmd and cmdDone are assigned together in every    *)
(* place) and for the firewall snapshot stored with it, which the code     *)
(* compares as pointers.  Left out: log lines, StartedAt, error texts, and *)
(* what a snapshot holds (every restore ends in the clean-up that removes  *)
(* the rules of both cores, whatever the snapshot brought back).           *)
(***************************************************************************)
EXTENDS Naturals

CONSTANTS
    Clients,      \* goroutines of HTTP handlers that call the supervisor
    Cores,        \* the supported cores (mihomo, sing-box)
    Procs,        \* identities of started processes; finite in a run
    None,         \* no process, no core, no snapshot (nil)
    KillMayFail,  \* whether Process.Kill may fail on a running process
    MaxBoots      \* bound on restarts of the server process

ASSUME NoneIsNothing == None \notin Procs /\ None \notin Cores
ASSUME KillMayFailIsBoolean == KillMayFail \in BOOLEAN
ASSUME MaxBootsIsNat == MaxBoots \in Nat

VARIABLES
    \* fields of the Supervisor, guarded by s.mu
    cmd,          \* s.cmd and s.cmdDone
    state,        \* s.status.State
    core,         \* s.status.Core
    snapshot,     \* s.firewallSnapshot
    \* the operating system
    proc,         \* the life of each process, up to close(done)
    watched,      \* processes with a wait goroutine in this server process
    rules,        \* processes whose network rules are in the kernel
    boots,        \* restarts of the server process so far
    \* the calls in progress: control state and local variables
    pc, op, want, seen, saved,
    \* history: processes that left s.cmd before their exit was observed
    letGo

supervisor == <<cmd, state, core, snapshot>>
locals == <<op, want, seen, saved>>
vars == <<supervisor, proc, watched, rules, boots, pc, locals, letGo>>

States == {"stopped", "starting", "running", "stopping", "failed"}
Ops == {"none", "stop", "restart", "startFailed"}
Points == {"idle", "kill", "await", "clear", "restore", "forget", "launch",
           "health", "promote", "failRead", "failKill", "failAwait", "failMark"}

\* unused -> spawned -> serving -> killed -> exited or crashed -> waited -> closed.
\* A spawned process has installed no network rules and answers nothing yet; exited
\* is exit code 0; waited is between the critical section of wait and close(done).
Running == {"spawned", "serving"}
Ended == {"exited", "crashed"}
Life == {"unused", "killed", "waited", "closed"} \cup Running \cup Ended

TypeOK ==
    /\ cmd \in Procs \cup {None}
    /\ state \in States
    /\ core \in Cores \cup {None}
    /\ snapshot \in Procs \cup {None}
    /\ proc \in [Procs -> Life]
    /\ watched \in SUBSET Procs
    /\ rules \in SUBSET Procs
    /\ boots \in Nat
    /\ pc \in [Clients -> Points]
    /\ op \in [Clients -> Ops]
    /\ want \in [Clients -> Cores \cup {None}]
    /\ seen \in [Clients -> Procs \cup {None}]
    /\ saved \in [Clients -> Procs \cup {None}]
    /\ letGo \in SUBSET Procs

Init ==
    /\ cmd = None
    /\ state = "stopped"
    /\ core = None
    /\ snapshot = None
    /\ proc = [p \in Procs |-> "unused"]
    /\ watched = {}
    /\ rules = {}
    /\ boots = 0
    /\ pc = [c \in Clients |-> "idle"]
    /\ op = [c \in Clients |-> "none"]
    /\ want = [c \in Clients |-> None]
    /\ seen = [c \in Clients |-> None]
    /\ saved = [c \in Clients |-> None]
    /\ letGo = {}

-----------------------------------------------------------------------------
(* Helpers *)

At(c, point) == pc[c] = point
Goto(c, point) == pc' = [pc EXCEPT ![c] = point]

\* The call returns (its result is not kept: the handlers only report it).
Return(c) ==
    /\ Goto(c, "idle")
    /\ op' = [op EXCEPT ![c] = "none"]
    /\ want' = [want EXCEPT ![c] = None]
    /\ seen' = [seen EXCEPT ![c] = None]
    /\ saved' = [saved EXCEPT ![c] = None]

SetStatus(s, k) == state' = s /\ core' = k

\* A process that has not exited.
Alive == {p \in Procs : proc[p] \in Running \cup {"killed"}}

\* Process.Kill on a process: os.ErrProcessDone counts as success in the code.
Killed(p) == IF proc[p] \in Running THEN [proc EXCEPT ![p] = "killed"] ELSE proc

-----------------------------------------------------------------------------
(* Stop, and Restart, which is Stop followed by Start *)

\* The first critical section.  With nothing to stop the status is reset and the
\* call goes on to the firewall; otherwise the process is to be killed.
StopBegin(c, o, k) ==
    /\ At(c, "idle")
    /\ op' = [op EXCEPT ![c] = o]
    /\ want' = [want EXCEPT ![c] = k]
    /\ seen' = [seen EXCEPT ![c] = cmd]
    /\ saved' = [saved EXCEPT ![c] = snapshot]
    /\ IF cmd = None
          THEN SetStatus("stopped", None) /\ Goto(c, "restore")
          ELSE SetStatus("stopping", core) /\ Goto(c, "kill")
    /\ UNCHANGED <<cmd, snapshot, proc, watched, rules, boots, letGo>>

StopKill(c) ==
    /\ At(c, "kill")
    /\ proc' = Killed(seen[c])
    /\ Goto(c, "await")
    /\ UNCHANGED <<supervisor, watched, rules, boots, locals, letGo>>

\* The kill fails for another reason than a finished process: Stop gives up.
StopKillFails(c) ==
    /\ KillMayFail
    /\ At(c, "kill")
    /\ proc[seen[c]] \in Running
    /\ Return(c)
    /\ UNCHANGED <<supervisor, proc, watched, rules, boots, letGo>>

\* Mutant: Stop goes on as soon as the signal is sent.
StopAwaitMutant(c) ==
    /\ At(c, "await")
    /\ Goto(c, "clear")
    /\ UNCHANGED <<supervisor, proc, watched, rules, boots, locals, letGo>>

StopAwait(c) ==
    /\ At(c, "await")
    /\ proc[seen[c]] = "closed"
    /\ Goto(c, "clear")
    /\ UNCHANGED <<supervisor, proc, watched, rules, boots, locals, letGo>>

\* The request's context ends first: the firewall is left as it is.
StopCancelled(c) ==
    /\ At(c, "await")
    /\ Return(c)
    /\ UNCHANGED <<supervisor, proc, watched, rules, boots, letGo>>

\* The second critical section of Stop.
StopClear(c) ==
    /\ At(c, "clear")
    /\ cmd' = IF cmd = seen[c] THEN None ELSE cmd
    /\ IF cmd = seen[c] \/ state = "stopping"
          THEN SetStatus("stopped", None)
          ELSE UNCHANGED <<state, core>>
    /\ Goto(c, "restore")
    /\ UNCHANGED <<snapshot, proc, watched, rules, boots, locals, letGo>>

-----------------------------------------------------------------------------
(* restoreFirewallState, the last part of Stop and of a failed start *)

\* The commands succeed: no rule of a core is left, whosever it was.
RestoreDone(c) ==
    /\ At(c, "restore")
    /\ rules' = {}
    /\ Goto(c, "forget")
    /\ UNCHANGED <<supervisor, proc, watched, boots, locals, letGo>>

\* Mutant: the error of a restore is dropped, Restart goes on to Start.
RestoreFailsMutant(c) ==
    /\ At(c, "restore")
    /\ \E left \in SUBSET rules : rules' = left
    /\ IF op[c] = "restart"
          THEN Goto(c, "launch") /\ UNCHANGED locals
          ELSE Return(c)
    /\ UNCHANGED <<supervisor, proc, watched, boots, letGo>>

\* A command fails or the 15 seconds end: some rules may be gone, the snapshot
\* stays for a later Stop, and the call returns the error.
RestoreFails(c) ==
    /\ At(c, "restore")
    /\ \E left \in SUBSET rules : rules' = left
    /\ Return(c)
    /\ UNCHANGED <<supervisor, proc, watched, boots, letGo>>

\* Mutant: the snapshot is dropped without comparing it.
RestoreForgetMutant(c) ==
    /\ At(c, "forget")
    /\ snapshot' = None
    /\ IF op[c] = "restart"
          THEN Goto(c, "launch") /\ UNCHANGED locals
          ELSE Return(c)
    /\ UNCHANGED <<cmd, state, core, proc, watched, rules, boots, letGo>>

\* The last critical section: the snapshot is dropped unless a start stored
\* another one.  Stop and the failed start return, Restart goes on to Start.
RestoreForget(c) ==
    /\ At(c, "forget")
    /\ snapshot' = IF snapshot = saved[c] THEN None ELSE snapshot
    /\ IF op[c] = "restart"
          THEN Goto(c, "launch") /\ UNCHANGED locals
          ELSE Return(c)
    /\ UNCHANGED <<cmd, state, core, proc, watched, rules, boots, letGo>>

-----------------------------------------------------------------------------
(* Start *)

\* Mutant: Start does not look whether a core is managed already.
StartProcessMutant(c, p) ==
    /\ At(c, "launch")
    /\ proc[p] = "unused"
    /\ proc' = [proc EXCEPT ![p] = "spawned"]
    /\ watched' = watched \cup {p}
    /\ cmd' = p
    /\ snapshot' = p
    /\ SetStatus("starting", want[c])
    /\ Goto(c, "health")
    /\ UNCHANGED <<rules, boots, locals, letGo>>

\* The critical section of Start, with the process started inside it.
StartProcess(c, p) ==
    /\ At(c, "launch")
    /\ cmd = None
    /\ proc[p] = "unused"
    /\ proc' = [proc EXCEPT ![p] = "spawned"]
    /\ watched' = watched \cup {p}
    /\ cmd' = p
    /\ snapshot' = p
    /\ SetStatus("starting", want[c])
    /\ Goto(c, "health")
    /\ UNCHANGED <<rules, boots, locals, letGo>>

\* "core is already running", or the process cannot be started: no field changes.
StartRefused(c) ==
    /\ At(c, "launch")
    /\ Return(c)
    /\ UNCHANGED <<supervisor, proc, watched, rules, boots, letGo>>

\* The health endpoint answers.  It is an address, not a process: whichever core
\* listens there answers for the one this call started.
HealthPasses(c) ==
    /\ At(c, "health")
    /\ \E p \in Procs : proc[p] = "serving"
    /\ Goto(c, "promote")
    /\ UNCHANGED <<supervisor, proc, watched, rules, boots, locals, letGo>>

\* The deadline of 10 seconds or the request's context ends first.
HealthFails(c) ==
    /\ At(c, "health")
    /\ Goto(c, "failRead")
    /\ UNCHANGED <<supervisor, proc, watched, rules, boots, locals, letGo>>

\* setRunning, which checks nothing.
SetRunning(c) ==
    /\ At(c, "promote")
    /\ SetStatus("running", want[c])
    /\ Return(c)
    /\ UNCHANGED <<cmd, snapshot, proc, watched, rules, boots, letGo>>

-----------------------------------------------------------------------------
(* stopAfterStartFailure *)

\* It reads what is managed now, which need not be what this call started.
FailRead(c) ==
    /\ At(c, "failRead")
    /\ op' = [op EXCEPT ![c] = "startFailed"]
    /\ seen' = [seen EXCEPT ![c] = cmd]
    /\ saved' = [saved EXCEPT ![c] = snapshot]
    /\ Goto(c, IF cmd = None THEN "failMark" ELSE "failKill")
    /\ UNCHANGED <<supervisor, proc, watched, rules, boots, want, letGo>>

FailKill(c) ==
    /\ At(c, "failKill")
    /\ proc' = Killed(seen[c])
    /\ Goto(c, "failAwait")
    /\ UNCHANGED <<supervisor, watched, rules, boots, locals, letGo>>

\* With a failed kill there is nothing to wait for.
FailKillFails(c) ==
    /\ KillMayFail
    /\ At(c, "failKill")
    /\ proc[seen[c]] \in Running
    /\ Goto(c, "failMark")
    /\ UNCHANGED <<supervisor, proc, watched, rules, boots, locals, letGo>>

\* Either done is closed or 5 seconds are over.
FailAwait(c) ==
    /\ At(c, "failAwait")
    /\ Goto(c, "failMark")
    /\ UNCHANGED <<supervisor, proc, watched, rules, boots, locals, letGo>>

FailMark(c) ==
    /\ At(c, "failMark")
    /\ IF cmd = seen[c]
          THEN cmd' = None /\ letGo' = letGo \cup ({seen[c]} \ {None})
          ELSE UNCHANGED <<cmd, letGo>>
    /\ SetStatus("failed", want[c])
    /\ Goto(c, "restore")
    /\ UNCHANGED <<snapshot, proc, watched, rules, boots, locals>>

-----------------------------------------------------------------------------
(* The wait goroutine of a process *)

\* Mutant: during a stop, the goroutine leaves the slot to Stop.
WaitReapsSlotMutant(p) ==
    /\ p \in watched
    /\ proc[p] \in Ended
    /\ proc' = [proc EXCEPT ![p] = "waited"]
    /\ IF cmd = p /\ state # "stopping"
          THEN /\ cmd' = None
               /\ SetStatus(IF proc[p] = "crashed" THEN "failed" ELSE "stopped", core)
          ELSE UNCHANGED <<cmd, state, core>>
    /\ UNCHANGED <<snapshot, watched, rules, boots, pc, locals, letGo>>

\* Mutant: during a stop, the goroutine leaves the status to Stop.
WaitReapsStatusMutant(p) ==
    /\ p \in watched
    /\ proc[p] \in Ended
    /\ proc' = [proc EXCEPT ![p] = "waited"]
    /\ cmd' = IF cmd = p THEN None ELSE cmd
    /\ IF cmd = p /\ state # "stopping"
          THEN SetStatus(IF proc[p] = "crashed" THEN "failed" ELSE "stopped", core)
          ELSE UNCHANGED <<state, core>>
    /\ UNCHANGED <<snapshot, watched, rules, boots, pc, locals, letGo>>

\* Its critical section, after cmd.Wait has returned.
WaitReaps(p) ==
    /\ p \in watched
    /\ proc[p] \in Ended
    /\ proc' = [proc EXCEPT ![p] = "waited"]
    /\ IF cmd = p
          THEN /\ cmd' = None
               /\ IF proc[p] = "crashed" /\ state # "stopping"
                     THEN SetStatus("failed", core)
                     ELSE SetStatus("stopped", None)
          ELSE UNCHANGED <<cmd, state, core>>
    /\ UNCHANGED <<snapshot, watched, rules, boots, pc, locals, letGo>>

\* Mutant: done is not closed for a process another call took out of the slot.
WaitClosesMutant(p) ==
    /\ p \in watched \ letGo
    /\ proc[p] = "waited"
    /\ proc' = [proc EXCEPT ![p] = "closed"]
    /\ UNCHANGED <<supervisor, watched, rules, boots, pc, locals, letGo>>

\* The deferred close(done), which runs after the deferred unlock.
WaitCloses(p) ==
    /\ p \in watched
    /\ proc[p] = "waited"
    /\ proc' = [proc EXCEPT ![p] = "closed"]
    /\ UNCHANGED <<supervisor, watched, rules, boots, pc, locals, letGo>>

-----------------------------------------------------------------------------
(* The operating system *)

\* A core comes up: it installs its rules and answers on its controller.
ProcServes(p) ==
    /\ proc[p] = "spawned"
    /\ proc' = [proc EXCEPT ![p] = "serving"]
    /\ rules' = rules \cup {p}
    /\ UNCHANGED <<supervisor, watched, boots, pc, locals, letGo>>

\* A core exits by itself and takes its rules with it.
ProcExits(p) ==
    /\ proc[p] \in Running
    /\ proc' = [proc EXCEPT ![p] = "exited"]
    /\ rules' = rules \ {p}
    /\ UNCHANGED <<supervisor, watched, boots, pc, locals, letGo>>

\* A core dies, of itself or of SIGKILL, and leaves its rules behind.
ProcCrashes(p) ==
    /\ p \in Alive
    /\ proc' = [proc EXCEPT ![p] = "crashed"]
    /\ UNCHANGED <<supervisor, watched, rules, boots, pc, locals, letGo>>

\* The server process ends without stopping its core (main.go only shuts the
\* HTTP server down) and is started again: a new Supervisor, the old processes.
ServerRestarts ==
    /\ boots < MaxBoots
    /\ boots' = boots + 1
    /\ cmd' = None
    /\ SetStatus("stopped", None)
    /\ snapshot' = None
    /\ watched' = {}
    /\ letGo' = letGo \cup ({cmd} \ {None})
    /\ pc' = [c \in Clients |-> "idle"]
    /\ op' = [c \in Clients |-> "none"]
    /\ want' = [c \in Clients |-> None]
    /\ seen' = [c \in Clients |-> None]
    /\ saved' = [c \in Clients |-> None]
    /\ UNCHANGED <<proc, rules>>

-----------------------------------------------------------------------------
Stop(c) == StopBegin(c, "stop", None)
Restart(c) == \E k \in Cores : StopBegin(c, "restart", k)

ClientStep(c) ==
    \/ StopKill(c) \/ StopKillFails(c) \/ StopAwait(c) \/ StopClear(c)
    \/ RestoreDone(c) \/ RestoreFails(c) \/ RestoreForget(c)
    \/ (\E p \in Procs : StartProcess(c, p)) \/ StartRefused(c)
    \/ HealthPasses(c) \/ HealthFails(c) \/ SetRunning(c)
    \/ FailRead(c) \/ FailKill(c) \/ FailKillFails(c) \/ FailAwait(c)
    \/ FailMark(c)

ProcStep(p) ==
    \/ WaitReaps(p) \/ WaitCloses(p)
    \/ ProcServes(p) \/ ProcExits(p) \/ ProcCrashes(p)

Next ==
    \/ \E c \in Clients : Stop(c) \/ Restart(c) \/ ClientStep(c) \/ StopCancelled(c)
    \/ \E p \in Procs : ProcStep(p)
    \/ ServerRestarts

Spec == Init /\ [][Next]_vars

\* Everything the code and the operating system finish by themselves: a killed
\* process exits, the wait goroutine of an exited process runs, and a call in
\* progress takes its next step when it has one (deadlines pass and commands end).
\* Nothing makes a client call or hang up, a core come up or a healthy core die:
\* Stop, which waits for the exit without a deadline of its own, has to be
\* released by the wait goroutine.
Fairness ==
    /\ \A p \in Procs :
        /\ WF_vars(proc[p] = "killed" /\ ProcCrashes(p))
        /\ WF_vars(WaitReaps(p))
        /\ WF_vars(WaitCloses(p))
    /\ \A c \in Clients : WF_vars(ClientStep(c))

FairSpec == Spec /\ Fairness

-----------------------------------------------------------------------------
(* Safety *)

Slot == INSTANCE CoreSlot WITH
            slot <- cmd,
            live <- Alive,
            gone <- {p \in Procs : proc[p] \in {"waited", "closed"}}

\* The supervisor implements the abstract slot, however its callers interleave.
ImplementsSlot == Slot!Spec

\* No core process runs beside the managed one except those a failing start gave
\* up on or an earlier server process left behind; and s.cmd never holds a process
\* whose exit was already handled, which would refuse every later start.
OneManagedCore == Slot!OneManaged

\* As long as a process this server started has rules in the kernel, the snapshot
\* that undoes them is kept: neither a crash of the core, nor a failed restore, nor
\* the restore of another call loses it.
RulesRemembered ==
    rules \cap watched \subseteq letGo \/ snapshot # None

\* A status that announces a change has a process that change is about, so that
\* the wait goroutine can still end it.
TransitionHasProcess == state \in {"starting", "stopping"} => cmd # None

\* "starting" is only reported while the call that starts this core is in progress.
StartingHasStarter ==
    state = "starting" =>
        \E c \in Clients :
            /\ pc[c] \in {"health", "promote", "failRead", "failKill",
                          "failAwait", "failMark"}
            /\ want[c] = core

-----------------------------------------------------------------------------
(* The inductive invariant behind them *)

Unreaped == Running \cup {"killed"} \cup Ended

\* The managed process is one whose exit was not handled, and was not let go of;
\* its snapshot is the current one.
SlotUnreaped ==
    cmd # None => proc[cmd] \in Unreaped /\ cmd \notin letGo /\ snapshot = cmd

UnreapedKnown == \A p \in Procs : proc[p] \in Unreaped => p = cmd \/ p \in letGo

\* Nothing refers to a process that was not started.
UnusedFresh ==
    \A p \in Procs :
        proc[p] = "unused" =>
            p # snapshot /\ p \notin letGo /\ \A c \in Clients : saved[c] # p

\* A call that read a process read its snapshot with it ...
SeenWithSaved ==
    \A c \in Clients :
        /\ pc[c] \in {"kill", "await", "clear", "failKill", "failAwait"} => seen[c] # None
        /\ seen[c] # None => saved[c] = seen[c]

\* ... and when it comes to restoring that snapshot, its process left the slot.
SavedLeftSlot ==
    \A c \in Clients :
        \/ pc[c] \in {"clear", "restore", "forget"}
        \/ pc[c] = "failMark" /\ seen[c] = None
        => saved[c] = None \/ saved[c] # cmd

\* Between the restore and the critical section that drops its snapshot no managed
\* process has added rules, unless another start has replaced the snapshot.
RestoredClean ==
    \A c \in Clients :
        pc[c] = "forget" /\ saved[c] = snapshot /\ saved[c] # None =>
            rules \cap watched \subseteq letGo

IInv ==
    /\ TypeOK
    /\ SlotUnreaped
    /\ UnreapedKnown
    /\ UnusedFresh
    /\ SeenWithSaved
    /\ SavedLeftSlot
    /\ RestoredClean
    /\ RulesRemembered
    /\ TransitionHasProcess
    /\ StartingHasStarter

-----------------------------------------------------------------------------
(* What a single caller gets (Clients has one member), as in supervisor_test.go *)

\* The firewall is restored after the core is gone: its exit was waited for, the
\* slot is empty, and after a Stop the status says so.
RestoreIsLast ==
    \A c \in Clients :
        pc[c] \in {"restore", "forget"} =>
            /\ cmd = None
            /\ Alive \subseteq letGo
            /\ op[c] # "startFailed" => state = "stopped"

\* Start replaces no snapshot that is still needed: when Restart reaches Start the
\* rules of earlier cores are undone and their snapshot was dropped.
SnapshotNotOverwritten ==
    \A c \in Clients :
        pc[c] = "launch" => snapshot = None /\ rules \subseteq letGo

\* After a successful Restart the status is "running" and there is a command
\* (supervisor_test.go asks for both).  It fails: setRunning looks at nothing, so a
\* core that dies after its health check passed is reported as running.
RunningHasProcess == state = "running" => cmd # None

-----------------------------------------------------------------------------
(* Liveness, where kills work and the server process stays up *)

\* Every call returns, even if no client hangs up: a Stop is always woken by the
\* exit it waits for, also when another call took the process out of s.cmd.
CallsReturn == \A c \in Clients : pc[c] # "idle" ~> pc[c] = "idle"

\* The status does not stay at "starting" or "stopping".
TransitionsEnd ==
    state \in {"starting", "stopping"} ~> state \notin {"starting", "stopping"}
=============================================================================
