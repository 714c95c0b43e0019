---------------------------- MODULE RuntimeApply ----------------------------
(***************************************************************************)
(* Starting the selected core with the current configuration (the handlers *)
(* of internal/api that call startActiveRuntime), composed with Supervisor.*)
(* The configuration store, the configuration files and the supervisor are *)
(* shared; no lock spans two of them, and none spans a whole request.      *)
(*                                                                         *)
(* The configuration is abstracted to the selected core and a revision,    *)
(* the identity of everything else the compiler reads from the store; the  *)
(* document compiled from it is the revision again.  (The ids of the       *)
(* selected rule sets come with the core, in the first of two reads.)  A   *)
(* file that was truncated and not yet written, or written by two requests *)
(* at once, is Torn.                                                       *)
(***************************************************************************)
EXTENDS Supervisor

CONSTANTS
    Editors,      \* goroutines of handlers that edit the configuration
    MaxRevs       \* bound on edits of the configuration

ASSUME MaxRevsIsNat == MaxRevs \in Nat

VARIABLES
    selected,     \* GlobalConfig.Fields["selectedCore"]
    rev,          \* revision of the rest of the stored configuration
    edits,        \* edits so far
    draft,        \* what a handler of PUT /api/runtime/core has read
    file,         \* the configuration file of each core
    checked,      \* cores whose file passed Validate since it was last written
    stage,        \* progress of a request outside the supervisor
    plan,         \* what the request holds: a core and a revision
    kind,         \* the core a process was started as, and ...
    meant,        \* ... the revision the request that started it had compiled
    loaded,       \* the document a process read when it came up
    trusted,      \* processes that came up from a checked file
    crossed,      \* requests whose file another request has opened or written since ...
    shared        \* ... they opened it, and processes before which that happened

store == <<selected, rev, edits, draft>>
requests == <<stage, plan, crossed>>
history == <<kind, meant, loaded, trusted, shared>>
applyVars == <<store, file, checked, requests, history>>
allVars == <<vars, applyVars>>

Revs == 0 .. MaxRevs
Torn == MaxRevs + 1
Absent == MaxRevs + 2
Docs == 0 .. (MaxRevs + 2)
NoPlan == [core |-> None, rev |-> 0]
Plans == [core : Cores \cup {None}, rev : Revs]

Stages == {"none", "chosen", "compiled", "writing", "written", "validated", "restarting"}

ApplyTypeOK ==
    /\ TypeOK
    /\ selected \in Cores
    /\ rev \in Revs
    /\ edits \in Revs
    /\ draft \in [Editors -> Plans]
    /\ file \in [Cores -> Docs]
    /\ checked \in SUBSET Cores
    /\ stage \in [Clients -> Stages]
    /\ plan \in [Clients -> Plans]
    /\ kind \in [Procs -> Cores \cup {None}]
    /\ meant \in [Procs -> Revs]
    /\ loaded \in [Procs -> Docs]
    /\ trusted \in SUBSET Procs
    /\ crossed \in SUBSET Clients
    /\ shared \in SUBSET Procs

ApplyInit ==
    /\ Init
    /\ selected \in Cores
    /\ rev = 0
    /\ edits = 0
    /\ draft = [e \in Editors |-> NoPlan]
    /\ file = [k \in Cores |-> Absent]
    /\ checked = {}
    /\ stage = [c \in Clients |-> "none"]
    /\ plan = [c \in Clients |-> NoPlan]
    /\ kind = [p \in Procs |-> None]
    /\ meant = [p \in Procs |-> 0]
    /\ loaded = [p \in Procs |-> Absent]
    /\ trusted = {}
    /\ crossed = {}
    /\ shared = {}

-----------------------------------------------------------------------------
(* Editing the configuration *)

\* An edit of the store (PUT /api/config, inbounds, rule sets, a sync): one
\* critical section of the store.
Edit(e) ==
    /\ draft[e] = NoPlan
    /\ edits < MaxRevs
    /\ edits' = edits + 1
    /\ rev' = edits'
    /\ UNCHANGED <<vars, selected, draft, file, checked, requests, history>>

\* PUT /api/runtime/core reads the whole configuration in one critical section ...
SelectRead(e) ==
    /\ draft[e] = NoPlan
    /\ \E k \in Cores : draft' = [draft EXCEPT ![e] = [core |-> k, rev |-> rev]]
    /\ UNCHANGED <<vars, selected, rev, edits, file, checked, requests, history>>

\* ... and replaces it, with the core changed, in another.
SelectWrite(e) ==
    /\ draft[e] # NoPlan
    /\ selected' = draft[e].core
    /\ rev' = draft[e].rev
    /\ draft' = [draft EXCEPT ![e] = NoPlan]
    /\ UNCHANGED <<vars, edits, file, checked, requests, history>>

-----------------------------------------------------------------------------
(* startActiveRuntime up to the supervisor *)

\* runtimeSelection: the first read of the store.
Choose(c) ==
    /\ pc[c] = "idle"
    /\ stage[c] = "none"
    /\ plan' = [plan EXCEPT ![c] = [core |-> selected, rev |-> 0]]
    /\ stage' = [stage EXCEPT ![c] = "chosen"]
    /\ UNCHANGED <<vars, store, file, checked, crossed, history>>

\* compileRuntime: the second read.
Compile(c) ==
    /\ stage[c] = "chosen"
    /\ plan' = [plan EXCEPT ![c].rev = rev]
    /\ stage' = [stage EXCEPT ![c] = "compiled"]
    /\ UNCHANGED <<vars, store, file, checked, crossed, history>>

\* The other requests that have opened the same file, and the processes that have yet to
\* read it.
Holders(c) == {d \in Clients \ {c} : /\ stage[d] \in {"writing", "written", "validated", "restarting"}
                                     /\ plan[d].core = plan[c].core}
Readers(c) == {p \in Procs : proc[p] = "spawned" /\ kind[p] = plan[c].core}

\* Mutant: a file that is there already is not written again.
OpenFileMutant(c) ==
    /\ stage[c] = "compiled"
    /\ LET k == plan[c].core
       IN  /\ file' = IF file[k] = Absent THEN [file EXCEPT ![k] = Torn] ELSE file
           /\ stage' = [stage EXCEPT ![c] = IF file[k] = Absent THEN "writing" ELSE "written"]
    /\ crossed' = (crossed \ {c}) \cup Holders(c)
    /\ shared' = shared \cup Readers(c)
    /\ UNCHANGED <<vars, store, checked, plan, kind, meant, loaded, trusted>>

\* os.WriteFile opens the file of the core with O_TRUNC ...
OpenFile(c) ==
    /\ stage[c] = "compiled"
    /\ file' = [file EXCEPT ![plan[c].core] = Torn]
    /\ checked' = checked \ {plan[c].core}
    /\ stage' = [stage EXCEPT ![c] = "writing"]
    /\ crossed' = (crossed \ {c}) \cup Holders(c)
    /\ shared' = shared \cup Readers(c)
    /\ UNCHANGED <<vars, store, plan, kind, meant, loaded, trusted>>

\* ... and writes from its start.  Over what another request wrote meanwhile the
\* result is this document, or this document with the other's tail.
WriteFile(c) ==
    /\ stage[c] = "writing"
    /\ LET k == plan[c].core
           docs == IF file[k] = Torn THEN {plan[c].rev} ELSE {plan[c].rev, Torn}
       IN  \E d \in docs : file' = [file EXCEPT ![k] = d]
    /\ checked' = checked \ {plan[c].core}
    /\ stage' = [stage EXCEPT ![c] = "written"]
    /\ crossed' = crossed \cup Holders(c)
    /\ shared' = shared \cup Readers(c)
    /\ UNCHANGED <<vars, store, plan, kind, meant, loaded, trusted>>

\* Mutant: the core is restarted whatever it says of the file.
ValidateMutant(c) ==
    /\ stage[c] = "written"
    /\ stage' = [stage EXCEPT ![c] = "validated"]
    /\ UNCHANGED <<vars, store, file, checked, plan, crossed, history>>

\* Validate runs the core on whatever the file holds now.
Validate(c) ==
    /\ stage[c] = "written"
    /\ file[plan[c].core] # Torn
    /\ checked' = checked \cup {plan[c].core}
    /\ stage' = [stage EXCEPT ![c] = "validated"]
    /\ UNCHANGED <<vars, store, file, plan, crossed, history>>

\* An error return of any of these steps (no binary, a compile, file or geo data
\* error, a configuration the core rejects).
ApplyFails(c) ==
    /\ stage[c] \in {"chosen", "compiled", "writing", "written"}
    /\ stage' = [stage EXCEPT ![c] = "none"]
    /\ plan' = [plan EXCEPT ![c] = NoPlan]
    /\ UNCHANGED <<vars, store, file, checked, crossed, history>>

-----------------------------------------------------------------------------
(* The supervisor, and what its steps mean here *)

\* A request ends when its supervisor call returns.
FollowCalls ==
    /\ stage' = [c \in Clients |->
          IF pc[c] # "idle" /\ pc'[c] = "idle" THEN "none" ELSE stage[c]]
    /\ plan' = [c \in Clients |->
          IF pc[c] # "idle" /\ pc'[c] = "idle" THEN NoPlan ELSE plan[c]]
    /\ crossed' = {c \in crossed : ~(pc[c] # "idle" /\ pc'[c] = "idle")}

\* Mutant: the adapter is looked up again, for the core selected now.
CallRestartMutant(c) ==
    /\ stage[c] = "validated"
    /\ StopBegin(c, "restart", selected)
    /\ stage' = [stage EXCEPT ![c] = "restarting"]
    /\ UNCHANGED <<store, file, checked, plan, crossed, history>>

CallRestart(c) ==
    /\ stage[c] = "validated"
    /\ StopBegin(c, "restart", plan[c].core)
    /\ stage' = [stage EXCEPT ![c] = "restarting"]
    /\ UNCHANGED <<store, file, checked, plan, crossed, history>>

CallStop(c) ==
    /\ stage[c] = "none"
    /\ Stop(c)
    /\ stage' = [stage EXCEPT ![c] = "restarting"]
    /\ UNCHANGED <<store, file, checked, plan, crossed, history>>

Launch(c, p) ==
    /\ StartProcess(c, p)
    /\ kind' = [kind EXCEPT ![p] = plan[c].core]
    /\ meant' = [meant EXCEPT ![p] = plan[c].rev]
    /\ shared' = IF c \in crossed THEN shared \cup {p} ELSE shared
    /\ UNCHANGED <<store, file, checked, requests, loaded, trusted>>

Proceed(c) ==
    /\ ClientStep(c) \/ StopCancelled(c)
    /\ \A p \in Procs : ~StartProcess(c, p)
    /\ FollowCalls
    /\ UNCHANGED <<store, file, checked, history>>

\* A core reads its configuration file when it comes up; with a torn one it does not.
Load(p) ==
    /\ ProcServes(p)
    /\ file[kind[p]] # Torn
    /\ loaded' = [loaded EXCEPT ![p] = file[kind[p]]]
    /\ trusted' = IF kind[p] \in checked THEN trusted \cup {p} ELSE trusted
    /\ UNCHANGED <<store, file, checked, requests, kind, meant, shared>>

\* Nothing asks about a process that is gone.
Close(p) ==
    /\ WaitCloses(p)
    /\ kind' = [kind EXCEPT ![p] = None]
    /\ meant' = [meant EXCEPT ![p] = 0]
    /\ loaded' = [loaded EXCEPT ![p] = Absent]
    /\ trusted' = trusted \ {p}
    /\ shared' = shared \ {p}
    /\ UNCHANGED <<store, file, checked, requests>>

OtherProcStep(p) ==
    /\ WaitReaps(p) \/ ProcExits(p) \/ ProcCrashes(p)
    /\ UNCHANGED applyVars

\* A new server process: files, store and running cores survive it.
NewServer ==
    /\ ServerRestarts
    /\ stage' = [c \in Clients |-> "none"]
    /\ plan' = [c \in Clients |-> NoPlan]
    /\ crossed' = {}
    /\ UNCHANGED <<store, file, checked, history>>

ApplyNext ==
    \/ \E e \in Editors : Edit(e) \/ SelectRead(e) \/ SelectWrite(e)
    \/ \E c \in Clients :
        \/ Choose(c) \/ Compile(c) \/ OpenFile(c) \/ WriteFile(c) \/ Validate(c)
        \/ ApplyFails(c)
        \/ CallRestart(c) \/ CallStop(c) \/ Proceed(c)
        \/ \E p \in Procs : Launch(c, p)
    \/ \E p \in Procs : Load(p) \/ Close(p) \/ OtherProcStep(p)
    \/ NewServer

ApplySpec == ApplyInit /\ [][ApplyNext]_allVars

-----------------------------------------------------------------------------
(* Properties *)

\* A core comes up only from a file that was validated after it was last written:
\* startActiveRuntime validates, then restarts, and the core reads the file later, when its
\* own request may have given it up and others, or another server process, have come.  But
\* for cores that start beside another request for the same core, which writes their file.
ValidatedBeforeRun ==
    \A p \in Procs : proc[p] = "serving" /\ p \notin shared => p \in trusted

\* A core runs the document compiled by the request that started it, not one an
\* earlier or a later request left in the file; with the same exception.
RunsWhatWasCompiled ==
    \A p \in Procs : proc[p] = "serving" /\ p \notin shared => loaded[p] = meant[p]

\* The core the status names is the core the managed process was started as:
\* handleRuntimeStatus compares it with the selected one.  For calls of the supervisor that
\* do not overlap.
StatusNamesCore == cmd # None => core = kind[cmd]

=============================================================================
