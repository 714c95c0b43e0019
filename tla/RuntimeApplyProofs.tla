-------------------------- MODULE RuntimeApplyProofs --------------------------
(***************************************************************************)
(* Proofs about RuntimeApply.  For any number of requests, server restarts *)
(* and kills that fail: its types, and that a core that comes up has read  *)
(* the validated document of the request that started it, unless another   *)
(* request has written the file in between.  For one request at a time:    *)
(* the status names the core that runs, and, while no server has ended and *)
(* kills work, nothing is written in between.                              *)
(***************************************************************************)
EXTENDS RuntimeApply, SupervisorProofs

-----------------------------------------------------------------------------
(* Any number of requests *)

\* A request is in a call of the supervisor exactly while it waits for one; a restart is
\* of the core that the request has chosen, and only a restart launches one.
RequestMatchesCall ==
    \A c \in Clients :
        /\ pc[c] # "idle" <=> stage[c] = "restarting"
        /\ stage[c] \notin {"none", "restarting"} => plan[c].core \in Cores
        /\ pc[c] # "idle" /\ op[c] = "restart" =>
             plan[c].core \in Cores /\ want[c] = plan[c].core
        /\ pc[c] \in {"launch", "health", "promote", "failRead"} => op[c] = "restart"
        /\ pc[c] \in {"failKill", "failAwait", "failMark"} => op[c] = "startFailed"

DraftsHaveCores == \A e \in Editors : draft[e] = NoPlan \/ draft[e].core \in Cores

\* A process was started as one of the cores, and is it as long as anything asks.
ProcsHaveCores == \A p \in Procs : proc[p] \notin {"unused", "closed"} => kind[p] \in Cores

ApplyIInv == ApplyTypeOK /\ RequestMatchesCall /\ DraftsHaveCores /\ ProcsHaveCores

\* From writing the file up to the launch nobody else writes it, unless the request is
\* crossed.
FileIsPlanned ==
    \A c \in Clients \ crossed :
        /\ stage[c] = "writing" => file[plan[c].core] = Torn
        /\ stage[c] = "written" => file[plan[c].core] = plan[c].rev
        /\ \/ stage[c] = "validated"
           \/ pc[c] \in {"kill", "await", "clear", "restore", "forget", "launch"}
                /\ op[c] = "restart"
           => file[plan[c].core] = plan[c].rev /\ plan[c].core \in checked

\* What has come up has read what its request has written, and what has yet to come up will.
ReadsItsFile ==
    \A p \in Procs \ shared :
        /\ proc[p] = "spawned" => kind[p] \in checked /\ file[kind[p]] = meant[p]
        /\ proc[p] = "serving" => loaded[p] = meant[p] /\ p \in trusted

StartIInv == ApplyIInv /\ FileIsPlanned /\ ReadsItsFile

-----------------------------------------------------------------------------
(* One request at a time *)

\* The managed process is of the core that the call is for, until the call has failed.
CallNamesCore ==
    \A c \in Clients :
        pc[c] \in {"health", "promote", "failRead"} /\ cmd # None => kind[cmd] = want[c]

\* Where kills work and no server has ended: what a failing start gives up on does not
\* run any more ...
GivenUpIsDead ==
    /\ \A p \in letGo : proc[p] \notin Running
    /\ \A c \in Clients :
         pc[c] \in {"failAwait", "failMark"} /\ seen[c] # None => proc[seen[c]] \notin Running

\* ... and a process comes up while its own request waits for it, or kills it ...
ComesUpInItsCall ==
    \A p \in Procs : proc[p] = "spawned" =>
        \A c \in Clients : pc[c] \in {"health", "failRead", "failKill"}

\* ... so that nothing is written in between.
NothingShared == crossed = {} /\ shared = {}

UndisturbedStart == boots = 0 => GivenUpIsDead /\ ComesUpInItsCall /\ NothingShared

-----------------------------------------------------------------------------
(* The supervisor's steps *)

\* A step of RuntimeApply is a step of the supervisor or leaves it alone.
LEMMA ApplyStepsSupervisor == ApplyIInv /\ [ApplyNext]_allVars => [Next]_vars
<1> SUFFICES ASSUME ApplyIInv, [ApplyNext]_allVars PROVE Next \/ UNCHANGED vars
  OBVIOUS
<1>1. ASSUME NEW e \in Editors, Edit(e) \/ SelectRead(e) \/ SelectWrite(e)
      PROVE UNCHANGED vars
  BY <1>1 DEF Edit, SelectRead, SelectWrite
<1>2. ASSUME NEW c \in Clients,
             \/ Choose(c) \/ Compile(c) \/ OpenFile(c) \/ WriteFile(c) \/ Validate(c)
             \/ ApplyFails(c)
      PROVE UNCHANGED vars
  BY <1>2 DEF Choose, Compile, OpenFile, WriteFile, Validate, ApplyFails
<1>3. ASSUME NEW c \in Clients, CallRestart(c) PROVE Next
  <2>1. plan[c].core \in Cores
    BY <1>3 DEF CallRestart, ApplyIInv, RequestMatchesCall
  <2> QED
    BY <1>3, <2>1 DEF CallRestart, Restart, Next
<1>4. ASSUME NEW c \in Clients, CallStop(c) PROVE Next
  BY <1>4 DEF CallStop, Next
<1>5. ASSUME NEW c \in Clients, Proceed(c) PROVE Next
  BY <1>5 DEF Proceed, Next
<1>6. ASSUME NEW c \in Clients, NEW p \in Procs, Launch(c, p) PROVE Next
  BY <1>6 DEF Launch, ClientStep, Next
<1>7. ASSUME NEW p \in Procs, Load(p) \/ Close(p) \/ OtherProcStep(p) PROVE Next
  BY <1>7 DEF Load, Close, OtherProcStep, ProcStep, Next
<1>8. CASE NewServer
  BY <1>8 DEF NewServer, Next
<1>9. CASE UNCHANGED allVars
  BY <1>9 DEF allVars
<1> QED
  BY <1>1, <1>2, <1>3, <1>4, <1>5, <1>6, <1>7, <1>8, <1>9 DEF ApplyNext

-----------------------------------------------------------------------------
(* The invariant of any number of requests *)

Launching == {"kill", "await", "clear", "restore", "forget", "launch"}

\* What a step of a call, other than a launch, does to the calls and the processes.
LEMMA CallStep ==
  ASSUME TypeOK, NEW c \in Clients, ClientStep(c) \/ StopCancelled(c),
         \A p \in Procs : ~StartProcess(c, p)
  PROVE  /\ pc[c] # "idle"
         /\ \A d \in Clients \ {c} : pc'[d] = pc[d] /\ op'[d] = op[d] /\ want'[d] = want[d]
         /\ pc'[c] # "idle" =>
              want'[c] = want[c] /\ (op'[c] = op[c] \/ op'[c] = "startFailed")
         /\ pc'[c] = "launch" => op'[c] = "restart"
         /\ pc'[c] \in {"health", "promote", "failRead"} =>
              pc[c] = "health" /\ op'[c] = op[c]
         /\ pc'[c] \in Launching => pc[c] \in Launching \cup {"failMark"} /\ op'[c] = op[c]
         /\ pc'[c] \in {"failKill", "failAwait", "failMark"} =>
              \/ op'[c] = "startFailed"
              \/ pc[c] \in {"failKill", "failAwait", "failMark"} /\ op'[c] = op[c]
         /\ \A p \in Procs : \/ proc'[p] = proc[p]
                             \/ proc[p] \in Running /\ proc'[p] = "killed"
<1> USE DEF TypeOK, At, Goto, Return, Launching, Killed, supervisor, locals
<1>1. CASE StopKill(c)
  BY <1>1 DEF StopKill
<1>2. CASE StopKillFails(c)
  BY <1>2 DEF StopKillFails
<1>3. CASE StopAwait(c)
  BY <1>3 DEF StopAwait
<1>4. CASE StopCancelled(c)
  BY <1>4 DEF StopCancelled
<1>5. CASE StopClear(c)
  BY <1>5 DEF StopClear
<1>6. CASE RestoreDone(c)
  BY <1>6 DEF RestoreDone
<1>7. CASE RestoreFails(c)
  BY <1>7 DEF RestoreFails
<1>8. CASE RestoreForget(c)
  BY <1>8 DEF RestoreForget
<1>9. CASE StartRefused(c)
  BY <1>9 DEF StartRefused
<1>10. CASE HealthPasses(c)
  BY <1>10 DEF HealthPasses
<1>11. CASE HealthFails(c)
  BY <1>11 DEF HealthFails
<1>12. CASE SetRunning(c)
  BY <1>12 DEF SetRunning
<1>13. CASE FailRead(c)
  BY <1>13 DEF FailRead
<1>14. CASE FailKill(c)
  BY <1>14 DEF FailKill
<1>15. CASE FailKillFails(c)
  BY <1>15 DEF FailKillFails
<1>16. CASE FailAwait(c)
  BY <1>16 DEF FailAwait
<1>17. CASE FailMark(c)
  BY <1>17 DEF FailMark
<1> QED
  BY <1>1, <1>2, <1>3, <1>4, <1>5, <1>6, <1>7, <1>8, <1>9, <1>10, <1>11, <1>12, <1>13, <1>14, <1>15, <1>16, <1>17 DEF ClientStep

\* One step per action.  What the supervisor does with its own variables is TypeNext's
\* and CallStep's.
LEMMA ApplyIInvNext == ApplyIInv /\ [ApplyNext]_allVars => ApplyIInv'
<1> SUFFICES ASSUME ApplyIInv, [ApplyNext]_allVars PROVE ApplyIInv'
  OBVIOUS
<1>0. TypeOK /\ TypeOK'
  BY ApplyStepsSupervisor, TypeNext DEF ApplyIInv, ApplyTypeOK
<1> USE NoneIsNothing, MaxRevsIsNat
    DEF ApplyIInv, ApplyTypeOK, RequestMatchesCall, DraftsHaveCores, ProcsHaveCores, Revs,
        Docs, Torn, Absent, Plans, NoPlan, Stages
<1>1. ASSUME NEW e \in Editors, Edit(e) PROVE ApplyIInv'
  BY <1>0, <1>1 DEF Edit, vars, locals, requests, history
<1>2. ASSUME NEW e \in Editors, SelectRead(e) PROVE ApplyIInv'
  BY <1>0, <1>2 DEF SelectRead, vars, locals, requests, history
<1>3. ASSUME NEW e \in Editors, SelectWrite(e) PROVE ApplyIInv'
  BY <1>0, <1>3 DEF SelectWrite, vars, locals, requests, history
<1>4. ASSUME NEW c \in Clients, Choose(c) PROVE ApplyIInv'
  BY <1>0, <1>4 DEF Choose, vars, locals, store, history
<1>5. ASSUME NEW c \in Clients, Compile(c) PROVE ApplyIInv'
  BY <1>0, <1>5 DEF Compile, vars, locals, store, history
<1>6. ASSUME NEW c \in Clients, OpenFile(c) PROVE ApplyIInv'
  BY <1>0, <1>6 DEF OpenFile, Holders, Readers, vars, locals, store, history
<1>7. ASSUME NEW c \in Clients, WriteFile(c) PROVE ApplyIInv'
  BY <1>0, <1>7 DEF WriteFile, Holders, Readers, vars, locals, store, history
<1>8. ASSUME NEW c \in Clients, Validate(c) PROVE ApplyIInv'
  BY <1>0, <1>8 DEF Validate, vars, locals, store, history
<1>9. ASSUME NEW c \in Clients, ApplyFails(c) PROVE ApplyIInv'
  BY <1>0, <1>9 DEF ApplyFails, vars, locals, store, history
<1>10. ASSUME NEW c \in Clients, CallRestart(c) PROVE ApplyIInv'
  BY <1>0, <1>10 DEF CallRestart, StopBegin, At, Goto, SetStatus, TypeOK, store, history
<1>11. ASSUME NEW c \in Clients, CallStop(c) PROVE ApplyIInv'
  BY <1>0, <1>11 DEF CallStop, Stop, StopBegin, At, Goto, SetStatus, TypeOK, store, history
<1>12. ASSUME NEW c \in Clients, Proceed(c) PROVE ApplyIInv'
  <2>1. RequestMatchesCall'
    BY <1>0, <1>12, CallStep DEF Proceed, FollowCalls, TypeOK
  <2>2. ProcsHaveCores'
    BY <1>0, <1>12, CallStep DEF Proceed, history, TypeOK, Running
  <2>3. ApplyTypeOK' /\ DraftsHaveCores'
    BY <1>0, <1>12 DEF Proceed, FollowCalls, store, history
  <2> QED
    BY <2>1, <2>2, <2>3
<1>13. ASSUME NEW c \in Clients, NEW p \in Procs, Launch(c, p) PROVE ApplyIInv'
  BY <1>0, <1>13 DEF Launch, StartProcess, At, Goto, SetStatus, TypeOK, locals, store, requests
<1>14. ASSUME NEW p \in Procs, Load(p) PROVE ApplyIInv'
  BY <1>0, <1>14 DEF Load, ProcServes, TypeOK, locals, store, requests
<1>15. ASSUME NEW p \in Procs, Close(p) PROVE ApplyIInv'
  BY <1>0, <1>15 DEF Close, WaitCloses, TypeOK, locals, store, requests
<1>16. ASSUME NEW p \in Procs, OtherProcStep(p) PROVE ApplyIInv'
  BY <1>0, <1>16 DEF OtherProcStep, WaitReaps, ProcExits, ProcCrashes, Running, Ended, Alive,
     SetStatus, TypeOK, locals, applyVars, store, requests, history
<1>17. CASE NewServer
  BY <1>0, <1>17 DEF NewServer, ServerRestarts, TypeOK, store, history
<1>18. CASE UNCHANGED allVars
  BY <1>0, <1>18 DEF allVars, vars, locals, applyVars, store, requests, history
<1> QED
  BY <1>1, <1>2, <1>3, <1>4, <1>5, <1>6, <1>7, <1>8, <1>9, <1>10, <1>11, <1>12, <1>13,
     <1>14, <1>15, <1>16, <1>17, <1>18 DEF ApplyNext

\* The invariant for any number of requests holds in every state.
LEMMA ApplyIInvCorrect == ApplySpec => []ApplyIInv
<1>1. ApplyInit => ApplyIInv
  BY NoneIsNothing, MaxRevsIsNat, IInvInit
  DEF ApplyInit, Init, IInv, ApplyIInv, ApplyTypeOK, RequestMatchesCall, DraftsHaveCores,
      ProcsHaveCores, Revs, Docs, Torn, Absent, Plans, NoPlan, Stages
<1> QED
  BY <1>1, ApplyIInvNext, PTL DEF ApplySpec

\* Type correctness of RuntimeApply.
THEOREM ApplyTypeCorrect == ApplySpec => []ApplyTypeOK
<1>1. ApplyIInv => ApplyTypeOK
  BY DEF ApplyIInv
<1> QED
  BY <1>1, ApplyIInvCorrect, PTL

\* Each step of RuntimeApply is one of the supervisor's or leaves it alone, so that what
\* holds of a Supervisor holds here.
LEMMA AppliesSupervisor == ApplySpec => Spec
<1>1. ApplyInit => Init
  BY DEF ApplyInit
<1> QED
  BY <1>1, ApplyStepsSupervisor, ApplyIInvCorrect, PTL DEF ApplySpec, Spec

-----------------------------------------------------------------------------
(* What a core reads *)

\* What the files hold of requests does not depend on what else changes.
LEMMA FileIsPlannedNext ==
  ASSUME ApplyIInv, FileIsPlanned, [ApplyNext]_allVars
  PROVE  FileIsPlanned'
<1>0. TypeOK /\ ApplyTypeOK /\ RequestMatchesCall
  BY DEF ApplyIInv, ApplyTypeOK
<1> USE <1>0, NoneIsNothing DEF FileIsPlanned, ApplyTypeOK, TypeOK, Plans, NoPlan
<1>1. ASSUME UNCHANGED <<file, checked, requests, pc, op>> PROVE FileIsPlanned'
  BY <1>1 DEF requests
<1>2. ASSUME NEW e \in Editors, Edit(e) \/ SelectRead(e) \/ SelectWrite(e) PROVE FileIsPlanned'
  BY <1>1, <1>2 DEF Edit, SelectRead, SelectWrite, vars, locals
<1>3. ASSUME NEW c \in Clients, Choose(c) \/ Compile(c) \/ ApplyFails(c) PROVE FileIsPlanned'
  <2>1. stage'[c] \in {"none", "chosen", "compiled"}
    BY <1>3 DEF Choose, Compile, ApplyFails
  <2>2. pc' = pc /\ op' = op /\ file' = file /\ checked' = checked /\ crossed' = crossed
    BY <1>3 DEF Choose, Compile, ApplyFails, vars, locals
  <2>3. pc[c] = "idle"
    BY <1>3 DEF Choose, Compile, ApplyFails, RequestMatchesCall
  <2>4. \A d \in Clients \ {c} : stage'[d] = stage[d] /\ plan'[d] = plan[d]
    BY <1>3 DEF Choose, Compile, ApplyFails
  <2> QED
    BY <2>1, <2>2, <2>3, <2>4
<1>4. ASSUME NEW c \in Clients, OpenFile(c) PROVE FileIsPlanned'
  BY <1>4 DEF OpenFile, Holders, vars, locals, RequestMatchesCall
<1>5. ASSUME NEW c \in Clients, WriteFile(c) PROVE FileIsPlanned'
  BY <1>5 DEF WriteFile, Holders, vars, locals, RequestMatchesCall
<1>6. ASSUME NEW c \in Clients, Validate(c) PROVE FileIsPlanned'
  BY <1>6 DEF Validate, vars, locals, RequestMatchesCall
<1>7. ASSUME NEW c \in Clients, CallRestart(c) PROVE FileIsPlanned'
  BY <1>7 DEF CallRestart, StopBegin, At, Goto
<1>8. ASSUME NEW c \in Clients, CallStop(c) PROVE FileIsPlanned'
  BY <1>8 DEF CallStop, Stop, StopBegin, At, Goto
<1>9. ASSUME NEW c \in Clients, Proceed(c) PROVE FileIsPlanned'
  <2>1. pc'[c] \in Launching /\ op'[c] = "restart" => pc[c] \in Launching /\ op[c] = "restart"
    BY <1>9, CallStep DEF Proceed, RequestMatchesCall
  <2>2. \A d \in Clients : stage'[d] # "none" => stage'[d] = stage[d] /\ plan'[d] = plan[d]
    BY <1>9 DEF Proceed, FollowCalls
  <2>3. pc'[c] # "idle" => stage'[c] = stage[c] /\ plan'[c] = plan[c]
    BY <1>9 DEF Proceed, FollowCalls
  <2>4. \A d \in Clients \ {c} : pc'[d] = pc[d] /\ op'[d] = op[d]
    BY <1>9, CallStep DEF Proceed
  <2>5. \A d \in Clients \ {c} : stage'[d] = stage[d] /\ plan'[d] = plan[d]
    BY <1>9, <2>4 DEF Proceed, FollowCalls
  <2>6. file' = file /\ checked' = checked
    BY <1>9 DEF Proceed
  <2>7. \A d \in Clients \ crossed' : d \in crossed => d = c /\ pc'[c] = "idle"
    BY <1>9, <2>4 DEF Proceed, FollowCalls
  <2>8. pc'[c] = "idle" /\ pc[c] # "idle" => stage'[c] = "none"
    BY <1>9 DEF Proceed, FollowCalls
  <2>9. pc[c] # "idle"
    BY <1>9, CallStep DEF Proceed
  <2> QED
    BY <2>1, <2>2, <2>3, <2>4, <2>5, <2>6, <2>7, <2>8, <2>9 DEF Launching
<1>10. ASSUME NEW c \in Clients, NEW p \in Procs, Launch(c, p) PROVE FileIsPlanned'
  <2>1. pc'[c] = "health" /\ stage[c] = "restarting"
    BY <1>10 DEF Launch, StartProcess, At, Goto, RequestMatchesCall
  <2>2. \A d \in Clients \ {c} : pc'[d] = pc[d] /\ op'[d] = op[d]
    BY <1>10 DEF Launch, StartProcess, At, Goto, locals
  <2>3. /\ stage' = stage /\ plan' = plan /\ crossed' = crossed
        /\ file' = file /\ checked' = checked
    BY <1>10 DEF Launch, requests
  <2> QED
    BY <2>1, <2>2, <2>3
<1>11. ASSUME NEW p \in Procs, Load(p) \/ Close(p) \/ OtherProcStep(p) PROVE FileIsPlanned'
  BY <1>1, <1>11 DEF Load, Close, OtherProcStep, ProcServes, WaitCloses, WaitReaps, ProcExits,
     ProcCrashes, applyVars, locals
<1>12. CASE NewServer
  BY <1>12 DEF NewServer, ServerRestarts
<1>13. CASE UNCHANGED allVars
  BY <1>1, <1>13 DEF allVars, vars, locals, applyVars
<1> QED
  BY <1>2, <1>3, <1>4, <1>5, <1>6, <1>7, <1>8, <1>9, <1>10, <1>11, <1>12, <1>13 DEF ApplyNext

\* Every step keeps what processes have read, and what they will read.
LEMMA ReadsItsFileNext ==
  ASSUME ApplyIInv, FileIsPlanned, ReadsItsFile, [ApplyNext]_allVars
  PROVE  ReadsItsFile'
<1>0. TypeOK /\ ApplyTypeOK /\ RequestMatchesCall /\ ProcsHaveCores
  BY DEF ApplyIInv, ApplyTypeOK
<1> USE <1>0 DEF ReadsItsFile, ApplyTypeOK, TypeOK
<1>1. ASSUME UNCHANGED <<proc, file, checked, history>> PROVE ReadsItsFile'
  BY <1>1 DEF history
<1>2. ASSUME NEW e \in Editors, Edit(e) \/ SelectRead(e) \/ SelectWrite(e) PROVE ReadsItsFile'
  BY <1>1, <1>2 DEF Edit, SelectRead, SelectWrite, vars
<1>3. ASSUME NEW c \in Clients, Choose(c) \/ Compile(c) \/ ApplyFails(c) PROVE ReadsItsFile'
  BY <1>1, <1>3 DEF Choose, Compile, ApplyFails, vars
<1>4. ASSUME NEW c \in Clients, OpenFile(c) PROVE ReadsItsFile'
  BY <1>4 DEF OpenFile, Readers, vars, ProcsHaveCores
<1>5. ASSUME NEW c \in Clients, WriteFile(c) PROVE ReadsItsFile'
  BY <1>5 DEF WriteFile, Readers, vars, ProcsHaveCores
<1>6. ASSUME NEW c \in Clients, Validate(c) PROVE ReadsItsFile'
  BY <1>6 DEF Validate, vars, history
<1>7. ASSUME NEW c \in Clients, CallRestart(c) \/ CallStop(c) PROVE ReadsItsFile'
  BY <1>1, <1>7 DEF CallRestart, CallStop, Stop, StopBegin
<1>8. ASSUME NEW c \in Clients, Proceed(c) PROVE ReadsItsFile'
  <2>1. UNCHANGED <<file, checked, history>>
    BY <1>8 DEF Proceed
  <2>2. \A p \in Procs : \/ proc'[p] = proc[p]
                         \/ proc[p] \in Running /\ proc'[p] = "killed"
    BY <1>8, CallStep DEF Proceed
  <2> QED
    BY <2>1, <2>2 DEF history
<1>9. ASSUME NEW c \in Clients, NEW p \in Procs, Launch(c, p) PROVE ReadsItsFile'
  <2>1. c \notin crossed => plan[c].core \in checked /\ file[plan[c].core] = plan[c].rev
    BY <1>9 DEF Launch, StartProcess, At, FileIsPlanned, RequestMatchesCall
  <2> QED
    BY <1>9, <2>1 DEF Launch, StartProcess
<1>10. ASSUME NEW p \in Procs, Load(p) PROVE ReadsItsFile'
  BY <1>10 DEF Load, ProcServes
<1>11. ASSUME NEW p \in Procs, Close(p) PROVE ReadsItsFile'
  BY <1>11 DEF Close, WaitCloses
<1>12. ASSUME NEW p \in Procs, OtherProcStep(p) PROVE ReadsItsFile'
  BY <1>12 DEF OtherProcStep, WaitReaps, ProcExits, ProcCrashes, applyVars, history
<1>13. CASE NewServer
  BY <1>1, <1>13 DEF NewServer, ServerRestarts
<1>14. CASE UNCHANGED allVars
  BY <1>1, <1>14 DEF allVars, vars, applyVars
<1> QED
  BY <1>2, <1>3, <1>4, <1>5, <1>6, <1>7, <1>8, <1>9, <1>10, <1>11, <1>12, <1>13, <1>14
  DEF ApplyNext

\* The invariant of a start holds in every state, whatever requests overlap.
LEMMA StartIInvCorrect == ApplySpec => []StartIInv
<1>1. ApplyInit => FileIsPlanned /\ ReadsItsFile
  BY DEF ApplyInit, Init, FileIsPlanned, ReadsItsFile
<1>2. ApplyIInv /\ FileIsPlanned /\ ReadsItsFile /\ [ApplyNext]_allVars
        => FileIsPlanned' /\ ReadsItsFile'
  BY FileIsPlannedNext, ReadsItsFileNext
<1> QED
  BY <1>1, <1>2, ApplyIInvCorrect, PTL DEF ApplySpec, StartIInv

\* Whatever requests overlap, servers end and kills fail: a core comes up from a file that
\* was validated since it was last written, although startActiveRuntime validates long
\* before the core reads, unless another request has written the file in between.
THEOREM ValidatedBeforeTheyRun == ApplySpec => []ValidatedBeforeRun
<1>1. StartIInv => ValidatedBeforeRun
  BY DEF StartIInv, ReadsItsFile, ValidatedBeforeRun
<1> QED
  BY <1>1, StartIInvCorrect, PTL

\* With the same exception a core runs the document its own request has compiled.
THEOREM CoresRunWhatWasCompiled == ApplySpec => []RunsWhatWasCompiled
<1>1. StartIInv => RunsWhatWasCompiled
  BY DEF StartIInv, ReadsItsFile, RunsWhatWasCompiled
<1> QED
  BY <1>1, StartIInvCorrect, PTL

-----------------------------------------------------------------------------
(* One request at a time: the status *)

\* What the supervisor guarantees to a single caller, and what holds of any requests.
SingleIInv == IInv /\ CallOwns /\ ApplyIInv

\* That of a single request does, when there is no more than one at a time.
LEMMA SingleIInvCorrect == OneCaller => (ApplySpec => []SingleIInv)
<1>1. CASE OneCaller
  <2>1. Spec => [](IInv /\ CallOwns)
    BY <1>1, CallOwnsAlways
  <2>2. IInv /\ CallOwns /\ ApplyIInv => SingleIInv
    BY DEF SingleIInv
  <2> QED
    BY <2>1, <2>2, AppliesSupervisor, ApplyIInvCorrect, PTL
<1> QED
  BY <1>1

NamesCore == StatusNamesCore /\ CallNamesCore

\* Every step keeps the core that the status names.
LEMMA NamesCoreNext ==
  ASSUME OneCaller, SingleIInv, NamesCore, [ApplyNext]_allVars
  PROVE  NamesCore'
<1>0. TypeOK /\ kind \in [Procs -> Cores \cup {None}]
  BY DEF SingleIInv, ApplyIInv, ApplyTypeOK
<1> USE <1>0, NoneIsNothing
    DEF NamesCore, StatusNamesCore, CallNamesCore, TypeOK, OneCaller, supervisor, locals
<1>1. ASSUME UNCHANGED vars, UNCHANGED kind PROVE NamesCore'
  BY <1>1 DEF vars
<1>2. ASSUME NEW e \in Editors, Edit(e) \/ SelectRead(e) \/ SelectWrite(e) PROVE NamesCore'
  BY <1>1, <1>2 DEF Edit, SelectRead, SelectWrite, history
<1>3. ASSUME NEW c \in Clients,
             \/ Choose(c) \/ Compile(c) \/ OpenFile(c) \/ WriteFile(c) \/ Validate(c)
             \/ ApplyFails(c)
      PROVE NamesCore'
  BY <1>1, <1>3 DEF Choose, Compile, OpenFile, WriteFile, Validate, ApplyFails, history
<1>4. ASSUME NEW c \in Clients, NEW o, NEW k, StopBegin(c, o, k), UNCHANGED kind PROVE NamesCore'
  BY <1>4 DEF StopBegin, At, Goto, SetStatus
<1>5. ASSUME NEW c \in Clients, Proceed(c) PROVE NamesCore'
  <2>1. UNCHANGED kind
    BY <1>5 DEF Proceed, history
  <2>2. CASE StopKill(c)
    BY <2>1, <2>2 DEF StopKill, At, Goto, Return, SetStatus
  <2>3. CASE StopKillFails(c)
    BY <2>1, <2>3 DEF StopKillFails, At, Goto, Return, SetStatus
  <2>4. CASE StopAwait(c)
    BY <2>1, <2>4 DEF StopAwait, At, Goto, Return, SetStatus
  <2>5. CASE StopCancelled(c)
    BY <2>1, <2>5 DEF StopCancelled, At, Goto, Return, SetStatus
  <2>6. CASE StopClear(c)
    BY <2>1, <2>6 DEF StopClear, At, Goto, Return, SetStatus, SingleIInv, CallOwns, CallOwnsSlot
  <2>7. CASE RestoreDone(c)
    BY <2>1, <2>7 DEF RestoreDone, At, Goto, Return, SetStatus
  <2>8. CASE RestoreFails(c)
    BY <2>1, <2>8 DEF RestoreFails, At, Goto, Return, SetStatus
  <2>9. CASE RestoreForget(c)
    BY <2>1, <2>9 DEF RestoreForget, At, Goto, Return, SetStatus
  <2>10. CASE StartRefused(c)
    BY <2>1, <2>10 DEF StartRefused, At, Goto, Return, SetStatus
  <2>11. CASE HealthPasses(c)
    BY <2>1, <2>11 DEF HealthPasses, At, Goto, Return, SetStatus
  <2>12. CASE HealthFails(c)
    BY <2>1, <2>12 DEF HealthFails, At, Goto, Return, SetStatus
  <2>13. CASE SetRunning(c)
    BY <2>1, <2>13 DEF SetRunning, At, Goto, Return, SetStatus
  <2>14. CASE FailRead(c)
    BY <2>1, <2>14 DEF FailRead, At, Goto, Return, SetStatus, SingleIInv, CallOwns, CallOwnsSlot
  <2>15. CASE FailKill(c)
    BY <2>1, <2>15 DEF FailKill, At, Goto, Return, SetStatus
  <2>16. CASE FailKillFails(c)
    BY <2>1, <2>16 DEF FailKillFails, At, Goto, Return, SetStatus
  <2>17. CASE FailAwait(c)
    BY <2>1, <2>17 DEF FailAwait, At, Goto, Return, SetStatus
  <2>18. CASE FailMark(c)
    BY <2>1, <2>18 DEF FailMark, At, Goto, Return, SetStatus, SingleIInv, CallOwns, CallOwnsSlot
  <2> QED
    BY <1>5, <2>2, <2>3, <2>4, <2>5, <2>6, <2>7, <2>8, <2>9, <2>10, <2>11, <2>12, <2>13, <2>14, <2>15, <2>16, <2>17, <2>18 DEF Proceed, ClientStep
<1>6. ASSUME NEW c \in Clients, NEW p \in Procs, Launch(c, p) PROVE NamesCore'
  <2>1. want[c] = plan[c].core
    BY <1>6 DEF Launch, StartProcess, At, SingleIInv, ApplyIInv, RequestMatchesCall
  <2> QED
    BY <1>6, <2>1 DEF Launch, StartProcess, At, Goto, SetStatus
<1>7. ASSUME NEW p \in Procs, Close(p) PROVE NamesCore'
  <2>1. cmd # p
    BY <1>7 DEF Close, WaitCloses, SingleIInv, IInv, SlotUnreaped, Unreaped, Running, Ended
  <2> QED
    BY <1>7, <2>1 DEF Close, WaitCloses
<1>8. ASSUME NEW p \in Procs, Load(p) PROVE NamesCore'
  BY <1>8 DEF Load, ProcServes
<1>9. ASSUME NEW p \in Procs, OtherProcStep(p) PROVE NamesCore'
  BY <1>9 DEF OtherProcStep, WaitReaps, ProcExits, ProcCrashes, SetStatus, applyVars, history
<1>10. CASE NewServer
  BY <1>10 DEF NewServer, ServerRestarts, SetStatus
<1>11. CASE UNCHANGED allVars
  BY <1>1, <1>11 DEF allVars, applyVars, history
<1>12. ASSUME NEW c \in Clients, CallRestart(c) \/ CallStop(c) PROVE NamesCore'
  BY <1>4, <1>12 DEF CallRestart, CallStop, Stop, history
<1> QED
  BY <1>2, <1>3, <1>5, <1>6, <1>7, <1>8, <1>9, <1>10, <1>11, <1>12 DEF ApplyNext

\* With one request at a time the status names the core that the managed process was
\* started as, although setRunning writes the name of its own call without looking.
THEOREM StatusAlwaysNamesCore == OneCaller => (ApplySpec => []StatusNamesCore)
<1>1. ApplyInit => NamesCore
  BY DEF ApplyInit, Init, NamesCore, StatusNamesCore, CallNamesCore
<1>2. NamesCore => StatusNamesCore
  BY DEF NamesCore
<1>3. CASE OneCaller
  <2>1. SingleIInv /\ NamesCore /\ [ApplyNext]_allVars => NamesCore'
    BY <1>3, NamesCoreNext
  <2>2. ApplySpec => []SingleIInv
    BY <1>3, SingleIInvCorrect
  <2> QED
    BY <1>1, <1>2, <2>1, <2>2, PTL DEF ApplySpec
<1> QED
  BY <1>3

-----------------------------------------------------------------------------
(* One request at a time: nothing is written in between *)

\* A step of a call keeps what is said of what it has given up on and of what comes up.
LEMMA ProceedUndisturbed ==
  ASSUME OneCaller, ~KillMayFail, SingleIInv, GivenUpIsDead, ComesUpInItsCall,
         NothingShared, NEW c \in Clients, Proceed(c)
  PROVE  GivenUpIsDead' /\ ComesUpInItsCall' /\ NothingShared'
<1>0. TypeOK
  BY DEF SingleIInv, IInv
<1>1. UNCHANGED <<file, checked, history>>
  BY DEF Proceed
<1>2. \A p \in Procs : \/ proc'[p] = proc[p]
                       \/ proc[p] \in Running /\ proc'[p] = "killed"
  BY <1>0, CallStep DEF Proceed
<1>3. NothingShared'
  BY <1>1 DEF NothingShared, Proceed, FollowCalls, history
<1>4. \A p \in Procs : proc'[p] = "spawned" => proc[p] = "spawned"
  BY <1>0, <1>2 DEF TypeOK
<1>5. \A p \in Procs : proc[p] \in Running => p = cmd
  BY DEF SingleIInv, IInv, UnreapedKnown, Unreaped, GivenUpIsDead
<1> DEFINE Called == \A p \in Procs : proc'[p] = "spawned" =>
                       \A d \in Clients : pc'[d] \in {"health", "failRead", "failKill"}
<1>6. Called => ComesUpInItsCall'
  BY <1>1, <1>4 DEF ComesUpInItsCall, history
<1>7. GivenUpIsDead' /\ Called
  <2> USE <1>0, <1>2, <1>4, <1>5, NoneIsNothing
      DEF GivenUpIsDead, ComesUpInItsCall, TypeOK, OneCaller, At, Goto, Return, Running,
          supervisor, locals
  <2>1. CASE StopKill(c)
    BY <2>1 DEF StopKill, Killed
  <2>2. CASE StopKillFails(c)
    BY <2>2 DEF StopKillFails
  <2>3. CASE StopAwait(c)
    BY <2>3 DEF StopAwait
  <2>4. CASE StopCancelled(c)
    BY <2>4 DEF StopCancelled
  <2>5. CASE StopClear(c)
    BY <2>5 DEF StopClear
  <2>6. CASE RestoreDone(c)
    BY <2>6 DEF RestoreDone
  <2>7. CASE RestoreFails(c)
    BY <2>7 DEF RestoreFails
  <2>8. CASE RestoreForget(c)
    BY <2>8 DEF RestoreForget
  <2>9. CASE StartRefused(c)
    BY <2>9 DEF StartRefused
  <2>10. CASE HealthPasses(c)
    BY <2>10 DEF HealthPasses
  <2>11. CASE HealthFails(c)
    BY <2>11 DEF HealthFails
  <2>12. CASE SetRunning(c)
    BY <2>12 DEF SetRunning
  <2>13. CASE FailRead(c)
    BY <2>13 DEF FailRead
  <2>14. CASE FailKill(c)
    BY <2>14 DEF FailKill, Killed, SingleIInv, CallOwns, CallOwnsSlot
  <2>15. CASE FailKillFails(c)
    BY <2>15 DEF FailKillFails
  <2>16. CASE FailAwait(c)
    BY <2>16 DEF FailAwait, SingleIInv, CallOwns, CallOwnsSlot
  <2>17. CASE FailMark(c)
    BY <2>17 DEF FailMark, SingleIInv, CallOwns, CallOwnsSlot
  <2> QED
    BY <2>1, <2>2, <2>3, <2>4, <2>5, <2>6, <2>7, <2>8, <2>9, <2>10, <2>11, <2>12, <2>13, <2>14, <2>15, <2>16, <2>17 DEF Proceed, ClientStep
<1> QED
  BY <1>3, <1>6, <1>7

\* Every step keeps it that a core that starts is not disturbed.
LEMMA UndisturbedStartNext ==
  ASSUME OneCaller, ~KillMayFail, SingleIInv, UndisturbedStart,
         [ApplyNext]_allVars
  PROVE  UndisturbedStart'
<1>0. TypeOK /\ ApplyTypeOK /\ RequestMatchesCall
  BY DEF SingleIInv, ApplyIInv, ApplyTypeOK
<1>1. SUFFICES ASSUME boots' = 0, ~NewServer, GivenUpIsDead, ComesUpInItsCall, NothingShared
               PROVE  GivenUpIsDead' /\ ComesUpInItsCall' /\ NothingShared'
  <2>1. NewServer => boots' # 0
    BY <1>0 DEF NewServer, ServerRestarts, TypeOK
  <2>2. ~NewServer => boots' = boots
    BY DEF ApplyNext, Edit, SelectRead, SelectWrite, Choose, Compile, OpenFile, WriteFile,
       Validate, ApplyFails, CallRestart, CallStop, Stop, StopBegin, Proceed, ClientStep,
       StopKill, StopKillFails, StopAwait, StopCancelled, StopClear, RestoreDone, RestoreFails,
       RestoreForget, StartProcess, StartRefused, HealthPasses, HealthFails, SetRunning,
       FailRead, FailKill, FailKillFails, FailAwait, FailMark, Launch, Load, Close,
       OtherProcStep, WaitReaps, WaitCloses, ProcServes, ProcExits, ProcCrashes, vars, allVars
  <2> QED
    BY <2>1, <2>2 DEF UndisturbedStart
<1> USE <1>0 DEF GivenUpIsDead, ComesUpInItsCall, NothingShared, ApplyTypeOK, TypeOK,
        OneCaller
<1> DEFINE Goal == GivenUpIsDead' /\ ComesUpInItsCall' /\ NothingShared'
<1>2. ASSUME UNCHANGED <<proc, pc, seen, letGo, crossed, shared>> PROVE Goal
  BY <1>1, <1>2
<1>3. ASSUME NEW e \in Editors, Edit(e) \/ SelectRead(e) \/ SelectWrite(e) PROVE Goal
  BY <1>2, <1>3 DEF Edit, SelectRead, SelectWrite, vars, locals, requests, history
<1>4. ASSUME NEW c \in Clients, Choose(c) \/ Compile(c) \/ ApplyFails(c) PROVE Goal
  BY <1>2, <1>4 DEF Choose, Compile, ApplyFails, vars, locals, history
<1>5. ASSUME NEW c \in Clients, OpenFile(c) \/ WriteFile(c) \/ Validate(c) PROVE Goal
  <2>1. pc[c] = "idle"
    BY <1>5 DEF OpenFile, WriteFile, Validate, RequestMatchesCall
  <2>2. \A p \in Procs : proc[p] # "spawned"
    BY <1>1, <2>1
  <2>3. Holders(c) = {} /\ Readers(c) = {}
    BY <2>2 DEF Holders, Readers
  <2> QED
    BY <1>1, <1>5, <2>2, <2>3 DEF OpenFile, WriteFile, Validate, vars, locals, history
<1>6. ASSUME NEW c \in Clients, CallRestart(c) \/ CallStop(c) PROVE Goal
  <2>1. pc[c] = "idle"
    BY <1>6 DEF CallRestart, CallStop, Stop, StopBegin, At
  <2>2. \A p \in Procs : proc[p] # "spawned"
    BY <1>1, <2>1
  <2> QED
    BY <1>1, <1>6, <2>2 DEF CallRestart, CallStop, Stop, StopBegin, Goto, history
<1>7. ASSUME NEW c \in Clients, Proceed(c) PROVE Goal
  BY <1>1, <1>7, ProceedUndisturbed
<1>8. ASSUME NEW c \in Clients, NEW p \in Procs, Launch(c, p) PROVE Goal
  <2>2. p \notin letGo
    BY <1>8 DEF Launch, StartProcess, SingleIInv, IInv, UnusedFresh
  <2>3. \A q \in Procs : proc[q] # "spawned"
    BY <1>1, <1>8 DEF Launch, StartProcess, At
  <2> QED
    BY <1>1, <1>8, <2>2, <2>3 DEF Launch, StartProcess, Goto, Running, locals, requests
<1>9. ASSUME NEW p \in Procs, Load(p) PROVE Goal
  BY <1>1, <1>9 DEF Load, ProcServes, Running, locals, requests
<1>10. ASSUME NEW p \in Procs, Close(p) PROVE Goal
  BY <1>1, <1>10 DEF Close, WaitCloses, Running, locals, requests
<1>11. ASSUME NEW p \in Procs, OtherProcStep(p) PROVE Goal
  BY <1>1, <1>11 DEF OtherProcStep, WaitReaps, ProcExits, ProcCrashes, Running, Ended, locals,
     applyVars, requests, history
<1>12. CASE UNCHANGED allVars
  BY <1>2, <1>12 DEF allVars, vars, locals, applyVars, requests, history
<1> QED
  BY <1>1, <1>3, <1>4, <1>5, <1>6, <1>7, <1>8, <1>9, <1>10, <1>11, <1>12 DEF ApplyNext

\* With one request at a time, in a server that has not ended, and where Process.Kill works,
\* no file is written between a request and the core it starts: the properties of what
\* cores read hold there of all of them.
THEOREM AloneNothingIsShared ==
  OneCaller /\ ~KillMayFail => (ApplySpec => [](boots = 0 => shared = {}))
<1>1. ApplyInit => UndisturbedStart
  BY DEF ApplyInit, Init, UndisturbedStart, GivenUpIsDead, ComesUpInItsCall, NothingShared
<1>2. UndisturbedStart => (boots = 0 => shared = {})
  BY DEF UndisturbedStart, NothingShared
<1>3. CASE OneCaller /\ ~KillMayFail
  <2>1. SingleIInv /\ UndisturbedStart /\ [ApplyNext]_allVars => UndisturbedStart'
    BY <1>3, UndisturbedStartNext
  <2>2. ApplySpec => []SingleIInv
    BY <1>3, SingleIInvCorrect
  <2> QED
    BY <1>1, <1>2, <2>1, <2>2, PTL DEF ApplySpec
<1> QED
  BY <1>3
=============================================================================
