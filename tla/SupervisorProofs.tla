--------------------------- MODULE SupervisorProofs ---------------------------
(***************************************************************************)
(* Proofs about Supervisor, for every number of clients, cores, processes  *)
(* and server restarts.  IInv is inductive: TypeNext keeps the types,      *)
(* IInvNext the other conjuncts.  Most safety properties and the refinement *)
(* of CoreSlot follow from it.  The last part is about a single caller, who *)
(* finds the slot, the snapshot and the status as it left them (CallOwns). *)
(***************************************************************************)
EXTENDS Supervisor, TLAPS

\* Every step keeps the variables of the supervisor, the operating system and the
\* calls in their types: one step per action.
LEMMA TypeNext == TypeOK /\ [Next]_vars => TypeOK'
<1> SUFFICES ASSUME TypeOK, [Next]_vars PROVE TypeOK'
  OBVIOUS
<1> USE NoneIsNothing DEF TypeOK, States, Ops, Points, Life, Running, Ended,
        At, Goto, Return, SetStatus, Killed, Alive, supervisor, locals
<1>1. ASSUME NEW c \in Clients, NEW o \in {"stop", "restart"}, NEW k \in Cores \cup {None}, StopBegin(c, o, k) PROVE TypeOK'
  BY <1>1 DEF StopBegin
<1>2. ASSUME NEW c \in Clients, StopKill(c) PROVE TypeOK'
  BY <1>2 DEF StopKill
<1>3. ASSUME NEW c \in Clients, StopKillFails(c) PROVE TypeOK'
  BY <1>3 DEF StopKillFails
<1>4. ASSUME NEW c \in Clients, StopAwait(c) PROVE TypeOK'
  BY <1>4 DEF StopAwait
<1>5. ASSUME NEW c \in Clients, StopCancelled(c) PROVE TypeOK'
  BY <1>5 DEF StopCancelled
<1>6. ASSUME NEW c \in Clients, StopClear(c) PROVE TypeOK'
  BY <1>6 DEF StopClear
<1>7. ASSUME NEW c \in Clients, RestoreDone(c) PROVE TypeOK'
  BY <1>7 DEF RestoreDone
<1>8. ASSUME NEW c \in Clients, RestoreFails(c) PROVE TypeOK'
  BY <1>8 DEF RestoreFails
<1>9. ASSUME NEW c \in Clients, RestoreForget(c) PROVE TypeOK'
  BY <1>9 DEF RestoreForget
<1>10. ASSUME NEW c \in Clients, NEW p \in Procs, StartProcess(c, p) PROVE TypeOK'
  BY <1>10 DEF StartProcess
<1>11. ASSUME NEW c \in Clients, StartRefused(c) PROVE TypeOK'
  BY <1>11 DEF StartRefused
<1>12. ASSUME NEW c \in Clients, HealthPasses(c) PROVE TypeOK'
  BY <1>12 DEF HealthPasses
<1>13. ASSUME NEW c \in Clients, HealthFails(c) PROVE TypeOK'
  BY <1>13 DEF HealthFails
<1>14. ASSUME NEW c \in Clients, SetRunning(c) PROVE TypeOK'
  BY <1>14 DEF SetRunning
<1>15. ASSUME NEW c \in Clients, FailRead(c) PROVE TypeOK'
  BY <1>15 DEF FailRead
<1>16. ASSUME NEW c \in Clients, FailKill(c) PROVE TypeOK'
  BY <1>16 DEF FailKill
<1>17. ASSUME NEW c \in Clients, FailKillFails(c) PROVE TypeOK'
  BY <1>17 DEF FailKillFails
<1>18. ASSUME NEW c \in Clients, FailAwait(c) PROVE TypeOK'
  BY <1>18 DEF FailAwait
<1>19. ASSUME NEW c \in Clients, FailMark(c) PROVE TypeOK'
  BY <1>19 DEF FailMark
<1>20. ASSUME NEW p \in Procs, WaitReaps(p) PROVE TypeOK'
  BY <1>20 DEF WaitReaps
<1>21. ASSUME NEW p \in Procs, WaitCloses(p) PROVE TypeOK'
  BY <1>21 DEF WaitCloses
<1>22. ASSUME NEW p \in Procs, ProcServes(p) PROVE TypeOK'
  BY <1>22 DEF ProcServes
<1>23. ASSUME NEW p \in Procs, ProcExits(p) PROVE TypeOK'
  BY <1>23 DEF ProcExits
<1>24. ASSUME NEW p \in Procs, ProcCrashes(p) PROVE TypeOK'
  BY <1>24 DEF ProcCrashes
<1>25. CASE ServerRestarts
  BY <1>25 DEF ServerRestarts
<1>26. CASE UNCHANGED vars
  BY <1>26 DEF vars
<1> QED
  BY <1>1, <1>2, <1>3, <1>4, <1>5, <1>6, <1>7, <1>8, <1>9, <1>10, <1>11, <1>12, <1>13, <1>14, <1>15, <1>16, <1>17, <1>18, <1>19, <1>20, <1>21, <1>22, <1>23, <1>24, <1>25, <1>26 DEF Next, Stop, Restart, ClientStep, ProcStep

\* The strengthened invariant is inductive.  The parts are proved action by action
\* only where an action can disturb them: what a call holds (seen and saved), what
\* is in the slot, and which processes still have rules in the kernel.
LEMMA IInvNext == IInv /\ [Next]_vars => IInv'
<1> SUFFICES ASSUME IInv, [Next]_vars PROVE IInv'
  OBVIOUS
<1> TypeOK'
  BY TypeNext DEF IInv
<1> USE NoneIsNothing DEF IInv, TypeOK, States, Ops, Points, Life, Running, Ended, Unreaped,
        At, Goto, Return, SetStatus, Killed, Alive, supervisor, locals
<1>1. ASSUME NEW c \in Clients, NEW o \in {"stop", "restart"}, NEW k \in Cores \cup {None}, StopBegin(c, o, k) PROVE IInv'
  <2>1. SeenWithSaved'
    BY <1>1 DEF StopBegin, SeenWithSaved, SlotUnreaped
  <2>2. (SlotUnreaped /\ UnreapedKnown /\ UnusedFresh /\ SavedLeftSlot /\ RestoredClean /\ RulesRemembered /\ TransitionHasProcess /\ StartingHasStarter)'
    BY <1>1 DEF StopBegin, SlotUnreaped, UnreapedKnown, UnusedFresh, SavedLeftSlot, RestoredClean, RulesRemembered, TransitionHasProcess, StartingHasStarter
  <2> QED
    BY <2>1, <2>2
<1>2. ASSUME NEW c \in Clients, StopKill(c) PROVE IInv'
  BY <1>2 DEF StopKill, SlotUnreaped, UnreapedKnown, UnusedFresh, SeenWithSaved, SavedLeftSlot, RestoredClean, RulesRemembered, TransitionHasProcess, StartingHasStarter
<1>3. ASSUME NEW c \in Clients, StopKillFails(c) PROVE IInv'
  BY <1>3 DEF StopKillFails, SlotUnreaped, UnreapedKnown, UnusedFresh, SeenWithSaved, SavedLeftSlot, RestoredClean, RulesRemembered, TransitionHasProcess, StartingHasStarter
<1>4. ASSUME NEW c \in Clients, StopAwait(c) PROVE IInv'
  <2>1. SavedLeftSlot'
    BY <1>4 DEF StopAwait, SavedLeftSlot, SlotUnreaped, SeenWithSaved
  <2>2. (SlotUnreaped /\ UnreapedKnown /\ UnusedFresh /\ SeenWithSaved /\ RestoredClean /\ RulesRemembered /\ TransitionHasProcess /\ StartingHasStarter)'
    BY <1>4 DEF StopAwait, SlotUnreaped, UnreapedKnown, UnusedFresh, SeenWithSaved, RestoredClean, RulesRemembered, TransitionHasProcess, StartingHasStarter
  <2> QED
    BY <2>1, <2>2
<1>5. ASSUME NEW c \in Clients, StopCancelled(c) PROVE IInv'
  BY <1>5 DEF StopCancelled, SlotUnreaped, UnreapedKnown, UnusedFresh, SeenWithSaved, SavedLeftSlot, RestoredClean, RulesRemembered, TransitionHasProcess, StartingHasStarter
<1>6. ASSUME NEW c \in Clients, StopClear(c) PROVE IInv'
  <2>1. UnreapedKnown'
    BY <1>6 DEF StopClear, UnreapedKnown, SavedLeftSlot, SeenWithSaved
  <2>2. (SlotUnreaped /\ UnusedFresh /\ SeenWithSaved /\ SavedLeftSlot /\ RestoredClean /\ RulesRemembered /\ TransitionHasProcess /\ StartingHasStarter)'
    BY <1>6 DEF StopClear, SlotUnreaped, UnusedFresh, SeenWithSaved, SavedLeftSlot, RestoredClean, RulesRemembered, TransitionHasProcess, StartingHasStarter
  <2> QED
    BY <2>1, <2>2
<1>7. ASSUME NEW c \in Clients, RestoreDone(c) PROVE IInv'
  BY <1>7 DEF RestoreDone, SlotUnreaped, UnreapedKnown, UnusedFresh, SeenWithSaved, SavedLeftSlot, RestoredClean, RulesRemembered, TransitionHasProcess, StartingHasStarter
<1>8. ASSUME NEW c \in Clients, RestoreFails(c) PROVE IInv'
  BY <1>8 DEF RestoreFails, SlotUnreaped, UnreapedKnown, UnusedFresh, SeenWithSaved, SavedLeftSlot, RestoredClean, RulesRemembered, TransitionHasProcess, StartingHasStarter
<1>9. ASSUME NEW c \in Clients, RestoreForget(c) PROVE IInv'
  <2>1. RulesRemembered'
    BY <1>9 DEF RestoreForget, RulesRemembered, RestoredClean
  <2>2. SlotUnreaped'
    BY <1>9 DEF RestoreForget, SlotUnreaped, SavedLeftSlot
  <2>3. (UnreapedKnown /\ UnusedFresh /\ SeenWithSaved /\ SavedLeftSlot /\ RestoredClean /\ TransitionHasProcess /\ StartingHasStarter)'
    BY <1>9 DEF RestoreForget, UnreapedKnown, UnusedFresh, SeenWithSaved, SavedLeftSlot, RestoredClean, TransitionHasProcess, StartingHasStarter
  <2> QED
    BY <2>1, <2>2, <2>3
<1>10. ASSUME NEW c \in Clients, NEW p \in Procs, StartProcess(c, p) PROVE IInv'
  <2>1. RestoredClean'
    BY <1>10 DEF StartProcess, RestoredClean, UnusedFresh
  <2>2. SavedLeftSlot'
    BY <1>10 DEF StartProcess, SavedLeftSlot, UnusedFresh
  <2>3. SlotUnreaped'
    BY <1>10 DEF StartProcess, SlotUnreaped, UnusedFresh
  <2>4. (UnreapedKnown /\ UnusedFresh /\ SeenWithSaved /\ RulesRemembered /\ TransitionHasProcess /\ StartingHasStarter)'
    BY <1>10 DEF StartProcess, UnreapedKnown, UnusedFresh, SeenWithSaved, RulesRemembered, TransitionHasProcess, StartingHasStarter
  <2> QED
    BY <2>1, <2>2, <2>3, <2>4
<1>11. ASSUME NEW c \in Clients, StartRefused(c) PROVE IInv'
  BY <1>11 DEF StartRefused, SlotUnreaped, UnreapedKnown, UnusedFresh, SeenWithSaved, SavedLeftSlot, RestoredClean, RulesRemembered, TransitionHasProcess, StartingHasStarter
<1>12. ASSUME NEW c \in Clients, HealthPasses(c) PROVE IInv'
  BY <1>12 DEF HealthPasses, SlotUnreaped, UnreapedKnown, UnusedFresh, SeenWithSaved, SavedLeftSlot, RestoredClean, RulesRemembered, TransitionHasProcess, StartingHasStarter
<1>13. ASSUME NEW c \in Clients, HealthFails(c) PROVE IInv'
  BY <1>13 DEF HealthFails, SlotUnreaped, UnreapedKnown, UnusedFresh, SeenWithSaved, SavedLeftSlot, RestoredClean, RulesRemembered, TransitionHasProcess, StartingHasStarter
<1>14. ASSUME NEW c \in Clients, SetRunning(c) PROVE IInv'
  BY <1>14 DEF SetRunning, SlotUnreaped, UnreapedKnown, UnusedFresh, SeenWithSaved, SavedLeftSlot, RestoredClean, RulesRemembered, TransitionHasProcess, StartingHasStarter
<1>15. ASSUME NEW c \in Clients, FailRead(c) PROVE IInv'
  <2>1. SeenWithSaved'
    BY <1>15 DEF FailRead, SeenWithSaved, SlotUnreaped
  <2>2. SavedLeftSlot'
    BY <1>15 DEF FailRead, SavedLeftSlot, SlotUnreaped
  <2>3. (SlotUnreaped /\ UnreapedKnown /\ UnusedFresh /\ RestoredClean /\ RulesRemembered /\ TransitionHasProcess /\ StartingHasStarter)'
    BY <1>15 DEF FailRead, SlotUnreaped, UnreapedKnown, UnusedFresh, RestoredClean, RulesRemembered, TransitionHasProcess, StartingHasStarter
  <2> QED
    BY <2>1, <2>2, <2>3
<1>16. ASSUME NEW c \in Clients, FailKill(c) PROVE IInv'
  BY <1>16 DEF FailKill, SlotUnreaped, UnreapedKnown, UnusedFresh, SeenWithSaved, SavedLeftSlot, RestoredClean, RulesRemembered, TransitionHasProcess, StartingHasStarter
<1>17. ASSUME NEW c \in Clients, FailKillFails(c) PROVE IInv'
  <2>1. SavedLeftSlot'
    BY <1>17 DEF FailKillFails, SavedLeftSlot, SeenWithSaved
  <2>2. (SlotUnreaped /\ UnreapedKnown /\ UnusedFresh /\ SeenWithSaved /\ RestoredClean /\ RulesRemembered /\ TransitionHasProcess /\ StartingHasStarter)'
    BY <1>17 DEF FailKillFails, SlotUnreaped, UnreapedKnown, UnusedFresh, SeenWithSaved, RestoredClean, RulesRemembered, TransitionHasProcess, StartingHasStarter
  <2> QED
    BY <2>1, <2>2
<1>18. ASSUME NEW c \in Clients, FailAwait(c) PROVE IInv'
  <2>1. SavedLeftSlot'
    BY <1>18 DEF FailAwait, SavedLeftSlot, SeenWithSaved
  <2>2. (SlotUnreaped /\ UnreapedKnown /\ UnusedFresh /\ SeenWithSaved /\ RestoredClean /\ RulesRemembered /\ TransitionHasProcess /\ StartingHasStarter)'
    BY <1>18 DEF FailAwait, SlotUnreaped, UnreapedKnown, UnusedFresh, SeenWithSaved, RestoredClean, RulesRemembered, TransitionHasProcess, StartingHasStarter
  <2> QED
    BY <2>1, <2>2
<1>19. ASSUME NEW c \in Clients, FailMark(c) PROVE IInv'
  <2>1. SavedLeftSlot'
    BY <1>19 DEF FailMark, SavedLeftSlot, SeenWithSaved
  <2>2. UnusedFresh'
    BY <1>19 DEF FailMark, UnusedFresh, SlotUnreaped
  <2>3. (SlotUnreaped /\ UnreapedKnown /\ SeenWithSaved /\ RestoredClean /\ RulesRemembered /\ TransitionHasProcess /\ StartingHasStarter)'
    BY <1>19 DEF FailMark, SlotUnreaped, UnreapedKnown, SeenWithSaved, RestoredClean, RulesRemembered, TransitionHasProcess, StartingHasStarter
  <2> QED
    BY <2>1, <2>2, <2>3
<1>20. ASSUME NEW p \in Procs, WaitReaps(p) PROVE IInv'
  BY <1>20 DEF WaitReaps, SlotUnreaped, UnreapedKnown, UnusedFresh, SeenWithSaved, SavedLeftSlot, RestoredClean, RulesRemembered, TransitionHasProcess, StartingHasStarter
<1>21. ASSUME NEW p \in Procs, WaitCloses(p) PROVE IInv'
  BY <1>21 DEF WaitCloses, SlotUnreaped, UnreapedKnown, UnusedFresh, SeenWithSaved, SavedLeftSlot, RestoredClean, RulesRemembered, TransitionHasProcess, StartingHasStarter
<1>22. ASSUME NEW p \in Procs, ProcServes(p) PROVE IInv'
  <2>1. RulesRemembered'
    BY <1>22 DEF ProcServes, RulesRemembered, UnreapedKnown, SlotUnreaped
  <2>2. RestoredClean'
    BY <1>22 DEF ProcServes, RestoredClean, UnreapedKnown, SlotUnreaped, SavedLeftSlot
  <2>3. (SlotUnreaped /\ UnreapedKnown /\ UnusedFresh /\ SeenWithSaved /\ SavedLeftSlot /\ TransitionHasProcess /\ StartingHasStarter)'
    BY <1>22 DEF ProcServes, SlotUnreaped, UnreapedKnown, UnusedFresh, SeenWithSaved, SavedLeftSlot, TransitionHasProcess, StartingHasStarter
  <2> QED
    BY <2>1, <2>2, <2>3
<1>23. ASSUME NEW p \in Procs, ProcExits(p) PROVE IInv'
  BY <1>23 DEF ProcExits, SlotUnreaped, UnreapedKnown, UnusedFresh, SeenWithSaved, SavedLeftSlot, RestoredClean, RulesRemembered, TransitionHasProcess, StartingHasStarter
<1>24. ASSUME NEW p \in Procs, ProcCrashes(p) PROVE IInv'
  BY <1>24 DEF ProcCrashes, SlotUnreaped, UnreapedKnown, UnusedFresh, SeenWithSaved, SavedLeftSlot, RestoredClean, RulesRemembered, TransitionHasProcess, StartingHasStarter
<1>25. CASE ServerRestarts
  <2>1. UnusedFresh'
    BY <1>25 DEF ServerRestarts, UnusedFresh, SlotUnreaped
  <2>2. (SlotUnreaped /\ UnreapedKnown /\ SeenWithSaved /\ SavedLeftSlot /\ RestoredClean /\ RulesRemembered /\ TransitionHasProcess /\ StartingHasStarter)'
    BY <1>25 DEF ServerRestarts, SlotUnreaped, UnreapedKnown, SeenWithSaved, SavedLeftSlot, RestoredClean, RulesRemembered, TransitionHasProcess, StartingHasStarter
  <2> QED
    BY <2>1, <2>2
<1>26. CASE UNCHANGED vars
  BY <1>26 DEF vars, SlotUnreaped, UnreapedKnown, UnusedFresh, SeenWithSaved, SavedLeftSlot, RestoredClean, RulesRemembered, TransitionHasProcess, StartingHasStarter
<1> QED
  BY <1>1, <1>2, <1>3, <1>4, <1>5, <1>6, <1>7, <1>8, <1>9, <1>10, <1>11, <1>12, <1>13, <1>14, <1>15, <1>16, <1>17, <1>18, <1>19, <1>20, <1>21, <1>22, <1>23, <1>24, <1>25, <1>26 DEF Next, Stop, Restart, ClientStep, ProcStep

\* A new Supervisor with no process satisfies the invariant.
LEMMA IInvInit == Init => IInv
BY NoneIsNothing, MaxBootsIsNat
   DEF Init, IInv, TypeOK, States, Ops, Points, Life, Running, Ended, Unreaped,
       SlotUnreaped, UnreapedKnown, UnusedFresh, SeenWithSaved, SavedLeftSlot,
       RestoredClean, RulesRemembered, TransitionHasProcess, StartingHasStarter

\* The inductive invariant holds in every state, for any number of callers, cores,
\* processes and server restarts.
THEOREM IInvCorrect == Spec => []IInv
BY IInvInit, IInvNext, PTL DEF Spec

\* Type correctness of Supervisor.
THEOREM TypeCorrect == Spec => []TypeOK
BY IInvCorrect, PTL DEF IInv

\* The snapshot that undoes the network rules of a core is kept as long as rules of
\* a core this server started are in the kernel (restoreFirewallState, wait, Start).
THEOREM RulesAreRemembered == Spec => []RulesRemembered
BY IInvCorrect, PTL DEF IInv

\* A status "starting" or "stopping" always has a managed process (Stop, Start, wait).
THEOREM TransitionsHaveProcess == Spec => []TransitionHasProcess
BY IInvCorrect, PTL DEF IInv

\* A status "starting" always belongs to a Start still in progress for that core.
THEOREM StartingHasItsStarter == Spec => []StartingHasStarter
BY IInvCorrect, PTL DEF IInv

\* No core runs beside the managed one except those a failing start gave up on or an
\* earlier server left behind, and s.cmd never holds a core whose exit was handled.
THEOREM OneCoreIsManaged == Spec => []OneManagedCore
<1>1. IInv => OneManagedCore
  BY NoneIsNothing DEF IInv, TypeOK, SlotUnreaped, UnreapedKnown, OneManagedCore,
     Slot!OneManaged, Alive, Unreaped, Running, Ended
<1> QED
  BY <1>1, IInvCorrect, PTL

\* Supervisor implements CoreSlot: under the mapping of Supervisor.tla its initial
\* states are initial states of the slot, and each of its steps is one step of the
\* slot or leaves the slot alone, whatever the number of concurrent callers.
THEOREM SupervisorImplementsSlot == Spec => ImplementsSlot
<1>1. Init => Slot!Init
  BY DEF Init, Slot!Init, Alive, Running
<1>2. IInv /\ [Next]_vars => [Slot!Next]_(Slot!vars)
  <2> SUFFICES ASSUME IInv, [Next]_vars PROVE Slot!Next \/ UNCHANGED Slot!vars
    BY DEF Slot!vars
  <2> DEFINE Gone == {p \in Procs : proc[p] \in {"waited", "closed"}}
  <2> USE NoneIsNothing DEF IInv, TypeOK, SlotUnreaped, UnreapedKnown, UnusedFresh,
        Slot!vars, Alive, Running, Ended, Unreaped, Killed, supervisor
  <2>1. ASSUME NEW c \in Clients, NEW o \in {"stop", "restart"}, NEW k \in Cores \cup {None}, StopBegin(c, o, k)
        PROVE UNCHANGED Slot!vars
    BY <2>1 DEF StopBegin
  <2>2. ASSUME NEW c \in Clients, StopKill(c) \/ FailKill(c) PROVE UNCHANGED Slot!vars
    BY <2>2 DEF StopKill, FailKill
  <2>3. ASSUME NEW c \in Clients, StopClear(c) PROVE UNCHANGED Slot!vars
    BY <2>3 DEF StopClear, SeenWithSaved, SavedLeftSlot, At
  <2>4. ASSUME NEW c \in Clients,
               \/ StopKillFails(c) \/ StopAwait(c) \/ StopCancelled(c)
               \/ RestoreDone(c) \/ RestoreFails(c) \/ RestoreForget(c)
               \/ StartRefused(c) \/ HealthPasses(c) \/ HealthFails(c)
               \/ SetRunning(c) \/ FailRead(c) \/ FailKillFails(c) \/ FailAwait(c)
        PROVE UNCHANGED Slot!vars
    BY <2>4 DEF StopKillFails, StopAwait, StopCancelled, RestoreDone, RestoreFails,
       RestoreForget, StartRefused, HealthPasses, HealthFails, SetRunning, FailRead,
       FailKillFails, FailAwait
  <2>5. ASSUME NEW c \in Clients, NEW p \in Procs, StartProcess(c, p)
        PROVE Slot!Launch(p)
    BY <2>5 DEF StartProcess, Slot!Launch
  <2>6. ASSUME NEW c \in Clients, FailMark(c)
        PROVE Slot!LetGo(cmd) \/ UNCHANGED Slot!vars
    BY <2>6 DEF FailMark, Slot!LetGo
  <2>7. ASSUME NEW c \in Clients, FailMark(c), cmd = None PROVE UNCHANGED Slot!vars
    BY <2>7 DEF FailMark
  <2>8. ASSUME NEW p \in Procs, WaitReaps(p) PROVE Slot!Reap(p) \/ Slot!ReapLate(p)
    BY <2>8 DEF WaitReaps, Slot!Reap, Slot!ReapLate
  <2>9. ASSUME NEW p \in Procs, ProcCrashes(p) \/ ProcExits(p) PROVE Slot!Die(p)
    BY <2>9 DEF ProcCrashes, ProcExits, Slot!Die
  <2>10. ASSUME NEW p \in Procs, ProcServes(p) \/ WaitCloses(p)
         PROVE UNCHANGED Slot!vars
    BY <2>10 DEF ProcServes, WaitCloses
  <2>11. CASE ServerRestarts
    BY <2>11 DEF ServerRestarts, Slot!LetGo, Slot!Next
  <2>12. CASE UNCHANGED vars
    BY <2>12 DEF vars
  <2> HIDE DEF IInv, TypeOK, Slot!vars
  <2>13. cmd \in Procs \cup {None}
    BY DEF IInv, TypeOK
  <2>14. (\E p \in Procs : \/ Slot!Launch(p) \/ Slot!Die(p) \/ Slot!Reap(p)
                           \/ Slot!ReapLate(p) \/ Slot!LetGo(p))
         => Slot!Next
    BY DEF Slot!Next
  <2> QED
    BY <2>1, <2>2, <2>3, <2>4, <2>5, <2>6, <2>7, <2>8, <2>9, <2>10, <2>11, <2>12,
       <2>13, <2>14
    DEF Next, Stop, Restart, ClientStep, ProcStep
<1> QED
  BY <1>1, <1>2, IInvCorrect, PTL DEF Spec, ImplementsSlot, Slot!Spec
-----------------------------------------------------------------------------
(* A single caller.  With one call at a time nobody else moves the slot, the    *)
(* snapshot or the status while the call holds what it has read.                *)

OneCaller == \A c, d \in Clients : c = d

\* The slot holds what the call has read, or its exit was handled; once that exit was
\* waited for, or the process let go of, the slot stays empty until the next start.
CallOwnsSlot ==
    \A c \in Clients :
        /\ pc[c] \in {"kill", "await", "failKill", "failAwait", "failMark"}
             => cmd \in {seen[c], None}
        /\ pc[c] \in {"clear", "restore", "forget", "launch"} => cmd = None

\* The snapshot is the one the call has read, until the call drops it; after the restore
\* only processes that were let go of can have rules.
CallOwnsSnapshot ==
    \A c \in Clients :
        /\ pc[c] \in {"kill", "await", "clear", "failKill", "failAwait", "failMark",
                      "restore", "forget"} => saved[c] = snapshot
        /\ pc[c] = "launch" => snapshot = None
        /\ pc[c] \in {"forget", "launch"} => rules \subseteq letGo

\* A Stop has set "stopping", which the wait goroutine turns into "stopped".
CallOwnsStatus ==
    \A c \in Clients :
        /\ pc[c] \in {"kill", "await"} =>
             op[c] # "startFailed" /\ state = IF cmd = None THEN "stopped" ELSE "stopping"
        /\ pc[c] = "clear" => op[c] # "startFailed" /\ state = "stopped"
        /\ pc[c] \in {"failKill", "failAwait", "failMark"} => op[c] = "startFailed"
        /\ pc[c] \in {"restore", "forget"} /\ op[c] # "startFailed" => state = "stopped"

CallOwns == CallOwnsSlot /\ CallOwnsSnapshot /\ CallOwnsStatus

\* One step per action; other callers, who could disturb it, there are none.
LEMMA CallOwnsNext ==
  ASSUME OneCaller, IInv, CallOwns, [Next]_vars
  PROVE  CallOwns'
<1> USE NoneIsNothing DEF OneCaller, CallOwns, CallOwnsSlot, CallOwnsSnapshot, CallOwnsStatus,
        At, Goto, Return, SetStatus, supervisor, locals
<1>0. TypeOK
  BY DEF IInv
<1>1. ASSUME NEW c \in Clients, NEW o \in {"stop", "restart"}, NEW k \in Cores \cup {None}, StopBegin(c, o, k) PROVE CallOwns'
  BY <1>0, <1>1 DEF StopBegin, TypeOK
<1>2. ASSUME NEW c \in Clients, StopKill(c) PROVE CallOwns'
  BY <1>0, <1>2 DEF StopKill, TypeOK
<1>3. ASSUME NEW c \in Clients, StopKillFails(c) PROVE CallOwns'
  BY <1>0, <1>3 DEF StopKillFails, TypeOK
<1>4. ASSUME NEW c \in Clients, StopAwait(c) PROVE CallOwns'
  BY <1>0, <1>4 DEF StopAwait, IInv, SlotUnreaped, Unreaped, Running, Ended, TypeOK
<1>5. ASSUME NEW c \in Clients, StopCancelled(c) PROVE CallOwns'
  BY <1>0, <1>5 DEF StopCancelled, TypeOK
<1>6. ASSUME NEW c \in Clients, StopClear(c) PROVE CallOwns'
  BY <1>0, <1>6 DEF StopClear, TypeOK
<1>7. ASSUME NEW c \in Clients, RestoreDone(c) PROVE CallOwns'
  BY <1>0, <1>7 DEF RestoreDone, TypeOK
<1>8. ASSUME NEW c \in Clients, RestoreFails(c) PROVE CallOwns'
  BY <1>0, <1>8 DEF RestoreFails, TypeOK
<1>9. ASSUME NEW c \in Clients, RestoreForget(c) PROVE CallOwns'
  BY <1>0, <1>9 DEF RestoreForget, TypeOK
<1>10. ASSUME NEW c \in Clients, NEW p \in Procs, StartProcess(c, p) PROVE CallOwns'
  BY <1>0, <1>10 DEF StartProcess, TypeOK
<1>11. ASSUME NEW c \in Clients, StartRefused(c) PROVE CallOwns'
  BY <1>0, <1>11 DEF StartRefused, TypeOK
<1>12. ASSUME NEW c \in Clients, HealthPasses(c) PROVE CallOwns'
  BY <1>0, <1>12 DEF HealthPasses, TypeOK
<1>13. ASSUME NEW c \in Clients, HealthFails(c) PROVE CallOwns'
  BY <1>0, <1>13 DEF HealthFails, TypeOK
<1>14. ASSUME NEW c \in Clients, SetRunning(c) PROVE CallOwns'
  BY <1>0, <1>14 DEF SetRunning, TypeOK
<1>15. ASSUME NEW c \in Clients, FailRead(c) PROVE CallOwns'
  BY <1>0, <1>15 DEF FailRead, TypeOK
<1>16. ASSUME NEW c \in Clients, FailKill(c) PROVE CallOwns'
  BY <1>0, <1>16 DEF FailKill, TypeOK
<1>17. ASSUME NEW c \in Clients, FailKillFails(c) PROVE CallOwns'
  BY <1>0, <1>17 DEF FailKillFails, TypeOK
<1>18. ASSUME NEW c \in Clients, FailAwait(c) PROVE CallOwns'
  BY <1>0, <1>18 DEF FailAwait, TypeOK
<1>19. ASSUME NEW c \in Clients, FailMark(c) PROVE CallOwns'
  BY <1>0, <1>19 DEF FailMark, TypeOK
<1>20. ASSUME NEW p \in Procs, WaitReaps(p) PROVE CallOwns'
  BY <1>0, <1>20 DEF WaitReaps, TypeOK
<1>21. ASSUME NEW p \in Procs, WaitCloses(p) PROVE CallOwns'
  BY <1>0, <1>21 DEF WaitCloses, TypeOK
<1>22. ASSUME NEW p \in Procs, ProcServes(p) PROVE CallOwns'
  BY <1>0, <1>22 DEF ProcServes, IInv, UnreapedKnown, Unreaped, Running, TypeOK
<1>23. ASSUME NEW p \in Procs, ProcExits(p) PROVE CallOwns'
  BY <1>0, <1>23 DEF ProcExits, TypeOK
<1>24. ASSUME NEW p \in Procs, ProcCrashes(p) PROVE CallOwns'
  BY <1>0, <1>24 DEF ProcCrashes, TypeOK
<1>25. CASE ServerRestarts
  BY <1>0, <1>25 DEF ServerRestarts, TypeOK
<1>26. CASE UNCHANGED vars
  BY <1>0, <1>26 DEF vars, TypeOK
<1> QED
  BY <1>1, <1>2, <1>3, <1>4, <1>5, <1>6, <1>7, <1>8, <1>9, <1>10, <1>11, <1>12, <1>13, <1>14, <1>15, <1>16, <1>17, <1>18, <1>19, <1>20, <1>21, <1>22, <1>23, <1>24, <1>25, <1>26 DEF Next, Stop, Restart, ClientStep, ProcStep

\* A single caller has the slot to itself in every state.
LEMMA CallOwnsAlways == OneCaller => (Spec => [](IInv /\ CallOwns))
<1>1. Init => CallOwns
  BY DEF Init, CallOwns, CallOwnsSlot, CallOwnsSnapshot, CallOwnsStatus
<1>2. CASE OneCaller
  <2>1. IInv /\ CallOwns /\ [Next]_vars => CallOwns'
    BY <1>2, CallOwnsNext
  <2> QED
    BY <1>1, <2>1, IInvCorrect, PTL DEF Spec
<1> QED
  BY <1>2

\* Of a single caller: the network rules are restored when the core is gone, its exit was
\* handled and the slot is empty, and a Stop has said so (Stop, stopAfterStartFailure).
THEOREM RestoreComesLast == OneCaller => (Spec => []RestoreIsLast)
<1>1. IInv /\ CallOwns => RestoreIsLast
  BY NoneIsNothing DEF IInv, TypeOK, CallOwns, CallOwnsSlot, CallOwnsStatus, RestoreIsLast, UnreapedKnown,
     Alive, Unreaped, Running, Ended
<1>2. CASE OneCaller
  <2>1. Spec => [](IInv /\ CallOwns)
    BY <1>2, CallOwnsAlways
  <2> QED
    BY <1>1, <2>1, PTL
<1> QED
  BY <1>2

\* Of a single caller: when Restart goes on to Start there is no snapshot that Start would
\* overwrite, and no rules but those of processes that were let go of.
THEOREM SnapshotsAreNotOverwritten == OneCaller => (Spec => []SnapshotNotOverwritten)
<1>1. CallOwns => SnapshotNotOverwritten
  BY DEF CallOwns, CallOwnsSnapshot, SnapshotNotOverwritten
<1>2. CASE OneCaller
  <2>1. Spec => [](IInv /\ CallOwns)
    BY <1>2, CallOwnsAlways
  <2> QED
    BY <1>1, <2>1, PTL
<1> QED
  BY <1>2
=============================================================================
