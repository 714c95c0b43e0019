------------------------------ MODULE CoreSlot ------------------------------
(***************************************************************************)
(* What the supervisor of internal/core promises about core processes, and *)
(* nothing about how: there is one slot for a managed process.  A process  *)
(* is started only into the empty slot, leaves it once, and is never put   *)
(* back.  A process leaves the slot because its exit was observed, or      *)
(* because it was let go of (Supervisor.tla names the two ways that can    *)
(* happen); one that was let go of may outlive its stay in the slot, one   *)
(* whose exit was observed may not.                                        *)
(***************************************************************************)
CONSTANTS Procs,    \* identities of started processes
          None      \* the empty slot

VARIABLES slot,     \* the managed process, or None
          live,     \* processes that have not exited
          gone,     \* processes whose exit the supervisor observed
          letGo     \* processes that left the slot without that

vars == <<slot, live, gone, letGo>>

Init ==
    /\ slot = None
    /\ live = {}
    /\ gone = {}
    /\ letGo = {}

Launch(p) ==
    /\ slot = None
    /\ p \notin live \cup gone \cup letGo
    /\ slot' = p
    /\ live' = live \cup {p}
    /\ UNCHANGED <<gone, letGo>>

Die(p) ==
    /\ p \in live
    /\ live' = live \ {p}
    /\ UNCHANGED <<slot, gone, letGo>>

\* The exit of the managed process is observed: it runs no more.
Reap(p) ==
    /\ slot = p
    /\ p \notin live
    /\ slot' = None
    /\ gone' = gone \cup {p}
    /\ UNCHANGED <<live, letGo>>

\* The exit of a process that was let go of earlier is observed.
ReapLate(p) ==
    /\ p \in letGo \ live
    /\ gone' = gone \cup {p}
    /\ UNCHANGED <<slot, live, letGo>>

LetGo(p) ==
    /\ slot = p
    /\ slot' = None
    /\ letGo' = letGo \cup {p}
    /\ UNCHANGED <<live, gone>>

Next ==
    \E p \in Procs : Launch(p) \/ Die(p) \/ Reap(p) \/ ReapLate(p) \/ LetGo(p)

Spec == Init /\ [][Next]_vars

TypeOK ==
    /\ slot \in Procs \cup {None}
    /\ live \in SUBSET Procs
    /\ gone \in SUBSET Procs
    /\ letGo \in SUBSET Procs

\* Every process that has not exited is the managed one or was let go of,
\* and the managed one has not been observed to exit.
OneManaged ==
    /\ live \subseteq {slot} \cup letGo
    /\ slot \notin gone \cup letGo
    /\ live \cap gone = {}
=============================================================================
