------------------------------ MODULE DaemonLock ------------------------------
(***************************************************************************)
(* The PID file of analysis/operator/daemon.py (DaemonLock): created with  *)
(* O_EXCL, written afterwards, reclaimed when the PID in it is not alive.  *)
(* Several processes run the protocol at once.  Creating the file, writing *)
(* it, reading it, probing the PID that was read and unlinking it are one  *)
(* action each.  A process ends some time after it has let go of the lock; *)
(* until then its PID answers a probe.                                     *)
(***************************************************************************)
CONSTANTS
    Processes,   \* process identifiers
    Overlap,     \* TRUE: a process may start while another is acquiring
    ReusePids    \* TRUE: a process may get the PID found in a stale file

ASSUME OptionsAssumption == Overlap \in BOOLEAN /\ ReusePids \in BOOLEAN

None == "none"
ASSUME NoneAssumption == None \notin Processes

VARIABLES
    pc,        \* what each process is about to do
    owner,     \* who created the file that the path names, or None
    written,   \* whether that file holds its creator's PID yet
    found      \* the PID that each process has read and is about to probe, or None

lockVars == <<pc, owner, written, found>>

Acquiring == {"creating", "reading", "probing", "unlinking", "writing"}

\* Done with the protocol and still in the process table: "leaving" held the lock,
\* "failed" did not get it.
Ending == {"leaving", "failed"}

\* The PID file names one process or none, and each process is at one step.
LockTypeOK ==
    /\ pc \in [Processes -> {"gone", "holding", "releasing"} \cup Ending \cup Acquiring]
    /\ owner \in Processes \cup {None}
    /\ written \in BOOLEAN
    /\ found \in [Processes -> Processes \cup {None}]

LockInit ==
    /\ pc = [p \in Processes |-> "gone"]
    /\ owner = None
    /\ written = FALSE
    /\ found = [p \in Processes |-> None]

GoTo(p, label) == pc' = [pc EXCEPT ![p] = label]

\* _pid_running: the process table still lists it, whatever it is doing.
Alive(p) == pc[p] # "gone"

Holds(p) == pc[p] \in {"holding", "releasing"}

\* A new process; without ReusePids it gets no PID that a file or a starter names.
Start(p) ==
    /\ pc[p] = "gone"
    /\ Overlap \/ \A q \in Processes : pc[q] \notin Acquiring
    /\ ReusePids \/ (p # owner /\ \A q \in Processes : p # found[q])
    /\ GoTo(p, "creating")
    /\ UNCHANGED <<owner, written, found>>

\* os.open with O_CREAT and O_EXCL.
Create(p) ==
    /\ pc[p] = "creating"
    /\ IF owner = None
       THEN owner' = p /\ written' = FALSE /\ GoTo(p, "writing")
       ELSE GoTo(p, "reading") /\ UNCHANGED <<owner, written>>
    /\ UNCHANGED found

\* read_text: an empty or vanished file names nobody, and there is nobody to probe.
Read(p) ==
    /\ pc[p] = "reading"
    /\ IF owner # None /\ written
       THEN found' = [found EXCEPT ![p] = owner] /\ GoTo(p, "probing")
       ELSE GoTo(p, "unlinking") /\ UNCHANGED found
    /\ UNCHANGED <<owner, written>>

\* Mutant: the PID in the file is not compared with the running processes.
ProbeTrusting(p) ==
    /\ pc[p] = "probing"
    /\ GoTo(p, "failed")
    /\ found' = [found EXCEPT ![p] = None]
    /\ UNCHANGED <<owner, written>>

\* Mutant: any existing file counts as stale.
ProbeForcing(p) ==
    /\ pc[p] = "probing"
    /\ GoTo(p, "unlinking")
    /\ found' = [found EXCEPT ![p] = None]
    /\ UNCHANGED <<owner, written>>

\* _pid_running: a PID that answers refuses the start, any other counts as stale.
Probe(p) ==
    /\ pc[p] = "probing"
    /\ GoTo(p, IF Alive(found[p]) THEN "failed" ELSE "unlinking")
    /\ found' = [found EXCEPT ![p] = None]
    /\ UNCHANGED <<owner, written>>

\* Mutant: the stale file is overwritten in place, by a retry that gives up.
UnlinkNothing(p) ==
    /\ pc[p] = "unlinking"
    /\ GoTo(p, "creating")
    /\ UNCHANGED <<owner, written, found>>

\* unlink removes whatever the path names by now.
Unlink(p) ==
    /\ pc[p] = "unlinking"
    /\ owner' = None
    /\ written' = FALSE
    /\ GoTo(p, "creating")
    /\ UNCHANGED found

\* The PID goes to the file this process created, linked or not.
WritePid(p) ==
    /\ pc[p] = "writing"
    /\ written' = IF owner = p THEN TRUE ELSE written
    /\ GoTo(p, "holding")
    /\ UNCHANGED <<owner, found>>

\* release: the file is removed only if it still holds this PID.
ReadOwn(p) ==
    /\ pc[p] = "holding"
    /\ GoTo(p, IF owner = p /\ written THEN "releasing" ELSE "leaving")
    /\ UNCHANGED <<owner, written, found>>

RemoveOwn(p) ==
    /\ pc[p] = "releasing"
    /\ owner' = None
    /\ written' = FALSE
    /\ GoTo(p, "leaving")
    /\ UNCHANGED found

\* Killed at any point: it runs no more and is not reaped yet.
Kill(p) ==
    /\ Alive(p) /\ pc[p] \notin Ending
    /\ GoTo(p, IF Holds(p) THEN "leaving" ELSE "failed")
    /\ found' = [found EXCEPT ![p] = None]
    /\ UNCHANGED <<owner, written>>

\* The process leaves the process table.
Exit(p) ==
    /\ pc[p] \in Ending
    /\ GoTo(p, "gone")
    /\ UNCHANGED <<owner, written, found>>

Acquire(p) == Create(p) \/ Read(p) \/ Probe(p) \/ Unlink(p) \/ WritePid(p)

LockNext == \E p \in Processes :
    Start(p) \/ Acquire(p) \/ ReadOwn(p) \/ RemoveOwn(p) \/ Kill(p) \/ Exit(p)

LockSpec == LockInit /\ [][LockNext]_lockVars

\* Every process executes its next system call.
LockFairSpec == LockSpec /\ \A p \in Processes : WF_lockVars(Acquire(p))

-----------------------------------------------------------------------------

\* One daemon at a time: the class docstring calls the lock an "exclusive PID
\* file with stale-lock recovery", also across daemons killed between any two
\* system calls of the protocol.
OneDaemon == \A p, q \in Processes : Holds(p) /\ Holds(q) => p = q

\* A start is refused only because of a daemon: another process that holds the lock
\* or held it and has not ended since.  What dead daemons leave, written or empty,
\* and other starts, refused or killed, never refuse a start.
RefusedByDaemon ==
    [][\A p \in Processes : pc[p] = "probing" /\ Probe(p) /\ pc'[p] = "failed" =>
         \E q \in Processes \ {p} : Holds(q) \/ pc[q] = "leaving"]_lockVars

\* acquire's retry loop ends: it gets the lock, is refused or is killed.
AcquireEnds == \A p \in Processes : pc[p] = "creating" ~> pc[p] \notin Acquiring

=============================================================================
