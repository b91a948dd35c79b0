---------------------------- MODULE DaemonLockProofs ----------------------------
(***************************************************************************)
(* The PID file excludes a second daemon, for any number of processes,     *)
(* kills and reused PIDs, as long as no two starts overlap; and it refuses *)
(* a start only for a daemon that has not ended, as long as no PID is      *)
(* reused.                                                                 *)
(***************************************************************************)
EXTENDS DaemonLock, TLAPS

\* Who holds the lock created the linked file and wrote its PID to it; a starter
\* probes the holder if there is one, and unlinks a file only without one.
LockInv ==
    /\ LockTypeOK
    /\ \A p, q \in Processes : pc[p] \in Acquiring /\ pc[q] \in Acquiring => p = q
    /\ \A p \in Processes : Holds(p) => owner = p /\ written
    /\ \A p \in Processes : pc[p] = "writing" => owner = p /\ ~written
    /\ \A p, q \in Processes : pc[p] = "probing" /\ Holds(q) => found[p] = q
    /\ \A p \in Processes : pc[p] = "unlinking" => \A q \in Processes : ~Holds(q)

\* Setting one program counter leaves the others.
LEMMA GoToOnly ==
    ASSUME LockTypeOK, NEW p \in Processes, NEW label, GoTo(p, label)
    PROVE  \A q \in Processes : pc'[q] = IF q = p THEN label ELSE pc[q]
BY DEF LockTypeOK, GoTo

LEMMA LockTypeStep == LockTypeOK /\ [LockNext]_lockVars => LockTypeOK'
<1> SUFFICES ASSUME LockTypeOK, [LockNext]_lockVars PROVE LockTypeOK'
    OBVIOUS
<1>1. CASE UNCHANGED lockVars
    BY <1>1 DEF lockVars, LockTypeOK
<1>2. ASSUME NEW p \in Processes,
             Start(p) \/ Acquire(p) \/ ReadOwn(p) \/ RemoveOwn(p) \/ Kill(p)
             \/ Exit(p)
      PROVE  LockTypeOK'
    BY <1>2 DEF LockTypeOK, Start, Acquire, Create, Read, Probe, Unlink, WritePid,
       ReadOwn, RemoveOwn, Kill, Exit, GoTo, Acquiring, Ending
<1> QED BY <1>1, <1>2 DEF LockNext

LEMMA LockInvStep == ~Overlap /\ LockInv /\ [LockNext]_lockVars => LockInv'
<1> SUFFICES ASSUME ~Overlap, LockInv, [LockNext]_lockVars PROVE LockInv'
    OBVIOUS
<1>1. LockTypeOK'
    BY LockTypeStep DEF LockInv
<1>2. CASE UNCHANGED lockVars
    BY <1>1, <1>2 DEF lockVars, LockInv, Holds
<1>3. ASSUME NEW p \in Processes, Start(p) PROVE LockInv'
    <2>1. \A q \in Processes : pc'[q] = IF q = p THEN "creating" ELSE pc[q]
        BY <1>3, GoToOnly DEF LockInv, Start
    <2> QED BY <1>1, <1>3, <2>1 DEF LockInv, Start, Holds, Acquiring
<1>4. ASSUME NEW p \in Processes, Create(p) PROVE LockInv'
    <2>1. CASE owner = None
        <3>1. \A q \in Processes : pc'[q] = IF q = p THEN "writing" ELSE pc[q]
            BY <1>4, <2>1, GoToOnly DEF LockInv, Create
        <3>2. \A q \in Processes : ~Holds(q)
            BY <2>1, NoneAssumption DEF LockInv
        <3> QED BY <1>1, <1>4, <2>1, <3>1, <3>2 DEF LockInv, Create, Holds, Acquiring
    <2>2. CASE owner # None
        <3>1. \A q \in Processes : pc'[q] = IF q = p THEN "reading" ELSE pc[q]
            BY <1>4, <2>2, GoToOnly DEF LockInv, Create
        <3> QED BY <1>1, <1>4, <2>2, <3>1 DEF LockInv, Create, Holds, Acquiring
    <2> QED BY <2>1, <2>2
<1>5. ASSUME NEW p \in Processes, Read(p) PROVE LockInv'
    <2>1. CASE owner # None /\ written
        <3>1. \A q \in Processes : pc'[q] = IF q = p THEN "probing" ELSE pc[q]
            BY <1>5, <2>1, GoToOnly DEF LockInv, Read
        <3>2. found'[p] = owner
            BY <1>5, <2>1 DEF LockInv, LockTypeOK, Read
        <3> QED BY <1>1, <1>5, <3>1, <3>2 DEF LockInv, Read, Holds, Acquiring
    <2>2. CASE ~(owner # None /\ written)
        <3>1. \A q \in Processes : pc'[q] = IF q = p THEN "unlinking" ELSE pc[q]
            BY <1>5, <2>2, GoToOnly DEF LockInv, Read
        <3>2. \A q \in Processes : ~Holds(q)
            BY <2>2, NoneAssumption DEF LockInv
        <3> QED BY <1>1, <1>5, <3>1, <3>2 DEF LockInv, Read, Holds, Acquiring
    <2> QED BY <2>1, <2>2
<1>11. ASSUME NEW p \in Processes, Probe(p) PROVE LockInv'
    <2>1. CASE Alive(found[p])
        <3>1. \A q \in Processes : pc'[q] = IF q = p THEN "failed" ELSE pc[q]
            BY <1>11, <2>1, GoToOnly DEF LockInv, Probe
        <3> QED BY <1>1, <1>11, <3>1 DEF LockInv, Probe, Holds, Acquiring
    <2>2. CASE ~Alive(found[p])
        <3>1. \A q \in Processes : pc'[q] = IF q = p THEN "unlinking" ELSE pc[q]
            BY <1>11, <2>2, GoToOnly DEF LockInv, Probe
        <3>2. \A q \in Processes : ~Holds(q)
            BY <1>11, <2>2 DEF LockInv, Probe, Alive, Holds
        <3> QED BY <1>1, <1>11, <3>1, <3>2 DEF LockInv, Probe, Holds, Acquiring
    <2> QED BY <2>1, <2>2
<1>6. ASSUME NEW p \in Processes, Unlink(p) PROVE LockInv'
    <2>1. \A q \in Processes : pc'[q] = IF q = p THEN "creating" ELSE pc[q]
        BY <1>6, GoToOnly DEF LockInv, Unlink
    <2> QED BY <1>1, <1>6, <2>1 DEF LockInv, Unlink, Holds, Acquiring
<1>7. ASSUME NEW p \in Processes, WritePid(p) PROVE LockInv'
    <2>1. \A q \in Processes : pc'[q] = IF q = p THEN "holding" ELSE pc[q]
        BY <1>7, GoToOnly DEF LockInv, WritePid
    <2>2. owner = p /\ owner' = p /\ written'
        BY <1>7 DEF LockInv, WritePid
    <2> QED BY <1>1, <1>7, <2>1, <2>2 DEF LockInv, WritePid, Holds, Acquiring
<1>8. ASSUME NEW p \in Processes, ReadOwn(p) PROVE LockInv'
    <2>1. \A q \in Processes : pc'[q] = IF q = p THEN "releasing" ELSE pc[q]
        BY <1>8, GoToOnly DEF LockInv, ReadOwn, Holds
    <2> QED BY <1>1, <1>8, <2>1 DEF LockInv, ReadOwn, Holds, Acquiring
<1>9. ASSUME NEW p \in Processes, RemoveOwn(p) PROVE LockInv'
    <2>1. \A q \in Processes : pc'[q] = IF q = p THEN "leaving" ELSE pc[q]
        BY <1>9, GoToOnly DEF LockInv, RemoveOwn
    <2>2. owner = p /\ written
        BY <1>9 DEF LockInv, RemoveOwn, Holds
    <2> QED BY <1>1, <1>9, <2>1, <2>2 DEF LockInv, RemoveOwn, Holds, Acquiring
<1>10. ASSUME NEW p \in Processes, Kill(p) PROVE LockInv'
    <2>1. PICK label \in Ending :
              \A q \in Processes : pc'[q] = IF q = p THEN label ELSE pc[q]
        BY <1>10, GoToOnly DEF LockInv, Kill, Ending
    <2>2. \A q \in Processes : q # p => found'[q] = found[q]
        BY <1>10 DEF LockInv, LockTypeOK, Kill
    <2> QED BY <1>1, <1>10, <2>1, <2>2 DEF LockInv, Kill, Holds, Acquiring, Ending
<1>12. ASSUME NEW p \in Processes, Exit(p) PROVE LockInv'
    <2>1. \A q \in Processes : pc'[q] = IF q = p THEN "gone" ELSE pc[q]
        BY <1>12, GoToOnly DEF LockInv, Exit
    <2> QED BY <1>1, <1>12, <2>1 DEF LockInv, Exit, Holds, Acquiring
<1> QED BY <1>2, <1>3, <1>4, <1>5, <1>6, <1>7, <1>8, <1>9, <1>10, <1>11, <1>12
    DEF LockNext, Acquire

\* When starts do not overlap, at most one daemon holds the PID file, whatever
\* is killed at whatever system call and whichever PIDs are reused
\* (DaemonLock.acquire and release).
THEOREM SerialStartsExclude == ~Overlap /\ LockSpec => []OneDaemon
<1> SUFFICES ASSUME ~Overlap PROVE LockSpec => []OneDaemon
    OBVIOUS
<1>1. LockInit => LockInv
    BY NoneAssumption DEF LockInit, LockInv, LockTypeOK, Holds, Acquiring
<1>2. LockInv /\ [LockNext]_lockVars => LockInv'
    BY LockInvStep
<1>3. LockInv => OneDaemon
    BY DEF LockInv, OneDaemon
<1> QED BY <1>1, <1>2, <1>3, PTL DEF LockSpec

\* Processes whose PID the linked file holds or will, or a starter has read from it.
Named == {owner} \cup {found[p] : p \in Processes}

\* A PID that is in the file or was read from it is that of a daemon or of a process
\* that has ended: who starts is not named, and who has yet to write has not written.
ReadableInv ==
    /\ LockTypeOK
    /\ \A p \in Processes : pc[p] \in {"creating", "reading", "probing", "unlinking"} =>
                                p \notin Named
    /\ \A p \in Processes : pc[p] \in {"writing", "failed"} =>
                                (owner = p => ~written) /\ \A q \in Processes : found[q] # p
    /\ \A p \in Processes : (pc[p] = "probing") = (found[p] # None)

LEMMA ReadableInvStep == ~ReusePids /\ ReadableInv /\ [LockNext]_lockVars => ReadableInv'
<1> SUFFICES ASSUME ~ReusePids, ReadableInv, [LockNext]_lockVars PROVE ReadableInv'
    OBVIOUS
<1>1. LockTypeOK /\ LockTypeOK'
    BY LockTypeStep DEF ReadableInv
<1>2. CASE UNCHANGED lockVars
    BY <1>1, <1>2 DEF lockVars, ReadableInv, Named
<1>3. ASSUME NEW p \in Processes, Start(p) PROVE ReadableInv'
    <2>1. \A q \in Processes : pc'[q] = IF q = p THEN "creating" ELSE pc[q]
        BY <1>1, <1>3, GoToOnly DEF Start
    <2> QED BY <1>1, <1>3, <2>1 DEF ReadableInv, Start, Named
<1>4. ASSUME NEW p \in Processes, Create(p) PROVE ReadableInv'
    <2>1. CASE owner = None
        <3>1. \A q \in Processes : pc'[q] = IF q = p THEN "writing" ELSE pc[q]
            BY <1>1, <1>4, <2>1, GoToOnly DEF Create
        <3> QED BY <1>1, <1>4, <2>1, <3>1 DEF ReadableInv, Create, Named
    <2>2. CASE owner # None
        <3>1. \A q \in Processes : pc'[q] = IF q = p THEN "reading" ELSE pc[q]
            BY <1>1, <1>4, <2>2, GoToOnly DEF Create
        <3> QED BY <1>1, <1>4, <2>2, <3>1 DEF ReadableInv, Create, Named
    <2> QED BY <2>1, <2>2
<1>5. ASSUME NEW p \in Processes, Read(p) PROVE ReadableInv'
    <2>1. CASE owner # None /\ written
        <3>1. \A q \in Processes : pc'[q] = IF q = p THEN "probing" ELSE pc[q]
            BY <1>1, <1>5, <2>1, GoToOnly DEF Read
        <3>2. \A q \in Processes : found'[q] = IF q = p THEN owner ELSE found[q]
            BY <1>1, <1>5, <2>1 DEF Read, LockTypeOK
        <3> QED BY <1>1, <1>5, <2>1, <3>1, <3>2 DEF ReadableInv, Read, Named
    <2>2. CASE ~(owner # None /\ written)
        <3>1. \A q \in Processes : pc'[q] = IF q = p THEN "unlinking" ELSE pc[q]
            BY <1>1, <1>5, <2>2, GoToOnly DEF Read
        <3> QED BY <1>1, <1>5, <2>2, <3>1 DEF ReadableInv, Read, Named
    <2> QED BY <2>1, <2>2
<1>6. ASSUME NEW p \in Processes, Probe(p) PROVE ReadableInv'
    <2>1. PICK label \in {"failed", "unlinking"} :
              \A q \in Processes : pc'[q] = IF q = p THEN label ELSE pc[q]
        BY <1>1, <1>6, GoToOnly DEF Probe
    <2>2. \A q \in Processes : found'[q] = IF q = p THEN None ELSE found[q]
        BY <1>1, <1>6 DEF Probe, LockTypeOK
    <2> QED BY <1>1, <1>6, <2>1, <2>2, NoneAssumption DEF ReadableInv, Probe, Named
<1>7. ASSUME NEW p \in Processes, Unlink(p) PROVE ReadableInv'
    <2>1. \A q \in Processes : pc'[q] = IF q = p THEN "creating" ELSE pc[q]
        BY <1>1, <1>7, GoToOnly DEF Unlink
    <2> QED BY <1>1, <1>7, <2>1, NoneAssumption DEF ReadableInv, Unlink, Named
<1>8. ASSUME NEW p \in Processes, WritePid(p) PROVE ReadableInv'
    <2>1. \A q \in Processes : pc'[q] = IF q = p THEN "holding" ELSE pc[q]
        BY <1>1, <1>8, GoToOnly DEF WritePid
    <2> QED BY <1>1, <1>8, <2>1 DEF ReadableInv, WritePid, Named
<1>9. ASSUME NEW p \in Processes, ReadOwn(p) PROVE ReadableInv'
    <2>1. PICK label \in {"releasing", "leaving"} :
              \A q \in Processes : pc'[q] = IF q = p THEN label ELSE pc[q]
        BY <1>1, <1>9, GoToOnly DEF ReadOwn
    <2> QED BY <1>1, <1>9, <2>1 DEF ReadableInv, ReadOwn, Named
<1>10. ASSUME NEW p \in Processes, RemoveOwn(p) PROVE ReadableInv'
    <2>1. \A q \in Processes : pc'[q] = IF q = p THEN "leaving" ELSE pc[q]
        BY <1>1, <1>10, GoToOnly DEF RemoveOwn
    <2> QED BY <1>1, <1>10, <2>1, NoneAssumption DEF ReadableInv, RemoveOwn, Named
<1>11. ASSUME NEW p \in Processes, Kill(p) PROVE ReadableInv'
    <2>1. \A q \in Processes : pc'[q] = IF q = p THEN IF Holds(p) THEN "leaving" ELSE "failed"
                                              ELSE pc[q]
        BY <1>1, <1>11, GoToOnly DEF Kill
    <2>2. \A q \in Processes : found'[q] = IF q = p THEN None ELSE found[q]
        BY <1>1, <1>11 DEF Kill, LockTypeOK
    <2>3. ~Holds(p) => pc[p] \in Acquiring
        BY <1>1, <1>11 DEF Kill, LockTypeOK, Alive, Holds
    <2> QED BY <1>1, <1>11, <2>1, <2>2, <2>3, NoneAssumption
        DEF ReadableInv, Kill, Named, Holds, Acquiring
<1>12. ASSUME NEW p \in Processes, Exit(p) PROVE ReadableInv'
    <2>1. \A q \in Processes : pc'[q] = IF q = p THEN "gone" ELSE pc[q]
        BY <1>1, <1>12, GoToOnly DEF Exit
    <2> QED BY <1>1, <1>12, <2>1 DEF ReadableInv, Exit, Named, Ending
<1> QED BY <1>2, <1>3, <1>4, <1>5, <1>6, <1>7, <1>8, <1>9, <1>10, <1>11, <1>12
    DEF LockNext, Acquire

\* A start is refused only because of a daemon that holds the lock or held it and has
\* not ended since, however starts overlap and whatever is killed between a read, a
\* probe and a release: the files that dead daemons leave, written or empty, block
\* nobody whose PID is not in them (DaemonLock.acquire, release and _pid_running).
THEOREM RefusalsAreForDaemons == ~ReusePids /\ LockSpec => RefusedByDaemon
<1> SUFFICES ASSUME ~ReusePids PROVE LockSpec => RefusedByDaemon
    OBVIOUS
<1>1. LockInit => ReadableInv
    BY NoneAssumption DEF LockInit, ReadableInv, LockTypeOK, Named
<1>2. ReadableInv /\ [LockNext]_lockVars => ReadableInv'
    BY ReadableInvStep
<1>3. ASSUME ReadableInv, NEW p \in Processes, pc[p] = "probing", Probe(p), pc'[p] = "failed"
      PROVE  \E q \in Processes \ {p} : Holds(q) \/ pc[q] = "leaving"
    <2>1. Alive(found[p])
        BY <1>3 DEF Probe, GoTo, ReadableInv, LockTypeOK
    <2>2. found[p] \in Processes \ {p}
        BY <1>3 DEF ReadableInv, LockTypeOK, Named
    <2>3. Holds(found[p]) \/ pc[found[p]] = "leaving"
        BY <1>3, <2>1, <2>2 DEF ReadableInv, LockTypeOK, Named, Alive, Holds, Acquiring, Ending
    <2> QED BY <2>2, <2>3
<1>4. ReadableInv => \A p \in Processes :
          pc[p] = "probing" /\ Probe(p) /\ pc'[p] = "failed" =>
            \E q \in Processes \ {p} : Holds(q) \/ pc[q] = "leaving"
    BY <1>3
<1> QED BY <1>1, <1>2, <1>4, PTL DEF LockSpec, RefusedByDaemon

=============================================================================
