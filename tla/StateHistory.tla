------------------------------ MODULE StateHistory ------------------------------
(***************************************************************************)
(* State history: StateHistoryEngine.capture over FileStateStore           *)
(* (analysis/state_history/engine.py, store.py).  A capture compares each  *)
(* scope of a pipeline run with the snapshot that the scope's latest       *)
(* pointer names, writes snapshots and change sets, moves the pointers one *)
(* after the other and writes the run's result.  An exception after the    *)
(* first pointer moves them back, unless one more exception ends that; a   *)
(* crash does not.                                                         *)
(*                                                                         *)
(* A snapshot is identified by its run, scope and content, so a document   *)
(* is its own identifier.  A snapshot and its change set are written in    *)
(* one step: nothing reads a change set but its result.                    *)
(***************************************************************************)
EXTENDS Naturals, Sequences

CONSTANTS
    Runs,       \* pipeline run identifiers
    Order,      \* the scopes, in the order of their authority
    Entities,   \* entity identities within a scope
    Values,     \* normalised states of an entity
    Writers,    \* processes that capture: the pipeline, the CLI
    None        \* no document: of a scope without pointer, a run without result

Scopes == {Order[i] : i \in DOMAIN Order}

\* The state of an entity that a snapshot does not hold.
Gone == "gone"

Contents == [Entities -> Values \cup {Gone}]
Empty == [e \in Entities |-> Gone]

ASSUME NamesAssumption == Gone \notin Values /\ None \notin Runs

\* The authorities of a run are the keys of a dictionary; an observation has one at least.
ASSUME OrderAssumption ==
    /\ Order \in Seq(Scopes) /\ Order # <<>>
    /\ \A i, j \in DOMAIN Order : Order[i] = Order[j] => i = j

Snapshots == [run : Runs, scope : Scopes, entities : Contents]
Pointers == Snapshots \cup {None}

\* What a run does to a scope: the snapshots before and after it.
Entries == [scope : Scopes, old : Pointers, new : Snapshots]

ASSUME NoneAssumption == None \notin Snapshots \cup Contents \cup Seq(Entries)

\* removal_policy complete_only; "undeclared" scopes are not in run.scopes.
Coverages == {"complete", "partial", "undeclared"}

Inputs == [success : BOOLEAN, coverage : [Scopes -> Coverages],
           observed : [Scopes -> Contents]]

VARIABLES
    docs,      \* snapshots/: the snapshots on disk
    latest,    \* latest/: the snapshot that each scope's pointer names
    results,   \* runs/: of each run, per scope the old and the new snapshot
    inputs,    \* what each run's metadata and canonical document say
    pc,        \* where each writer is
    work       \* its run, position, entries and the pointers it has moved

vars == <<docs, latest, results, inputs, pc, work>>

NoWork == [run |-> None, next |-> 1, entries |-> <<>>, backups |-> <<>>]

Init ==
    /\ docs = {}
    /\ latest = [s \in Scopes |-> None]
    /\ results = [r \in Runs |-> None]
    /\ inputs = [r \in Runs |-> None]
    /\ pc = [w \in Writers |-> "idle"]
    /\ work = [w \in Writers |-> NoWork]

-----------------------------------------------------------------------------

Finish(w) ==
    /\ pc' = [pc EXCEPT ![w] = "idle"]
    /\ work' = [work EXCEPT ![w] = NoWork]

\* Position i of a stage of n steps is done: on to the next one or the next stage.
Proceed(w, i, n, stage) ==
    IF i < n
    THEN /\ work' = [work EXCEPT ![w].next = i + 1]
         /\ UNCHANGED pc
    ELSE /\ work' = [work EXCEPT ![w].next = 1]
         /\ pc' = [pc EXCEPT ![w] = stage]

\* capture is called for a run, again and again with the same input.  An existing
\* result is returned as it is; a run that did not succeed leaves no trace.
Capture(w, r) ==
    /\ pc[w] = "idle"
    /\ results[r] = None
    /\ \E input \in IF inputs[r] = None THEN Inputs ELSE {inputs[r]} :
         /\ input.success \/ inputs[r] = None
         /\ \A s \in Scopes : input.coverage[s] = "undeclared" => input.observed[s] = Empty
         /\ inputs' = [inputs EXCEPT ![r] = input]
         /\ IF input.success
            THEN /\ pc' = [pc EXCEPT ![w] = "evaluating"]
                 /\ work' = [work EXCEPT ![w].run = r]
            ELSE UNCHANGED <<pc, work>>
    /\ UNCHANGED <<docs, latest, results>>

\* A scope without removal authority in which nothing was observed is not captured.
Captured(input, s) ==
    \/ input.coverage[s] = "complete"
    \/ input.coverage[s] = "partial" /\ input.observed[s] # Empty

Prior(old) == IF old = None THEN Empty ELSE old.entities

\* Mutant: entities that a partial run did not observe are dropped.
ContentReplaced(input, s, old) == input.observed[s]

\* _snapshot: unseen entities are carried over unless the scope is complete.
Content(input, s, old) ==
    [e \in Entities |->
        IF input.observed[s][e] # Gone \/ input.coverage[s] = "complete"
        THEN input.observed[s][e] ELSE Prior(old)[e]]

Entry(r, s) ==
    [scope |-> s, old |-> latest[s],
     new |-> [run |-> r, scope |-> s, entities |-> Content(inputs[r], s, latest[s])]]

\* Mutant: the pointers are moved to snapshots that were not written.
DocumentsForgotten == "pointing"

\* commit_batch writes all documents before it moves the first pointer.
DocumentsFirst == "writing"

\* One scope of the loop over the run's metadata.
Evaluate(w) ==
    LET r == work[w].run
        i == work[w].next
        entries == IF Captured(inputs[r], Order[i])
                   THEN Append(work[w].entries, Entry(r, Order[i]))
                   ELSE work[w].entries
        last == i = Len(Order)
    IN  /\ pc[w] = "evaluating"
        /\ work' = [work EXCEPT ![w].entries = entries,
                                ![w].next = IF last THEN 1 ELSE i + 1]
        /\ pc' = [pc EXCEPT ![w] = IF ~last THEN @
                                   ELSE IF entries = <<>> THEN "recording"
                                   ELSE DocumentsFirst]
        /\ UNCHANGED <<docs, latest, results, inputs>>

\* write_snapshot and write_change_set of one entry.
WriteDocuments(w) ==
    /\ pc[w] = "writing"
    /\ docs' = docs \cup {work[w].entries[work[w].next].new}
    /\ Proceed(w, work[w].next, Len(work[w].entries), "pointing")
    /\ UNCHANGED <<latest, results, inputs>>

\* Mutant: the pointer is kept for a rollback after it was moved.
BackupAfterwards(entry) == entry.new

\* The pointer to restore, read before set_latest replaces it.
Backup(entry) == latest[entry.scope]

MovePointer(w) ==
    LET i == work[w].next
        entry == work[w].entries[i]
        last == i = Len(work[w].entries)
    IN  /\ pc[w] = "pointing"
        /\ latest' = [latest EXCEPT ![entry.scope] = entry.new]
        /\ work' = [work EXCEPT ![w].backups = Append(@, Backup(entry)),
                                ![w].next = IF last THEN 1 ELSE i + 1]
        /\ pc' = [pc EXCEPT ![w] = IF last THEN "recording" ELSE @]
        /\ UNCHANGED <<docs, results, inputs>>

\* write_capture_result; the capture returns.
WriteResult(w) ==
    /\ pc[w] = "recording"
    /\ results' = [results EXCEPT ![work[w].run] = work[w].entries]
    /\ Finish(w)
    /\ UNCHANGED <<docs, latest, inputs>>

\* A read or write raises.  Before the first pointer nothing is undone; later the
\* pointers moved so far are restored in the order in which they were moved.
Raise(w) ==
    /\ pc[w] \in {"evaluating", "writing", "pointing", "recording"}
    /\ IF pc[w] \in {"evaluating", "writing"} \/ work[w].backups = <<>>
       THEN Finish(w)
       ELSE /\ pc' = [pc EXCEPT ![w] = "restoring"]
            /\ work' = [work EXCEPT ![w].next = 1]
    /\ UNCHANGED <<docs, latest, results, inputs>>

RestorePointer(w) ==
    LET i == work[w].next IN
    /\ pc[w] = "restoring"
    /\ latest' = [latest EXCEPT ![work[w].entries[i].scope] = work[w].backups[i]]
    /\ IF i < Len(work[w].backups)
       THEN Proceed(w, i, Len(work[w].backups), "idle")
       ELSE Finish(w)
    /\ UNCHANGED <<docs, results, inputs>>

\* Restoring a pointer raises as well: the loop is left, what it has not restored
\* stays moved, and the process lives on.
RestoreRaises(w) ==
    /\ pc[w] = "restoring"
    /\ Finish(w)
    /\ UNCHANGED <<docs, latest, results, inputs>>

Crash(w) ==
    /\ pc[w] # "idle"
    /\ Finish(w)
    /\ UNCHANGED <<docs, latest, results, inputs>>

Next ==
    \E w \in Writers :
        \/ \E r \in Runs : Capture(w, r)
        \/ Evaluate(w) \/ WriteDocuments(w) \/ MovePointer(w) \/ WriteResult(w)
        \/ Raise(w) \/ RestorePointer(w) \/ RestoreRaises(w) \/ Crash(w)

Spec == Init /\ [][Next]_vars

-----------------------------------------------------------------------------

\* A pointer names a snapshot that is on disk, also after a crash or a rollback:
\* FileStateStore.latest never finds a dangling pointer (commit_batch).
LatestResolvable == \A s \in Scopes : latest[s] # None => latest[s] \in docs

\* Only a run with a complete scope takes a known entity out of the latest state;
\* a partial run, a retry or a crash never does.  A rollback gives back what was
\* there before the run (capture, "Only a complete site/domain scope is
\* authoritative for removals").
PartialKeepsLatest ==
    [][\A s \in Scopes, e \in Entities :
         Prior(latest[s])[e] # Gone /\ Prior(latest'[s])[e] = Gone =>
         \/ \E w \in Writers : pc[w] = "restoring"
         \/ inputs[latest'[s].run].coverage[s] = "complete"]_vars

-----------------------------------------------------------------------------
\* Refinement: what a reader sees once no capture is under way.

\* The moves of the pointer of s by captures in progress, by writer and position.
Moves(s) == {m \in Writers \X DOMAIN Order :
               m[2] \in DOMAIN work[m[1]].backups /\ work[m[1]].entries[m[2]].scope = s}

\* The pointer of s before the capture in progress moved it.
Settled(s) ==
    IF Moves(s) = {} THEN latest[s]
    ELSE LET m == CHOOSE m \in Moves(s) : TRUE IN work[m[1]].backups[m[2]]

ContentOf(snapshot) == IF snapshot = None THEN None ELSE snapshot.entities

Changes(entries, s) ==
    LET Of == {i \in DOMAIN entries : entries[i].scope = s}
    IN  IF Of = {} THEN None
        ELSE LET entry == entries[CHOOSE i \in Of : TRUE]
             IN  <<ContentOf(entry.old), ContentOf(entry.new)>>

Ledger == INSTANCE CaptureLedger WITH
    Nothing <- None,
    content <- [s \in Scopes |-> ContentOf(Settled(s))],
    recorded <- [r \in Runs |-> IF results[r] = None THEN None
                                ELSE [s \in Scopes |-> Changes(results[r], s)]]

\* A capture ends half way, by an exception of its rollback or the death of its
\* process: each scope whose pointer it had moved holds the old or the new snapshot,
\* every other scope what it held, and no result tells of it.
Torn(w) ==
    /\ RestoreRaises(w) \/ Crash(w)
    /\ \A s \in Scopes :
         \/ Settled(s)' = Settled(s)
         \/ \E i \in DOMAIN work[w].backups :
              work[w].entries[i].scope = s /\ Settled(s)' = work[w].entries[i].new
    /\ UNCHANGED results

\* One capture at a time implements the ledger: all scopes and the result change in
\* one step, a capture that raises and is rolled back leaves no trace, a result is
\* written once and tells the way from the old content to the new.  Only a capture
\* that dies, or whose rollback raises, is torn, and the captures after it, also of
\* the same run, keep to the ledger again (commit_batch's rollback, capture's
\* existing result).
LedgerKept ==
    /\ Ledger!Init
    /\ [][(\E w \in Writers : Torn(w)) \/ Ledger!Next]_<<latest, results, work>>

===============================================================================
