-------------------------- MODULE StateHistoryProofs --------------------------
(***************************************************************************)
(* Theorems about StateHistory, for any number of runs, scopes, entities   *)
(* and values.  That pointers never dangle holds for any number of         *)
(* processes; the others assume, as their names say, that captures do not  *)
(* overlap.                                                                *)
(***************************************************************************)
EXTENDS StateHistory, SequenceTheorems, TLAPS

PcStates == {"idle", "evaluating", "writing", "pointing", "recording", "restoring"}
Works == [run : Runs \cup {None}, next : Nat \ {0}, entries : Seq(Entries),
          backups : Seq(Pointers)]

TypeOK ==
    /\ docs \in SUBSET Snapshots
    /\ latest \in [Scopes -> Pointers]
    /\ results \in [Runs -> Seq(Entries) \cup {None}]
    /\ inputs \in [Runs -> Inputs \cup {None}]
    /\ pc \in [Writers -> PcStates]
    /\ work \in [Writers -> Works]

\* Where a writer is tells how far it has got with its documents and pointers.
Stage(w) ==
    /\ pc[w] = "idle" => work[w] = NoWork
    /\ pc[w] # "idle" => work[w].run \in Runs /\ inputs[work[w].run] \in Inputs
    /\ pc[w] = "evaluating" => work[w].next <= Len(Order)
    /\ pc[w] \in {"writing", "pointing"} => work[w].next <= Len(work[w].entries)
    /\ pc[w] \in {"evaluating", "writing"} => work[w].backups = <<>>
    /\ pc[w] = "pointing" => Len(work[w].backups) = work[w].next - 1
    /\ pc[w] = "recording" => Len(work[w].backups) = Len(work[w].entries)
    /\ pc[w] = "restoring" => /\ work[w].next <= Len(work[w].backups)
                              /\ Len(work[w].backups) <= Len(work[w].entries)

\* What a writer will name or restore is on disk.
OnDisk(w) ==
    /\ \A i \in 1 .. Len(work[w].backups) : work[w].backups[i] \in docs \cup {None}
    /\ pc[w] = "writing" =>
          \A i \in 1 .. work[w].next - 1 : work[w].entries[i].new \in docs
    /\ pc[w] \in {"pointing", "recording"} =>
          \A i \in 1 .. Len(work[w].entries) : work[w].entries[i].new \in docs

StageInv == \A w \in Writers : Stage(w)

DocsInv ==
    /\ \A s \in Scopes : latest[s] \in docs \cup {None}
    /\ \A w \in Writers : OnDisk(w)

Inv == TypeOK /\ StageInv /\ DocsInv

LEMMA OrderScopes == \A i \in 1 .. Len(Order) : Order[i] \in Scopes
  BY OrderAssumption, LenProperties DEF Scopes

LEMMA OrderLength == Len(Order) \in Nat \ {0} /\ DOMAIN Order = 1 .. Len(Order)
  BY OrderAssumption, EmptySeq, LenProperties

LEMMA OrderInjective ==
  ASSUME NEW i \in 1 .. Len(Order), NEW j \in 1 .. Len(Order), i < j
  PROVE  Order[i] # Order[j]
  BY OrderAssumption, OrderLength

\* The content of a new snapshot is a content (_snapshot).
LEMMA ContentType ==
  ASSUME NEW input \in Inputs, NEW s \in Scopes, NEW old \in Pointers
  PROVE  Content(input, s, old) \in Contents
  <1>1. input.observed[s] \in Contents
    BY DEF Inputs
  <1>2. Prior(old) \in Contents
    BY DEF Prior, Pointers, Snapshots, Empty, Contents
  <1> QED
    BY <1>1, <1>2 DEF Content, Contents

LEMMA EntryType ==
  ASSUME TypeOK, NEW r \in Runs, inputs[r] \in Inputs, NEW s \in Scopes
  PROVE  Entry(r, s) \in Entries
  <1>1. latest[s] \in Pointers
    BY DEF TypeOK
  <1>2. Content(inputs[r], s, latest[s]) \in Contents
    BY <1>1, ContentType
  <1> QED
    BY <1>1, <1>2 DEF Entry, Entries, Snapshots

LEMMA NoWorkType == NoWork \in Works
  BY DEF NoWork, Works

\* Only writer w moves.
OnlyMoves(w) ==
    /\ pc' = [pc EXCEPT ![w] = pc'[w]] /\ pc'[w] \in PcStates
    /\ work' = [work EXCEPT ![w] = work'[w]] /\ work'[w] \in Works

\* A step of one writer leaves what holds of the others alone.
LEMMA OthersUntouched ==
  ASSUME Inv, NEW w \in Writers, OnlyMoves(w),
         docs' \in SUBSET Snapshots, docs \subseteq docs',
         latest' \in [Scopes -> Pointers],
         \A s \in Scopes : latest'[s] \in docs' \cup {None},
         inputs' \in [Runs -> Inputs \cup {None}],
         \A r \in Runs : inputs[r] \in Inputs => inputs'[r] \in Inputs,
         results' \in [Runs -> Seq(Entries) \cup {None}],
         Stage(w)', OnDisk(w)'
  PROVE  Inv'
  <1>1. TypeOK'
    BY DEF Inv, TypeOK, OnlyMoves
  <1>2. ASSUME NEW v \in Writers, v # w
        PROVE  Stage(v)' /\ OnDisk(v)'
    <2>1. pc'[v] = pc[v] /\ work'[v] = work[v] /\ work[v] \in Works
      BY <1>2 DEF Inv, TypeOK, OnlyMoves
    <2>2. Stage(v) /\ OnDisk(v)
      BY DEF Inv, StageInv, DocsInv
    <2>3. Stage(v)'
      BY <2>1, <2>2 DEF Stage
    <2>4. OnDisk(v)'
      BY <2>1, <2>2 DEF OnDisk
    <2> QED
      BY <2>3, <2>4
  <1>3. \A v \in Writers : Stage(v)' /\ OnDisk(v)'
    BY <1>2
  <1> QED
    BY <1>1, <1>3 DEF Inv, StageInv, DocsInv

LEMMA WorkType ==
  ASSUME TypeOK, NEW w \in Writers
  PROVE  /\ work[w] \in Works /\ pc[w] \in PcStates
         /\ work[w].next \in Nat \ {0}
         /\ work[w].entries \in Seq(Entries) /\ Len(work[w].entries) \in Nat
         /\ work[w].backups \in Seq(Pointers) /\ Len(work[w].backups) \in Nat
         /\ \A i \in 1 .. Len(work[w].entries) : work[w].entries[i] \in Entries
         /\ \A i \in 1 .. Len(work[w].backups) : work[w].backups[i] \in Pointers
  <1>1. work[w] \in Works /\ pc[w] \in PcStates
    BY DEF TypeOK
  <1>2. work[w].next \in Nat \ {0} /\ work[w].entries \in Seq(Entries)
        /\ work[w].backups \in Seq(Pointers)
    BY <1>1 DEF Works
  <1> QED
    BY <1>1, <1>2, ElementOfSeq, LenProperties

-----------------------------------------------------------------------------
(* What each step does to its writer.                                      *)

\* Only the position of w changes.
LEMMA NextMoved ==
  ASSUME TypeOK, NEW w \in Writers, NEW k \in Nat \ {0}, work' = [work EXCEPT ![w].next = k]
  PROVE  /\ work' = [work EXCEPT ![w] = work'[w]] /\ work'[w] \in Works
         /\ work'[w].run = work[w].run /\ work'[w].next = k
         /\ work'[w].entries = work[w].entries /\ work'[w].backups = work[w].backups
  <1> DEFINE job == [work[w] EXCEPT !.next = k]
  <1>1. work' = [work EXCEPT ![w] = job] /\ work'[w] = job
    BY DEF TypeOK
  <1>2. /\ job \in Works /\ job.run = work[w].run /\ job.next = k
        /\ job.entries = work[w].entries /\ job.backups = work[w].backups
    BY WorkType DEF Works
  <1> HIDE DEF job
  <1> QED
    BY <1>1, <1>2

LEMMA FinishEffect ==
  ASSUME TypeOK, NEW w \in Writers, Finish(w)
  PROVE  OnlyMoves(w) /\ pc'[w] = "idle" /\ work'[w] = NoWork
  BY NoWorkType DEF Finish, TypeOK, OnlyMoves, PcStates

\* A capture that starts knows its run; a run that failed changes nothing else.
LEMMA CaptureEffect ==
  ASSUME Inv, NEW w \in Writers, NEW r \in Runs, Capture(w, r)
  PROVE  /\ OnlyMoves(w) /\ pc[w] = "idle" /\ work[w] = NoWork
         /\ UNCHANGED <<docs, latest, results>> /\ results[r] = None
         /\ inputs' \in [Runs -> Inputs \cup {None}]
         /\ \A q \in Runs : inputs[q] # None => inputs'[q] = inputs[q]
         /\ inputs'[r] \in Inputs
         /\ \/ pc'[w] = "idle" /\ work'[w] = NoWork
            \/ /\ pc'[w] = "evaluating"
               /\ work'[w] = [run |-> r, next |-> 1, entries |-> <<>>, backups |-> <<>>]
  <1>1. PICK input \in IF inputs[r] = None THEN Inputs ELSE {inputs[r]} :
          /\ inputs' = [inputs EXCEPT ![r] = input]
          /\ IF input.success THEN /\ pc' = [pc EXCEPT ![w] = "evaluating"]
                                   /\ work' = [work EXCEPT ![w].run = r]
             ELSE UNCHANGED <<pc, work>>
    BY DEF Capture
  <1>2. pc[w] = "idle" /\ results[r] = None /\ UNCHANGED <<docs, latest, results>>
    BY DEF Capture
  <1>3. work[w] = NoWork
    BY <1>2 DEF Inv, StageInv, Stage
  <1>4. input \in Inputs /\ (inputs[r] # None => input = inputs[r])
    BY DEF Inv, TypeOK
  <1>5. /\ inputs' \in [Runs -> Inputs \cup {None}] /\ inputs'[r] \in Inputs
        /\ \A q \in Runs : inputs[q] # None => inputs'[q] = inputs[q]
    BY <1>1, <1>4 DEF Inv, TypeOK
  <1>6. CASE input.success
    <2> DEFINE job == [run |-> r, next |-> 1, entries |-> <<>>, backups |-> <<>>]
    <2>1. pc' = [pc EXCEPT ![w] = "evaluating"] /\ work' = [work EXCEPT ![w] = job]
      BY <1>1, <1>3, <1>6 DEF NoWork
    <2>2. job \in Works /\ "evaluating" \in PcStates
      BY DEF Works, PcStates
    <2>3. OnlyMoves(w) /\ pc'[w] = "evaluating" /\ work'[w] = job
      BY <2>1, <2>2 DEF Inv, TypeOK, OnlyMoves
    <2> QED
      BY <1>2, <1>3, <1>5, <2>3
  <1>7. CASE ~input.success
    <2>1. OnlyMoves(w) /\ pc'[w] = "idle" /\ work'[w] = NoWork
      BY <1>1, <1>2, <1>3, <1>7, NoWorkType DEF Inv, TypeOK, OnlyMoves, PcStates
    <2> QED
      BY <1>2, <1>3, <1>5, <2>1
  <1> QED
    BY <1>6, <1>7

\* The entries of w after the scope at hand.
Evaluated(w) ==
    IF Captured(inputs[work[w].run], Order[work[w].next])
    THEN Append(work[w].entries, Entry(work[w].run, Order[work[w].next]))
    ELSE work[w].entries

LEMMA EvaluateEffect ==
  ASSUME Inv, NEW w \in Writers, Evaluate(w)
  PROVE  /\ OnlyMoves(w) /\ pc[w] = "evaluating" /\ UNCHANGED <<docs, latest, results, inputs>>
         /\ work[w].run \in Runs /\ inputs[work[w].run] \in Inputs
         /\ work[w].next \in 1 .. Len(Order)
         /\ Entry(work[w].run, Order[work[w].next]) \in Entries
         /\ Evaluated(w) \in Seq(Entries)
         /\ work'[w].run = work[w].run /\ work'[w].entries = Evaluated(w)
         /\ work'[w].backups = <<>>
         /\ \/ /\ work[w].next < Len(Order)
               /\ pc'[w] = "evaluating" /\ work'[w].next = work[w].next + 1
            \/ /\ pc'[w] = "recording" /\ Evaluated(w) = <<>>
               /\ work'[w].next = 1
            \/ /\ pc'[w] = "writing" /\ Evaluated(w) # <<>>
               /\ work'[w].next = 1
  <1> DEFINE r == work[w].run
             i == work[w].next
             last == i = Len(Order)
             place == IF ~last THEN "evaluating"
                      ELSE IF Evaluated(w) = <<>> THEN "recording" ELSE "writing"
             next == IF last THEN 1 ELSE i + 1
             job == [work[w] EXCEPT !.entries = Evaluated(w), !.next = next]
  <1>1. /\ pc[w] = "evaluating" /\ UNCHANGED <<docs, latest, results, inputs>>
        /\ work' = [work EXCEPT ![w].entries = Evaluated(w), ![w].next = next]
        /\ pc' = [pc EXCEPT ![w] = place]
    BY DEF Evaluate, DocumentsFirst, Evaluated
  <1>2. /\ r \in Runs /\ inputs[r] \in Inputs /\ work[w].backups = <<>>
        /\ i \in 1 .. Len(Order) /\ work[w] \in Works /\ work[w].entries \in Seq(Entries)
    BY <1>1, WorkType, OrderLength DEF Inv, StageInv, Stage
  <1>3. Entry(r, Order[i]) \in Entries
    BY <1>2, EntryType, OrderScopes DEF Inv
  <1>4. Evaluated(w) \in Seq(Entries)
    BY <1>2, <1>3 DEF Evaluated
  <1>5. next \in Nat \ {0} /\ place \in PcStates
    BY <1>2, OrderLength DEF PcStates
  <1>6. work' = [work EXCEPT ![w] = job]
    BY <1>1 DEF Inv, TypeOK
  <1>7. /\ job \in Works /\ job.run = r /\ job.next = next
        /\ job.entries = Evaluated(w) /\ job.backups = <<>>
    <2> HIDE DEF next
    <2> QED
      BY <1>2, <1>4, <1>5 DEF Works
  <1> HIDE DEF place, job
  <1>8. pc'[w] = place /\ work'[w] = job
    BY <1>1, <1>6 DEF Inv, TypeOK
  <1>9. OnlyMoves(w)
    BY <1>1, <1>5, <1>6, <1>7, <1>8 DEF OnlyMoves
  <1>10. CASE i < Len(Order)
    BY <1>1, <1>2, <1>3, <1>4, <1>7, <1>8, <1>9, <1>10, OrderLength DEF place
  <1>11. CASE i = Len(Order)
    BY <1>1, <1>2, <1>3, <1>4, <1>7, <1>8, <1>9, <1>11 DEF place
  <1> QED
    BY <1>2, <1>10, <1>11, OrderLength

LEMMA WriteDocumentsEffect ==
  ASSUME Inv, NEW w \in Writers, WriteDocuments(w)
  PROVE  /\ OnlyMoves(w) /\ pc[w] = "writing" /\ UNCHANGED <<latest, results, inputs>>
         /\ work[w].next \in 1 .. Len(work[w].entries)
         /\ docs' = docs \cup {work[w].entries[work[w].next].new}
         /\ work[w].entries[work[w].next].new \in Snapshots
         /\ work'[w].run = work[w].run /\ work'[w].entries = work[w].entries
         /\ work'[w].backups = work[w].backups /\ work[w].backups = <<>>
         /\ \/ /\ work[w].next < Len(work[w].entries)
               /\ pc'[w] = "writing" /\ work'[w].next = work[w].next + 1
            \/ /\ work[w].next = Len(work[w].entries)
               /\ pc'[w] = "pointing" /\ work'[w].next = 1
  <1> DEFINE i == work[w].next
             n == Len(work[w].entries)
  <1>1. /\ pc[w] = "writing" /\ UNCHANGED <<latest, results, inputs>>
        /\ docs' = docs \cup {work[w].entries[i].new}
        /\ Proceed(w, i, n, "pointing")
    BY DEF WriteDocuments
  <1>2. i \in 1 .. n /\ n \in Nat /\ work[w] \in Works /\ work[w].backups = <<>>
    BY <1>1, WorkType DEF Inv, StageInv, Stage
  <1>3. work[w].entries[i].new \in Snapshots
    BY <1>2, WorkType DEF Inv, Entries
  <1>4. CASE i < n
    <2>1. work' = [work EXCEPT ![w].next = i + 1] /\ pc' = pc
      BY <1>1, <1>4 DEF Proceed
    <2>2. work'[w] \in Works /\ work'[w].run = work[w].run /\ work'[w].next = i + 1
          /\ work'[w].entries = work[w].entries /\ work'[w].backups = work[w].backups
      <3>1. TypeOK /\ (i + 1) \in Nat \ {0}
        BY <1>2 DEF Inv
      <3> QED
        BY <2>1, <3>1, NextMoved
    <2>3. OnlyMoves(w) /\ pc'[w] = "writing"
      BY <1>1, <2>1, <2>2 DEF Inv, TypeOK, OnlyMoves
    <2> QED
      BY <1>1, <1>2, <1>3, <1>4, <2>2, <2>3
  <1>5. CASE i = n
    <2>1. work' = [work EXCEPT ![w].next = 1] /\ pc' = [pc EXCEPT ![w] = "pointing"]
      BY <1>1, <1>5, <1>2 DEF Proceed
    <2>2. work'[w] \in Works /\ work'[w].run = work[w].run /\ work'[w].next = 1
          /\ work'[w].entries = work[w].entries /\ work'[w].backups = work[w].backups
      <3>1. TypeOK /\ 1 \in Nat \ {0}
        BY <1>2 DEF Inv
      <3> QED
        BY <2>1, <3>1, NextMoved
    <2>3. OnlyMoves(w) /\ pc'[w] = "pointing"
      BY <1>1, <2>1, <2>2 DEF Inv, TypeOK, OnlyMoves, PcStates
    <2> QED
      BY <1>1, <1>2, <1>3, <1>5, <2>2, <2>3
  <1> QED
    BY <1>2, <1>4, <1>5

\* The pointer that is moved is kept for a rollback.
LEMMA MovePointerEffect ==
  ASSUME Inv, NEW w \in Writers, MovePointer(w)
  PROVE  LET entry == work[w].entries[work[w].next] IN
         /\ OnlyMoves(w) /\ pc[w] = "pointing" /\ UNCHANGED <<docs, results, inputs>>
         /\ work[w].next \in 1 .. Len(work[w].entries)
         /\ Len(work[w].backups) = work[w].next - 1
         /\ entry \in Entries /\ latest[entry.scope] \in Pointers
         /\ latest' = [latest EXCEPT ![entry.scope] = entry.new]
         /\ work'[w].run = work[w].run /\ work'[w].entries = work[w].entries
         /\ work'[w].backups = Append(work[w].backups, latest[entry.scope])
         /\ \/ /\ work[w].next < Len(work[w].entries)
               /\ pc'[w] = "pointing" /\ work'[w].next = work[w].next + 1
            \/ /\ work[w].next = Len(work[w].entries)
               /\ pc'[w] = "recording" /\ work'[w].next = 1
  <1> DEFINE i == work[w].next
             n == Len(work[w].entries)
             entry == work[w].entries[i]
             backups == Append(work[w].backups, latest[entry.scope])
             next == IF i = n THEN 1 ELSE i + 1
             place == IF i = n THEN "recording" ELSE "pointing"
             job == [work[w] EXCEPT !.backups = backups, !.next = next]
  <1>1. /\ pc[w] = "pointing" /\ UNCHANGED <<docs, results, inputs>>
        /\ latest' = [latest EXCEPT ![entry.scope] = entry.new]
        /\ work' = [work EXCEPT ![w].backups = Append(work[w].backups, latest[entry.scope]),
                                ![w].next = next]
        /\ pc' = [pc EXCEPT ![w] = IF i = n THEN "recording" ELSE pc[w]]
    BY DEF MovePointer, Backup, Inv, TypeOK
  <1>2. i \in 1 .. n /\ n \in Nat /\ work[w] \in Works /\ Len(work[w].backups) = i - 1
    BY <1>1, WorkType DEF Inv, StageInv, Stage
  <1>3. entry \in Entries /\ latest[entry.scope] \in Pointers
    BY <1>2, WorkType DEF Inv, TypeOK, Entries
  <1>4. backups \in Seq(Pointers)
    BY <1>3, WorkType DEF Inv
  <1>5. next \in Nat \ {0} /\ place \in PcStates
    BY <1>2 DEF PcStates
  <1>6. work' = [work EXCEPT ![w] = job]
    BY <1>1 DEF Inv, TypeOK
  <1>7. /\ job \in Works /\ job.run = work[w].run /\ job.next = next
        /\ job.entries = work[w].entries /\ job.backups = backups
    <2> HIDE DEF next, backups
    <2> QED
      BY <1>2, <1>4, <1>5 DEF Works
  <1>8. pc' = [pc EXCEPT ![w] = place]
    BY <1>1
  <1> HIDE DEF place, job
  <1>9. pc'[w] = place /\ work'[w] = job
    BY <1>8, <1>6 DEF Inv, TypeOK
  <1>10. OnlyMoves(w)
    BY <1>5, <1>6, <1>7, <1>8, <1>9 DEF OnlyMoves
  <1>11. \/ i < n /\ pc'[w] = "pointing" /\ work'[w].next = i + 1
         \/ i = n /\ pc'[w] = "recording" /\ work'[w].next = 1
    BY <1>2, <1>7, <1>9 DEF place
  <1> HIDE DEF n, next
  <1> QED
    BY <1>1, <1>2, <1>3, <1>7, <1>9, <1>10, <1>11 DEF n

\* Before the first pointer the capture is over; later there is something to restore.
LEMMA RaiseEffect ==
  ASSUME Inv, NEW w \in Writers, Raise(w)
  PROVE  /\ OnlyMoves(w) /\ UNCHANGED <<docs, latest, results, inputs>>
         /\ \/ pc'[w] = "idle" /\ work'[w] = NoWork /\ work[w].backups = <<>>
            \/ /\ pc[w] \in {"pointing", "recording"} /\ work[w].backups # <<>>
               /\ pc'[w] = "restoring" /\ work'[w].next = 1
               /\ work'[w].run = work[w].run /\ work'[w].entries = work[w].entries
               /\ work'[w].backups = work[w].backups
  <1>1. /\ UNCHANGED <<docs, latest, results, inputs>>
        /\ pc[w] \in {"evaluating", "writing", "pointing", "recording"}
    BY DEF Raise
  <1>2. CASE Finish(w) /\ (pc[w] \in {"evaluating", "writing"} \/ work[w].backups = <<>>)
    <2>1. work[w].backups = <<>>
      BY <1>2 DEF Inv, StageInv, Stage
    <2> QED
      BY <1>1, <1>2, <2>1, FinishEffect DEF Inv
  <1>3. CASE /\ pc' = [pc EXCEPT ![w] = "restoring"] /\ work' = [work EXCEPT ![w].next = 1]
             /\ pc[w] \notin {"evaluating", "writing"} /\ work[w].backups # <<>>
    <2>1. work[w] \in Works
      BY WorkType DEF Inv
    <2>2. work'[w] \in Works /\ work'[w].run = work[w].run /\ work'[w].next = 1
          /\ work'[w].entries = work[w].entries /\ work'[w].backups = work[w].backups
      <3>1. TypeOK /\ 1 \in Nat \ {0}
        BY DEF Inv
      <3> QED
        BY <1>3, <3>1, NextMoved
    <2>3. OnlyMoves(w) /\ pc'[w] = "restoring"
      BY <1>3, <2>2 DEF Inv, TypeOK, OnlyMoves, PcStates
    <2> QED
      BY <1>1, <1>3, <2>2, <2>3
  <1> QED
    BY <1>1, <1>2, <1>3 DEF Raise

LEMMA RestorePointerEffect ==
  ASSUME Inv, NEW w \in Writers, RestorePointer(w)
  PROVE  LET i == work[w].next IN
         /\ OnlyMoves(w) /\ pc[w] = "restoring" /\ UNCHANGED <<docs, results, inputs>>
         /\ i \in 1 .. Len(work[w].backups) /\ Len(work[w].backups) <= Len(work[w].entries)
         /\ work[w].entries[i] \in Entries /\ work[w].backups[i] \in Pointers
         /\ latest' = [latest EXCEPT ![work[w].entries[i].scope] = work[w].backups[i]]
         /\ \/ /\ i < Len(work[w].backups)
               /\ pc'[w] = "restoring" /\ work'[w].next = i + 1
               /\ work'[w].run = work[w].run /\ work'[w].entries = work[w].entries
               /\ work'[w].backups = work[w].backups
            \/ i = Len(work[w].backups) /\ pc'[w] = "idle" /\ work'[w] = NoWork
  <1> DEFINE i == work[w].next
             n == Len(work[w].backups)
  <1>1. /\ pc[w] = "restoring" /\ UNCHANGED <<docs, results, inputs>>
        /\ latest' = [latest EXCEPT ![work[w].entries[i].scope] = work[w].backups[i]]
    BY DEF RestorePointer
  <1>2. IF i < n THEN Proceed(w, i, n, "idle") ELSE Finish(w)
    BY DEF RestorePointer
  <1>3. i \in 1 .. n /\ n \in Nat /\ n <= Len(work[w].entries) /\ work[w] \in Works
    BY <1>1, WorkType DEF Inv, StageInv, Stage
  <1>4. work[w].entries[i] \in Entries /\ work[w].backups[i] \in Pointers
    BY <1>3, WorkType DEF Inv
  <1>5. CASE i < n
    <2>1. work' = [work EXCEPT ![w].next = i + 1] /\ pc' = pc
      BY <1>2, <1>5 DEF Proceed
    <2>2. work'[w] \in Works /\ work'[w].run = work[w].run /\ work'[w].next = i + 1
          /\ work'[w].entries = work[w].entries /\ work'[w].backups = work[w].backups
      <3>1. TypeOK /\ (i + 1) \in Nat \ {0}
        BY <1>3 DEF Inv
      <3> QED
        BY <2>1, <3>1, NextMoved
    <2>3. OnlyMoves(w) /\ pc'[w] = "restoring"
      BY <1>1, <2>1, <2>2 DEF Inv, TypeOK, OnlyMoves
    <2> QED
      BY <1>1, <1>3, <1>4, <1>5, <2>2, <2>3
  <1>6. CASE i = n
    <2>1. Finish(w)
      BY <1>2, <1>3, <1>6
    <2>2. OnlyMoves(w) /\ pc'[w] = "idle" /\ work'[w] = NoWork
      BY <2>1, FinishEffect DEF Inv
    <2> QED
      BY <1>1, <1>3, <1>4, <1>6, <2>2
  <1> QED
    BY <1>3, <1>5, <1>6

-----------------------------------------------------------------------------
(* Every step keeps what is named on disk.                                 *)

LEMMA CapturePreserves ==
  ASSUME Inv, NEW w \in Writers, NEW r \in Runs, Capture(w, r)
  PROVE  Inv'
  <1>1. Stage(w)' /\ OnDisk(w)'
    <2>1. CASE pc'[w] = "idle" /\ work'[w] = NoWork
      BY <2>1 DEF Stage, OnDisk, NoWork
    <2>2. CASE /\ pc'[w] = "evaluating"
               /\ work'[w] = [run |-> r, next |-> 1, entries |-> <<>>, backups |-> <<>>]
      <3>1. Len(work'[w].backups) = 0
        BY <2>2
      <3> QED
        BY <2>2, <3>1, CaptureEffect, OrderLength DEF Stage, OnDisk
    <2> QED
      BY <2>1, <2>2, CaptureEffect
  <1>2. \A q \in Runs : inputs[q] \in Inputs => inputs'[q] \in Inputs
    <2> SUFFICES ASSUME NEW q \in Runs, inputs[q] \in Inputs
                 PROVE  inputs'[q] \in Inputs
      OBVIOUS
    <2>1. CASE inputs[q] # None
      BY <2>1, CaptureEffect
    <2>2. CASE inputs[q] = None
      <3>1. inputs' \in [Runs -> Inputs \cup {None}]
        BY CaptureEffect
      <3> QED
        BY <2>2, <3>1
    <2> QED
      BY <2>1, <2>2
  <1> QED
    BY <1>1, <1>2, CaptureEffect, OthersUntouched DEF Inv, TypeOK, DocsInv

LEMMA EvaluatePreserves ==
  ASSUME Inv, NEW w \in Writers, Evaluate(w)
  PROVE  Inv'
  <1>1. Len(Evaluated(w)) \in Nat /\ (Evaluated(w) # <<>> => Len(Evaluated(w)) >= 1)
    BY EvaluateEffect, EmptySeq, LenProperties
  <1>2. Stage(w)'
    BY <1>1, EvaluateEffect, OrderLength DEF Stage
  <1>3. OnDisk(w)'
    BY EvaluateEffect DEF OnDisk
  <1> QED
    BY <1>2, <1>3, EvaluateEffect, OthersUntouched DEF Inv, TypeOK, DocsInv

LEMMA WriteDocumentsPreserves ==
  ASSUME Inv, NEW w \in Writers, WriteDocuments(w)
  PROVE  Inv'
  <1>1. Stage(w) /\ OnDisk(w) /\ Len(work[w].entries) \in Nat
    BY WorkType DEF Inv, StageInv, DocsInv
  <1>2. Stage(w)'
    BY <1>1, WriteDocumentsEffect DEF Stage
  <1>3. OnDisk(w)'
    <2> DEFINE es == work[w].entries
               i == work[w].next
    <2>1. /\ pc[w] = "writing" /\ work'[w].entries = es /\ work'[w].backups = <<>>
          /\ docs' = docs \cup {es[i].new} /\ i \in 1 .. Len(es)
          /\ \/ i < Len(es) /\ pc'[w] = "writing" /\ work'[w].next = i + 1
             \/ i = Len(es) /\ pc'[w] = "pointing"
      BY WriteDocumentsEffect
    <2>2. \A k \in 1 .. i : es[k].new \in docs'
      <3>1. \A k \in 1 .. i - 1 : es[k].new \in docs
        BY <1>1, <2>1 DEF OnDisk
      <3>2. \A k \in 1 .. i : k \in 1 .. i - 1 \/ k = i
        BY <2>1
      <3> QED
        BY <2>1, <3>1, <3>2
    <2>3. Len(work'[w].backups) = 0
      BY <2>1
    <2> HIDE DEF es, i
    <2> QED
      BY <1>1, <2>1, <2>2, <2>3 DEF OnDisk
  <1> QED
    BY <1>2, <1>3, WriteDocumentsEffect, OthersUntouched DEF Inv, TypeOK, DocsInv

LEMMA MovePointerPreserves ==
  ASSUME Inv, NEW w \in Writers, MovePointer(w)
  PROVE  Inv'
  <1> DEFINE n == Len(work[w].entries)
             i == work[w].next
             entry == work[w].entries[i]
             old == latest[entry.scope]
  <1>1. /\ Stage(w) /\ OnDisk(w) /\ n \in Nat
        /\ work[w].backups \in Seq(Pointers) /\ Len(work[w].backups) = i - 1
    BY WorkType, MovePointerEffect DEF Inv, StageInv, DocsInv
  <1>2. /\ OnlyMoves(w) /\ pc[w] = "pointing" /\ UNCHANGED <<docs, results, inputs>>
        /\ i \in 1 .. n /\ entry \in Entries /\ old \in Pointers
        /\ latest' = [latest EXCEPT ![entry.scope] = entry.new]
        /\ work'[w].run = work[w].run /\ work'[w].entries = work[w].entries
        /\ work'[w].backups = Append(work[w].backups, old)
        /\ \/ i < n /\ pc'[w] = "pointing" /\ work'[w].next = i + 1
           \/ i = n /\ pc'[w] = "recording" /\ work'[w].next = 1
    BY MovePointerEffect
  <1>3. old \in docs \cup {None} /\ entry.new \in docs
    BY <1>1, <1>2 DEF Inv, DocsInv, OnDisk, Entries
  <1>4. latest' \in [Scopes -> Pointers] /\ \A s \in Scopes : latest'[s] \in docs' \cup {None}
    <2> HIDE DEF entry
    <2>1. latest \in [Scopes -> Pointers] /\ \A s \in Scopes : latest[s] \in docs \cup {None}
      BY DEF Inv, TypeOK, DocsInv
    <2>2. entry.new \in Pointers
      BY <1>2 DEF Entries, Pointers
    <2> QED
      BY <1>2, <1>3, <2>1, <2>2
  <1> HIDE DEF old
  <1>5. /\ Len(work'[w].backups) = i
        /\ \A k \in 1 .. i : work'[w].backups[k] \in docs \cup {None}
    <2>1. Len(work'[w].backups) = i /\ work'[w].backups[i] = old
          /\ \A k \in 1 .. i - 1 : work'[w].backups[k] = work[w].backups[k]
      <3> HIDE DEF n, i, entry
      <3>1. i \in Nat /\ i - 1 + 1 = i
        BY <1>1, <1>2
      <3> QED
        BY <1>1, <1>2, <3>1, AppendProperties
    <2>2. \A k \in 1 .. i - 1 : work[w].backups[k] \in docs \cup {None}
      BY <1>1 DEF OnDisk
    <2> QED
      BY <1>2, <1>3, <2>1, <2>2
  <1>6. Stage(w)'
    <2>1. work'[w].run \in Runs /\ inputs'[work'[w].run] \in Inputs
      BY <1>1, <1>2 DEF Stage
    <2>2. n = Len(work'[w].entries)
      BY <1>2
    <2> HIDE DEF n
    <2>3. CASE i < n /\ pc'[w] = "pointing" /\ work'[w].next = i + 1
      BY <1>1, <1>2, <1>5, <2>1, <2>2, <2>3 DEF Stage
    <2>4. CASE i = n /\ pc'[w] = "recording" /\ work'[w].next = 1
      BY <1>5, <2>1, <2>2, <2>4 DEF Stage
    <2> QED
      BY <1>2, <2>3, <2>4
  <1>7. OnDisk(w)'
    BY <1>1, <1>2, <1>5 DEF OnDisk
  <1> QED
    BY <1>2, <1>4, <1>6, <1>7, OthersUntouched DEF Inv, TypeOK

LEMMA RaisePreserves ==
  ASSUME Inv, NEW w \in Writers, Raise(w)
  PROVE  Inv'
  <1>1. /\ Stage(w) /\ OnDisk(w) /\ Len(work[w].entries) \in Nat
        /\ work[w].next \in Nat \ {0} /\ work[w].backups \in Seq(Pointers)
    BY WorkType DEF Inv, StageInv, DocsInv
  <1>2. Len(work[w].backups) \in Nat /\ (work[w].backups # <<>> => Len(work[w].backups) >= 1)
    BY <1>1, EmptySeq, LenProperties
  <1>3. Stage(w)'
    BY <1>1, <1>2, RaiseEffect DEF Stage
  <1>4. OnDisk(w)'
    BY <1>1, RaiseEffect DEF OnDisk, NoWork
  <1> QED
    BY <1>3, <1>4, RaiseEffect, OthersUntouched DEF Inv, TypeOK, DocsInv

LEMMA RestorePointerPreserves ==
  ASSUME Inv, NEW w \in Writers, RestorePointer(w)
  PROVE  Inv'
  <1>1. Stage(w) /\ OnDisk(w) /\ Len(work[w].backups) \in Nat
    BY WorkType DEF Inv, StageInv, DocsInv
  <1>2. work[w].backups[work[w].next] \in docs \cup {None}
    BY <1>1, RestorePointerEffect DEF OnDisk
  <1>3. Stage(w)'
    BY <1>1, RestorePointerEffect DEF Stage
  <1>4. OnDisk(w)'
    BY <1>1, RestorePointerEffect DEF OnDisk, NoWork
  <1>5. latest' \in [Scopes -> Pointers] /\ \A s \in Scopes : latest'[s] \in docs' \cup {None}
    BY <1>2, RestorePointerEffect DEF Inv, TypeOK, DocsInv, Pointers
  <1> QED
    BY <1>3, <1>4, <1>5, RestorePointerEffect, OthersUntouched DEF Inv, TypeOK

\* The end of a capture, by its result, a failed rollback or a crash.
LEMMA FinishPreserves ==
  ASSUME Inv, NEW w \in Writers, Finish(w), UNCHANGED <<docs, latest, inputs>>,
         results' \in [Runs -> Seq(Entries) \cup {None}]
  PROVE  Inv'
  <1>1. Stage(w)' /\ OnDisk(w)'
    BY FinishEffect DEF Stage, OnDisk, NoWork, Inv
  <1> QED
    BY <1>1, FinishEffect, OthersUntouched DEF Inv, TypeOK, DocsInv

LEMMA WriteResultPreserves ==
  ASSUME Inv, NEW w \in Writers, WriteResult(w)
  PROVE  Inv'
  <1>1. results' \in [Runs -> Seq(Entries) \cup {None}]
    BY WorkType DEF WriteResult, Inv, TypeOK
  <1>2. Finish(w) /\ UNCHANGED <<docs, latest, inputs>>
    BY DEF WriteResult
  <1> QED
    BY <1>1, <1>2, FinishPreserves DEF Inv, TypeOK

LEMMA CrashPreserves ==
  ASSUME Inv, NEW w \in Writers, Crash(w) \/ RestoreRaises(w)
  PROVE  Inv'
  BY FinishPreserves DEF Crash, RestoreRaises, Inv, TypeOK

LEMMA InvInitially == Init => Inv
  <1> SUFFICES ASSUME Init PROVE Inv
    OBVIOUS
  <1>1. TypeOK
    BY NoWorkType DEF Init, TypeOK, Pointers, PcStates
  <1>2. StageInv
    BY DEF Init, StageInv, Stage
  <1>3. DocsInv
    BY DEF Init, DocsInv, OnDisk, NoWork
  <1> QED
    BY <1>1, <1>2, <1>3 DEF Inv

LEMMA InvStep == Inv /\ [Next]_vars => Inv'
  <1> SUFFICES ASSUME Inv, [Next]_vars PROVE Inv'
    OBVIOUS
  <1>1. CASE UNCHANGED vars
    BY <1>1 DEF vars, Inv, TypeOK, StageInv, Stage, DocsInv, OnDisk
  <1>2. CASE Next
    <2>1. PICK w \in Writers :
            \/ \E r \in Runs : Capture(w, r)
            \/ Evaluate(w) \/ WriteDocuments(w) \/ MovePointer(w) \/ WriteResult(w)
            \/ Raise(w) \/ RestorePointer(w) \/ RestoreRaises(w) \/ Crash(w)
      BY <1>2 DEF Next
    <2> QED
      BY <2>1, CapturePreserves, EvaluatePreserves, WriteDocumentsPreserves,
         MovePointerPreserves, WriteResultPreserves, RaisePreserves,
         RestorePointerPreserves, CrashPreserves
  <1> QED
    BY <1>1, <1>2

LEMMA Invariance == Spec => []Inv
  BY InvInitially, InvStep, PTL DEF Spec

\* FileStateStore never meets a pointer to a snapshot that is not on disk, however
\* many processes capture, roll back or die (commit_batch writes all documents before
\* the first pointer; a rollback restores what was found).
THEOREM PointersResolve == Spec => []LatestResolvable
  <1>1. Inv => LatestResolvable
    BY DEF Inv, DocsInv, LatestResolvable
  <1> QED
    BY Invariance, <1>1, PTL

-----------------------------------------------------------------------------
(* One capture at a time.                                                  *)

CapturesSerial == \A v, w \in Writers : v = w

\* What a run records of a scope carries over what it may not remove.
Derived(r, input, entry) ==
    entry.new = [run |-> r, scope |-> entry.scope,
                 entities |-> Content(input, entry.scope, entry.old)]

\* The scopes that a writer has entries for are those it has evaluated, one entry each.
EntriesOf(w) ==
    /\ Len(work[w].entries) <= Len(Order)
    /\ pc[w] = "evaluating" => Len(work[w].entries) < work[w].next
    /\ \A i \in 1 .. Len(work[w].entries) :
        /\ \E k \in 1 .. Len(Order) :
              /\ work[w].entries[i].scope = Order[k]
              /\ pc[w] = "evaluating" => k < work[w].next
        /\ \A j \in 1 .. Len(work[w].entries) :
              work[w].entries[j].scope = work[w].entries[i].scope => i = j
        /\ Derived(work[w].run, inputs[work[w].run], work[w].entries[i])

\* Without another writer the pointers are as the entries say: those that have been
\* moved name the new snapshot, and the old one is kept; the others still name the
\* old one; those that have been restored name it again.
PointerOf(w, i) ==
    LET entry == work[w].entries[i]
        moved == i <= Len(work[w].backups)
    IN  /\ ~moved => latest[entry.scope] = entry.old
        /\ moved => work[w].backups[i] = entry.old
        /\ moved /\ pc[w] \in {"pointing", "recording"} => latest[entry.scope] = entry.new
        /\ moved /\ pc[w] = "restoring" =>
              latest[entry.scope] = IF i < work[w].next THEN entry.old ELSE entry.new

PointersOf(w) ==
    pc[w] # "idle" =>
        /\ results[work[w].run] = None
        /\ \A i \in 1 .. Len(work[w].entries) : PointerOf(w, i)

SerialInv == \A w \in Writers : EntriesOf(w) /\ PointersOf(w)

LEMMA IdleSerial ==
  ASSUME NEW w \in Writers, pc[w] = "idle", work[w] = NoWork
  PROVE  EntriesOf(w) /\ PointersOf(w)
  BY DEF EntriesOf, PointersOf, NoWork

LEMMA CaptureSerial ==
  ASSUME Inv, NEW w \in Writers, NEW r \in Runs, Capture(w, r)
  PROVE  EntriesOf(w)' /\ PointersOf(w)'
  <1>1. CASE pc'[w] = "idle" /\ work'[w] = NoWork
    BY <1>1 DEF EntriesOf, PointersOf, NoWork
  <1>2. CASE work'[w] = [run |-> r, next |-> 1, entries |-> <<>>, backups |-> <<>>]
    BY <1>2, CaptureEffect DEF EntriesOf, PointersOf
  <1> QED
    BY <1>1, <1>2, CaptureEffect

LEMMA EvaluateSerial ==
  ASSUME Inv, NEW w \in Writers, EntriesOf(w), PointersOf(w), Evaluate(w)
  PROVE  EntriesOf(w)' /\ PointersOf(w)'
  <1> DEFINE es == work[w].entries
             s == Order[work[w].next]
             new == Entry(work[w].run, s)
  <1>1. /\ pc[w] = "evaluating" /\ pc'[w] # "idle" /\ pc'[w] # "restoring"
        /\ UNCHANGED <<docs, latest, results, inputs>>
        /\ work[w].next \in 1 .. Len(Order) /\ new \in Entries
        /\ work'[w].run = work[w].run /\ work'[w].entries = Evaluated(w)
        /\ work'[w].backups = <<>> /\ work[w].backups = <<>>
        /\ pc'[w] = "evaluating" => work'[w].next = work[w].next + 1
    BY EvaluateEffect DEF Inv, StageInv, Stage
  <1>2. es \in Seq(Entries) /\ Len(es) \in Nat
    BY WorkType DEF Inv
  <1>3. /\ new.scope = s /\ new.old = latest[s]
        /\ Derived(work[w].run, inputs[work[w].run], new)
    BY DEF Entry, Derived
  <1>4. \A i \in 1 .. Len(es) : es[i].scope # s
    <2> SUFFICES ASSUME NEW i \in 1 .. Len(es), es[i].scope = s
                 PROVE  FALSE
      OBVIOUS
    <2>1. PICK k \in 1 .. Len(Order) : es[i].scope = Order[k] /\ k < work[w].next
      BY <1>1 DEF EntriesOf
    <2> QED
      BY <1>1, <2>1, OrderInjective
  <1>5. /\ Len(Evaluated(w)) \in Nat
        /\ \A i \in 1 .. Len(Evaluated(w)) :
             \/ i \in 1 .. Len(es) /\ Evaluated(w)[i] = es[i]
             \/ i = Len(es) + 1 /\ Evaluated(w)[i] = new
    BY <1>1, <1>2 DEF Evaluated
  <1>6. \A i \in 1 .. Len(es) :
          /\ \E k \in 1 .. Len(Order) : es[i].scope = Order[k] /\ k < work[w].next
          /\ \A j \in 1 .. Len(es) : es[j].scope = es[i].scope => i = j
          /\ Derived(work[w].run, inputs[work[w].run], es[i])
          /\ latest[es[i].scope] = es[i].old
    BY <1>1, <1>2 DEF EntriesOf, PointersOf, PointerOf
  <1> HIDE DEF es, s, new
  <1>7. EntriesOf(w)'
    <2> SUFFICES ASSUME NEW i \in 1 .. Len(Evaluated(w))
                 PROVE  /\ \E k \in 1 .. Len(Order) :
                              /\ Evaluated(w)[i].scope = Order[k]
                              /\ pc'[w] = "evaluating" => k < work'[w].next
                        /\ \A j \in 1 .. Len(Evaluated(w)) :
                              Evaluated(w)[j].scope = Evaluated(w)[i].scope => i = j
                        /\ Derived(work'[w].run, inputs'[work'[w].run], Evaluated(w)[i])
      <3>1. Len(es) < work[w].next
        BY <1>1 DEF EntriesOf, es
      <3>2. Len(Evaluated(w)) <= work[w].next
        BY <1>1, <1>2, <3>1 DEF Evaluated, es
      <3> QED
        BY <1>1, <1>5, <3>2, OrderLength DEF EntriesOf
    <2>1. \A j \in 1 .. Len(Evaluated(w)) : Evaluated(w)[j].scope = Evaluated(w)[i].scope => i = j
      BY <1>3, <1>4, <1>5, <1>6
    <2>2. Derived(work[w].run, inputs[work[w].run], Evaluated(w)[i])
      BY <1>3, <1>5, <1>6
    <2>3. \E k \in 1 .. Len(Order) :
            Evaluated(w)[i].scope = Order[k] /\ (pc'[w] = "evaluating" => k < work'[w].next)
      <3>1. CASE i \in 1 .. Len(es) /\ Evaluated(w)[i] = es[i]
        <4>1. PICK k \in 1 .. Len(Order) : es[i].scope = Order[k] /\ k < work[w].next
          BY <1>6, <3>1
        <4> QED
          BY <1>1, <3>1, <4>1
      <3>2. CASE Evaluated(w)[i] = new
        BY <1>1, <1>3, <3>2 DEF s
      <3> QED
        BY <1>5, <3>1, <3>2
    <2> QED
      BY <1>1, <2>1, <2>2, <2>3
  <1>8. PointersOf(w)'
    <2>1. results'[work'[w].run] = None
      BY <1>1 DEF PointersOf
    <2>2. \A i \in 1 .. Len(Evaluated(w)) : latest[Evaluated(w)[i].scope] = Evaluated(w)[i].old
      BY <1>3, <1>5, <1>6
    <2>3. Len(work'[w].backups) = 0
      BY <1>1
    <2>4. \A i \in 1 .. Len(Evaluated(w)) : PointerOf(w, i)'
      BY <1>1, <2>2, <2>3 DEF PointerOf
    <2> QED
      BY <1>1, <2>1, <2>4 DEF PointersOf
  <1> QED
    BY <1>7, <1>8


\* Once all scopes are evaluated, the entries stay as they are.
LEMMA EntriesStay ==
  ASSUME NEW w \in Writers, EntriesOf(w), UNCHANGED inputs, pc'[w] # "evaluating",
         work'[w].run = work[w].run, work'[w].entries = work[w].entries
  PROVE  EntriesOf(w)'
  BY DEF EntriesOf

LEMMA WriteDocumentsSerial ==
  ASSUME Inv, NEW w \in Writers, EntriesOf(w), PointersOf(w), WriteDocuments(w)
  PROVE  EntriesOf(w)' /\ PointersOf(w)'
  <1>1. /\ pc[w] = "writing" /\ pc'[w] \in {"writing", "pointing"}
        /\ UNCHANGED <<latest, results, inputs>>
        /\ work'[w].run = work[w].run /\ work'[w].entries = work[w].entries
        /\ work'[w].backups = <<>> /\ work[w].backups = <<>>
    BY WriteDocumentsEffect
  <1>2. EntriesOf(w)'
    BY <1>1, EntriesStay
  <1>3. PointersOf(w)'
    BY <1>1 DEF PointersOf, PointerOf
  <1> QED
    BY <1>2, <1>3

LEMMA MovePointerSerial ==
  ASSUME Inv, NEW w \in Writers, EntriesOf(w), PointersOf(w), MovePointer(w)
  PROVE  EntriesOf(w)' /\ PointersOf(w)'
  <1> DEFINE es == work[w].entries
             bs == work[w].backups
             i == work[w].next
  <1>1. /\ pc[w] = "pointing" /\ pc'[w] \in {"pointing", "recording"}
        /\ UNCHANGED <<docs, results, inputs>>
        /\ i \in 1 .. Len(es) /\ Len(bs) = i - 1
        /\ latest' = [latest EXCEPT ![es[i].scope] = es[i].new]
        /\ work'[w].run = work[w].run /\ work'[w].entries = es
        /\ work'[w].backups = Append(bs, latest[es[i].scope])
    BY MovePointerEffect
  <1>2. /\ bs \in Seq(Pointers) /\ latest[es[i].scope] \in Pointers /\ latest \in [Scopes -> Pointers]
        /\ Len(es) \in Nat /\ \A j \in 1 .. Len(es) : es[j].scope \in Scopes
    BY <1>1, WorkType, MovePointerEffect DEF Inv, TypeOK, Entries
  <1>3. /\ Len(work'[w].backups) = i /\ work'[w].backups[i] = latest[es[i].scope]
        /\ \A j \in 1 .. i - 1 : work'[w].backups[j] = bs[j]
    BY <1>1, <1>2, AppendProperties
  <1>4. EntriesOf(w)'
    BY <1>1, EntriesStay
  <1>5. \A j \in 1 .. Len(es) : es[j].scope = es[i].scope => i = j
    BY <1>1 DEF EntriesOf
  <1>6. \A j \in 1 .. Len(es) : PointerOf(w, j)
    BY <1>1 DEF PointersOf
  <1>7. ASSUME NEW j \in 1 .. Len(es)
        PROVE  PointerOf(w, j)'
    <2>1. CASE j = i
      <3>1. latest[es[i].scope] = es[i].old
        <4>1. ~(i <= Len(bs))
          BY <1>1, <1>2
        <4>2. PointerOf(w, i)
          BY <1>1, <1>6
        <4> QED
          BY <4>1, <4>2 DEF PointerOf
      <3> QED
        <4>1. latest'[es[i].scope] = es[i].new
          BY <1>1, <1>2
        <4>2. /\ work'[w].entries = es /\ pc'[w] \in {"pointing", "recording"}
              /\ i <= Len(work'[w].backups) /\ work'[w].backups[i] = es[i].old
          BY <1>1, <1>3, <3>1
        <4> HIDE DEF es, i
        <4> QED
          BY <2>1, <4>1, <4>2 DEF PointerOf
    <2>2. CASE j # i
      <3>1. latest'[es[j].scope] = latest[es[j].scope]
        BY <1>1, <1>2, <1>5, <2>2
      <3> QED
        <4>1. PointerOf(w, j)
          BY <1>6
        <4>2. /\ work'[w].entries = es /\ pc[w] = "pointing"
              /\ pc'[w] \in {"pointing", "recording"}
          BY <1>1
        <4>3. j <= Len(work'[w].backups) <=> j <= Len(bs)
          BY <1>1, <1>2, <1>3, <2>2
        <4>4. j <= Len(bs) => work'[w].backups[j] = bs[j]
          <5>1. Len(bs) = i - 1 /\ (j <= i - 1 => j \in 1 .. i - 1)
            BY <1>1, <1>2
          <5>2. \A k \in 1 .. i - 1 : work'[w].backups[k] = bs[k]
            BY <1>3
          <5> HIDE DEF bs, i
          <5> QED
            BY <5>1, <5>2
        <4> HIDE DEF es, bs, i
        <4> QED
          BY <3>1, <4>1, <4>2, <4>3, <4>4 DEF PointerOf, es, bs
    <2> QED
      BY <2>1, <2>2
  <1>8. PointersOf(w)'
    BY <1>1, <1>7 DEF PointersOf
  <1> QED
    BY <1>4, <1>8

LEMMA RaiseSerial ==
  ASSUME Inv, NEW w \in Writers, EntriesOf(w), PointersOf(w), Raise(w)
  PROVE  EntriesOf(w)' /\ PointersOf(w)'
  <1>1. CASE pc'[w] = "idle" /\ work'[w] = NoWork
    BY <1>1 DEF EntriesOf, PointersOf, NoWork
  <1>2. CASE /\ pc[w] \in {"pointing", "recording"} /\ pc'[w] = "restoring"
             /\ work'[w].next = 1
             /\ work'[w].run = work[w].run /\ work'[w].entries = work[w].entries
             /\ work'[w].backups = work[w].backups
    <2>1. UNCHANGED <<latest, results, inputs>>
      BY RaiseEffect
    <2>2. EntriesOf(w)'
      BY <1>2, <2>1, EntriesStay
    <2>3. PointersOf(w)'
      BY <1>2, <2>1 DEF PointersOf, PointerOf
    <2> QED
      BY <2>2, <2>3
  <1> QED
    BY <1>1, <1>2, RaiseEffect

LEMMA RestorePointerSerial ==
  ASSUME Inv, NEW w \in Writers, EntriesOf(w), PointersOf(w), RestorePointer(w)
  PROVE  EntriesOf(w)' /\ PointersOf(w)'
  <1> DEFINE es == work[w].entries
             bs == work[w].backups
             i == work[w].next
  <1>1. CASE pc'[w] = "idle" /\ work'[w] = NoWork
    BY <1>1 DEF EntriesOf, PointersOf, NoWork
  <1>2. CASE /\ pc'[w] = "restoring" /\ work'[w].next = i + 1
             /\ work'[w].run = work[w].run /\ work'[w].entries = es /\ work'[w].backups = bs
    <2>1. /\ pc[w] = "restoring" /\ UNCHANGED <<docs, results, inputs>>
          /\ i \in 1 .. Len(bs) /\ i \in 1 .. Len(es)
          /\ latest' = [latest EXCEPT ![es[i].scope] = bs[i]]
      BY RestorePointerEffect, WorkType DEF Inv
    <2>2. /\ latest \in [Scopes -> Pointers] /\ Len(es) \in Nat /\ Len(bs) \in Nat
          /\ \A j \in 1 .. Len(es) : es[j].scope \in Scopes
      BY WorkType DEF Inv, TypeOK, Entries
    <2>3. EntriesOf(w)'
      BY <1>2, <2>1, EntriesStay
    <2>4. \A j \in 1 .. Len(es) : es[j].scope = es[i].scope => i = j
      BY <2>1 DEF EntriesOf
    <2>5. \A j \in 1 .. Len(es) : PointerOf(w, j)
      BY <2>1 DEF PointersOf
    <2>6. ASSUME NEW j \in 1 .. Len(es)
          PROVE  PointerOf(w, j)'
      <3>1. CASE j = i
        <4>1. bs[i] = es[i].old
          BY <2>1, <2>5 DEF PointerOf
        <4> QED
          BY <1>2, <2>1, <2>2, <3>1, <4>1 DEF PointerOf
      <3>2. CASE j # i
        <4>1. latest'[es[j].scope] = latest[es[j].scope]
          BY <2>1, <2>2, <2>4, <3>2
        <4>2. PointerOf(w, j)
          BY <2>5
        <4>3. j < i + 1 <=> j < i
          BY <2>1, <2>2, <3>2
        <4>4. /\ work'[w].entries[j] = es[j] /\ work'[w].backups = bs
              /\ pc[w] = "restoring" /\ pc'[w] = "restoring" /\ work'[w].next = i + 1
          BY <1>2, <2>1
        <4> HIDE DEF es, bs, i
        <4> QED
          BY <4>1, <4>2, <4>3, <4>4 DEF PointerOf, es, bs, i
      <3> QED
        BY <3>1, <3>2
    <2>7. PointersOf(w)'
      BY <1>2, <2>1, <2>6 DEF PointersOf
    <2> QED
      BY <2>3, <2>7
  <1> QED
    BY <1>1, <1>2, RestorePointerEffect

LEMMA FinishSerial ==
  ASSUME Inv, NEW w \in Writers, Finish(w)
  PROVE  EntriesOf(w)' /\ PointersOf(w)'
  BY FinishEffect DEF EntriesOf, PointersOf, NoWork, Inv

LEMMA SerialInitially == Init => SerialInv
  BY DEF Init, SerialInv, EntriesOf, PointersOf, NoWork

LEMMA SerialStep ==
  ASSUME CapturesSerial
  PROVE  Inv /\ SerialInv /\ [Next]_vars => SerialInv'
  <1> SUFFICES ASSUME Inv, SerialInv, [Next]_vars PROVE SerialInv'
    OBVIOUS
  <1>1. CASE UNCHANGED vars
    <2>1. UNCHANGED <<docs, latest, results, inputs, pc, work>>
      BY <1>1 DEF vars
    <2>2. \A w \in Writers : EntriesOf(w)'
      BY <2>1 DEF SerialInv, EntriesOf
    <2>3. \A w \in Writers : PointersOf(w)'
      BY <2>1 DEF SerialInv, PointersOf, PointerOf
    <2> QED
      BY <2>2, <2>3 DEF SerialInv
  <1>2. CASE Next
    <2>1. PICK w \in Writers :
            \/ \E r \in Runs : Capture(w, r)
            \/ Evaluate(w) \/ WriteDocuments(w) \/ MovePointer(w) \/ WriteResult(w)
            \/ Raise(w) \/ RestorePointer(w) \/ RestoreRaises(w) \/ Crash(w)
      BY <1>2 DEF Next
    <2>2. EntriesOf(w) /\ PointersOf(w)
      BY DEF SerialInv
    <2>3. EntriesOf(w)' /\ PointersOf(w)'
      BY <2>1, <2>2, CaptureSerial, EvaluateSerial, WriteDocumentsSerial, MovePointerSerial,
         RaiseSerial, RestorePointerSerial, FinishSerial
      DEF WriteResult, RestoreRaises, Crash
    <2> QED
      BY <2>3 DEF SerialInv, CapturesSerial
  <1> QED
    BY <1>1, <1>2

LEMMA SerialInvariance == CapturesSerial => (Spec => []SerialInv)
  <1> SUFFICES ASSUME CapturesSerial PROVE Spec => []SerialInv
    OBVIOUS
  <1> QED
    BY Invariance, SerialInitially, SerialStep, PTL DEF Spec


\* What one entry takes out of its scope, it may remove (_snapshot).
LEMMA RemovalIsAuthorised ==
  ASSUME NEW r \in Runs, NEW input \in Inputs, NEW entry \in Entries, NEW e \in Entities,
         Derived(r, input, entry),
         Prior(entry.old)[e] # Gone, Prior(entry.new)[e] = Gone
  PROVE  entry.new.run = r /\ input.coverage[entry.scope] = "complete"
  <1>1. entry.new.run = r /\ entry.new.entities = Content(input, entry.scope, entry.old)
    BY DEF Derived
  <1>2. entry.new # None
    BY NoneAssumption DEF Entries
  <1>3. Content(input, entry.scope, entry.old)[e] = Gone
    BY <1>1, <1>2 DEF Prior
  <1> QED
    BY <1>1, <1>3 DEF Content

\* Captures that do not overlap take a known entity out of the latest state only for a
\* run whose scope is complete, or when a rollback gives back what was there before
\* (capture: only a complete site/domain scope is authoritative for removals).
THEOREM RemovalsAreAuthorised == CapturesSerial => (Spec => PartialKeepsLatest)
  <1> SUFFICES ASSUME CapturesSerial PROVE Spec => PartialKeepsLatest
    OBVIOUS
  <1> DEFINE A == \A s \in Scopes, e \in Entities :
                    Prior(latest[s])[e] # Gone /\ Prior(latest'[s])[e] = Gone =>
                    \/ \E w \in Writers : pc[w] = "restoring"
                    \/ inputs[latest'[s].run].coverage[s] = "complete"
  <1>1. ASSUME Inv, SerialInv, [Next]_vars PROVE [A]_vars
    <2> SUFFICES ASSUME Next, NEW s \in Scopes, NEW e \in Entities,
                        Prior(latest[s])[e] # Gone, Prior(latest'[s])[e] = Gone,
                        \A w \in Writers : pc[w] # "restoring"
                 PROVE  inputs[latest'[s].run].coverage[s] = "complete"
      BY <1>1
    <2>1. latest' # latest
      OBVIOUS
    <2>2. PICK w \in Writers : MovePointer(w)
      BY <2>1 DEF Next, Capture, Evaluate, WriteDocuments, WriteResult, Raise,
                  RestorePointer, RestoreRaises, Crash
    <2> DEFINE i == work[w].next
               entry == work[w].entries[i]
    <2>3. /\ pc[w] = "pointing" /\ i \in 1 .. Len(work[w].entries) /\ entry \in Entries
          /\ Len(work[w].backups) = i - 1
          /\ latest' = [latest EXCEPT ![entry.scope] = entry.new]
      BY <1>1, <2>2, MovePointerEffect
    <2>4. work[w].run \in Runs /\ inputs[work[w].run] \in Inputs
      BY <1>1, <2>3 DEF Inv, StageInv, Stage
    <2>5. Derived(work[w].run, inputs[work[w].run], entry)
      BY <1>1, <2>3 DEF SerialInv, EntriesOf
    <2>6. latest[entry.scope] = entry.old
      <3>1. PointerOf(w, i)
        BY <1>1, <2>3 DEF SerialInv, PointersOf
      <3>2. ~(i <= Len(work[w].backups))
        BY <1>1, <2>3, WorkType DEF Inv
      <3> QED
        BY <3>1, <3>2 DEF PointerOf
    <2> HIDE DEF entry
    <2>7. s = entry.scope /\ latest'[s] = entry.new
      BY <1>1, <2>3 DEF Inv, TypeOK
    <2> QED
      BY <2>3, <2>4, <2>5, <2>6, <2>7, RemovalIsAuthorised
  <1>2. Spec => [][A]_vars
    BY <1>1, Invariance, SerialInvariance, PTL DEF Spec
  <1> QED
    BY <1>2 DEF PartialKeepsLatest


-----------------------------------------------------------------------------
(* Refinement.                                                             *)

\* Until its capture returns, a scope that a writer has an entry for is seen as it was
\* before the entry, any other as its pointer says.
SettledAsBefore ==
    \A w \in Writers :
        /\ work[w].backups = <<>> => \A s \in Scopes : Settled(s) = latest[s]
        /\ pc[w] # "idle" => \A i \in 1 .. Len(work[w].entries) :
               Settled(work[w].entries[i].scope) = work[w].entries[i].old
        /\ \A s \in Scopes :
             (\A i \in 1 .. Len(work[w].entries) : work[w].entries[i].scope # s)
             => Settled(s) = latest[s]

LEMMA SettledLemma == CapturesSerial /\ Inv /\ SerialInv => SettledAsBefore
  <1> SUFFICES ASSUME CapturesSerial, Inv, SerialInv, NEW w \in Writers
               PROVE  /\ work[w].backups = <<>> => \A s \in Scopes : Settled(s) = latest[s]
                      /\ pc[w] # "idle" => \A i \in 1 .. Len(work[w].entries) :
                            Settled(work[w].entries[i].scope) = work[w].entries[i].old
                      /\ \A s \in Scopes :
                           (\A i \in 1 .. Len(work[w].entries) : work[w].entries[i].scope # s)
                           => Settled(s) = latest[s]
    BY DEF SettledAsBefore
  <1> DEFINE es == work[w].entries
             bs == work[w].backups
  <1>1. /\ Len(es) \in Nat /\ Len(bs) \in Nat /\ DOMAIN bs = 1 .. Len(bs)
        /\ \A i \in 1 .. Len(es) : es[i].scope \in Scopes
    BY WorkType, LenProperties DEF Inv, Entries
  <1>2. /\ Len(es) <= Len(Order)
        /\ \A i, j \in 1 .. Len(es) : es[j].scope = es[i].scope => i = j
    BY DEF SerialInv, EntriesOf
  <1>3. Len(bs) <= Len(es)
    <2>1. Stage(w) /\ pc[w] \in PcStates /\ work[w].next \in Nat
      BY WorkType DEF Inv, StageInv
    <2>2. Len(<<>>) = 0
      OBVIOUS
    <2> QED
      BY <1>1, <2>1, <2>2 DEF Stage, PcStates, NoWork
  <1>4. \A s \in Scopes : \A m \in Moves(s) :
          m = <<w, m[2]>> /\ m[2] \in 1 .. Len(bs) /\ es[m[2]].scope = s
    BY <1>1 DEF Moves, CapturesSerial
  <1>5. \A i \in 1 .. Len(bs) : <<w, i>> \in Moves(es[i].scope)
    BY <1>1, <1>2, <1>3, OrderLength DEF Moves
  <1>6. \A i \in 1 .. Len(bs) : Settled(es[i].scope) = bs[i]
    <2> SUFFICES ASSUME NEW i \in 1 .. Len(bs)
                 PROVE  Settled(es[i].scope) = bs[i]
      OBVIOUS
    <2>1. Moves(es[i].scope) # {}
      BY <1>5
    <2>2. PICK m \in Moves(es[i].scope) : Settled(es[i].scope) = work[m[1]].backups[m[2]]
      BY <2>1 DEF Settled
    <2>3. m[1] = w /\ m[2] = i
      BY <1>1, <1>2, <1>3, <1>4, <2>2
    <2> QED
      BY <2>2, <2>3
  <1>7. \A s \in Scopes : (\A i \in 1 .. Len(bs) : es[i].scope # s) => Settled(s) = latest[s]
    BY <1>4 DEF Settled
  <1>8. bs = <<>> => \A s \in Scopes : Settled(s) = latest[s]
    BY <1>7
  <1>9. ASSUME pc[w] # "idle", NEW i \in 1 .. Len(es)
        PROVE  Settled(es[i].scope) = es[i].old
    <2>1. PointerOf(w, i)
      BY <1>9 DEF SerialInv, PointersOf
    <2>2. CASE i <= Len(bs)
      BY <1>1, <1>6, <2>1, <2>2 DEF PointerOf
    <2>3. CASE ~(i <= Len(bs))
      <3>1. \A j \in 1 .. Len(bs) : es[j].scope # es[i].scope
        BY <1>1, <1>2, <1>3, <2>3
      <3> QED
        BY <1>1, <1>7, <2>1, <2>3, <3>1 DEF PointerOf
    <2> QED
      BY <2>2, <2>3
  <1> QED
    BY <1>1, <1>3, <1>7, <1>8, <1>9

\* What a reader sees of a scope.
Seen == [s \in Scopes |-> ContentOf(Settled(s))]

Told == [r \in Runs |-> IF results[r] = None THEN None
                        ELSE [s \in Scopes |-> Changes(results[r], s)]]

\* A step that writes no result shows a reader nothing.
LEMMA CaptureUnseen ==
  ASSUME CapturesSerial, Inv, SerialInv, SettledAsBefore, SettledAsBefore', NEW w \in Writers,
         \/ \E r \in Runs : Capture(w, r)
         \/ Evaluate(w) \/ WriteDocuments(w) \/ MovePointer(w) \/ Raise(w) \/ RestorePointer(w)
  PROVE  Seen' = Seen /\ Told' = Told
  <1> DEFINE es == work[w].entries
             bs == work[w].backups
             i == work[w].next
  <1>1. results' = results
    BY DEF Capture, Evaluate, WriteDocuments, MovePointer, Raise, RestorePointer
  <1>2. Told' = Told
    BY <1>1 DEF Told
  <1>3. ASSUME bs = <<>>, work'[w].backups = <<>>, latest' = latest
        PROVE  \A s \in Scopes : Settled(s)' = Settled(s)
    BY <1>3 DEF SettledAsBefore
  <1>4. ASSUME work'[w].entries = es, pc[w] # "idle", pc'[w] # "idle",
               \A s \in Scopes : (\A j \in 1 .. Len(es) : es[j].scope # s) => latest'[s] = latest[s]
        PROVE  \A s \in Scopes : Settled(s)' = Settled(s)
    <2> SUFFICES ASSUME NEW s \in Scopes
                 PROVE  Settled(s)' = Settled(s)
      OBVIOUS
    <2>1. CASE \A j \in 1 .. Len(es) : es[j].scope # s
      BY <1>4, <2>1 DEF SettledAsBefore
    <2>2. ASSUME NEW j \in 1 .. Len(es), es[j].scope = s
          PROVE  Settled(s)' = Settled(s)
      <3>1. Settled(s) = es[j].old
        BY <1>4, <2>2 DEF SettledAsBefore
      <3>2. Settled(s)' = es[j].old
        BY <1>4, <2>2 DEF SettledAsBefore
      <3> QED
        BY <3>1, <3>2
    <2> QED
      BY <2>1, <2>2
  <1>5. \A s \in Scopes : Settled(s)' = Settled(s)
    <2>1. CASE \E r \in Runs : Capture(w, r)
      <3>1. PICK r \in Runs : Capture(w, r)
        BY <2>1
      <3>2. bs = <<>> /\ work'[w].backups = <<>> /\ latest' = latest
        <4>1. latest' = latest /\ work[w] = NoWork
          BY <3>1, CaptureEffect
        <4>2. \/ work'[w] = NoWork
              \/ work'[w] = [run |-> r, next |-> 1, entries |-> <<>>, backups |-> <<>>]
          BY <3>1, CaptureEffect
        <4>3. work'[w].backups = <<>>
          BY <4>2 DEF NoWork
        <4> QED
          BY <4>1, <4>3 DEF NoWork
      <3> QED
        BY <1>3, <3>2
    <2>2. CASE Evaluate(w)
      <3>1. bs = <<>> /\ work'[w].backups = <<>> /\ latest' = latest
        BY <2>2, EvaluateEffect DEF Inv, StageInv, Stage
      <3> QED
        BY <1>3, <3>1
    <2>3. CASE WriteDocuments(w)
      <3>1. bs = <<>> /\ work'[w].backups = <<>> /\ latest' = latest
        BY <2>3, WriteDocumentsEffect
      <3> QED
        BY <1>3, <3>1
    <2>4. CASE MovePointer(w)
      <3>1. /\ work'[w].entries = es /\ pc[w] # "idle" /\ pc'[w] # "idle"
            /\ i \in 1 .. Len(es) /\ latest' = [latest EXCEPT ![es[i].scope] = es[i].new]
        BY <2>4, MovePointerEffect
      <3>2. \A s \in Scopes : (\A j \in 1 .. Len(es) : es[j].scope # s) => latest'[s] = latest[s]
        BY <3>1 DEF Inv, TypeOK
      <3> QED
        BY <1>4, <3>1, <3>2
    <2>5. CASE Raise(w)
      <3>1. latest' = latest
        BY <2>5, RaiseEffect
      <3>2. CASE pc'[w] = "idle" /\ work'[w] = NoWork /\ bs = <<>>
        <4>1. work'[w].backups = <<>>
          BY <3>2 DEF NoWork
        <4> QED
          BY <1>3, <3>1, <3>2, <4>1
      <3>3. CASE pc[w] # "idle" /\ pc'[w] = "restoring" /\ work'[w].entries = es
        BY <1>4, <3>1, <3>3
      <3> QED
        BY <2>5, <3>2, <3>3, RaiseEffect
    <2>6. CASE RestorePointer(w)
      <3>1. /\ pc[w] = "restoring" /\ i \in 1 .. Len(bs) /\ Len(bs) <= Len(es)
            /\ latest' = [latest EXCEPT ![es[i].scope] = bs[i]]
        BY <2>6, RestorePointerEffect
      <3>2. Len(bs) \in Nat /\ Len(es) \in Nat
        BY WorkType DEF Inv
      <3>3. \A s \in Scopes : (\A j \in 1 .. Len(es) : es[j].scope # s) => latest'[s] = latest[s]
        BY <3>1, <3>2 DEF Inv, TypeOK
      <3>4. CASE pc'[w] = "restoring" /\ work'[w].entries = es
        BY <1>4, <3>1, <3>3, <3>4
      <3>5. CASE i = Len(bs) /\ pc'[w] = "idle" /\ work'[w] = NoWork
        <4>1. \A s \in Scopes : Settled(s)' = latest'[s]
          BY <3>5 DEF SettledAsBefore, NoWork
        <4>2. ASSUME NEW s \in Scopes, \A j \in 1 .. Len(es) : es[j].scope # s
              PROVE  Settled(s)' = Settled(s)
          BY <3>3, <4>1, <4>2 DEF SettledAsBefore
        <4>3. ASSUME NEW j \in 1 .. Len(es), es[j].scope \in Scopes
              PROVE  latest'[es[j].scope] = es[j].old
          <5>1. PointerOf(w, j) /\ PointerOf(w, i) /\ (es[j].scope = es[i].scope => i = j)
            <6>1. i \in 1 .. Len(es) /\ pc[w] # "idle"
              BY <3>1, <3>2
            <6>2. PointersOf(w) /\ EntriesOf(w)
              BY DEF SerialInv
            <6>3. PointerOf(w, j) /\ PointerOf(w, i)
              BY <6>1, <6>2 DEF PointersOf
            <6>4. es[j].scope = es[i].scope => i = j
              BY <6>1, <6>2 DEF EntriesOf
            <6> QED
              BY <6>3, <6>4
          <5>2. CASE j = i
            BY <3>1, <4>3, <5>1, <5>2 DEF PointerOf, Inv, TypeOK
          <5>3. CASE j # i
            <6>1. latest'[es[j].scope] = latest[es[j].scope]
              BY <3>1, <4>3, <5>1, <5>3 DEF Inv, TypeOK
            <6> QED
              BY <3>1, <3>2, <3>5, <5>1, <5>3, <6>1 DEF PointerOf
          <5> QED
            BY <5>2, <5>3
        <4>4. ASSUME NEW s \in Scopes, NEW j \in 1 .. Len(es), es[j].scope = s
              PROVE  Settled(s)' = Settled(s)
          <5>1. Settled(s) = es[j].old
            BY <3>1, <4>4 DEF SettledAsBefore
          <5> QED
            BY <4>1, <4>3, <4>4, <5>1
        <4> QED
          BY <4>2, <4>4
      <3> QED
        BY <2>6, <3>4, <3>5, RestorePointerEffect
    <2> QED
      BY <2>1, <2>2, <2>3, <2>4, <2>5, <2>6
  <1>6. Seen' = Seen
    BY <1>5 DEF Seen
  <1> QED
    BY <1>2, <1>6


\* The step that writes the result is the one in which the run is recorded.
LEMMA ResultRecords ==
  ASSUME CapturesSerial, Inv, SerialInv, SettledAsBefore, Inv', SettledAsBefore',
         NEW w \in Writers, WriteResult(w)
  PROVE  Ledger!Record(work[w].run)
  <1> DEFINE r == work[w].run
             es == work[w].entries
             told == {s \in Scopes : \E i \in 1 .. Len(es) : es[i].scope = s}
  <1>1. /\ pc[w] = "recording" /\ results' = [results EXCEPT ![r] = es]
        /\ Finish(w) /\ UNCHANGED latest
    BY DEF WriteResult
  <1>2. /\ r \in Runs /\ results[r] = None
        /\ Len(es) = Len(work[w].backups) /\ es \in Seq(Entries) /\ Len(es) \in Nat
        /\ DOMAIN es = 1 .. Len(es)
        /\ \A i \in 1 .. Len(es) : es[i] \in Entries
    BY <1>1, WorkType, LenProperties DEF Inv, StageInv, Stage, SerialInv, PointersOf
  <1>3. \A i \in 1 .. Len(es) :
          /\ latest[es[i].scope] = es[i].new
          /\ \A j \in 1 .. Len(es) : es[j].scope = es[i].scope => i = j
    <2>1. PointersOf(w) /\ EntriesOf(w)
      BY DEF SerialInv
    <2>2. \A i \in 1 .. Len(es) : PointerOf(w, i)
      BY <1>1, <2>1 DEF PointersOf
    <2>3. \A i \in 1 .. Len(es) : latest[es[i].scope] = es[i].new
      BY <1>1, <1>2, <2>2 DEF PointerOf
    <2> QED
      BY <2>1, <2>3 DEF EntriesOf
  <1>4. \A s \in Scopes : Settled(s)' = latest[s]
    <2>1. work'[w] = NoWork
      BY <1>1, FinishEffect DEF Inv
    <2>2. work'[w].backups = <<>>
      BY <2>1 DEF NoWork
    <2> QED
      BY <1>1, <2>2 DEF SettledAsBefore
  <1>5. \A s \in Scopes : Seen[s] = ContentOf(Settled(s)) /\ Seen'[s] = ContentOf(latest[s])
    BY <1>4 DEF Seen
  <1>6. \A s \in Scopes \ told : Seen'[s] = Seen[s]
    <2>1. \A s \in Scopes \ told : Settled(s) = latest[s]
      BY DEF SettledAsBefore
    <2> QED
      BY <1>5, <2>1
  <1>7. Seen' \in [Scopes -> Contents \cup {None}]
    <2>1. \A s \in Scopes : ContentOf(latest[s]) \in Contents \cup {None}
      BY DEF Inv, TypeOK, Pointers, Snapshots, ContentOf
    <2>2. Seen' = [s \in Scopes |-> ContentOf(latest[s])]
      BY <1>4 DEF Seen
    <2> QED
      BY <2>1, <2>2
  <1>8. \A s \in Scopes : Changes(es, s) = IF s \in told THEN <<Seen[s], Seen'[s]>> ELSE None
    <2> SUFFICES ASSUME NEW s \in Scopes
                 PROVE  Changes(es, s) = IF s \in told THEN <<Seen[s], Seen'[s]>> ELSE None
      OBVIOUS
    <2> DEFINE Of == {i \in DOMAIN es : es[i].scope = s}
    <2>1. CASE s \notin told
      <3>1. Of = {}
        BY <1>2, <2>1
      <3> QED
        BY <2>1, <3>1 DEF Changes
    <2>2. CASE s \in told
      <3>1. Of # {}
        BY <1>2, <2>2
      <3>2. PICK i \in Of : Changes(es, s) = <<ContentOf(es[i].old), ContentOf(es[i].new)>>
        <4>1. (CHOOSE i \in Of : TRUE) \in Of
          BY <3>1
        <4> QED
          BY <3>1, <4>1 DEF Changes
      <3>3. i \in 1 .. Len(es) /\ es[i].scope = s
        BY <1>2, <3>2
      <3>4. Settled(s) = es[i].old
        BY <1>1, <3>3 DEF SettledAsBefore
      <3>5. latest[s] = es[i].new
        BY <1>3, <3>3
      <3> QED
        BY <1>5, <2>2, <3>2, <3>4, <3>5
    <2> QED
      BY <2>1, <2>2
  <1>9. Told' = [Told EXCEPT ![r] = [s \in Scopes |-> IF s \in told THEN <<Seen[s], Seen'[s]>>
                                                     ELSE None]]
    <2>1. es # None
      BY <1>2, NoneAssumption
    <2>2. Told' = [q \in Runs |-> IF q = r THEN [s \in Scopes |-> Changes(es, s)]
                                  ELSE Told[q]]
      BY <1>1, <1>2, <2>1 DEF Told, Inv, TypeOK
    <2>3. [s \in Scopes |-> Changes(es, s)] =
            [s \in Scopes |-> IF s \in told THEN <<Seen[s], Seen'[s]>> ELSE None]
      BY <1>8
    <2> QED
      BY <2>2, <2>3 DEF Told
  <1>10. Told[r] = None
    BY <1>2 DEF Told
  <1>11. told \in SUBSET Scopes
    OBVIOUS
  <1> HIDE DEF told, r, es
  <1>12. \E new \in [Scopes -> Contents \cup {None}], spoken \in SUBSET Scopes :
           /\ \A s \in Scopes \ spoken : new[s] = Seen[s]
           /\ Seen' = new
           /\ Told' = [Told EXCEPT ![r] =
                [s \in Scopes |-> IF s \in spoken THEN <<Seen[s], new[s]>> ELSE None]]
    BY <1>6, <1>7, <1>9, <1>11
  <1> USE DEF r
  <1> QED
    BY <1>10, <1>12 DEF Ledger!Record, Seen, Told

\* A capture that ends half way leaves each scope as it was, or as the capture had
\* made it if its pointer was moved and not restored.
LEMMA BrokenIsTorn ==
  ASSUME Inv, SerialInv, SettledAsBefore, SettledAsBefore', NEW w \in Writers,
         RestoreRaises(w) \/ Crash(w)
  PROVE  Torn(w)
  <1> DEFINE es == work[w].entries
             bs == work[w].backups
  <1>1. UNCHANGED <<latest, results>> /\ Finish(w) /\ pc[w] # "idle"
    BY DEF RestoreRaises, Crash
  <1>2. \A s \in Scopes : Settled(s)' = latest[s]
    <2>1. work'[w].backups = <<>>
      BY <1>1, FinishEffect DEF Inv, NoWork
    <2> QED
      BY <1>1, <2>1 DEF SettledAsBefore
  <1>3. DOMAIN bs = 1 .. Len(bs)
    BY WorkType, LenProperties DEF Inv
  <1>4. ASSUME NEW s \in Scopes
        PROVE  \/ Settled(s)' = Settled(s)
               \/ \E i \in DOMAIN bs : es[i].scope = s /\ Settled(s)' = es[i].new
    <2>1. CASE \A i \in 1 .. Len(es) : es[i].scope # s
      BY <1>2, <2>1 DEF SettledAsBefore
    <2>2. ASSUME NEW i \in 1 .. Len(es), es[i].scope = s
          PROVE  \/ Settled(s)' = Settled(s)
                 \/ \E j \in DOMAIN bs : es[j].scope = s /\ Settled(s)' = es[j].new
      <3>1. Settled(s) = es[i].old
        BY <1>1, <2>2 DEF SettledAsBefore
      <3>2. PointerOf(w, i)
        BY <1>1, <2>2 DEF SerialInv, PointersOf
      <3>3. CASE latest[s] = es[i].old
        BY <1>2, <3>1, <3>3
      <3>4. CASE latest[s] # es[i].old
        <4>1. i \in 1 .. Len(bs)
          BY <2>2, <3>2, <3>4, WorkType DEF PointerOf, Inv
        <4>2. pc[w] \in {"pointing", "recording"} => latest[s] = es[i].new
          BY <2>2, <3>2, <4>1 DEF PointerOf
        <4>3. CASE pc[w] \in {"pointing", "recording"}
          BY <1>2, <1>3, <2>2, <4>1, <4>2, <4>3
        <4>4. CASE pc[w] = "restoring"
          <5>1. latest[s] = es[i].new
            BY <2>2, <3>2, <3>4, <4>1, <4>4 DEF PointerOf
          <5> QED
            BY <1>2, <1>3, <2>2, <4>1, <5>1
        <4>5. CASE pc[w] \in {"evaluating", "writing"}
          <5>1. Len(bs) = 0
            BY <4>5 DEF Inv, StageInv, Stage
          <5> QED
            BY <4>1, <5>1
        <4> QED
          BY <1>1, <4>3, <4>4, <4>5, WorkType DEF Inv, PcStates
      <3> QED
        BY <3>3, <3>4
    <2> QED
      BY <2>1, <2>2
  <1> QED
    BY <1>1, <1>4 DEF Torn

\* Captures that do not overlap implement the ledger: the pointers of all scopes and the
\* result change in one step, a capture that is rolled back leaves no trace, and a result
\* is written once and tells the way from the old content to the new.  A capture that
\* dies, or whose rollback raises, leaves each scope with its old or its new snapshot and
\* no result, and those after it keep to the ledger again.
THEOREM CapturesImplementLedger == CapturesSerial => (Spec => LedgerKept)
  <1> SUFFICES ASSUME CapturesSerial PROVE Spec => LedgerKept
    OBVIOUS
  <1>1. Init => Ledger!Init
    <2> SUFFICES ASSUME Init PROVE Ledger!Init
      OBVIOUS
    <2>1. \A s \in Scopes : Moves(s) = {}
      BY DEF Init, Moves, NoWork
    <2>2. \A s \in Scopes : ContentOf(Settled(s)) = None
      BY <2>1 DEF Init, Settled, ContentOf
    <2> QED
      BY <2>2 DEF Init, Ledger!Init
  <1>2. CapturesSerial /\ Inv /\ SerialInv => SettledAsBefore
    BY SettledLemma
  <1>3. (CapturesSerial /\ Inv /\ SerialInv => SettledAsBefore)'
    BY SettledLemma, PTL
  <1>4. ASSUME Inv, SerialInv, Inv', SerialInv', [Next]_vars
        PROVE  [(\E w \in Writers : Torn(w)) \/ Ledger!Next]_<<latest, results, work>>
    <2>1. SettledAsBefore /\ SettledAsBefore'
      BY <1>2, <1>3, <1>4
    <2> SUFFICES ASSUME Next
                 PROVE  (\E w \in Writers : Torn(w)) \/ Ledger!Next
      BY <1>4 DEF vars
    <2>2. PICK w \in Writers :
            \/ \E r \in Runs : Capture(w, r)
            \/ Evaluate(w) \/ WriteDocuments(w) \/ MovePointer(w) \/ WriteResult(w)
            \/ Raise(w) \/ RestorePointer(w) \/ RestoreRaises(w) \/ Crash(w)
      BY DEF Next
    <2>3. CASE RestoreRaises(w) \/ Crash(w)
      BY <1>4, <2>1, <2>3, BrokenIsTorn
    <2>4. CASE WriteResult(w)
      <3>1. work[w].run \in Runs
        BY <1>4, <2>4 DEF WriteResult, Inv, StageInv, Stage
      <3>2. Ledger!Record(work[w].run)
        BY <1>4, <2>1, <2>4, ResultRecords
      <3> QED
        BY <3>1, <3>2 DEF Ledger!Next, Ledger!Record
    <2>5. CASE \/ \E r \in Runs : Capture(w, r)
               \/ Evaluate(w) \/ WriteDocuments(w) \/ MovePointer(w) \/ Raise(w)
               \/ RestorePointer(w)
      <3>1. Seen' = Seen /\ Told' = Told
        BY <1>4, <2>1, <2>5, CaptureUnseen
      <3> QED
        BY <3>1 DEF Seen, Told, Ledger!Next
    <2> QED
      BY <2>2, <2>3, <2>4, <2>5
  <1>5. Spec => []Inv /\ []SerialInv
    BY Invariance, SerialInvariance
  <1> QED
    BY <1>1, <1>4, <1>5, PTL DEF Spec, LedgerKept

==============================================================================
