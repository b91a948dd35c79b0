------------------------------- MODULE Telemetry -------------------------------
(***************************************************************************)
(* From the points of a collection to InfluxDB: the collector normalises   *)
(* and encodes them (telemetry/contracts.py, InfluxWriter of               *)
(* collectors/writer.py), posts them batch by batch with retries, stores   *)
(* its record in the inventory and returns; the scheduler then writes a    *)
(* point about how it ended (telemetry/health.py) with a writer of its     *)
(* own.  Answers of the database get lost, are errors, or refuse a batch   *)
(* of which the database may have taken a part; the attempt may be         *)
(* cancelled, which does not end the thread that posts; the process may    *)
(* be killed.                                                              *)
(*                                                                         *)
(* Abstraction: a point is told apart by what becomes of it.  The points   *)
(* of one collection carry its time, so those of two never meet in the     *)
(* database, and the database holds those of the present one.              *)
(***************************************************************************)
EXTENDS FiniteSets, Naturals

CONSTANTS
    BatchSize,   \* lines of a post
    Retries,     \* posts of a batch after the first
    MaxPoints    \* bound: points of a collection

ASSUME BatchAssumption == BatchSize \in Nat \ {0} /\ Retries \in Nat
ASSUME PointsAssumption == MaxPoints \in Nat

\* What becomes of a point: a line; nothing, since it has no field with a value, or
\* since it is the health point of the collector itself; an exception, since it breaks
\* the contract or holds a number that has no encoding.
PointKinds == {"line", "void", "own health", "misfit", "odd number"}

VARIABLES
    collection,  \* the points, and whether the database is configured
    posting,     \* what is posted, the batch and the attempt
    cancelled,   \* the coroutine that waits for the posts is gone
    database     \* in the database: lines by number, and reports of the collection

telemetryVars == <<collection, posting, cancelled, database>>

Idle == [what |-> "nothing", batch |-> 1, attempt |-> 0, report |-> {}]
NoCollection == [points |-> <<>>, configured |-> FALSE]
Nothing == [lines |-> {}, reports |-> {}]

-----------------------------------------------------------------------------
\* InfluxWriter

\* The collectors' writer leaves health to the framework.
HasLine(point) == point \notin {"own health", "void"}

LineCount(points) == Cardinality({n \in DOMAIN points : HasLine(points[n])})

Lines(points) == 1 .. LineCount(points)

\* line_protocol raises; so does normalize_point, before it.
Encodes(points) == \A n \in DOMAIN points : points[n] # "odd number"

Conforming(points) == \A n \in DOMAIN points : points[n] # "misfit"

\* Nothing is posted unless all of it can be.
Postable(c) == c.configured /\ Conforming(c.points) /\ Encodes(c.points)

Batches(points) == (LineCount(points) + BatchSize - 1) \div BatchSize

Batch(points, n) ==
    {k \in Lines(points) : k > (n - 1) * BatchSize /\ k <= n * BatchSize}

\* Answers after which the batch is posted again: the server's trouble, or no answer.
Retried(answer) == answer \in {"busy", "lost"}

\* What the database has of a batch after an answer.
Taken(answer, batch) ==
    IF answer = "accepted" THEN {batch} ELSE SUBSET batch

\* Mutant: the last attempt gives up the batch, not the write.
GivesUpBlind(answer, attempt) == answer = "refused"

GivesUp(answer, attempt) == answer = "refused" \/ attempt = Retries

-----------------------------------------------------------------------------
\* The collection

\* The outcome as the scheduler reports it: what a collection that fails has written
\* is not counted.
Report(success, written) ==
    [success |-> success, written |-> IF success THEN written ELSE 0]

\* _record_health; no report follows a cancellation.
Ends(success, written) ==
    posting' = IF cancelled THEN Idle
               ELSE [Idle EXCEPT !.what = "report", !.report = {Report(success, written)}]

Collect ==
    /\ posting.what = "nothing" /\ collection = NoCollection
    /\ \E points \in UNION {[1 .. n -> PointKinds] : n \in 0 .. MaxPoints},
          configured \in BOOLEAN :
             LET c == [points |-> points, configured |-> configured]
             IN /\ collection' = c
                /\ posting' = IF Postable(c) THEN [Idle EXCEPT !.what = "points"]
                              ELSE [Idle EXCEPT !.what = "report",
                                                !.report = {Report(FALSE, 0)}]
    /\ UNCHANGED <<cancelled, database>>

\* Until the next interval.
Wait ==
    /\ posting.what = "nothing" /\ collection # NoCollection
    /\ collection' = NoCollection /\ cancelled' = FALSE /\ database' = Nothing
    /\ UNCHANGED posting

\* The write returns; the collector has still to store its record, which may fail.
Written ==
    /\ posting.what = "points"
    /\ posting.batch > Batches(collection.points)
    /\ \E success \in BOOLEAN : Ends(success, LineCount(collection.points))
    /\ UNCHANGED <<collection, cancelled, database>>

PostBatch ==
    /\ posting.what = "points"
    /\ posting.batch <= Batches(collection.points)
    /\ \E answer \in {"accepted", "busy", "lost", "refused"} :
          /\ \E lines \in Taken(answer, Batch(collection.points, posting.batch)) :
                database' = [database EXCEPT !.lines = @ \cup lines]
          /\ IF answer # "accepted" /\ GivesUp(answer, posting.attempt) THEN Ends(FALSE, 0)
             ELSE posting' = IF Retried(answer) /\ posting.attempt < Retries
                             THEN [posting EXCEPT !.attempt = @ + 1]
                             ELSE [posting EXCEPT !.batch = @ + 1, !.attempt = 0]
    /\ UNCHANGED <<collection, cancelled>>

\* The report is a write of one line; an exception is only logged.
PostReport ==
    /\ posting.what = "report"
    /\ \E answer \in IF collection.configured THEN {"accepted", "busy", "lost", "refused"}
                     ELSE {"refused"} :
          /\ \E reports \in IF collection.configured THEN Taken(answer, posting.report)
                            ELSE {{}} :
                database' = [database EXCEPT !.reports = @ \cup reports]
          /\ posting' = IF Retried(answer) /\ posting.attempt < Retries
                        THEN [posting EXCEPT !.attempt = @ + 1] ELSE Idle
    /\ UNCHANGED <<collection, cancelled>>

\* The attempt is cancelled at an await: a thread that posts goes on.
Cancel ==
    /\ posting.what # "nothing" /\ ~cancelled
    /\ cancelled' = TRUE
    /\ UNCHANGED <<collection, posting, database>>

Killed ==
    /\ posting.what # "nothing"
    /\ posting' = Idle
    /\ UNCHANGED <<collection, cancelled, database>>

TelemetryInit ==
    /\ collection = NoCollection
    /\ posting = Idle /\ cancelled = FALSE /\ database = Nothing

TelemetryNext == Collect \/ Wait \/ PostBatch \/ Written \/ PostReport \/ Cancel \/ Killed

TelemetrySpec == TelemetryInit /\ [][TelemetryNext]_telemetryVars

-----------------------------------------------------------------------------

\* What the database is told of a collection is true of what it holds: a report of
\* success counts every line and all of them are there, no report counts more than is
\* there, no batch begins before the one before it is complete, and of a collection
\* that cannot be posted there is nothing (InfluxWriter.write, CollectorHealth).
ReportsHold ==
    LET points == collection.points
    IN /\ \A r \in database.reports :
             /\ r.success => database.lines = Lines(points)
                             /\ r.written = Cardinality(database.lines)
             /\ r.written <= Cardinality(database.lines)
       /\ \A n \in 2 .. Batches(points) :
             Batch(points, n) \cap database.lines # {} =>
                 Batch(points, n - 1) \subseteq database.lines
       /\ ~Postable(collection) => database.lines = {}

===============================================================================
