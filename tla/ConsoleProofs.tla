----------------------------- MODULE ConsoleProofs -----------------------------
(***************************************************************************)
(* Theorems about Telemetry, for any size of a batch, any number of        *)
(* retries and any points; about CollectionConsole, for any domains the    *)
(* connectors observe and any number of changes of the files; and about    *)
(* Doctor, for any number of aspects that are wrong at once.               *)
(***************************************************************************)
EXTENDS Telemetry, CollectionConsole, Doctor, FiniteSetTheorems, TLAPS

Points == UNION {[1 .. n -> PointKinds] : n \in 0 .. MaxPoints}
Reports == [success : BOOLEAN, written : Nat]
Collections == [points : Points, configured : BOOLEAN]
Postings == [what : {"nothing", "points", "report"}, batch : Nat \ {0}, attempt : 0 .. Retries,
             report : SUBSET Reports]
Databases == [lines : SUBSET (Nat \ {0}), reports : SUBSET Reports]

\* The lines of the batches before the n-th.
Before(points, n) == {k \in Lines(points) : k <= (n - 1) * BatchSize}

\* All of the batches before the n-th and perhaps a part of it are in the database.
Filled(points, lines, n) ==
    Before(points, n) \subseteq lines /\ lines \subseteq Before(points, n + 1)

\* What a report says of the collection.
Truthful(r, points, lines) ==
    IF r.success THEN lines = Lines(points) /\ r.written = LineCount(points)
    ELSE r.written = 0

TypeOK ==
    /\ collection \in Collections
    /\ posting \in Postings
    /\ cancelled \in BOOLEAN
    /\ database \in Databases

\* The database has been filled in order, as far as the posts have got; the reports that
\* it has, and the one on its way, are true; nothing is known of no collection.
TelemetryInv ==
    /\ TypeOK
    /\ \E n \in Nat \ {0} : Filled(collection.points, database.lines, n)
    /\ posting.what = "nothing" => posting.report = {}
    /\ posting.what = "points" =>
         /\ Postable(collection)
         /\ database.reports = {} /\ posting.report = {}
         /\ Filled(collection.points, database.lines, posting.batch)
    /\ \A r \in posting.report \cup database.reports :
         Truthful(r, collection.points, database.lines)
    /\ database.lines # {} => Postable(collection)
    /\ collection = NoCollection => database = Nothing

-----------------------------------------------------------------------------
\* Lines and batches

\* n whole batches are no longer than m, if n <= m.
LEMMA Multiples ==
  ASSUME NEW n \in Nat, NEW m \in Nat, n <= m
  PROVE  n * BatchSize \in Nat /\ n * BatchSize <= m * BatchSize
  BY BatchAssumption

\* A collection has finitely many lines.
LEMMA LineNumbers ==
  ASSUME NEW points \in Points
  PROVE  /\ LineCount(points) \in Nat
         /\ IsFiniteSet(Lines(points)) /\ Cardinality(Lines(points)) = LineCount(points)
  <1> DEFINE lined == {n \in DOMAIN points : HasLine(points[n])}
  <1>1. PICK n \in 0 .. MaxPoints : points \in [1 .. n -> PointKinds]
    BY DEF Points
  <1>2. n \in Nat /\ DOMAIN points = 1 .. n
    BY <1>1, PointsAssumption
  <1>3. IsFiniteSet(DOMAIN points)
    BY <1>2, FS_Interval
  <1>4. lined \in SUBSET DOMAIN points
    OBVIOUS
  <1> HIDE DEF lined
  <1>5. IsFiniteSet(lined) /\ Cardinality(lined) \in Nat
    BY <1>3, <1>4, FS_Subset, FS_CardinalityType
  <1>6. LineCount(points) = Cardinality(lined)
    BY DEF LineCount, lined
  <1>7. LineCount(points) \in Nat
    BY <1>5, <1>6
  <1>8. /\ IsFiniteSet(1 .. LineCount(points))
        /\ Cardinality(1 .. LineCount(points)) = LineCount(points)
    BY <1>7, FS_Interval
  <1> QED
    BY <1>7, <1>8 DEF Lines

\* The batches before an earlier one are before a later one.
LEMMA BeforeGrows ==
  ASSUME NEW points \in Points, NEW n \in Nat \ {0}, NEW m \in Nat \ {0}, n <= m
  PROVE  Before(points, n) \subseteq Before(points, m)
  <1>1. (n - 1) * BatchSize <= (m - 1) * BatchSize
        /\ (n - 1) * BatchSize \in Nat /\ (m - 1) * BatchSize \in Nat
    BY Multiples
  <1>2. \A k \in Lines(points) : k \in Nat
    BY LineNumbers DEF Lines
  <1> QED
    BY <1>1, <1>2 DEF Before

\* A batch is what is before the next one and not before it.
LEMMA BatchIsNext ==
  ASSUME NEW points \in Points, NEW n \in Nat \ {0}
  PROVE  Batch(points, n) = Before(points, n + 1) \ Before(points, n)
  <1>1. (n - 1) * BatchSize \in Nat /\ n * BatchSize \in Nat
    BY Multiples
  <1>2. \A k \in Lines(points) : k \in Nat
    BY LineNumbers DEF Lines
  <1>3. (n + 1) - 1 = n
    OBVIOUS
  <1> QED
    BY <1>1, <1>2, <1>3 DEF Before, Batch

\* After the last batch there is no line.
LEMMA AllBefore ==
  ASSUME NEW points \in Points, NEW n \in Nat \ {0}, n > Batches(points)
  PROVE  Before(points, n) = Lines(points)
  <1> DEFINE L == LineCount(points)
             q == (L + BatchSize - 1) \div BatchSize
  <1>1. L \in Nat
    BY LineNumbers
  <1> HIDE DEF L
  <1>2. q \in Nat /\ L <= q * BatchSize
    BY <1>1, BatchAssumption
  <1>3. q <= n - 1
    BY <1>2 DEF Batches, L
  <1> HIDE DEF q
  <1>4. q * BatchSize <= (n - 1) * BatchSize
        /\ q * BatchSize \in Nat /\ (n - 1) * BatchSize \in Nat
    BY <1>2, <1>3, Multiples
  <1>5. L <= (n - 1) * BatchSize
    BY <1>1, <1>2, <1>4
  <1> QED
    BY <1>1, <1>4, <1>5 DEF Before, Lines, L

\* The first batch has nothing before it.
LEMMA NoneBefore ==
  ASSUME NEW points \in Points
  PROVE  Before(points, 1) = {}
  BY LineNumbers, BatchAssumption DEF Before, Lines

-----------------------------------------------------------------------------
\* The way of the points

\* There are no points without a collection.
LEMMA NoPoints == NoCollection.points \in Points /\ NoCollection \in Collections
  <1>1. <<>> \in [1 .. 0 -> PointKinds]
    OBVIOUS
  <1>2. <<>> \in Points
    BY <1>1, PointsAssumption DEF Points
  <1> QED
    BY <1>2 DEF NoCollection, Collections

\* The posting of a report, and that of the points from the first batch on.
LEMMA IdleType ==
  /\ Idle \in Postings /\ Idle.what = "nothing" /\ Idle.report = {}
  /\ LET p == [Idle EXCEPT !.what = "points"]
     IN p \in Postings /\ p.what = "points" /\ p.report = {} /\ p.batch = 1
  /\ \A r \in Reports :
       LET p == [Idle EXCEPT !.what = "report", !.report = {r}]
       IN p \in Postings /\ p.what = "report" /\ p.report = {r}
  <1>1. Idle \in Postings /\ Idle.what = "nothing" /\ Idle.report = {} /\ Idle.batch = 1
    BY BatchAssumption DEF Idle, Postings
  <1>2. /\ [Idle EXCEPT !.what = "points"] \in Postings
        /\ [Idle EXCEPT !.what = "points"].what = "points"
        /\ [Idle EXCEPT !.what = "points"].report = {}
        /\ [Idle EXCEPT !.what = "points"].batch = 1
    BY <1>1 DEF Postings
  <1>3. ASSUME NEW r \in Reports
        PROVE  /\ [Idle EXCEPT !.what = "report", !.report = {r}] \in Postings
               /\ [Idle EXCEPT !.what = "report", !.report = {r}].what = "report"
               /\ [Idle EXCEPT !.what = "report", !.report = {r}].report = {r}
    BY <1>1 DEF Postings
  <1> QED
    BY <1>1, <1>2, <1>3, Zenon

\* A failure is reported with nothing written.
LEMMA ReportType ==
  ASSUME NEW written \in Nat, NEW success \in BOOLEAN
  PROVE  /\ Report(success, written) \in Reports
         /\ Report(success, written).success = success
         /\ Report(success, written).written = IF success THEN written ELSE 0
  BY DEF Report, Reports

\* How a collection ends: what is on its way after that is a report, or nothing.
LEMMA EndsEffect ==
  ASSUME NEW success \in BOOLEAN, NEW written \in Nat, Ends(success, written)
  PROVE  /\ posting' \in Postings /\ posting'.what # "points"
         /\ posting'.what = "nothing" => posting'.report = {}
         /\ posting'.report \subseteq {Report(success, written)}
  BY IdleType, ReportType DEF Ends

\* At the start there is nothing in the database, nothing on its way.
LEMMA TelemetryStarts == TelemetryInit => TelemetryInv
  <1> SUFFICES ASSUME TelemetryInit PROVE TelemetryInv
    OBVIOUS
  <1>1. TypeOK
    BY NoPoints, IdleType DEF TelemetryInit, TypeOK, Nothing, Databases
  <1>2. database.lines = {} /\ database.reports = {}
    BY DEF TelemetryInit, Nothing
  <1>3. Filled(collection.points, {}, 1)
    BY NoPoints, NoneBefore DEF Filled, TelemetryInit
  <1>4. \E n \in Nat \ {0} : Filled(collection.points, database.lines, n)
    BY <1>2, <1>3
  <1>5. posting.what = "nothing" /\ posting.report = {}
    BY IdleType DEF TelemetryInit
  <1>6. database = Nothing
    BY DEF TelemetryInit
  <1> QED
    BY <1>1, <1>2, <1>4, <1>5, <1>6 DEF TelemetryInv

\* A step that sends no lines.
LEMMA NoLinesSent ==
  ASSUME TelemetryInv, TypeOK', UNCHANGED collection, database'.lines = database.lines,
         posting'.what # "points",
         posting'.what = "nothing" => posting'.report = {},
         \A r \in posting'.report \cup database'.reports :
            Truthful(r, collection.points, database.lines),
         collection = NoCollection => database' = Nothing
  PROVE  TelemetryInv'
  <1>1. \E n \in Nat \ {0} : Filled(collection.points, database.lines, n)
    BY DEF TelemetryInv
  <1>2. \E n \in Nat \ {0} : Filled(collection'.points, database'.lines, n)
    BY <1>1
  <1>3. \A r \in posting'.report \cup database'.reports :
          Truthful(r, collection'.points, database'.lines)
    OBVIOUS
  <1>4. database'.lines # {} => Postable(collection')
    BY DEF TelemetryInv
  <1> QED
    BY <1>2, <1>3, <1>4 DEF TelemetryInv

\* A batch is sent, and the database has taken a part of it, or all.
LEMMA BatchSent ==
  ASSUME TelemetryInv, posting.what = "points",
         posting.batch <= Batches(collection.points),
         NEW lines \in SUBSET Batch(collection.points, posting.batch),
         database' = [database EXCEPT !.lines = @ \cup lines]
  PROVE  /\ database' \in Databases /\ database'.lines = database.lines \cup lines
         /\ database'.reports = {}
         /\ Filled(collection.points, database'.lines, posting.batch)
         /\ lines = Batch(collection.points, posting.batch) =>
              Filled(collection.points, database'.lines, posting.batch + 1)
  <1> DEFINE points == collection.points
             n == posting.batch
  <1>1. points \in Points /\ n \in Nat \ {0} /\ database \in Databases
    BY DEF TelemetryInv, TypeOK, Collections, Postings
  <1>2. Filled(points, database.lines, n) /\ database.reports = {}
    BY DEF TelemetryInv
  <1> HIDE DEF points, n
  <1>3. Batch(points, n) = Before(points, n + 1) \ Before(points, n)
    BY <1>1, BatchIsNext
  <1>4. Before(points, n + 1) \subseteq Before(points, (n + 1) + 1)
    BY <1>1, BeforeGrows
  <1>5. Before(points, n + 1) \subseteq Nat \ {0}
    BY <1>1, LineNumbers DEF Before, Lines
  <1>6. lines \subseteq Before(points, n + 1)
    BY <1>3 DEF points, n
  <1>7. /\ database' \in Databases /\ database'.lines = database.lines \cup lines
        /\ database'.reports = database.reports
    BY <1>1, <1>5, <1>6 DEF Databases
  <1>8. Filled(points, database'.lines, n)
    BY <1>2, <1>6, <1>7 DEF Filled
  <1>9. lines = Batch(points, n) => Filled(points, database'.lines, n + 1)
    BY <1>2, <1>3, <1>4, <1>7 DEF Filled
  <1> QED
    BY <1>2, <1>7, <1>8, <1>9 DEF points, n

\* What is known of a collection that has not begun.
LEMMA BeforeCollection ==
  ASSUME NEW points \in Points
  PROVE  Filled(points, {}, 1)
  BY NoneBefore DEF Filled

\* Posting a batch: it is posted again, or the next one is, or the write fails.
LEMMA PostBatchKeeps ==
  ASSUME TelemetryInv, PostBatch
  PROVE  TelemetryInv'
  <1> DEFINE points == collection.points
             n == posting.batch
  <1>1. /\ points \in Points /\ n \in Nat \ {0} /\ posting \in Postings
        /\ posting.attempt \in 0 .. Retries
        /\ collection \in Collections /\ cancelled \in BOOLEAN
    BY DEF TelemetryInv, TypeOK, Collections, Postings
  <1>2. /\ posting.what = "points" /\ n <= Batches(points) /\ UNCHANGED <<collection, cancelled>>
        /\ Postable(collection) /\ posting.report = {}
    BY DEF PostBatch, TelemetryInv
  <1>3. collection # NoCollection
    <2>1. NoCollection.configured = FALSE
      BY DEF NoCollection
    <2> QED
      BY <1>2, <2>1 DEF Postable
  <1>4. PICK answer \in {"accepted", "busy", "lost", "refused"} :
          /\ \E lines \in Taken(answer, Batch(points, n)) :
                database' = [database EXCEPT !.lines = @ \cup lines]
          /\ IF answer # "accepted" /\ GivesUp(answer, posting.attempt) THEN Ends(FALSE, 0)
             ELSE posting' = IF Retried(answer) /\ posting.attempt < Retries
                             THEN [posting EXCEPT !.attempt = @ + 1]
                             ELSE [posting EXCEPT !.batch = @ + 1, !.attempt = 0]
    BY DEF PostBatch
  <1>5. PICK lines \in Taken(answer, Batch(points, n)) :
          database' = [database EXCEPT !.lines = @ \cup lines]
    BY <1>4
  <1>6. lines \in SUBSET Batch(points, n)
        /\ (answer = "accepted" => lines = Batch(points, n))
    BY <1>5 DEF Taken
  <1>7. /\ database' \in Databases /\ database'.reports = {}
        /\ Filled(points, database'.lines, n)
        /\ lines = Batch(points, n) => Filled(points, database'.lines, n + 1)
    BY <1>2, <1>5, <1>6, BatchSent
  <1>8. CASE answer # "accepted" /\ GivesUp(answer, posting.attempt)
    <2>1. Ends(FALSE, 0)
      BY <1>4, <1>8
    <2>2. /\ posting' \in Postings /\ posting'.what # "points"
          /\ posting'.what = "nothing" => posting'.report = {}
          /\ posting'.report \subseteq {Report(FALSE, 0)}
      BY <2>1, EndsEffect
    <2>3. \A r \in posting'.report : Truthful(r, points, database'.lines)
      BY <2>2, ReportType DEF Truthful
    <2>4. \E k \in Nat \ {0} : Filled(points, database'.lines, k)
      BY <1>1, <1>7
    <2> QED
      BY <1>1, <1>2, <1>3, <1>7, <2>2, <2>3, <2>4 DEF TelemetryInv, TypeOK
  <1>9. CASE Retried(answer) /\ posting.attempt < Retries
             /\ ~(answer # "accepted" /\ GivesUp(answer, posting.attempt))
    <2>1. posting' = [posting EXCEPT !.attempt = @ + 1]
      BY <1>4, <1>9
    <2>2. /\ posting' \in Postings /\ posting'.what = "points" /\ posting'.batch = n
          /\ posting'.report = {}
      BY <1>1, <1>2, <1>9, <2>1, BatchAssumption DEF Postings
    <2> QED
      BY <1>1, <1>2, <1>3, <1>7, <2>2 DEF TelemetryInv, TypeOK
  <1>10. CASE ~(Retried(answer) /\ posting.attempt < Retries)
              /\ ~(answer # "accepted" /\ GivesUp(answer, posting.attempt))
    <2>1. answer = "accepted"
      BY <1>1, <1>10, BatchAssumption DEF Retried, GivesUp
    <2>2. posting' = [posting EXCEPT !.batch = @ + 1, !.attempt = 0]
      BY <1>4, <1>10
    <2>3. /\ posting' \in Postings /\ posting'.what = "points" /\ posting'.batch = n + 1
          /\ posting'.report = {}
      <3>1. n + 1 \in Nat \ {0} /\ 0 \in 0 .. Retries
        BY <1>1, BatchAssumption
      <3>2. posting' = [posting EXCEPT !.batch = n + 1, !.attempt = 0]
        BY <2>2
      <3> HIDE DEF n
      <3> QED
        BY <1>1, <1>2, <3>1, <3>2 DEF Postings
    <2>4. Filled(points, database'.lines, n + 1)
      BY <1>6, <1>7, <2>1
    <2>5. n + 1 \in Nat \ {0}
      BY <1>1
    <2> QED
      BY <1>1, <1>2, <1>3, <1>7, <2>3, <2>4, <2>5 DEF TelemetryInv, TypeOK
  <1> QED
    BY <1>8, <1>9, <1>10

\* Posting the report.
LEMMA PostReportKeeps ==
  ASSUME TelemetryInv, PostReport
  PROVE  TelemetryInv'
  <1>1. /\ posting \in Postings /\ posting.what = "report" /\ posting.attempt \in 0 .. Retries
        /\ posting.report \subseteq Reports
        /\ database \in Databases /\ UNCHANGED <<collection, cancelled>>
        /\ collection \in Collections /\ cancelled \in BOOLEAN
    BY DEF TelemetryInv, TypeOK, Postings, PostReport
  <1>2. PICK answer, reports :
          /\ reports \subseteq posting.report /\ (~collection.configured => reports = {})
          /\ database' = [database EXCEPT !.reports = @ \cup reports]
          /\ posting' = IF Retried(answer) /\ posting.attempt < Retries
                        THEN [posting EXCEPT !.attempt = @ + 1] ELSE Idle
    <2>1. PICK answer \in (IF collection.configured THEN {"accepted", "busy", "lost", "refused"}
                           ELSE {"refused"}) :
            /\ \E reports \in IF collection.configured THEN Taken(answer, posting.report)
                              ELSE {{}} :
                  database' = [database EXCEPT !.reports = @ \cup reports]
            /\ posting' = IF Retried(answer) /\ posting.attempt < Retries
                          THEN [posting EXCEPT !.attempt = @ + 1] ELSE Idle
      BY DEF PostReport
    <2>2. PICK reports \in IF collection.configured THEN Taken(answer, posting.report)
                           ELSE {{}} :
            database' = [database EXCEPT !.reports = @ \cup reports]
      BY <2>1
    <2>3. reports \subseteq posting.report /\ (~collection.configured => reports = {})
      BY <2>2 DEF Taken
    <2> QED
      BY <2>1, <2>2, <2>3
  <1>3. /\ database' \in Databases /\ database'.lines = database.lines
        /\ database'.reports = database.reports \cup reports
    BY <1>1, <1>2 DEF Databases
  <1>4. /\ posting' \in Postings /\ posting'.what # "points"
        /\ posting'.what = "nothing" => posting'.report = {}
        /\ posting'.report \subseteq posting.report
    <2>1. CASE Retried(answer) /\ posting.attempt < Retries
      <3>1. posting' = [posting EXCEPT !.attempt = @ + 1]
        BY <1>2, <2>1
      <3> QED
        BY <1>1, <2>1, <3>1, BatchAssumption DEF Postings
    <2>2. CASE ~(Retried(answer) /\ posting.attempt < Retries)
      BY <1>2, <2>2, IdleType
    <2> QED
      BY <2>1, <2>2
  <1>5. TypeOK'
    BY <1>1, <1>3, <1>4 DEF TypeOK
  <1>6. \A r \in posting'.report \cup database'.reports :
          Truthful(r, collection.points, database.lines)
    BY <1>2, <1>3, <1>4 DEF TelemetryInv
  <1>7. ASSUME collection = NoCollection
        PROVE  database' = Nothing
    <2>1. reports = {} /\ database.reports = {} /\ database.lines = {}
      BY <1>2, <1>7 DEF TelemetryInv, NoCollection, Nothing
    <2>2. database'.lines = {} /\ database'.reports = {}
      BY <1>3, <2>1
    <2>3. \A d \in Databases : d = [lines |-> d.lines, reports |-> d.reports]
      BY DEF Databases
    <2> QED
      BY <1>3, <2>2, <2>3 DEF Nothing
  <1> QED
    BY <1>1, <1>3, <1>4, <1>5, <1>6, <1>7, NoLinesSent

\* A new collection begins, and its points are posted or its failure is reported.
LEMMA CollectKeeps ==
  ASSUME TelemetryInv, Collect
  PROVE  TelemetryInv'
  <1>1. /\ database = Nothing /\ UNCHANGED <<cancelled, database>>
        /\ database \in Databases /\ cancelled \in BOOLEAN
    BY DEF TelemetryInv, TypeOK, Collect
  <1>2. PICK points \in Points, configured \in BOOLEAN :
          LET c == [points |-> points, configured |-> configured]
          IN /\ collection' = c
             /\ posting' = IF Postable(c) THEN [Idle EXCEPT !.what = "points"]
                           ELSE [Idle EXCEPT !.what = "report",
                                             !.report = {Report(FALSE, 0)}]
    BY DEF Collect, Points
  <1> DEFINE c == [points |-> points, configured |-> configured]
  <1>3. c \in Collections /\ c.points = points
    BY DEF Collections
  <1>4. /\ collection' = c
        /\ Postable(c) => posting' = [Idle EXCEPT !.what = "points"]
        /\ ~Postable(c) => posting' = [Idle EXCEPT !.what = "report",
                                                   !.report = {Report(FALSE, 0)}]
    BY <1>2
  <1> HIDE DEF c
  <1>5. database'.lines = {} /\ database'.reports = {} /\ Filled(points, {}, 1)
    BY <1>1, BeforeCollection DEF Nothing
  <1>6. CASE Postable(c)
    <2>1. posting' \in Postings /\ posting'.what = "points" /\ posting'.report = {}
          /\ posting'.batch = 1
      BY <1>4, <1>6, IdleType
    <2> QED
      BY <1>1, <1>3, <1>4, <1>5, <1>6, <2>1 DEF TelemetryInv, TypeOK
  <1>7. CASE ~Postable(c)
    <2>1. Report(FALSE, 0) \in Reports /\ Truthful(Report(FALSE, 0), points, {})
      BY ReportType DEF Truthful
    <2>2. posting' \in Postings /\ posting'.what = "report"
          /\ posting'.report = {Report(FALSE, 0)}
      BY <1>4, <1>7, <2>1, IdleType
    <2>3. \A r \in posting'.report \cup database'.reports :
            Truthful(r, collection'.points, database'.lines)
      BY <1>3, <1>4, <1>5, <2>1, <2>2
    <2>4. \E k \in Nat \ {0} : Filled(collection'.points, database'.lines, k)
      BY <1>3, <1>4, <1>5
    <2>5. TypeOK'
      BY <1>1, <1>3, <1>4, <2>2 DEF TypeOK
    <2> QED
      BY <1>1, <1>5, <2>2, <2>3, <2>4, <2>5 DEF TelemetryInv
  <1> QED
    BY <1>6, <1>7

\* The write returns: all lines are there when the report counts them.
LEMMA WrittenKeeps ==
  ASSUME TelemetryInv, Written
  PROVE  TelemetryInv'
  <1> DEFINE points == collection.points
             n == posting.batch
             L == LineCount(points)
  <1>1. /\ points \in Points /\ n \in Nat \ {0} /\ n > Batches(points)
        /\ posting.what = "points" /\ database \in Databases
        /\ collection \in Collections /\ cancelled \in BOOLEAN
        /\ UNCHANGED <<collection, cancelled, database>>
    BY DEF TelemetryInv, TypeOK, Collections, Postings, Written
  <1>2. PICK success \in BOOLEAN : Ends(success, L)
    BY DEF Written
  <1>3. L \in Nat
    BY <1>1, LineNumbers
  <1>4. /\ database.reports = {} /\ Postable(collection)
        /\ Filled(points, database.lines, n)
    BY <1>1 DEF TelemetryInv
  <1>5. database.lines = Lines(points)
    <2>1. Before(points, n) = Lines(points)
      BY <1>1, AllBefore
    <2>2. Before(points, n + 1) \subseteq Lines(points)
      BY DEF Before
    <2> QED
      BY <1>4, <2>1, <2>2 DEF Filled
  <1>6. /\ posting' \in Postings /\ posting'.what # "points"
        /\ posting'.what = "nothing" => posting'.report = {}
        /\ posting'.report \subseteq {Report(success, L)}
    BY <1>2, <1>3, EndsEffect
  <1>7. Truthful(Report(success, L), points, database.lines)
    BY <1>3, <1>5, ReportType DEF Truthful
  <1>8. TypeOK'
    BY <1>1, <1>6 DEF TypeOK
  <1>9. collection # NoCollection
    <2>1. NoCollection.configured = FALSE
      BY DEF NoCollection
    <2> QED
      BY <1>4, <2>1 DEF Postable
  <1> HIDE DEF L
  <1>10. \A r \in posting'.report \cup database'.reports :
           Truthful(r, collection.points, database.lines)
    BY <1>1, <1>4, <1>6, <1>7
  <1> QED
    BY <1>1, <1>6, <1>8, <1>9, <1>10, NoLinesSent

\* Until the next collection; a cancellation; the end of the process.
LEMMA OtherwiseKept ==
  ASSUME TelemetryInv, Wait \/ Cancel \/ Killed \/ UNCHANGED telemetryVars
  PROVE  TelemetryInv'
  <1>1. TypeOK
    BY DEF TelemetryInv
  <1>2. CASE Wait
    <2>1. /\ collection' = NoCollection /\ cancelled' = FALSE /\ database' = Nothing
          /\ posting.what = "nothing" /\ posting' = posting
      BY <1>2 DEF Wait
    <2>2. Nothing \in Databases /\ Nothing.lines = {} /\ Nothing.reports = {}
      BY DEF Nothing, Databases
    <2>3. Filled(NoCollection.points, {}, 1)
      BY NoPoints, BeforeCollection
    <2>4. posting'.report = {} /\ TypeOK'
      BY <1>1, <2>1, <2>2, NoPoints DEF TelemetryInv, TypeOK
    <2>5. \E n \in Nat \ {0} : Filled(collection'.points, database'.lines, n)
      BY <2>1, <2>2, <2>3
    <2> QED
      BY <2>1, <2>2, <2>4, <2>5 DEF TelemetryInv
  <1>3. CASE Cancel
    <2>1. /\ cancelled' = TRUE /\ UNCHANGED <<collection, posting, database>>
      BY <1>3 DEF Cancel
    <2> QED
      BY <1>1, <2>1 DEF TelemetryInv, TypeOK
  <1>4. CASE Killed
    <2>1. posting' = Idle /\ UNCHANGED <<collection, cancelled, database>>
      BY <1>4 DEF Killed
    <2>2. /\ posting' \in Postings /\ posting'.what = "nothing" /\ posting'.report = {}
      BY <2>1, IdleType
    <2>3. TypeOK'
      BY <1>1, <2>1, <2>2 DEF TypeOK
    <2> QED
      BY <2>1, <2>2, <2>3, NoLinesSent DEF TelemetryInv
  <1>5. CASE UNCHANGED telemetryVars
    BY <1>1, <1>5 DEF TelemetryInv, TypeOK, telemetryVars
  <1> QED
    BY <1>2, <1>3, <1>4, <1>5

\* What the database is told follows from how far it was filled.
LEMMA FilledTruly == TelemetryInv => ReportsHold
  <1> SUFFICES ASSUME TelemetryInv PROVE ReportsHold
    OBVIOUS
  <1> DEFINE points == collection.points
             lines == database.lines
  <1>1. /\ points \in Points /\ database.reports \subseteq Reports
        /\ \A r \in database.reports : Truthful(r, points, lines)
        /\ ~Postable(collection) => lines = {}
    BY DEF TelemetryInv, TypeOK, Collections, Databases
  <1>2. PICK w \in Nat \ {0} : Filled(points, lines, w)
    BY DEF TelemetryInv
  <1> HIDE DEF points, lines
  <1>3. ASSUME NEW r \in database.reports
        PROVE  /\ r.success => lines = Lines(points) /\ r.written = Cardinality(lines)
               /\ r.written <= Cardinality(lines)
    <2>1. /\ LineCount(points) \in Nat
          /\ IsFiniteSet(Lines(points)) /\ Cardinality(Lines(points)) = LineCount(points)
      BY <1>1, LineNumbers
    <2>2. lines \in SUBSET Lines(points)
      BY <1>2 DEF Filled, Before
    <2>3. Cardinality(lines) \in Nat
      BY <2>1, <2>2, FS_Subset, FS_CardinalityType
    <2>4. r \in Reports /\ Truthful(r, points, lines)
      BY <1>1
    <2>5. CASE r.success
      BY <2>1, <2>4, <2>5 DEF Truthful
    <2>6. CASE ~r.success
      BY <2>3, <2>4, <2>6 DEF Truthful
    <2> QED
      BY <2>5, <2>6
  <1>4. ASSUME NEW n \in 2 .. Batches(points), NEW k \in Batch(points, n), k \in lines
        PROVE  Batch(points, n - 1) \subseteq lines
    <2>1. n \in Nat \ {0} /\ n - 1 \in Nat \ {0}
      BY DEF Batches
    <2>2. k \notin Before(points, n)
      BY <1>1, <2>1, BatchIsNext
    <2>3. n <= w
      <3> SUFFICES ASSUME ~(n <= w)
                   PROVE  FALSE
        OBVIOUS
      <3>1. w + 1 \in Nat \ {0} /\ w + 1 <= n
        BY <2>1
      <3>2. k \in Before(points, w + 1)
        BY <1>2, <1>4 DEF Filled
      <3> QED
        BY <1>1, <2>1, <2>2, <3>1, <3>2, BeforeGrows
    <2>4. Batch(points, n - 1) \subseteq Before(points, n)
      <3>1. (n - 1) + 1 = n
        BY <2>1
      <3> QED
        BY <1>1, <2>1, <3>1, BatchIsNext
    <2> QED
      BY <1>1, <1>2, <2>1, <2>3, <2>4, BeforeGrows DEF Filled
  <1> QED
    BY <1>1, <1>3, <1>4 DEF ReportsHold, points, lines

\* For any batch size and number of retries: a report of success counts every line, and
\* all of them are in the database; no report counts more than is there; no batch begins
\* before the one before it is complete; and of a collection that cannot be posted there
\* is nothing, whatever answers are lost, batches taken in part, attempts cancelled or
\* processes killed.
THEOREM DatabaseIsToldTrue == TelemetrySpec => []ReportsHold
  <1>1. TelemetryInv /\ [TelemetryNext]_telemetryVars => TelemetryInv'
    <2> SUFFICES ASSUME TelemetryInv, [TelemetryNext]_telemetryVars
                 PROVE  TelemetryInv'
      OBVIOUS
    <2>1. CASE Collect
      BY <2>1, CollectKeeps
    <2>2. CASE PostBatch
      BY <2>2, PostBatchKeeps
    <2>3. CASE Written
      BY <2>3, WrittenKeeps
    <2>4. CASE PostReport
      BY <2>4, PostReportKeeps
    <2>5. CASE Wait \/ Cancel \/ Killed \/ UNCHANGED telemetryVars
      BY <2>5, OtherwiseKept
    <2> QED
      BY <2>1, <2>2, <2>3, <2>4, <2>5 DEF TelemetryNext
  <1> QED
    BY <1>1, TelemetryStarts, FilledTruly, PTL DEF TelemetrySpec

-----------------------------------------------------------------------------
\* Manual collections

\* What is known of the connectors of a run, some or all.
Outcomes == UNION {[S -> Results] : S \in SUBSET Connectors}

ManualRuns == [at : {"idle", "loaded", "collecting"}, only : SUBSET Connectors,
               enabled : SUBSET Connectors, ready : SUBSET Connectors,
               results : Outcomes, torn : BOOLEAN]

EnabledNow == {c \in Connectors : Enabled(Whole(entry)[c])}

\* Unless the files have changed, the run goes by what they say; it knows how each of
\* its connectors stands, and has heard from those that succeeded.
RunInv ==
    /\ run \in ManualRuns
    /\ run.at = "loaded" /\ ~run.torn => run.enabled = EnabledNow
    /\ run.at = "collecting" =>
         /\ run.enabled \subseteq DOMAIN run.results \cup run.ready
         /\ \A c \in DOMAIN run.results : run.results[c] = "success" => c \in answered
         /\ ~run.torn => \A c \in run.enabled \cap DOMAIN run.results :
                           run.results[c] # "disabled"

\* What has been told and recorded.
ToldInv ==
    /\ latest = [c \in Connectors |-> latest[c]]
    /\ \A c \in Connectors : latest[c] = {"success"} => c \in answered
    /\ told.status = "refused" => told.torn
    /\ told.status = "success" => told.missed = {}

ConsoleInv == RunInv /\ ToldInv

\* What the fields of a verdict are.
LEMMA ToldFields ==
  /\ Silent.status = "none"
  /\ \A how : Ended(how).status = how /\ Ended(how).torn = run.torn /\ Ended(how).missed = {}
  /\ \A how, missed :
       LET t == [Ended(how) EXCEPT !.missed = missed]
       IN t.status = how /\ t.torn = run.torn /\ t.missed = missed
  BY DEF Silent, Ended

\* A run that does not exist.
LEMMA NoRunFields ==
  /\ NoRun.at = "idle" /\ NoRun.enabled = {} /\ NoRun.torn = FALSE
  /\ DOMAIN NoRun.results = {} /\ NoRun \in ManualRuns
  <1>1. <<>> \in [{} -> Results]
    OBVIOUS
  <1>2. <<>> \in Outcomes
    BY <1>1 DEF Outcomes
  <1> QED
    BY <1>2 DEF NoRun, ManualRuns

LEMMA ConsoleStarts == ConsoleInit => ConsoleInv
  <1> SUFFICES ASSUME ConsoleInit PROVE ConsoleInv
    OBVIOUS
  <1>1. run = NoRun /\ told = Silent /\ latest = [c \in Connectors |-> {}]
    BY DEF ConsoleInit
  <1>2. RunInv
    BY <1>1, NoRunFields DEF RunInv
  <1>3. ToldInv
    BY <1>1, ToldFields DEF ToldInv
  <1> QED
    BY <1>2, <1>3 DEF ConsoleInv

\* A step that leaves the run, its verdict and the files alone, or silences the verdict.
LEMMA AsideStep ==
  ASSUME ConsoleInv, UNCHANGED <<entry, run, latest, answered>>,
         told' = told \/ told' = Silent
  PROVE  ConsoleInv'
  <1>1. RunInv'
    BY DEF ConsoleInv, RunInv, EnabledNow
  <1>2. ToldInv'
    BY ToldFields DEF ConsoleInv, ToldInv
  <1> QED
    BY <1>1, <1>2 DEF ConsoleInv

\* The files change: a run that has read them is torn.
LEMMA ChangeStep ==
  ASSUME ConsoleInv, Changed
  PROVE  ConsoleInv'
  <1>1. /\ run \in ManualRuns /\ run' = [run EXCEPT !.torn = run.torn \/ run.at = "loaded"]
        /\ told' = Silent /\ UNCHANGED <<latest, answered>>
    BY DEF ConsoleInv, RunInv, Changed
  <1>2. /\ run' \in ManualRuns /\ run'.at = run.at /\ run'.enabled = run.enabled
        /\ run'.ready = run.ready /\ run'.results = run.results
        /\ run'.torn = (run.torn \/ run.at = "loaded")
    BY <1>1 DEF ManualRuns
  <1>3. RunInv'
    BY <1>1, <1>2 DEF ConsoleInv, RunInv
  <1>4. ToldInv'
    BY <1>1, ToldFields DEF ConsoleInv, ToldInv
  <1> QED
    BY <1>3, <1>4 DEF ConsoleInv

\* A run is given up, or none is begun.
LEMMA NoRunStep ==
  ASSUME ConsoleInv, run' = NoRun, UNCHANGED <<latest, answered>>,
         told' = told
  PROVE  ConsoleInv'
  <1>1. RunInv'
    BY NoRunFields DEF RunInv
  <1>2. ToldInv'
    BY DEF ConsoleInv, ToldInv
  <1> QED
    BY <1>1, <1>2 DEF ConsoleInv

LEMMA LoadKeeps ==
  ASSUME ConsoleInv, NEW only \in SUBSET Connectors, Load(only)
  PROVE  ConsoleInv'
  <1> DEFINE begins == Loadable(Whole(entry)) /\ only \subseteq EnabledNow
  <1>1. UNCHANGED <<entry, latest, answered>>
    BY DEF Load, RunOnly
  <1>2. CASE begins
    <2>1. run' = [NoRun EXCEPT !.at = "loaded", !.only = only, !.enabled = EnabledNow]
          /\ told' = Silent
      BY <1>2 DEF Load, EnabledNow
    <2>2. /\ run' \in ManualRuns /\ run'.at = "loaded" /\ run'.enabled = EnabledNow
      <3>1. EnabledNow \in SUBSET Connectors
        BY DEF EnabledNow
      <3> HIDE DEF EnabledNow
      <3> QED
        BY <2>1, <3>1, NoRunFields DEF ManualRuns
    <2>3. RunInv'
      BY <1>1, <2>2 DEF RunInv, EnabledNow
    <2>4. ToldInv'
      BY <1>1, <2>1, ToldFields DEF ConsoleInv, ToldInv
    <2> QED
      BY <2>3, <2>4 DEF ConsoleInv
  <1>3. CASE ~begins
    <2>1. told' = Ended("error") /\ run' = run
      BY <1>3 DEF Load, EnabledNow
    <2>2. RunInv'
      BY <1>1, <2>1 DEF ConsoleInv, RunInv, EnabledNow
    <2>3. ToldInv'
      BY <1>1, <2>1, ToldFields DEF ConsoleInv, ToldInv
    <2> QED
      BY <2>2, <2>3 DEF ConsoleInv
  <1> QED
    BY <1>2, <1>3

\* The readiness is read: a connector of the run is disabled only if the files have
\* changed since the run was loaded.
LEMMA ReadReadinessKeeps ==
  ASSUME ConsoleInv, ReadReadiness
  PROVE  ConsoleInv'
  <1> DEFINE asked == IF run.only = {} THEN Connectors ELSE run.only
             state == [c \in asked |-> ReadinessNow(c)]
             known == {d \in asked : state[d] # "runnable" \/ d \notin run.enabled}
             ready == {c \in asked \cap run.enabled : state[c] = "runnable"}
             result(c) == IF c \notin run.enabled \/ state[c] = "disabled" THEN "disabled"
                          ELSE IF state[c] = "execution mode mismatch"
                               THEN "placement" ELSE "skipped"
             results == [c \in known |-> result(c)]
  <1>1. /\ run.at = "loaded" /\ run \in ManualRuns
        /\ run' = [run EXCEPT !.at = "collecting", !.enabled = run.enabled \cap asked,
                              !.ready = ready, !.results = results]
        /\ UNCHANGED <<entry, latest, told, answered>>
    BY DEF ReadReadiness, RunOnly, ConsoleInv, RunInv
  <1>2. asked \subseteq Connectors
    BY <1>1 DEF ManualRuns
  <1>3. ready \in SUBSET Connectors /\ run.enabled \cap asked \in SUBSET Connectors
        /\ known \in SUBSET Connectors
    BY <1>2
  <1>4. results \in Outcomes
    <2>1. results \in [known -> Results]
      BY DEF Results, Skips
    <2> QED
      BY <1>3, <2>1 DEF Outcomes
  <1>5. \A c \in known : results[c] = result(c) /\ results[c] # "success"
    OBVIOUS
  <1>6. run.enabled \cap asked \subseteq known \cup ready
    OBVIOUS
  <1>7. ASSUME ~run.torn, NEW c \in run.enabled \cap asked
        PROVE  result(c) # "disabled"
    <2>1. c \in EnabledNow
      BY <1>1, <1>7 DEF ConsoleInv, RunInv
    <2>2. ReadinessNow(c) # "disabled"
      BY <2>1 DEF EnabledNow, ReadinessNow, ReadinessOf
    <2> QED
      BY <2>2
  <1>8. DOMAIN results = known
    OBVIOUS
  <1> HIDE DEF asked, state, known, ready, result, results
  <1>9. /\ run' \in ManualRuns /\ run'.at = "collecting"
        /\ run'.enabled = run.enabled \cap asked /\ run'.ready = ready
        /\ run'.results = results /\ run'.torn = run.torn
    BY <1>1, <1>3, <1>4 DEF ManualRuns
  <1>10. RunInv'
    BY <1>5, <1>6, <1>7, <1>8, <1>9 DEF RunInv
  <1>11. ToldInv'
    BY <1>1 DEF ConsoleInv, ToldInv
  <1> QED
    BY <1>10, <1>11 DEF ConsoleInv

\* A connector has answered, or it has not.
LEMMA CollectOneKeeps ==
  ASSUME ConsoleInv, NEW c \in Connectors, CollectOne(c)
  PROVE  ConsoleInv'
  <1>1. PICK result \in Exec(c) :
          /\ run' = [run EXCEPT !.results = [d \in DOMAIN @ \cup {c} |->
                                                IF d = c THEN result ELSE @[d]]]
          /\ answered' = IF result = "success" THEN answered \cup {c} ELSE answered
    BY DEF CollectOne
  <1> DEFINE results == [d \in DOMAIN run.results \cup {c} |->
                            IF d = c THEN result ELSE run.results[d]]
  <1>2. /\ run.at = "collecting" /\ run \in ManualRuns
        /\ run' = [run EXCEPT !.results = results]
        /\ UNCHANGED <<entry, latest, told>>
    BY <1>1 DEF CollectOne, RunOnly, ConsoleInv, RunInv
  <1>3. result \in {"success", "failed"}
    BY DEF Exec, Answer
  <1>4. PICK S \in SUBSET Connectors : run.results \in [S -> Results]
    BY <1>2 DEF ManualRuns, Outcomes
  <1>5. results \in Outcomes
    <2>1. S \cup {c} \in SUBSET Connectors
      OBVIOUS
    <2>2. results \in [S \cup {c} -> Results]
      BY <1>3, <1>4 DEF Results
    <2> QED
      BY <2>1, <2>2 DEF Outcomes
  <1>6. /\ DOMAIN results = DOMAIN run.results \cup {c} /\ results[c] = result
        /\ \A d \in DOMAIN run.results : d # c => results[d] = run.results[d]
    OBVIOUS
  <1> HIDE DEF results
  <1>7. /\ run' \in ManualRuns /\ run'.at = run.at /\ run'.enabled = run.enabled
        /\ run'.ready = run.ready /\ run'.results = results /\ run'.torn = run.torn
    BY <1>2, <1>5 DEF ManualRuns
  <1>8. answered \subseteq answered' /\ (result = "success" => c \in answered')
    BY <1>1
  <1>9. RunInv'
    BY <1>2, <1>3, <1>6, <1>7, <1>8 DEF ConsoleInv, RunInv
  <1>10. ToldInv'
    BY <1>2, <1>8 DEF ConsoleInv, ToldInv
  <1> QED
    BY <1>9, <1>10 DEF ConsoleInv

\* Every scope of a run all of whose connectors were attempted is valid.
LEMMA AttemptedRunsAreAccepted ==
  ASSUME NEW results, NEW enabled, enabled \subseteq DOMAIN results,
         \A c \in enabled : results[c] \in Results \ {"disabled"}
  PROVE  Accepted(results, enabled)
  <1> SUFFICES ASSUME NEW d \in UNION {DomainsOf[c] : c \in enabled}
               PROVE  Valid(LET expected == {c \in enabled : d \in DomainsOf[c]}
                                observed == expected \cap With(results, {"success"})
                                failed == expected \cap With(results, {"failed"})
                                skipped == expected \cap With(results, Skips)
                            IN [domain |-> d, expected |-> expected, observed |-> observed,
                                failed |-> failed, skipped |-> skipped,
                                completeness |-> Completeness(failed, skipped, observed)])
    BY DEF Accepted, Scopes
  <1> DEFINE expected == {c \in enabled : d \in DomainsOf[c]}
             observed == expected \cap With(results, {"success"})
             failed == expected \cap With(results, {"failed"})
             skipped == expected \cap With(results, Skips)
             scope == [domain |-> d, expected |-> expected, observed |-> observed,
                       failed |-> failed, skipped |-> skipped,
                       completeness |-> Completeness(failed, skipped, observed)]
  <1>1. \A c \in expected : c \in observed \/ c \in failed \/ c \in skipped
    BY DEF With, Results
  <1>2. observed \subseteq expected /\ failed \subseteq expected /\ skipped \subseteq expected
    OBVIOUS
  <1> HIDE DEF expected, observed, failed, skipped
  <1>3. Completeness(failed, skipped, observed) = "complete" => failed = {} /\ skipped = {}
    BY DEF Completeness
  <1>4. Valid(scope)
    BY <1>1, <1>2, <1>3 DEF Valid
  <1> QED
    BY <1>4 DEF expected, observed, failed, skipped

\* A run that is accepted and not about nothing is a success only if every connector is.
LEMMA SuccessIsWhole ==
  ASSUME NEW results, NEW enabled, enabled \subseteq Connectors,
         enabled \subseteq DOMAIN results,
         \A c \in enabled : results[c] \in Results,
         Accepted(results, enabled), Overall(results, enabled) = "success"
  PROVE  enabled \ With(results, {"success"}) = {}
  <1>1. With(results, {"failed"}) = {} /\ With(results, Skips) = {}
    BY DEF Overall
  <1> SUFFICES ASSUME NEW c \in enabled, results[c] = "disabled"
               PROVE  FALSE
    BY <1>1 DEF With, Results
  <1>2. PICK d \in DomainsOf[c] : TRUE
    BY DomainsAssumption
  <1> DEFINE expected == {e \in enabled : d \in DomainsOf[e]}
             observed == expected \cap With(results, {"success"})
             failed == expected \cap With(results, {"failed"})
             skipped == expected \cap With(results, Skips)
             scope == [domain |-> d, expected |-> expected, observed |-> observed,
                       failed |-> failed, skipped |-> skipped,
                       completeness |-> Completeness(failed, skipped, observed)]
  <1>3. scope \in Scopes(results, enabled)
    BY <1>2 DEF Scopes
  <1>4. Valid(scope)
    BY <1>3 DEF Accepted
  <1>5. c \in expected /\ c \notin observed
    BY <1>2 DEF With
  <1>6. failed = {} /\ skipped = {}
    BY <1>1
  <1> HIDE DEF expected, observed, failed, skipped
  <1>7. Completeness(failed, skipped, observed) = "complete"
    BY <1>6 DEF Completeness
  <1>8. observed = expected
    BY <1>4, <1>7 DEF Valid
  <1> QED
    BY <1>5, <1>8

\* What is recorded was heard, what is refused was torn.
LEMMA RecordKeeps ==
  ASSUME ConsoleInv, Record
  PROVE  ConsoleInv'
  <1> DEFINE within == run.enabled
             results == run.results
             missed == within \ With(results, {"success"})
  <1>1. /\ run.at = "collecting" /\ run \in ManualRuns /\ run.ready \subseteq DOMAIN results
        /\ run' = NoRun /\ UNCHANGED <<entry, answered>>
    BY DEF Record, RunOnly, ConsoleInv, RunInv
  <1>2. /\ within \subseteq Connectors /\ within \subseteq DOMAIN results
        /\ \A c \in DOMAIN results : results[c] = "success" => c \in answered
        /\ ~run.torn => \A c \in within \cap DOMAIN results : results[c] # "disabled"
    BY <1>1 DEF ConsoleInv, RunInv, ManualRuns
  <1>3. \A c \in DOMAIN results : results[c] \in Results
    BY <1>1 DEF ManualRuns, Outcomes
  <1>4. RunInv'
    BY <1>1, NoRunFields DEF RunInv
  <1>5. ToldInv
    BY DEF ConsoleInv
  <1>6. CASE Accepted(results, within)
    <2>1. /\ latest' = Remembered(latest, results)
          /\ told' = [Ended(Overall(results, within)) EXCEPT !.missed = missed]
      BY <1>6 DEF Record, Within
    <2>2. told'.status = Overall(results, within) /\ told'.missed = missed
          /\ told'.torn = run.torn
      <3> HIDE DEF missed
      <3> QED
        BY <2>1, ToldFields
    <2>3. Overall(results, within) # "refused"
      BY DEF Overall
    <2>4. told'.status = "success" => told'.missed = {}
      BY <1>2, <1>3, <1>6, <2>2, SuccessIsWhole
    <2>5. latest' = [c \in Connectors |-> IF c \in DOMAIN results THEN {results[c]}
                                          ELSE latest[c]]
      BY <1>5, <2>1 DEF Remembered, ToldInv
    <2>6. \A c \in Connectors : latest'[c] = {"success"} => c \in answered
      BY <1>2, <1>5, <2>5 DEF ToldInv
    <2> QED
      BY <1>1, <1>4, <2>2, <2>3, <2>4, <2>5, <2>6 DEF ConsoleInv, ToldInv
  <1>7. CASE ~Accepted(results, within)
    <2>1. told' = Ended("refused") /\ latest' = latest
      BY <1>7 DEF Record, Within
    <2>2. run.torn
      BY <1>2, <1>3, <1>7, AttemptedRunsAreAccepted
    <2> QED
      BY <1>1, <1>4, <1>5, <2>1, <2>2, ToldFields DEF ConsoleInv, ToldInv
  <1> QED
    BY <1>6, <1>7

\* A manual collection is refused only if the configuration was changed between its two
\* reads of it; a run recorded as a success has collected every enabled connector it was
\* about; and no connector is shown Healthy whose device has never answered, whatever
\* is changed, started, stopped or interrupted meanwhile.
THEOREM CollectionsAreToldTrue == ConsoleSpec => []RunsAreTold
  <1>1. ConsoleInv /\ [ConsoleNext]_consoleVars => ConsoleInv'
    <2> SUFFICES ASSUME ConsoleInv, [ConsoleNext]_consoleVars
                 PROVE  ConsoleInv'
      OBVIOUS
    <2>1. CASE (\E field \in {"absent", "text"} : Add(field)) \/ RemoveEntry \/ EditByHand
      BY <2>1, ChangeStep DEF Add, RemoveEntry, EditByHand
    <2>2. CASE StartService \/ RestartService \/ StopService
      BY <2>2, AsideStep DEF StartService, RestartService, StopService, Brought
    <2>3. CASE Boot \/ Reboot
      BY <2>3, AsideStep DEF Boot, Reboot
    <2>4. ASSUME NEW c \in Connectors, Turn(c)
          PROVE  ConsoleInv'
      BY <2>4, AsideStep DEF Turn
    <2>5. ASSUME NEW c \in Connectors, CollectOne(c)
          PROVE  ConsoleInv'
      BY <2>5, CollectOneKeeps
    <2>6. ASSUME NEW only \in {{}, {"tended"}}, Load(only)
          PROVE  ConsoleInv'
      <3>1. only \in SUBSET Connectors
        BY DEF Connectors
      <3> QED
        BY <2>6, <3>1, LoadKeeps
    <2>7. CASE ReadReadiness
      BY <2>7, ReadReadinessKeeps
    <2>8. CASE Record
      BY <2>8, RecordKeeps
    <2>9. CASE Interrupt
      BY <2>9, NoRunStep DEF Interrupt
    <2>10. CASE UNCHANGED consoleVars
      BY <2>10, AsideStep DEF consoleVars
    <2> QED
      BY <2>1, <2>2, <2>3, <2>4, <2>5, <2>6, <2>7, <2>8, <2>9, <2>10 DEF ConsoleNext
  <1>2. ConsoleInv => RunsAreTold
    <2> SUFFICES ASSUME ConsoleInv PROVE RunsAreTold
      OBVIOUS
    <2>1. \A c \in Connectors : HealthOf(ReadinessNow(c), latest[c]) = "Healthy" =>
            latest[c] = {"success"}
      BY DEF HealthOf
    <2> QED
      BY <2>1 DEF ConsoleInv, ToldInv, RunsAreTold
  <1> QED
    BY <1>1, <1>2, ConsoleStarts, PTL DEF ConsoleSpec

-----------------------------------------------------------------------------
(* Doctor.                                                                 *)

\* Every aspect of an installation is good or in one of its conditions.
Installations ==
    [runtime : BOOLEAN,
     aspect : {f \in [Aspects -> {"good"} \cup UNION {Conditions[a] : a \in Aspects}] :
                  \A a \in Aspects : f[a] \in {"good"} \cup Conditions[a]}]

\* The checks that are neither of the platform, nor of services, nor of connectors.
RestChecks(i, scope) ==
    HistoryChecks(i, scope) \cup SchedulerCheck(i) \cup OperationsChecks(i, scope)
      \cup TelemetryChecks(i, scope)

\* A set of checks says one thing of each; of which categories they are.
Single(checks) == \A x, y \in checks : Same(x, y) => x = y
OfCategories(checks, categories) == \A x \in checks : x[1] \in categories

\* The groups of checks have no category in common.
LEMMA PlatformIsSingle ==
    ASSUME NEW i
    PROVE  Single(PlatformChecks(i)) /\ OfCategories(PlatformChecks(i), {"host", "platform"})
BY DEF Single, OfCategories, Same, PlatformChecks, ToolChecks, RoomChecks, LayoutChecks,
   SettingsChecks, SettingsComplete, FileChecks, ConfigCheck, PortsCheck, ProfileCheck, Judged, Said

LEMMA ServicesAreSingle ==
    ASSUME NEW i, NEW scope
    PROVE  /\ Single(ServiceChecks(i, scope))
           /\ OfCategories(ServiceChecks(i, scope), {"services", "container", "http"})
BY DEF Single, OfCategories, Same, ServiceChecks, ContainerChecks, HttpChecks, Condition,
   Unresolved, Judged, Said

LEMMA ConnectorsAreSingle ==
    ASSUME NEW i, NEW scope
    PROVE  /\ Single(ConnectorChecks(i, scope))
           /\ OfCategories(ConnectorChecks(i, scope), {"connector", "connectors"})
BY DEF Single, OfCategories, Same, ConnectorChecks, CredentialGiven, EnvironmentRead, RawConfig,
   ValidationCheck, Judged, Said

LEMMA RestIsSingle ==
    ASSUME NEW i, NEW scope
    PROVE  /\ Single(RestChecks(i, scope))
           /\ OfCategories(RestChecks(i, scope), {"history", "scheduler", "operations", "telemetry"})
BY DEF Single, OfCategories, Same, RestChecks, RawConfig, HistoryChecks, SchedulerCheck,
   OperationsChecks, TelemetryChecks, Judged, Said

\* Checks, with the group of a check known by its category.
LEMMA ChecksByGroup ==
    ASSUME NEW i, NEW scope, NEW x \in Checks(i, scope)
    PROVE  /\ x[1] \in {"host", "platform"} => scope.platform /\ x \in PlatformChecks(i)
           /\ x[1] \in {"services", "container", "http"} =>
                  scope.services /\ x \in ServiceChecks(i, scope)
           /\ x[1] \in {"connector", "connectors"} =>
                  scope.connectors /\ x \in ConnectorChecks(i, scope)
           /\ x[1] \in {"history", "scheduler", "operations", "telemetry"} =>
                  scope.rest /\ x \in RestChecks(i, scope)
           /\ x[1] \in {"host", "platform", "services", "container", "http", "connector",
                        "connectors", "history", "scheduler", "operations", "telemetry"}
BY PlatformIsSingle, ServicesAreSingle, ConnectorsAreSingle, RestIsSingle
   DEF Checks, OfCategories, RestChecks

LEMMA ChecksHold ==
    ASSUME NEW i, NEW scope
    PROVE  /\ scope.platform => PlatformChecks(i) \subseteq Checks(i, scope)
           /\ scope.services => ServiceChecks(i, scope) \subseteq Checks(i, scope)
           /\ scope.connectors => ConnectorChecks(i, scope) \subseteq Checks(i, scope)
           /\ scope.rest => RestChecks(i, scope) \subseteq Checks(i, scope)
BY DEF Checks, RestChecks

LEMMA ChecksAreSingle ==
    ASSUME NEW i, NEW scope
    PROVE  Single(Checks(i, scope))
<1> SUFFICES ASSUME NEW x \in Checks(i, scope), NEW y \in Checks(i, scope), Same(x, y)
             PROVE  x = y
    BY DEF Single
<1>1. x[1] = y[1]
    BY DEF Same
<1> QED BY <1>1, ChecksByGroup, PlatformIsSingle, ServicesAreSingle, ConnectorsAreSingle,
           RestIsSingle DEF Single

LEMMA ScopesAre ==
    ASSUME NEW scope \in Narrower
    PROVE  /\ scope.platform \in BOOLEAN /\ scope.services \in BOOLEAN
           /\ scope.connectors \in BOOLEAN /\ scope.rest \in BOOLEAN
           /\ scope.selected \in BOOLEAN /\ scope.offline \in BOOLEAN
           /\ Everything.platform /\ Everything.services /\ Everything.connectors
           /\ Everything.rest /\ ~Everything.selected /\ ~Everything.offline
BY DEF Narrower, PlatformOnly, ConnectorsOnly, OneConnector, Offline, Everything

\* Services: the same in any scope, unless they are skipped.
LEMMA ServicesAgree ==
    ASSUME NEW i, NEW scope \in Narrower
    PROVE  IF scope.offline
           THEN \A x \in ServiceChecks(i, scope) : x[3] = "skip"
           ELSE ServiceChecks(i, scope) = ServiceChecks(i, Everything)
<1>1. CASE scope.offline
    BY <1>1 DEF ServiceChecks, Said
<1>2. CASE ~scope.offline
    BY <1>2, ScopesAre DEF ServiceChecks
<1> QED BY <1>1, <1>2

\* Credentials: the same in any scope, unless they are unknown.
LEMMA CredentialsAgree ==
    ASSUME NEW i, i.runtime \in BOOLEAN, NEW scope \in Narrower, ~Unknown(i, scope)
    PROVE  CredentialGiven(i, scope) = CredentialGiven(i, Everything)
BY ScopesAre DEF CredentialGiven, Unknown, EnvironmentRead

\* Connectors: one that is selected is looked at closer than the whole run does.
LEMMA ConnectorsAgree ==
    ASSUME NEW i, i.runtime \in BOOLEAN, NEW scope \in Narrower, ~Unknown(i, scope),
           NEW x \in ConnectorChecks(i, scope)
    PROVE  \/ x \in ConnectorChecks(i, Everything)
           \/ scope.offline /\ x[3] = "skip"
           \/ \A y \in ConnectorChecks(i, Everything) : ~Same(x, y)
<1>1. CredentialGiven(i, scope) = CredentialGiven(i, Everything)
    BY CredentialsAgree
<1>2. RawConfig(i, scope) = RawConfig(i, Everything)
    BY DEF RawConfig
<1> QED BY <1>1, <1>2, ScopesAre DEF ConnectorChecks, ValidationCheck, Judged, Said, Same

LEMMA ConnectorsAreLookedAt ==
    ASSUME NEW i, NEW scope \in Narrower, NEW y \in ConnectorChecks(i, Everything),
           y[3] # "skip"
    PROVE  \E x \in ConnectorChecks(i, scope) : Same(x, y)
<1>1. RawConfig(i, scope) = RawConfig(i, Everything)
    BY DEF RawConfig
<1> DEFINE names == {"configuration", "credentials", "tls", "doctor", "validation"}
<1>2. /\ RawConfig(i, Everything) /\ i.aspect.connector # "absent"
      /\ i.aspect.connector # "disabled"
      /\ y[1] = "connector" /\ y[2] \in names
    BY ScopesAre DEF ConnectorChecks, ValidationCheck, Judged, Said
<1>3. ASSUME NEW name \in names
      PROVE  \E status : <<"connector", name, status>> \in ConnectorChecks(i, scope)
    BY <1>1, <1>2, ScopesAre DEF ConnectorChecks, ValidationCheck, Judged, Said
<1>4. PICK status : <<"connector", y[2], status>> \in ConnectorChecks(i, scope)
    BY <1>2, <1>3
<1> QED BY <1>2, <1>4 DEF Same

LEMMA RestAgrees ==
    ASSUME NEW i, NEW scope
    PROVE  RestChecks(i, scope) = RestChecks(i, Everything)
BY DEF RestChecks, HistoryChecks, OperationsChecks, TelemetryChecks, RawConfig

\* The exit code in plain words.
LEMMA ExitCodes ==
    ASSUME NEW i, NEW scope, NEW checks
    PROVE  ExitCode(i, scope, checks, FALSE) # 0 <=>
               Fatal(i, scope) \/ \E c \in checks : c[3] = "fail"
BY DEF ExitCode

LEMMA ScopesHold ==
    ASSUME installation \in Installations
    PROVE  ScopesAgree
<1> DEFINE i == installation
           whole == Checks(i, Everything)
<1>1. i.runtime \in BOOLEAN
    BY DEF Installations
<1> HIDE DEF i
<1>2. ASSUME NEW scope \in Narrower, NEW x \in Checks(i, scope)
      PROVE  \/ x \in whole \/ Unknown(i, scope) \/ (scope.offline /\ x[3] = "skip")
             \/ \A y \in whole : ~Same(x, y)
    <2> SUFFICES ASSUME ~Unknown(i, scope), ~(scope.offline /\ x[3] = "skip"),
                        NEW y \in whole, Same(x, y)
                 PROVE  x \in whole
        OBVIOUS
    <2>1. CASE x[1] \in {"connector", "connectors"}
        BY <1>1, <2>1, ChecksByGroup, ChecksHold, ConnectorsAgree, ScopesAre DEF Same
    <2>2. CASE x[1] \in {"services", "container", "http"}
        BY <2>2, ChecksByGroup, ChecksHold, ServicesAgree, ScopesAre
    <2>3. CASE x[1] \in {"host", "platform"}
        BY <2>3, ChecksByGroup, ChecksHold, ScopesAre
    <2>4. CASE x[1] \in {"history", "scheduler", "operations", "telemetry"}
        BY <2>4, ChecksByGroup, ChecksHold, RestAgrees, ScopesAre
    <2> QED BY <2>1, <2>2, <2>3, <2>4, ChecksByGroup
<1>3. ASSUME NEW scope \in Narrower, NEW y \in whole, Concerns(scope, y[1]), y[3] # "skip"
      PROVE  y \in Checks(i, scope) \/ \E x \in Checks(i, scope) : Same(x, y)
    <2>1. CASE y[1] = "connector"
        BY <1>3, <2>1, ChecksByGroup, ChecksHold, ConnectorsAreLookedAt DEF Concerns
    <2>2. CASE y[1] = "connectors"
        <3>1. y[3] = "skip"
            BY <2>2, ChecksByGroup DEF ConnectorChecks, ValidationCheck, Judged, Said
        <3> QED BY <1>3, <3>1
    <2>3. CASE y[1] \in {"services", "container", "http"}
        BY <1>3, <2>3, ChecksByGroup, ChecksHold, ServicesAgree DEF Concerns
    <2>4. CASE y[1] \in {"host", "platform"}
        BY <1>3, <2>4, ChecksByGroup, ChecksHold DEF Concerns
    <2>5. CASE y[1] \in {"history", "scheduler", "operations", "telemetry"}
        BY <1>3, <2>5, ChecksByGroup, ChecksHold, RestAgrees DEF Concerns
    <2> QED BY <2>1, <2>2, <2>3, <2>4, <2>5, ChecksByGroup
<1>4. ASSUME NEW scope \in Narrower, ExitCode(i, scope, Checks(i, scope), FALSE) # 0
      PROVE  ExitCode(i, Everything, whole, FALSE) # 0
    <2>1. CASE Fatal(i, scope)
        <3>1. Fatal(i, Everything)
            BY <2>1, ScopesAre DEF Fatal
        <3> QED BY <3>1, ExitCodes
    <2>2. CASE ~Fatal(i, scope)
        <3>1. PICK c \in Checks(i, scope) : c[3] = "fail"
            BY <1>4, <2>2, ExitCodes
        <3>2. CASE c[1] \in {"connector", "connectors"}
            <4>1. c[3] # "fail"
                BY <3>1, <3>2, ChecksByGroup DEF ConnectorChecks, ValidationCheck, Judged, Said
            <4> QED BY <3>1, <4>1
        <3>3. CASE c[1] \notin {"connector", "connectors"}
            <4>1. c \in whole
                BY <3>1, <3>3, ChecksByGroup, ChecksHold, ServicesAgree, RestAgrees, ScopesAre
            <4> QED BY <3>1, <4>1, ExitCodes
        <3> QED BY <3>2, <3>3
    <2> QED BY <2>1, <2>2
<1>5. \A x, y \in whole : Same(x, y) => x = y
    BY ChecksAreSingle DEF Single
<1> QED BY <1>2, <1>3, <1>4, <1>5 DEF ScopesAgree, i

LEMMA AspectsAre ==
    Aspects = {"host", "tree", "env", "config", "directories", "profile", "docker", "container",
               "ports", "connector", "history", "scheduler", "operations", "dashboards",
               "telemetry"}
BY DEF Aspects, Conditions

\* What may be wrong when an aspect is at fault.
LEMMA FaultsAre ==
    ASSUME NEW i \in Installations, NEW a \in Faults(i)
    PROVE  i.aspect[a] \in {c \in Conditions[a] : <<a, c>> \notin Notices}
BY DEF Installations, Faults

\* Putting the faults right leaves the rest as it is.
LEMMA RepairedIs ==
    ASSUME NEW i \in Installations
    PROVE  /\ Repaired(i).runtime = i.runtime
           /\ \A a \in Aspects :
                  Repaired(i).aspect[a] = IF a \in Faults(i) THEN "good" ELSE i.aspect[a]
BY DEF Repaired, Installations

\* A warning of which the repaired installation says otherwise.
LEMMA WarnsOf ==
    ASSUME NEW i, NEW j, NEW category, NEW name, NEW otherwise, otherwise # "warn",
           <<category, name, "warn">> \in Checks(i, Everything),
           <<category, name, otherwise>> \in Checks(j, Everything)
    PROVE  \E c \in Checks(i, Everything) \ Checks(j, Everything) : c[3] = "warn"
<1>1. <<category, name, "warn">> \notin Checks(j, Everything)
    BY ChecksAreSingle DEF Single, Same
<1> QED BY <1>1

\* The faults of which Doctor fails, and the check that says so.
LEMMA PlatformFailures ==
    ASSUME NEW i
    PROVE  LET checks == PlatformChecks(i) IN
           /\ i.aspect.host = "unfit" => <<"host", "git", "fail">> \in checks
           /\ i.aspect.tree \in {"no_path", "no_compose_file"} =>
                  <<"platform", "layout", "fail">> \in checks
           /\ i.aspect.tree = "no_template" => <<"platform", "templates", "fail">> \in checks
           /\ i.aspect.tree = "no_datasource" =>
                  <<"platform", "grafana_datasource", "fail">> \in checks
           /\ i.aspect.env \in {"absent", "unreadable"} =>
                  <<"platform", "deployment_identity", "fail">> \in checks
           /\ i.aspect.env \in {"blank", "blank_port", "no_zone"} =>
                  <<"platform", "settings", "fail">> \in checks
           /\ i.aspect.env = "odd_zone" => <<"platform", "timezone", "fail">> \in checks
           /\ i.aspect.config \in {"broken", "wrong_schema", "no_collectors"} =>
                  <<"platform", "config", "fail">> \in checks
           /\ i.aspect.profile = "invalid" => <<"platform", "profile", "fail">> \in checks
BY DEF PlatformChecks, ToolChecks, LayoutChecks, SettingsChecks, SettingsComplete, FileChecks,
   ConfigCheck, ProfileCheck, Judged, Said

LEMMA ServiceFailures ==
    ASSUME NEW i
    PROVE  LET checks == ServiceChecks(i, Everything)
               docker == i.aspect.docker IN
           /\ docker \in {"missing", "broken"} => <<"services", "docker", "fail">> \in checks
           /\ docker = "no_compose" => <<"services", "compose_v2", "fail">> \in checks
           /\ docker = "no_daemon" => <<"services", "daemon", "fail">> \in checks
           /\ docker \in {"unresolved", "undeclared"} =>
                  <<"services", "compose", "fail">> \in checks
           /\ docker = "good" /\ i.aspect.tree = "good" =>
                /\ i.aspect.container = "unlisted" =>
                       <<"services", "containers", "fail">> \in checks
                /\ i.aspect.container = "failed" =>
                       <<"container", "grafana", "fail">> \in checks
BY DEF ServiceChecks, ContainerChecks, Condition, Unresolved, Judged, Said, Everything

LEMMA OtherFailures ==
    ASSUME NEW i
    PROVE  LET checks == RestChecks(i, Everything) IN
           /\ i.aspect.scheduler = "invalid" => <<"scheduler", "state", "fail">> \in checks
           /\ i.aspect.config = "good" =>
                /\ i.aspect.operations # "good" =>
                       <<"operations", "configuration", "fail">> \in checks
                /\ i.aspect.history \in {"no_mapping", "no_flag"} =>
                       <<"history", "configuration", "fail">> \in checks
                /\ i.aspect.history = "dangling" => <<"history", "latest", "fail">> \in checks
BY DEF RestChecks, HistoryChecks, SchedulerCheck, OperationsChecks, RawConfig, Judged, Said

\* The faults of which it warns, and what the check says otherwise.
LEMMA PlatformWarnings ==
    ASSUME NEW i
    PROVE  LET checks == PlatformChecks(i) IN
           /\ i.aspect.host = "cramped" => <<"host", "disk", "warn">> \in checks
           /\ i.aspect.host = "good" => <<"host", "disk", "pass">> \in checks
           /\ i.aspect.env = "legacy_port" =>
                  <<"platform", "settings.warning", "warn">> \in checks
           /\ i.aspect.env = "good" => <<"platform", "settings.warning", "warn">> \notin checks
           /\ i.aspect.config = "absent" => <<"platform", "config", "warn">> \in checks
           /\ i.aspect.config = "good" => <<"platform", "config", "pass">> \in checks
           /\ i.aspect.directories = "unwritable" => <<"platform", "runtime", "warn">> \in checks
           /\ i.aspect.directories = "demo" => <<"platform", "demo", "warn">> \in checks
           /\ i.aspect.directories = "unprovisioned" =>
                  <<"platform", "provisioning", "warn">> \in checks
           /\ i.aspect.directories = "good" =>
                  /\ <<"platform", "runtime", "pass">> \in checks
                  /\ <<"platform", "demo", "pass">> \in checks
                  /\ <<"platform", "provisioning", "pass">> \in checks
BY DEF PlatformChecks, ToolChecks, RoomChecks, LayoutChecks, SettingsChecks, FileChecks,
   ConfigCheck, PortsCheck, ProfileCheck, Judged, Said

LEMMA ServiceWarnings ==
    ASSUME NEW i, i.aspect.docker = "good", i.aspect.tree = "good"
    PROVE  LET checks == ServiceChecks(i, Everything) IN
           /\ i.aspect.container \in {"absent", "starting"} =>
                  <<"container", "grafana", "warn">> \in checks
           /\ i.aspect.container = "good" => <<"container", "grafana", "pass">> \in checks
           /\ i.aspect.ports = "silent" => <<"services", "published_ports", "warn">> \in checks
           /\ i.aspect.ports = "unanswered" => <<"http", "grafana", "warn">> \in checks
           /\ i.aspect.ports = "good" =>
                  /\ <<"services", "published_ports", "pass">> \in checks
                  /\ <<"http", "grafana", "pass">> \in checks
BY DEF ServiceChecks, ContainerChecks, HttpChecks, Condition, Unresolved, Judged, Said, Everything

LEMMA ConnectorWarnings ==
    ASSUME NEW i, i.aspect.config = "good"
    PROVE  LET checks == ConnectorChecks(i, Everything) IN
           /\ i.aspect.connector = "no_field" =>
                  <<"connector", "configuration", "warn">> \in checks
           /\ i.aspect.connector = "no_credential" =>
                  <<"connector", "credentials", "warn">> \in checks
           /\ i.aspect.connector = "insecure" => <<"connector", "tls", "warn">> \in checks
           /\ i.aspect.connector = "good" =>
                  /\ <<"connector", "configuration", "pass">> \in checks
                  /\ <<"connector", "credentials", "pass">> \in checks
                  /\ <<"connector", "tls", "pass">> \in checks
BY DEF ConnectorChecks, RawConfig, CredentialGiven, Judged, Said

LEMMA OtherWarnings ==
    ASSUME NEW i, i.aspect.config = "good"
    PROVE  LET checks == RestChecks(i, Everything) IN
           /\ i.aspect.history = "no_store" => <<"history", "store", "warn">> \in checks
           /\ i.aspect.history = "good" => <<"history", "store", "pass">> \in checks
           /\ i.aspect.scheduler \in {"stale", "degraded", "starting"} =>
                  <<"scheduler", "state", "warn">> \in checks
           /\ i.aspect.scheduler = "good" => <<"scheduler", "state", "pass">> \in checks
           /\ i.aspect.dashboards \in {"missing", "older", "bootstrap"} =>
                  <<"operations", "wallboard_freshness", "warn">> \in checks
           /\ i.aspect.dashboards = "private" =>
                  <<"operations", "dashboard_publication", "warn">> \in checks
           /\ i.aspect.dashboards = "good" =>
                  /\ <<"operations", "wallboard_freshness", "pass">> \in checks
                  /\ <<"operations", "dashboard_publication", "pass">> \in checks
           /\ i.aspect.telemetry = "no_customer" =>
                  <<"telemetry", "deployment_identity", "warn">> \in checks
           /\ i.aspect.telemetry = "legacy_site" =>
                  <<"telemetry", "site_identity", "warn">> \in checks
           /\ i.aspect.telemetry = "good" =>
                  /\ <<"telemetry", "deployment_identity", "pass">> \in checks
                  /\ <<"telemetry", "site_identity", "pass">> \in checks
           /\ i.aspect.connector = "misplaced" =>
                  <<"telemetry", "runtime_capabilities", "warn">> \in checks
           /\ i.aspect.connector = "good" =>
                  <<"telemetry", "runtime_capabilities", "pass">> \in checks
BY DEF RestChecks, HistoryChecks, SchedulerCheck, OperationsChecks, TelemetryChecks, RawConfig,
   Judged, Said

\* What is wrong makes a difference: what fails does so whatever else is wrong; and
\* what is warned of is so unless something fails or the configuration is missing,
\* which is warned of itself.
LEMMA FaultsHold ==
    ASSUME installation \in Installations
    PROVE  FaultsAreTold
<1> DEFINE i == installation
           j == Repaired(i)
           whole == Checks(i, Everything)
           again == Checks(j, Everything)
<1> SUFFICES ASSUME NEW a \in Faults(i), \A c \in whole : c[3] # "fail"
             PROVE  \E c \in whole \ again : c[3] = "warn"
    BY ExitCodes DEF FaultsAreTold
<1>1. i \in Installations
    OBVIOUS
<1>2. \A b \in Aspects : j.aspect[b] = IF b \in Faults(i) THEN "good" ELSE i.aspect[b]
    BY RepairedIs
<1>3. \A b \in Faults(i) : i.aspect[b] \in {c \in Conditions[b] : <<b, c>> \notin Notices}
    BY FaultsAre
<1>4. \A b \in Aspects : i.aspect[b] = "good" => b \notin Faults(i) /\ j.aspect[b] = "good"
    BY <1>2 DEF Faults
<1>5. \A b \in Faults(i) : b \in Aspects /\ j.aspect[b] = "good"
    BY <1>2 DEF Faults
<1> HIDE DEF i, j
<1>6. /\ PlatformChecks(i) \subseteq whole /\ ServiceChecks(i, Everything) \subseteq whole
      /\ ConnectorChecks(i, Everything) \subseteq whole /\ RestChecks(i, Everything) \subseteq whole
      /\ PlatformChecks(j) \subseteq again /\ ServiceChecks(j, Everything) \subseteq again
      /\ ConnectorChecks(j, Everything) \subseteq again /\ RestChecks(j, Everything) \subseteq again
    BY ChecksHold DEF Everything
<1>7. \A category, name : <<category, name, "fail">> \notin whole
    OBVIOUS
<1>8. /\ i.aspect.tree = "good" /\ i.aspect.docker = "good"
      /\ i.aspect.config \in {"good", "absent"}
    <2>1. \A b \in {"tree", "docker", "config"} : i.aspect[b] \in {"good"} \cup Conditions[b]
        BY <1>1, AspectsAre DEF Installations
    <2> QED BY <1>6, <1>7, <2>1, PlatformFailures, ServiceFailures DEF Conditions
<1>9. /\ j.aspect.tree = "good" /\ j.aspect.docker = "good" /\ j.aspect.config = "good"
    BY <1>2, <1>8, AspectsAre DEF Faults, Notices
<1>10. CASE i.aspect.config = "absent"
    <2>1. <<"platform", "config", "warn">> \in whole /\ <<"platform", "config", "pass">> \in again
        BY <1>6, <1>9, <1>10, PlatformWarnings
    <2> QED BY <2>1, WarnsOf
<1>11. CASE i.aspect.config = "good"
    <2>1. i.aspect[a] \in {c \in Conditions[a] : <<a, c>> \notin Notices} /\ j.aspect[a] = "good"
        BY <1>3, <1>5
    <2>2. CASE a = "host"
        <3>1. <<"host", "disk", "warn">> \in whole /\ <<"host", "disk", "pass">> \in again
            BY <1>6, <1>7, <2>1, <2>2, PlatformFailures, PlatformWarnings DEF Conditions
        <3> QED BY <3>1, WarnsOf
    <2>3. CASE a = "env"
        <3>1. i.aspect.env = "legacy_port" /\ j.aspect.env = "good"
            BY <1>6, <1>7, <2>1, <2>3, PlatformFailures DEF Conditions
        <3>2. <<"platform", "settings.warning", "warn">> \in whole
            BY <1>6, <3>1, PlatformWarnings
        <3>3. <<"platform", "settings.warning", "warn">> \notin again
            BY <3>1, PlatformWarnings, ChecksByGroup
        <3> QED BY <3>2, <3>3
    <2>4. CASE a = "directories"
        <3>1. \E name \in {"runtime", "demo", "provisioning"} :
                 /\ <<"platform", name, "warn">> \in whole
                 /\ <<"platform", name, "pass">> \in again
            BY <1>6, <2>1, <2>4, PlatformWarnings DEF Conditions
        <3> QED BY <3>1, WarnsOf
    <2>5. CASE a \in {"tree", "config", "profile", "docker", "operations"}
        BY <1>6, <1>7, <1>8, <1>11, <2>1, <2>5, PlatformFailures, OtherFailures
           DEF Conditions, Notices
    <2>6. CASE a = "container"
        <3>1. <<"container", "grafana", "warn">> \in whole
            BY <1>6, <1>7, <1>8, <2>1, <2>6, ServiceFailures, ServiceWarnings DEF Conditions
        <3>2. <<"container", "grafana", "pass">> \in again
            BY <1>6, <1>9, <2>1, <2>6, ServiceWarnings
        <3> QED BY <3>1, <3>2, WarnsOf
    <2>7. CASE a = "ports"
        <3>1. \E key \in {<<"services", "published_ports">>, <<"http", "grafana">>} :
                 /\ <<key[1], key[2], "warn">> \in whole
                 /\ <<key[1], key[2], "pass">> \in again
            BY <1>6, <1>8, <1>9, <2>1, <2>7, ServiceWarnings DEF Conditions
        <3> QED BY <3>1, WarnsOf
    <2>8. CASE a = "connector"
        <3>1. \E key \in {<<"connector", "configuration">>, <<"connector", "credentials">>,
                           <<"connector", "tls">>, <<"telemetry", "runtime_capabilities">>} :
                 /\ <<key[1], key[2], "warn">> \in whole
                 /\ <<key[1], key[2], "pass">> \in again
            BY <1>6, <1>9, <1>11, <2>1, <2>8, ConnectorWarnings, OtherWarnings
               DEF Conditions, Notices
        <3> QED BY <3>1, WarnsOf
    <2>9. CASE a = "history"
        <3>1. <<"history", "store", "warn">> \in whole
            BY <1>6, <1>7, <1>11, <2>1, <2>9, OtherFailures, OtherWarnings DEF Conditions, Notices
        <3>2. <<"history", "store", "pass">> \in again
            BY <1>6, <1>9, <2>1, <2>9, OtherWarnings
        <3> QED BY <3>1, <3>2, WarnsOf
    <2>10. CASE a = "scheduler"
        <3>1. <<"scheduler", "state", "warn">> \in whole
            BY <1>6, <1>7, <1>11, <2>1, <2>10, OtherFailures, OtherWarnings DEF Conditions, Notices
        <3>2. <<"scheduler", "state", "pass">> \in again
            BY <1>6, <1>9, <2>1, <2>10, OtherWarnings
        <3> QED BY <3>1, <3>2, WarnsOf
    <2>11. CASE a = "dashboards"
        <3>1. \E name \in {"wallboard_freshness", "dashboard_publication"} :
                 /\ <<"operations", name, "warn">> \in whole
                 /\ <<"operations", name, "pass">> \in again
            BY <1>6, <1>9, <1>11, <2>1, <2>11, OtherWarnings DEF Conditions, Notices
        <3> QED BY <3>1, WarnsOf
    <2>12. CASE a = "telemetry"
        <3>1. \E name \in {"deployment_identity", "site_identity"} :
                 /\ <<"telemetry", name, "warn">> \in whole
                 /\ <<"telemetry", name, "pass">> \in again
            BY <1>6, <1>9, <1>11, <2>1, <2>12, OtherWarnings DEF Conditions
        <3> QED BY <3>1, WarnsOf
    <2> QED BY <2>2, <2>3, <2>4, <2>5, <2>6, <2>7, <2>8, <2>9, <2>10, <2>11, <2>12, AspectsAre
            DEF Faults
<1> QED BY <1>8, <1>10, <1>11

LEMMA InstallationsStay == DoctorSpec => [](installation \in Installations)
<1>1. DoctorInit => installation \in Installations
    <2> SUFFICES ASSUME NEW runtime \in BOOLEAN,
                        installation = [runtime |-> runtime, aspect |-> [a \in Aspects |-> "good"]]
                 PROVE  installation \in Installations
        BY DEF DoctorInit
    <2>1. [a \in Aspects |-> "good"] \in
              [Aspects -> {"good"} \cup UNION {Conditions[a] : a \in Aspects}]
        OBVIOUS
    <2> QED BY <2>1 DEF Installations
<1>2. installation \in Installations /\ [DoctorNext]_doctorVars => (installation \in Installations)'
    <2> SUFFICES ASSUME installation \in Installations, DoctorNext
                 PROVE  installation' \in Installations
        BY DEF doctorVars
    <2>1. PICK a \in Aspects : \E condition \in {"good"} \cup Conditions[a] : Becomes(a, condition)
        BY DEF DoctorNext
    <2> PICK condition \in {"good"} \cup Conditions[a] : Becomes(a, condition)
        BY <2>1
    <2>2. condition \in {"good"} \cup UNION {Conditions[b] : b \in Aspects}
        OBVIOUS
    <2> QED BY <2>2 DEF Becomes, Installations
<1> QED BY <1>1, <1>2, PTL DEF DoctorSpec

\* DiagnosticEngine.run, however many aspects of the installation are wrong at once
\* and whatever went wrong and was put right before: a narrower run makes the checks
\* of the whole one that concern it and agrees with it, and no fault goes untold.
THEOREM DoctorIsRight == DoctorSpec => []VerdictsHold
<1>1. installation \in Installations => VerdictsHold
    BY ScopesHold, FaultsHold DEF VerdictsHold
<1> QED BY <1>1, InstallationsStay, PTL

===============================================================================
