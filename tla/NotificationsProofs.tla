-------------------------- MODULE NotificationsProofs --------------------------
(***************************************************************************)
(* Theorems about Notifications, for any finite number of conditions, any  *)
(* channels, suppression window and number of incidents.  That a state     *)
(* file agrees with itself, and that an acknowledgement is lost only to an *)
(* actor that had not read it, holds whatever overlaps or dies; what one   *)
(* file keeps of Doctor's incidents and of the attempts is proved, as in   *)
(* the run, for actors that come one after the other.                      *)
(***************************************************************************)
EXTENDS Notifications, FiniteSetTheorems, TLAPS

Events == [condition : Conditions, open : BOOLEAN, acknowledged : BOOLEAN,
           recoveries : Nat, tried : [Channels -> Ages]]

\* A state file whose incidents are among the first n.
File(f, n) ==
    /\ f = [active |-> f.active, events |-> f.events]
    /\ f.active \in [Conditions -> Nat]
    /\ Recorded(f) \subseteq 1 .. n
    /\ f.events \in [Recorded(f) -> Events]

\* IncidentsConsistent, of any file.
Consistent(f) ==
    /\ \A i \in Recorded(f) : f.events[i].open <=> f.active[f.events[i].condition] = i
    /\ \A c \in Conditions : f.active[c] # NoIncident =>
         f.active[c] \in Recorded(f) /\ f.events[f.active[c]].condition = c
    /\ \A i \in Recorded(f) : f.events[i].recoveries = IF f.events[i].open THEN 0 ELSE 1

Good(f, n) == File(f, n) /\ Consistent(f)

TypeOK ==
    /\ raised \in SUBSET Conditions
    /\ pc \in [Actors -> {"idle", "observed", "writing"}]
    /\ seen \in [Actors -> SUBSET Conditions]
    /\ issued \in 0 .. MaxIncidents
    /\ since \in [Incidents -> [Channels -> Ages]]

\* What is on disk is consistent because what is about to replace it is.
Inv ==
    /\ TypeOK
    /\ Good(file, issued)
    /\ copy = [p \in Actors |-> copy[p]]
    /\ \A p \in Actors : Good(copy[p], issued)

\* No two actors are under way.
Alone == \A p, q \in Actors : p # q => pc[p] = "idle" \/ pc[q] = "idle"

\* Doctor's incidents are in the next file, unless Doctor was run.
Follows(p) ==
    pc[p] = "writing" /\ p # Cli =>
        \A c \in Doctor :
             file.active[c] # NoIncident => copy[p].active[c] = file.active[c]

\* The file records every attempt.
Matches(f) ==
    \A i \in Recorded(f), ch \in Channels : since[i][ch] = f.events[i].tried[ch]

AttemptsInv ==
    /\ (\A p \in Actors : pc[p] # "writing") => Matches(file)
    /\ \A p \in Actors : pc[p] = "writing" => Matches(copy[p])
    /\ \A i \in Incidents, ch \in Channels : i > issued => since[i][ch] = Repeat

SerialInv == Inv /\ Alone /\ \A p \in Actors : Follows(p)

-----------------------------------------------------------------------------
\* The operators an evaluation is made of

\* Opened numbers the fresh conditions, each one differently.
LEMMA OpenedNumbers ==
  ASSUME NEW p, NEW f, IsFiniteSet(Fresh(p, f)), issued \in Nat
  PROVE  /\ Cardinality(Fresh(p, f)) \in Nat
         /\ Opened(p, f) \in
              [Fresh(p, f) -> (issued + 1) .. (issued + Cardinality(Fresh(p, f)))]
         /\ \A c, d \in Fresh(p, f) : Opened(p, f)[c] = Opened(p, f)[d] => c = d
  <1> DEFINE S == Fresh(p, f)
             n == Cardinality(S)
             T == (issued + 1) .. (issued + n)
             Distinct(id) == \A c, d \in S : id[c] = id[d] => c = d
  <1>1. n \in Nat /\ ExistsBijection(1 .. n, S)
    BY FS_CardinalityType
  <1>2. PICK g \in Bijection(1 .. n, S) : TRUE
    BY <1>1 DEF ExistsBijection
  <1>3. g \in [1 .. n -> S] /\ \A c \in S : \E k \in 1 .. n : g[k] = c
    BY <1>2 DEF Bijection, Injection, Surjection
  <1> DEFINE at(c) == CHOOSE k \in 1 .. n : g[k] = c
             number == [c \in S |-> issued + at(c)]
  <1>4. \A c \in S : at(c) \in 1 .. n /\ g[at(c)] = c
    BY <1>3
  <1> HIDE DEF S, n, at
  <1>5. number \in [S -> T]
    BY <1>1, <1>4
  <1>6. \A c, d \in S : number[c] = number[d] => c = d
    <2> SUFFICES ASSUME NEW c \in S, NEW d \in S, number[c] = number[d]
                 PROVE  c = d
      OBVIOUS
    <2>1. at(c) = at(d)
      BY <1>1, <1>4
    <2> QED
      BY <2>1, <1>4
  <1>7. \E id \in [S -> T] : Distinct(id)
    BY <1>5, <1>6
  <1>8. Opened(p, f) = CHOOSE id \in [S -> T] : Distinct(id)
    BY DEF Opened, S, n
  <1>9. Opened(p, f) \in [S -> T] /\ Distinct(Opened(p, f))
    BY <1>7, <1>8
  <1> QED
    BY <1>1, <1>9 DEF S, n

\* The parts of an evaluation: fresh conditions get the new numbers, and no condition is
\* of two kinds.
LEMMA Parts ==
  ASSUME TypeOK, NEW p \in Actors, NEW f
  PROVE  /\ IsFiniteSet(Fresh(p, f)) /\ Fresh(p, f) \subseteq Conditions
         /\ issued \in Nat
         /\ \A c \in Fresh(p, f) : f.active[c] = NoIncident /\ c \notin Cleared(p, f)
         /\ \A c \in Cleared(p, f) : c \in Conditions /\ f.active[c] # NoIncident
  <1>1. seen[p] \subseteq Conditions /\ issued \in Nat
    BY BoundsAssumption DEF TypeOK
  <1>2. Fresh(p, f) \subseteq Conditions
    BY <1>1 DEF Fresh
  <1>3. IsFiniteSet(Fresh(p, f))
    BY <1>2, ConditionsAssumption, FS_Subset
  <1> QED
    BY <1>1, <1>2, <1>3 DEF Fresh, Cleared

\* The incidents an evaluation opens, and those it closes.
Numbers(p, f) == {Opened(p, f)[c] : c \in Fresh(p, f)}
Closes(p, f) == {f.active[c] : c \in Cleared(p, f)}

\* The new numbers are those of no recorded incident.
LEMMA NumbersAreNew ==
  ASSUME TypeOK, NEW p \in Actors, NEW f
  PROVE  \A i \in Numbers(p, f) :
           /\ i \in (issued + 1) .. (issued + Cardinality(Fresh(p, f)))
           /\ \E c \in Fresh(p, f) : Opened(p, f)[c] = i
  BY Parts, OpenedNumbers DEF Numbers

\* What an evaluation does to the events of a file.
LEMMA EvaluatedEvents ==
  ASSUME TypeOK, NEW p \in Actors, NEW f, File(f, issued)
  PROVE  /\ Evaluated(p, f) =
              [active |-> Evaluated(p, f).active, events |-> Evaluated(p, f).events]
         /\ Evaluated(p, f).active = [c \in Conditions |-> ActiveAfter(p, f, c)]
         /\ DOMAIN Evaluated(p, f).events = Recorded(f) \cup Numbers(p, f)
         /\ Evaluated(p, f).events = [i \in Recorded(f) \cup Numbers(p, f) |-> Evaluated(p, f).events[i]]
         /\ \A i \in Numbers(p, f) :
              i \notin Recorded(f) /\ Evaluated(p, f).events[i] = New(p, f, i)
         /\ \A i \in Recorded(f) :
              Evaluated(p, f).events[i] =
                [condition |-> f.events[i].condition,
                 open |-> f.events[i].open /\ i \notin Closes(p, f),
                 acknowledged |-> f.events[i].acknowledged,
                 recoveries |-> IF i \in Closes(p, f) THEN f.events[i].recoveries + 1
                                ELSE f.events[i].recoveries,
                 tried |-> [ch \in Channels |->
                     IF <<i, ch>> \in Deliveries(p, f) THEN 0 ELSE f.events[i].tried[ch]]]
  <1> DEFINE N == Numbers(p, f)
             after(i) == [f.events[i] EXCEPT
                            !.open = f.events[i].open /\ i \notin Closes(p, f),
                            !.recoveries = IF i \in Closes(p, f)
                              THEN f.events[i].recoveries + 1 ELSE f.events[i].recoveries,
                            !.tried = [ch \in Channels |->
                              IF <<i, ch>> \in Deliveries(p, f) THEN 0
                              ELSE f.events[i].tried[ch]]]
             events == [i \in Recorded(f) \cup N |-> IF i \in N THEN New(p, f, i) ELSE after(i)]
             active == [c \in Conditions |-> ActiveAfter(p, f, c)]
  <1>1. Evaluated(p, f) = [active |-> active, events |-> events]
    BY Zenon DEF Evaluated, Refreshed, Numbers, Closes
  <1>2. \A i \in N : i \notin Recorded(f)
    <2>1. \A i \in N : i > issued
      BY NumbersAreNew, Parts
    <2> QED
      BY <2>1, Parts DEF File
  <1>3. \A i \in Recorded(f) :
          after(i) = [condition |-> f.events[i].condition,
                 open |-> f.events[i].open /\ i \notin Closes(p, f),
                 acknowledged |-> f.events[i].acknowledged,
                 recoveries |-> IF i \in Closes(p, f) THEN f.events[i].recoveries + 1
                                ELSE f.events[i].recoveries,
                 tried |-> [ch \in Channels |->
                     IF <<i, ch>> \in Deliveries(p, f) THEN 0 ELSE f.events[i].tried[ch]]]
    <2> SUFFICES ASSUME NEW i \in Recorded(f)
                 PROVE  after(i) = [condition |-> f.events[i].condition,
                   open |-> f.events[i].open /\ i \notin Closes(p, f),
                   acknowledged |-> f.events[i].acknowledged,
                   recoveries |-> IF i \in Closes(p, f) THEN f.events[i].recoveries + 1
                                  ELSE f.events[i].recoveries,
                   tried |-> [ch \in Channels |->
                       IF <<i, ch>> \in Deliveries(p, f) THEN 0 ELSE f.events[i].tried[ch]]]
      OBVIOUS
    <2>1. f.events[i] \in Events
      BY DEF File
    <2>2. f.events[i] = [condition |-> f.events[i].condition, open |-> f.events[i].open,
             acknowledged |-> f.events[i].acknowledged,
             recoveries |-> f.events[i].recoveries, tried |-> f.events[i].tried]
      BY <2>1 DEF Events
    <2> DEFINE tried == [ch \in Channels |->
                 IF <<i, ch>> \in Deliveries(p, f) THEN 0 ELSE f.events[i].tried[ch]]
               recoveries == IF i \in Closes(p, f) THEN f.events[i].recoveries + 1
                             ELSE f.events[i].recoveries
               open == f.events[i].open /\ i \notin Closes(p, f)
    <2>3. after(i) = [f.events[i] EXCEPT !.open = open, !.recoveries = recoveries,
                                         !.tried = tried]
      OBVIOUS
    <2>4. tried \in [Channels -> Ages] /\ recoveries \in Nat /\ open \in BOOLEAN
      BY <2>1, BoundsAssumption DEF Events, Ages
    <2> HIDE DEF tried, recoveries, open
    <2>5. /\ after(i) \in Events
          /\ after(i).condition = f.events[i].condition /\ after(i).open = open
          /\ after(i).acknowledged = f.events[i].acknowledged
          /\ after(i).recoveries = recoveries /\ after(i).tried = tried
      <3> HIDE DEF after
      <3> QED
        BY <2>1, <2>3, <2>4 DEF Events
    <2>6. after(i) = [condition |-> f.events[i].condition, open |-> open,
             acknowledged |-> f.events[i].acknowledged, recoveries |-> recoveries,
             tried |-> tried]
      <3> HIDE DEF after
      <3>1. \A k \in Events : k = [condition |-> k.condition, open |-> k.open,
               acknowledged |-> k.acknowledged, recoveries |-> k.recoveries,
               tried |-> k.tried]
        BY DEF Events
      <3> QED
        BY <2>5, <3>1
    <2> QED
      BY <2>6 DEF tried, recoveries, open
  <1> HIDE DEF after, N
  <1> DEFINE E == Evaluated(p, f)
  <1>4. E = [active |-> E.active, events |-> E.events] /\ E.active = active /\ E.events = events
    <2> HIDE DEF active, events
    <2> QED
      BY <1>1
  <1>5. /\ DOMAIN events = Recorded(f) \cup N
        /\ events = [i \in Recorded(f) \cup N |-> events[i]]
        /\ \A i \in N : events[i] = New(p, f, i)
        /\ \A i \in Recorded(f) : events[i] = after(i)
    BY <1>2
  <1> HIDE DEF E, events
  <1> QED
    BY <1>2, <1>3, <1>4, <1>5 DEF N, E

\* A new event is of the fresh condition that has its number.
LEMMA NewEvent ==
  ASSUME TypeOK, NEW p \in Actors, NEW f, NEW i \in Numbers(p, f)
  PROVE  /\ New(p, f, i) \in Events
         /\ New(p, f, i).condition \in Fresh(p, f)
         /\ Opened(p, f)[New(p, f, i).condition] = i
         /\ New(p, f, i).open /\ New(p, f, i).recoveries = 0
         /\ New(p, f, i).tried = [ch \in Channels |-> 0]
  <1> DEFINE condition == CHOOSE c \in Fresh(p, f) : Opened(p, f)[c] = i
  <1>1. condition \in Fresh(p, f) /\ Opened(p, f)[condition] = i
    BY NumbersAreNew
  <1>2. [ch \in Channels |-> 0] \in [Channels -> Ages]
    BY BoundsAssumption DEF Ages
  <1> HIDE DEF condition
  <1>3. New(p, f, i) = [condition |-> condition, open |-> TRUE, acknowledged |-> FALSE,
                        recoveries |-> 0, tried |-> [ch \in Channels |-> 0]]
    BY DEF New, condition
  <1>4. condition \in Conditions
    BY <1>1, Parts
  <1> QED
    BY <1>1, <1>2, <1>3, <1>4 DEF Events

\* An evaluation of a consistent file yields a consistent one.
LEMMA EvaluatedGood ==
  ASSUME TypeOK, NEW p \in Actors, NEW f, Good(f, issued)
  PROVE  Good(Evaluated(p, f), issued + Cardinality(Fresh(p, f)))
  <1> DEFINE E == Evaluated(p, f)
             N == Numbers(p, f)
             n == Cardinality(Fresh(p, f))
             D == Closes(p, f)
  <1>1. File(f, issued) /\ Consistent(f)
    BY DEF Good
  <1>2. n \in Nat /\ issued \in Nat
    BY Parts, OpenedNumbers
  <1>3. \A i \in N : i \in (issued + 1) .. (issued + n)
    BY NumbersAreNew
  <1>4. \A i \in Recorded(f) : i \in 1 .. issued /\ f.events[i] \in Events
    BY <1>1 DEF File
  <1>5. \A c \in Conditions : f.active[c] \in Nat
    BY <1>1 DEF File
  <1>6. /\ E.active = [c \in Conditions |-> ActiveAfter(p, f, c)]
        /\ DOMAIN E.events = Recorded(f) \cup N
    BY <1>1, EvaluatedEvents
  <1>7. \A c \in Fresh(p, f) : E.active[c] = Opened(p, f)[c] /\ Opened(p, f)[c] \in N
    BY <1>6, Parts DEF ActiveAfter, Numbers
  <1>8. \A c \in Cleared(p, f) : E.active[c] = NoIncident /\ f.active[c] \in D
    BY <1>6, Parts DEF ActiveAfter, Closes
  <1>9. \A c \in Conditions : c \notin Fresh(p, f) /\ c \notin Cleared(p, f)
          => E.active[c] = f.active[c]
    BY <1>6 DEF ActiveAfter
  <1>10. \A i \in Recorded(f) :
           /\ E.events[i].condition = f.events[i].condition
           /\ E.events[i].open <=> f.events[i].open /\ i \notin D
           /\ E.events[i].recoveries = IF i \in D THEN f.events[i].recoveries + 1
                                       ELSE f.events[i].recoveries
    <2> SUFFICES ASSUME NEW i \in Recorded(f)
                 PROVE  /\ E.events[i].condition = f.events[i].condition
                        /\ E.events[i].open <=> f.events[i].open /\ i \notin D
                        /\ E.events[i].recoveries = IF i \in D THEN f.events[i].recoveries + 1
                                                    ELSE f.events[i].recoveries
      OBVIOUS
    <2> DEFINE tried == [ch \in Channels |->
                 IF <<i, ch>> \in Deliveries(p, f) THEN 0 ELSE f.events[i].tried[ch]]
               recoveries == IF i \in D THEN f.events[i].recoveries + 1
                             ELSE f.events[i].recoveries
               open == f.events[i].open /\ i \notin D
    <2>1. E.events[i] = [condition |-> f.events[i].condition, open |-> open,
             acknowledged |-> f.events[i].acknowledged, recoveries |-> recoveries,
             tried |-> tried]
      BY <1>1, EvaluatedEvents
    <2> HIDE DEF tried, recoveries, open, E
    <2>2. /\ E.events[i].condition = f.events[i].condition
          /\ E.events[i].open = open /\ E.events[i].recoveries = recoveries
      BY <2>1
    <2> QED
      BY <2>2 DEF recoveries, open
  <1>11. \A i \in N : i \notin Recorded(f) /\ E.events[i] = New(p, f, i)
    BY <1>1, EvaluatedEvents
  <1>12. \A i \in D : \E c \in Cleared(p, f) : f.active[c] = i
    BY DEF Closes
  <1>13. \A c \in Fresh(p, f) : c \in Conditions /\ f.active[c] = NoIncident
    BY Parts
  <1>14. \A c \in Cleared(p, f) : c \in Conditions /\ f.active[c] # NoIncident
    BY Parts
  <1>15. \A i \in Recorded(f) : f.events[i].condition \in Conditions
    BY <1>4 DEF Events
  <1>16. \A i \in Recorded(f) : i \in D => f.events[i].condition \in Cleared(p, f)
                                            /\ f.events[i].open
    BY <1>1, <1>12, <1>14, <1>15 DEF Consistent
  <1>17. File(E, issued + n)
    <2>1. E.active \in [Conditions -> Nat]
      <3>1. ASSUME NEW c \in Conditions
            PROVE  E.active[c] \in Nat
        <4>1. CASE c \in Fresh(p, f)
          BY <4>1, <1>2, <1>3, <1>7
        <4>2. CASE c \in Cleared(p, f)
          BY <4>2, <1>8 DEF NoIncident
        <4>3. CASE c \notin Fresh(p, f) /\ c \notin Cleared(p, f)
          BY <4>3, <1>5, <1>9
        <4> QED
          BY <4>1, <4>2, <4>3
      <3> QED
        BY <3>1, <1>6
    <2>2. Recorded(E) \subseteq 1 .. (issued + n)
      BY <1>2, <1>3, <1>4, <1>6 DEF Recorded
    <2>3. \A i \in Recorded(f) : E.events[i] \in Events
      <3> SUFFICES ASSUME NEW i \in Recorded(f)
                   PROVE  E.events[i] \in Events
        OBVIOUS
      <3> DEFINE tried == [ch \in Channels |->
                   IF <<i, ch>> \in Deliveries(p, f) THEN 0 ELSE f.events[i].tried[ch]]
                 recoveries == IF i \in D THEN f.events[i].recoveries + 1
                               ELSE f.events[i].recoveries
                 open == f.events[i].open /\ i \notin D
      <3>1. /\ tried \in [Channels -> Ages] /\ recoveries \in Nat /\ open \in BOOLEAN
            /\ f.events[i].condition \in Conditions /\ f.events[i].acknowledged \in BOOLEAN
        BY <1>4, BoundsAssumption DEF Events, Ages
      <3>2. E.events[i] = [condition |-> f.events[i].condition, open |-> open,
               acknowledged |-> f.events[i].acknowledged, recoveries |-> recoveries,
               tried |-> tried]
        BY <1>1, EvaluatedEvents
      <3> HIDE DEF tried, recoveries, open
      <3> QED
        BY <3>1, <3>2 DEF Events
    <2>4. \A i \in N : E.events[i] \in Events
      BY <1>11, NewEvent
    <2>5. E = [active |-> E.active, events |-> E.events]
          /\ E.events = [i \in Recorded(f) \cup N |-> E.events[i]]
      BY <1>1, EvaluatedEvents
    <2>6. E.events \in [Recorded(E) -> Events]
      <3> HIDE DEF E, N
      <3> QED
        BY <1>6, <2>3, <2>4, <2>5 DEF Recorded
    <2> QED
      BY <2>1, <2>2, <2>5, <2>6 DEF File
  <1>18. Consistent(E)
    <2>1. ASSUME NEW i \in Recorded(E)
          PROVE  /\ E.events[i].open <=> E.active[E.events[i].condition] = i
                 /\ E.events[i].recoveries = IF E.events[i].open THEN 0 ELSE 1
      <3>1. CASE i \in N
        BY <3>1, <1>7, <1>11, NewEvent
      <3>2. CASE i \in Recorded(f)
        <4> DEFINE c == f.events[i].condition
        <4>1. /\ f.events[i].open <=> f.active[c] = i
              /\ f.events[i].recoveries = IF f.events[i].open THEN 0 ELSE 1
          BY <3>2, <1>1 DEF Consistent
        <4>2. CASE i \in D
          <5>1. E.active[c] = NoIncident /\ f.events[i].open
            BY <3>2, <4>2, <1>8, <1>16
          <5> QED
            BY <3>2, <4>1, <4>2, <5>1, <1>4, <1>10 DEF NoIncident
        <4>3. CASE i \notin D
          <5>1. CASE c \in Fresh(p, f)
            BY <3>2, <4>1, <4>3, <5>1, <1>2, <1>3, <1>4, <1>7, <1>10, <1>13 DEF NoIncident
          <5>2. CASE c \in Cleared(p, f)
            BY <3>2, <4>1, <4>3, <5>2, <1>4, <1>8, <1>10 DEF NoIncident
          <5>3. CASE c \notin Fresh(p, f) /\ c \notin Cleared(p, f)
            BY <3>2, <4>1, <4>3, <5>3, <1>9, <1>10, <1>15
          <5> QED
            BY <5>1, <5>2, <5>3
        <4> QED
          BY <4>2, <4>3
      <3> QED
        BY <3>1, <3>2, <1>6 DEF Recorded
    <2>2. ASSUME NEW c \in Conditions, E.active[c] # NoIncident
          PROVE  E.active[c] \in Recorded(E) /\ E.events[E.active[c]].condition = c
      <3>1. CASE c \in Fresh(p, f)
        <4> DEFINE i == Opened(p, f)[c]
        <4>1. i \in N /\ E.active[c] = i /\ E.events[i] = New(p, f, i)
          BY <3>1, <1>7, <1>11
        <4>2. New(p, f, i).condition = c
          BY <3>1, <4>1, NewEvent, Parts, OpenedNumbers
        <4> QED
          BY <4>1, <4>2, <1>6 DEF Recorded
      <3>2. CASE c \notin Fresh(p, f)
        <4>1. E.active[c] = f.active[c]
          BY <2>2, <3>2, <1>8, <1>9
        <4>2. f.active[c] \in Recorded(f) /\ f.events[f.active[c]].condition = c
          BY <2>2, <4>1, <1>1 DEF Consistent
        <4> QED
          BY <4>1, <4>2, <1>6, <1>10 DEF Recorded
      <3> QED
        BY <3>1, <3>2
    <2> QED
      BY <2>1, <2>2 DEF Consistent
  <1> QED
    BY <1>17, <1>18 DEF Good

\* Files that have the same incidents in the same state.
Alike(f, g) ==
    /\ g.active = f.active /\ Recorded(g) = Recorded(f)
    /\ \A i \in Recorded(f) : /\ g.events[i].condition = f.events[i].condition
                              /\ g.events[i].open = f.events[i].open
                              /\ g.events[i].recoveries = f.events[i].recoveries

\* A file like a consistent one is consistent.
LEMMA AlikeConsistent ==
  ASSUME NEW f, NEW g, Alike(f, g), Consistent(f)
  PROVE  Consistent(g)
  BY DEF Alike, Consistent

\* Time changes nothing but the age of the attempts.
LEMMA AgingAlike ==
  ASSUME NEW f, NEW n, Good(f, n)
  PROVE  /\ Good(Aging(f), n) /\ Alike(f, Aging(f))
         /\ \A i \in Recorded(f) :
              /\ Aging(f).events[i].acknowledged = f.events[i].acknowledged
              /\ \A ch \in Channels :
                   Aging(f).events[i].tried[ch] = Older(f.events[i].tried[ch])
  <1> DEFINE older(i) == [ch \in Channels |-> Older(f.events[i].tried[ch])]
             aged(i) == [f.events[i] EXCEPT !.tried = older(i)]
             events == [i \in Recorded(f) |-> aged(i)]
  <1>1. File(f, n) /\ Consistent(f)
    BY DEF Good
  <1>2. Aging(f) = [f EXCEPT !.events = events]
    BY DEF Aging
  <1>3. ASSUME NEW i \in Recorded(f)
        PROVE  /\ aged(i) \in Events
               /\ aged(i).condition = f.events[i].condition /\ aged(i).open = f.events[i].open
               /\ aged(i).acknowledged = f.events[i].acknowledged
               /\ aged(i).recoveries = f.events[i].recoveries /\ aged(i).tried = older(i)
    <2>1. f.events[i] \in Events
      BY <1>1 DEF File
    <2>2. older(i) \in [Channels -> Ages]
      BY <2>1, BoundsAssumption DEF Events, Older, Ages
    <2> HIDE DEF older
    <2> QED
      BY <2>1, <2>2 DEF Events
  <1> HIDE DEF aged
  <1>4. events \in [Recorded(f) -> Events]
    BY <1>3
  <1>5. \A i \in Recorded(f) : events[i] = aged(i)
    OBVIOUS
  <1> HIDE DEF events
  <1>6. Aging(f) = [active |-> f.active, events |-> events]
    BY <1>1, <1>2 DEF File
  <1>7. Aging(f).active = f.active /\ Aging(f).events = events /\ DOMAIN events = Recorded(f)
    BY <1>4, <1>6
  <1>8. Alike(f, Aging(f))
    BY <1>3, <1>5, <1>7 DEF Alike, Recorded
  <1>9. File(Aging(f), n)
    BY <1>1, <1>4, <1>6, <1>7 DEF File, Recorded
  <1>10. ASSUME NEW i \in Recorded(f)
         PROVE  /\ Aging(f).events[i].acknowledged = f.events[i].acknowledged
                /\ \A ch \in Channels :
                     Aging(f).events[i].tried[ch] = Older(f.events[i].tried[ch])
    <2>1. Aging(f).events[i] = aged(i)
      BY <1>5, <1>7
    <2>2. aged(i).acknowledged = f.events[i].acknowledged /\ aged(i).tried = older(i)
      BY <1>3
    <2>3. \A ch \in Channels : older(i)[ch] = Older(f.events[i].tried[ch])
      OBVIOUS
    <2> QED
      BY <2>1, <2>2, <2>3, Zenon
  <1> QED
    BY <1>1, <1>8, <1>9, <1>10, AlikeConsistent DEF Good

\* An acknowledgement changes nothing else.
LEMMA AcknowledgedAlike ==
  ASSUME NEW f, NEW n, Good(f, n), NEW i \in Recorded(f),
         NEW g, g = [f EXCEPT !.events[i].acknowledged = TRUE]
  PROVE  /\ Good(g, n) /\ Alike(f, g)
         /\ \A j \in Recorded(f) :
              /\ f.events[j].acknowledged => g.events[j].acknowledged
              /\ g.events[j].tried = f.events[j].tried
  <1> DEFINE event == [f.events[i] EXCEPT !.acknowledged = TRUE]
             events == [f.events EXCEPT ![i] = event]
  <1>1. File(f, n) /\ Consistent(f)
    BY DEF Good
  <1>2. g = [f EXCEPT !.events = events]
    OBVIOUS
  <1>3. \A j \in Recorded(f) : f.events[j] \in Events
    BY <1>1 DEF File
  <1>4. /\ event \in Events
        /\ event.condition = f.events[i].condition /\ event.open = f.events[i].open
        /\ event.acknowledged = TRUE
        /\ event.recoveries = f.events[i].recoveries /\ event.tried = f.events[i].tried
    BY <1>3 DEF Events
  <1> HIDE DEF event
  <1>5. /\ events \in [Recorded(f) -> Events] /\ events[i] = event
        /\ \A j \in Recorded(f) : j # i => events[j] = f.events[j]
    BY <1>1, <1>3, <1>4 DEF File
  <1> HIDE DEF events
  <1>6. g = [active |-> f.active, events |-> events]
    BY <1>1, <1>2 DEF File
  <1>7. g.active = f.active /\ g.events = events /\ DOMAIN events = Recorded(f)
    BY <1>5, <1>6
  <1>8. ASSUME NEW j \in Recorded(f)
        PROVE  /\ g.events[j].condition = f.events[j].condition
               /\ g.events[j].open = f.events[j].open
               /\ g.events[j].recoveries = f.events[j].recoveries
               /\ f.events[j].acknowledged => g.events[j].acknowledged
               /\ g.events[j].tried = f.events[j].tried
    <2>1. CASE j = i
      BY <2>1, <1>4, <1>5, <1>7
    <2>2. CASE j # i
      BY <2>2, <1>5, <1>7
    <2> QED
      BY <2>1, <2>2
  <1>9. Alike(f, g)
    BY <1>7, <1>8 DEF Alike, Recorded
  <1>10. File(g, n)
    BY <1>1, <1>5, <1>6, <1>7 DEF File, Recorded
  <1> QED
    BY <1>1, <1>8, <1>9, <1>10, AlikeConsistent DEF Good

\* More incidents may have been opened since the file was read.
LEMMA LaterGood ==
  ASSUME NEW f, NEW n \in Nat, NEW m \in Nat, n <= m, Good(f, n)
  PROVE  Good(f, m)
  BY DEF Good, File

\* A file without incidents is consistent.
LEMMA EmptyGood == \A n \in Nat : Good(EmptyFile, n)
  <1> DEFINE none == [i \in {} |-> {}]
             free == [c \in Conditions |-> NoIncident]
  <1>1. /\ DOMAIN none = {} /\ none \in [{} -> Events]
        /\ free \in [Conditions -> Nat] /\ \A c \in Conditions : free[c] = NoIncident
    BY DEF NoIncident
  <1> HIDE DEF none, free
  <1>2. EmptyFile = [active |-> free, events |-> none]
    BY DEF EmptyFile, none, free
  <1>3. EmptyFile.active = free /\ EmptyFile.events = none /\ Recorded(EmptyFile) = {}
    BY <1>1, <1>2 DEF Recorded
  <1> QED
    BY <1>1, <1>2, <1>3 DEF Good, File, Consistent

-----------------------------------------------------------------------------
\* Whatever overlaps or dies

\* No file, no copy, no incident.
LEMMA InitInv == Init => Inv
  <1> SUFFICES ASSUME Init PROVE Inv
    OBVIOUS
  <1>1. TypeOK
    BY BoundsAssumption DEF Init, TypeOK, Ages
  <1>2. Good(EmptyFile, 0)
    BY EmptyGood
  <1> QED
    BY <1>1, <1>2 DEF Init, Inv

\* A step that leaves the files, the copies and the number of incidents alone.
LEMMA QuietStep ==
  ASSUME Inv, TypeOK', UNCHANGED <<file, copy, issued>>
  PROVE  Inv'
  BY DEF Inv, Good, File, Consistent, Recorded

\* Reading: a copy of what is on disk, or of an evaluation of it.
LEMMA CopyStep ==
  ASSUME Inv, TypeOK', NEW p \in Actors, NEW g, issued <= issued',
         copy' = [copy EXCEPT ![p] = g], UNCHANGED file, Good(g, issued')
  PROVE  Inv'
  <1>1. issued \in Nat /\ issued' \in Nat
    BY BoundsAssumption DEF Inv, TypeOK
  <1>2. Good(file', issued')
    <2>1. Good(file, issued')
      BY <1>1, LaterGood DEF Inv
    <2> QED
      BY <2>1
  <1>3. copy' = [q \in Actors |-> copy'[q]]
    BY DEF Inv
  <1>4. ASSUME NEW q \in Actors
        PROVE  Good(copy'[q], issued')
    <2>1. CASE q = p
      <3>1. copy'[q] = g
        BY <2>1 DEF Inv
      <3> QED
        BY <3>1
    <2>2. CASE q # p
      <3>1. copy'[q] = copy[q]
        BY <2>2 DEF Inv
      <3>2. Good(copy[q], issued')
        BY <1>1, LaterGood DEF Inv
      <3> QED
        BY <3>1, <3>2
    <2> QED
      BY <2>1, <2>2
  <1> QED
    BY <1>2, <1>3, <1>4 DEF Inv

\* Every step keeps the file, and what may replace it, consistent.
LEMMA NextInv == Inv /\ [Next]_vars => Inv'
  <1> SUFFICES ASSUME Inv, [Next]_vars PROVE Inv'
    OBVIOUS
  <1> USE BoundsAssumption
  <1>1. ASSUME NEW p \in Actors, Observe(p)
        PROVE  Inv'
    <2>1. TypeOK'
      BY <1>1 DEF Inv, TypeOK, Observe
    <2> QED
      BY <1>1, <2>1, QuietStep DEF Observe
  <1>2. ASSUME NEW p \in Actors, Evaluate(p)
        PROVE  Inv'
    <2>1. Good(Evaluated(p, file), issued + Cardinality(Fresh(p, file)))
      BY EvaluatedGood DEF Inv
    <2>2. Cardinality(Fresh(p, file)) \in Nat /\ issued \in Nat
      BY Parts, OpenedNumbers DEF Inv
    <2>3. TypeOK'
      BY <1>2, <2>2 DEF Inv, TypeOK, Evaluate, Ages
    <2> DEFINE g == Evaluated(p, file)
    <2>4. /\ issued' = issued + Cardinality(Fresh(p, file)) /\ copy' = [copy EXCEPT ![p] = g]
          /\ UNCHANGED file
      BY <1>2 DEF Evaluate
    <2>5. Good(g, issued')
      BY <2>1, <2>4
    <2>6. issued <= issued'
      BY <2>2, <2>4
    <2> HIDE DEF g
    <2> QED
      BY <2>3, <2>4, <2>5, <2>6, CopyStep
  <1>3. ASSUME NEW p \in Actors, Write(p)
        PROVE  Inv'
    <2>1. TypeOK'
      BY <1>3 DEF Inv, TypeOK, Write
    <2>2. file' = copy[p] /\ issued' = issued /\ copy' = [copy EXCEPT ![p] = EmptyFile]
      BY <1>3 DEF Write
    <2>3. Good(file', issued')
      <3>1. Good(copy[p], issued)
        BY DEF Inv
      <3> QED
        BY <2>2, <3>1
    <2>4. ASSUME NEW q \in Actors
          PROVE  Good(copy'[q], issued')
      <3>1. copy'[q] = IF q = p THEN EmptyFile ELSE copy[q]
        BY <2>2 DEF Inv
      <3>2. Good(copy[q], issued) /\ Good(EmptyFile, issued)
        BY EmptyGood DEF Inv, TypeOK
      <3> QED
        BY <2>2, <3>1, <3>2
    <2>5. copy' = [q \in Actors |-> copy'[q]]
      BY <2>2 DEF Inv
    <2> QED
      BY <2>1, <2>3, <2>4, <2>5 DEF Inv
  <1>4. ASSUME NEW p \in Actors, Abort(p)
        PROVE  Inv'
    <2>1. TypeOK'
      BY <1>4 DEF Inv, TypeOK, Abort
    <2>2. Good(EmptyFile, issued') /\ issued' = issued
      BY <1>4, EmptyGood DEF Inv, TypeOK, Abort
    <2> QED
      BY <1>4, <2>1, <2>2, CopyStep DEF Abort, Inv, TypeOK
  <1>5. ASSUME Test
        PROVE  Inv'
    <2>1. TypeOK'
      BY <1>5 DEF Inv, TypeOK, Test, MayStart, Actors, Cli
    <2>2. issued' = issued /\ copy' = [copy EXCEPT ![Cli] = file] /\ UNCHANGED file
      BY <1>5 DEF Test
    <2>3. Good(file, issued')
      BY <2>2 DEF Inv
    <2> QED
      BY <2>1, <2>2, <2>3, CopyStep DEF Inv, TypeOK, Actors
  <1>6. ASSUME NEW i \in Incidents, Acknowledge(i)
        PROVE  Inv'
    <2>1. TypeOK'
      BY <1>6 DEF Inv, TypeOK, Acknowledge, MayStart, Actors, Operator
    <2> DEFINE g == [file EXCEPT !.events[i].acknowledged = TRUE]
    <2>2. issued' = issued /\ copy' = [copy EXCEPT ![Operator] = g] /\ UNCHANGED file
      BY <1>6 DEF Acknowledge
    <2>3. Good(g, issued)
      BY <1>6, AcknowledgedAlike DEF Inv, Acknowledge
    <2>4. Good(g, issued')
      BY <2>2, <2>3
    <2> HIDE DEF g
    <2> QED
      BY <2>1, <2>2, <2>4, CopyStep DEF Inv, TypeOK, Actors
  <1>7. ASSUME NEW c \in Conditions, Raise(c) \/ Clear(c)
        PROVE  Inv'
    <2>1. TypeOK'
      BY <1>7 DEF Inv, TypeOK, Raise, Clear
    <2> QED
      BY <1>7, <2>1, QuietStep DEF Raise, Clear
  <1>8. ASSUME Tick
        PROVE  Inv'
    <2>1. TypeOK'
      BY <1>8 DEF Inv, TypeOK, Tick, Older, Ages
    <2>2. /\ file' = Aging(file) /\ copy' = [p \in Actors |-> Aging(copy[p])]
          /\ issued' = issued
      BY <1>8 DEF Tick
    <2>3. Good(Aging(file), issued) /\ \A p \in Actors : Good(Aging(copy[p]), issued)
      BY AgingAlike DEF Inv
    <2>4. Good(file', issued')
      BY <2>2, <2>3
    <2>5. ASSUME NEW p \in Actors
          PROVE  Good(copy'[p], issued')
      <3>1. copy'[p] = Aging(copy[p])
        BY <2>2
      <3> QED
        BY <2>2, <2>3, <3>1
    <2>6. copy' = [p \in Actors |-> copy'[p]]
      BY <2>2
    <2> QED
      BY <2>1, <2>4, <2>5, <2>6 DEF Inv
  <1>9. ASSUME UNCHANGED vars
        PROVE  Inv'
    <2>1. TypeOK'
      BY <1>9 DEF Inv, TypeOK, vars, world
    <2> QED
      BY <1>9, <2>1, QuietStep DEF vars, world
  <1> QED
    BY <1>1, <1>2, <1>3, <1>4, <1>5, <1>6, <1>7, <1>8, <1>9 DEF Next

\* The invariant holds in every reachable state.
LEMMA Invariance == Spec => []Inv
  BY InitInv, NextInv, PTL DEF Spec

\* The list of active incidents and the event log agree: a condition has one open
\* event, its active one, and an event was closed by exactly one recovery, whichever
\* evaluations, tests and acknowledgements overlap or die before they write.
THEOREM FilesAgree == Spec => []IncidentsConsistent
  <1>1. Inv => IncidentsConsistent
    BY DEF Inv, Good, Consistent, IncidentsConsistent
  <1> QED
    BY <1>1, Invariance, PTL

\* An evaluation keeps the acknowledgements and, without Doctor, Doctor's incidents.
LEMMA EvaluatedKeeps ==
  ASSUME TypeOK, NEW p \in Actors, NEW f, Good(f, issued)
  PROVE  /\ \A i \in Recorded(f) :
              /\ i \in Recorded(Evaluated(p, f))
              /\ f.events[i].acknowledged => Evaluated(p, f).events[i].acknowledged
         /\ p # Cli => \A c \in Doctor :
              f.active[c] # NoIncident => Evaluated(p, f).active[c] = f.active[c]
  <1> DEFINE E == Evaluated(p, f)
  <1>1. File(f, issued)
    BY DEF Good
  <1>2. ASSUME NEW i \in Recorded(f)
        PROVE  /\ i \in Recorded(E)
               /\ f.events[i].acknowledged => E.events[i].acknowledged
    <2>1. i \in Recorded(E)
      BY <1>1, EvaluatedEvents DEF Recorded
    <2> DEFINE tried == [ch \in Channels |->
                 IF <<i, ch>> \in Deliveries(p, f) THEN 0 ELSE f.events[i].tried[ch]]
               recoveries == IF i \in Closes(p, f) THEN f.events[i].recoveries + 1
                             ELSE f.events[i].recoveries
               open == f.events[i].open /\ i \notin Closes(p, f)
    <2>2. E.events[i] = [condition |-> f.events[i].condition, open |-> open,
             acknowledged |-> f.events[i].acknowledged, recoveries |-> recoveries,
             tried |-> tried]
      BY <1>1, EvaluatedEvents
    <2> HIDE DEF tried, recoveries, open, E
    <2>3. E.events[i].acknowledged = f.events[i].acknowledged
      BY <2>2
    <2> QED
      BY <2>1, <2>3
  <1>3. ASSUME p # Cli, NEW c \in Doctor, f.active[c] # NoIncident
        PROVE  E.active[c] = f.active[c]
    <2>1. c \in Conditions
      BY DoctorAssumption
    <2>2. c \notin Fresh(p, f) /\ c \notin Cleared(p, f)
      BY <1>3 DEF Fresh, Cleared, Preserved
    <2>3. E.active = [d \in Conditions |-> ActiveAfter(p, f, d)]
      BY <1>1, EvaluatedEvents
    <2> HIDE DEF E
    <2>4. E.active[c] = ActiveAfter(p, f, c)
      BY <2>1, <2>3
    <2> QED
      BY <2>2, <2>4 DEF ActiveAfter
  <1> QED
    BY <1>2, <1>3

\* Nothing that is made of a file loses an acknowledgement of it.
LEMMA AcknowledgedStays ==
  ASSUME TypeOK, NEW f, Good(f, issued), NEW i, Acknowledged(f, i)
  PROVE  /\ Acknowledged(Aging(f), i)
         /\ \A p \in Actors : Acknowledged(Evaluated(p, f), i)
         /\ \A j \in Recorded(f) :
              Acknowledged([f EXCEPT !.events[j].acknowledged = TRUE], i)
  <1>1. i \in Recorded(f) /\ f.events[i].acknowledged
    BY DEF Acknowledged
  <1>2. Acknowledged(Aging(f), i)
    <2> DEFINE g == Aging(f)
    <2>1. Alike(f, g) /\ g.events[i].acknowledged = f.events[i].acknowledged
      BY <1>1, AgingAlike
    <2> HIDE DEF g
    <2>2. Acknowledged(g, i)
      BY <1>1, <2>1 DEF Alike, Recorded, Acknowledged
    <2> QED
      BY <2>2 DEF g
  <1>3. ASSUME NEW p \in Actors
        PROVE  Acknowledged(Evaluated(p, f), i)
    BY <1>1, EvaluatedKeeps DEF Acknowledged
  <1>4. ASSUME NEW j \in Recorded(f)
        PROVE  Acknowledged([f EXCEPT !.events[j].acknowledged = TRUE], i)
    <2> DEFINE g == [f EXCEPT !.events[j].acknowledged = TRUE]
    <2>1. Alike(f, g) /\ (f.events[i].acknowledged => g.events[i].acknowledged)
      BY <1>1, AcknowledgedAlike
    <2> HIDE DEF g
    <2>2. Acknowledged(g, i)
      BY <1>1, <2>1 DEF Alike, Recorded, Acknowledged
    <2> QED
      BY <2>2 DEF g
  <1> QED
    BY <1>2, <1>3, <1>4

\* An evaluation that reads an acknowledgement tries no channel for the incident.
LEMMA AcknowledgedIsQuiet ==
  ASSUME Inv, NEW p \in Actors, NEW i, Acknowledged(file, i), NEW ch
  PROVE  <<i, ch>> \notin Deliveries(p, file)
  <1>1. TypeOK /\ File(file, issued) /\ issued \in Nat
    BY BoundsAssumption DEF Inv, Good, TypeOK
  <1>2. i \in Recorded(file) /\ ~Again(file, i, ch)
    BY DEF Acknowledged, Again
  <1>3. i \notin Numbers(p, file)
    BY <1>1, <1>2, EvaluatedEvents
  <1> QED
    BY <1>2, <1>3 DEF Deliveries, Numbers

\* An acknowledgement that every actor under way has read stays, step by step.
LEMMA SettledNext ==
  ASSUME Inv, [Next]_vars, NEW i, AcknowledgementSettled(i)
  PROVE  AcknowledgementSettled(i)'
  <1>1. /\ TypeOK /\ Good(file, issued) /\ copy = [q \in Actors |-> copy[q]]
        /\ \A q \in Actors : Good(copy[q], issued)
    BY Zenon DEF Inv
  <1>2. pc \in [Actors -> {"idle", "observed", "writing"}]
    BY <1>1 DEF TypeOK
  <1>3. /\ Acknowledged(file, i)
        /\ \A p \in Actors : pc[p] = "writing" => Acknowledged(copy[p], i)
    BY DEF AcknowledgementSettled
  <1>4. SUFFICES /\ Acknowledged(file', i)
                 /\ \A p \in Actors : pc'[p] = "writing" => Acknowledged(copy'[p], i)
    BY DEF AcknowledgementSettled, Acknowledged, Recorded
  <1>5. ASSUME NEW q \in Actors, NEW g, Acknowledged(g, i), UNCHANGED file,
               pc' = [pc EXCEPT ![q] = "writing"], copy' = [copy EXCEPT ![q] = g]
        PROVE  /\ Acknowledged(file', i)
               /\ \A p \in Actors : pc'[p] = "writing" => Acknowledged(copy'[p], i)
    <2>1. ASSUME NEW p \in Actors, pc'[p] = "writing"
          PROVE  Acknowledged(copy'[p], i)
      <3>1. CASE p = q
        <4>1. copy'[p] = g
          BY <1>1, <1>5, <3>1
        <4> QED
          BY <1>5, <4>1
      <3>2. CASE p # q
        <4>1. copy'[p] = copy[p] /\ pc[p] = "writing"
          BY <1>1, <1>2, <1>5, <2>1, <3>2
        <4> QED
          BY <1>3, <4>1
      <3> QED
        BY <3>1, <3>2
    <2> QED
      BY <1>3, <1>5, <2>1
  <1>6. ASSUME NEW q \in Actors, UNCHANGED file \/ (file' = copy[q] /\ pc[q] = "writing"),
               pc' = [pc EXCEPT ![q] = "idle"], copy' = [copy EXCEPT ![q] = EmptyFile]
        PROVE  /\ Acknowledged(file', i)
               /\ \A p \in Actors : pc'[p] = "writing" => Acknowledged(copy'[p], i)
    <2>1. Acknowledged(file', i)
      <3>1. CASE UNCHANGED file
        BY <1>3, <3>1
      <3>2. CASE file' = copy[q] /\ pc[q] = "writing"
        BY <1>3, <3>2
      <3> QED
        BY <1>6, <3>1, <3>2
    <2>2. ASSUME NEW p \in Actors, pc'[p] = "writing"
          PROVE  Acknowledged(copy'[p], i)
      <3>1. p # q /\ pc[p] = "writing"
        BY <1>2, <1>6, <2>2
      <3>2. copy'[p] = copy[p]
        BY <1>1, <1>6, <3>1
      <3> QED
        BY <1>3, <3>1, <3>2
    <2> QED
      BY <2>1, <2>2
  <1>7. ASSUME NEW q \in Actors, Observe(q)
        PROVE  /\ Acknowledged(file', i)
               /\ \A p \in Actors : pc'[p] = "writing" => Acknowledged(copy'[p], i)
    <2>1. file' = file /\ copy' = copy /\ pc' = [pc EXCEPT ![q] = "observed"]
      BY <1>7 DEF Observe
    <2>2. \A p \in Actors : pc'[p] = "writing" => pc[p] = "writing"
      BY <1>2, <2>1
    <2> QED
      BY <1>3, <2>1, <2>2
  <1>8. ASSUME NEW q \in Actors, Evaluate(q)
        PROVE  /\ Acknowledged(file', i)
               /\ \A p \in Actors : pc'[p] = "writing" => Acknowledged(copy'[p], i)
    <2> DEFINE g == Evaluated(q, file)
    <2>1. Acknowledged(g, i)
      BY <1>1, <1>3, AcknowledgedStays
    <2>2. UNCHANGED file /\ pc' = [pc EXCEPT ![q] = "writing"] /\ copy' = [copy EXCEPT ![q] = g]
      BY <1>8 DEF Evaluate
    <2> HIDE DEF g
    <2> QED
      BY <1>5, <2>1, <2>2
  <1>9. ASSUME NEW q \in Actors, Write(q) \/ Abort(q)
        PROVE  /\ Acknowledged(file', i)
               /\ \A p \in Actors : pc'[p] = "writing" => Acknowledged(copy'[p], i)
    <2>1. /\ UNCHANGED file \/ (file' = copy[q] /\ pc[q] = "writing")
          /\ pc' = [pc EXCEPT ![q] = "idle"] /\ copy' = [copy EXCEPT ![q] = EmptyFile]
      BY <1>9 DEF Write, Abort
    <2> QED
      BY <1>6, <2>1
  <1>10. ASSUME Test
         PROVE  /\ Acknowledged(file', i)
                /\ \A p \in Actors : pc'[p] = "writing" => Acknowledged(copy'[p], i)
    <2>1. UNCHANGED file /\ pc' = [pc EXCEPT ![Cli] = "writing"]
          /\ copy' = [copy EXCEPT ![Cli] = file] /\ Cli \in Actors
      BY <1>10 DEF Test, Actors
    <2> QED
      BY <1>3, <1>5, <2>1
  <1>11. ASSUME NEW j \in Incidents, Acknowledge(j)
         PROVE  /\ Acknowledged(file', i)
                /\ \A p \in Actors : pc'[p] = "writing" => Acknowledged(copy'[p], i)
    <2> DEFINE g == [file EXCEPT !.events[j].acknowledged = TRUE]
    <2>1. Acknowledged(g, i)
      BY <1>1, <1>3, <1>11, AcknowledgedStays DEF Acknowledge
    <2>2. /\ UNCHANGED file /\ pc' = [pc EXCEPT ![Operator] = "writing"]
          /\ copy' = [copy EXCEPT ![Operator] = g] /\ Operator \in Actors
      BY <1>11 DEF Acknowledge, Actors
    <2> HIDE DEF g
    <2> QED
      BY <1>5, <2>1, <2>2
  <1>12. ASSUME Tick
         PROVE  /\ Acknowledged(file', i)
                /\ \A p \in Actors : pc'[p] = "writing" => Acknowledged(copy'[p], i)
    <2>1. file' = Aging(file) /\ pc' = pc /\ \A p \in Actors : copy'[p] = Aging(copy[p])
      BY <1>12 DEF Tick
    <2>2. Acknowledged(Aging(file), i)
      BY <1>1, <1>3, AcknowledgedStays
    <2>3. \A p \in Actors : pc[p] = "writing" => Acknowledged(Aging(copy[p]), i)
      BY <1>1, <1>3, AcknowledgedStays
    <2> QED
      BY <2>1, <2>2, <2>3
  <1>13. ASSUME (\E c \in Conditions : Raise(c) \/ Clear(c)) \/ UNCHANGED vars
         PROVE  /\ Acknowledged(file', i)
                /\ \A p \in Actors : pc'[p] = "writing" => Acknowledged(copy'[p], i)
    BY <1>3, <1>13 DEF Raise, Clear, vars
  <1> QED
    BY <1>7, <1>8, <1>9, <1>10, <1>11, <1>12, <1>13 DEF Next

\* What the operator acknowledged is lost only to an actor that had not read it:
\* once every actor under way has, it stays and no channel is tried for the incident
\* again, however evaluations, tests and acknowledgements overlap and die.
THEOREM AcknowledgementsLast == Spec => AcknowledgementKept
  <1> DEFINE Kept == \A i \in Incidents : AcknowledgementSettled(i) =>
                       /\ AcknowledgementSettled(i)'
                       /\ \A ch \in Channels : <<i, ch>> \notin told'
  <1>1. ASSUME Inv, Next
        PROVE  Kept
    <2> SUFFICES ASSUME NEW i \in Incidents, AcknowledgementSettled(i)
                 PROVE  /\ AcknowledgementSettled(i)'
                        /\ \A ch \in Channels : <<i, ch>> \notin told'
      OBVIOUS
    <2>1. AcknowledgementSettled(i)'
      BY <1>1, SettledNext
    <2>2. ASSUME NEW p \in Actors, Evaluate(p), NEW ch \in Channels
          PROVE  <<i, ch>> \notin told'
      <3>1. told' = Deliveries(p, file) /\ Acknowledged(file, i)
        BY <2>2 DEF Evaluate, AcknowledgementSettled
      <3> QED
        BY <1>1, <3>1, AcknowledgedIsQuiet
    <2>3. (\E p \in Actors : Evaluate(p)) \/ told' = {}
      BY <1>1 DEF Next, Observe, Write, Abort, Test, Acknowledge, Raise, Clear, Tick
    <2> QED
      BY <2>1, <2>2, <2>3
  <1>2. Inv /\ [Next]_vars => [Kept]_vars
    BY <1>1
  <1> QED
    BY <1>2, Invariance, PTL DEF Spec, AcknowledgementKept

-----------------------------------------------------------------------------
\* One actor after the other

\* At the start nobody is under way.
LEMMA InitSerial == Init => SerialInv
  <1>1. Init => Alone /\ \A p \in Actors : Follows(p)
    BY DEF Init, Alone, Follows
  <1> QED
    BY <1>1, InitInv DEF SerialInv

\* Where the actors are, after a step.
LEMMA AloneNext ==
  ASSUME ~Overlap, Inv, Alone, [Next]_vars
  PROVE  Alone'
  <1>1. pc \in [Actors -> {"idle", "observed", "writing"}]
    BY DEF Inv, TypeOK
  <1>2. ASSUME NEW p \in Actors, Observe(p) \/ Evaluate(p) \/ Write(p) \/ Abort(p)
        PROVE  Alone'
    BY <1>1, <1>2 DEF Alone, Observe, Evaluate, Write, Abort, MayStart
  <1>3. ASSUME Test \/ \E i \in Incidents : Acknowledge(i)
        PROVE  Alone'
    BY <1>1, <1>3 DEF Alone, Test, Acknowledge, MayStart
  <1>4. ASSUME (\E c \in Conditions : Raise(c) \/ Clear(c)) \/ Tick \/ UNCHANGED vars
        PROVE  Alone'
    BY <1>4 DEF Alone, Raise, Clear, Tick, vars
  <1> QED
    BY <1>2, <1>3, <1>4 DEF Next

\* A copy that is taken follows the file, and nothing else changes either meanwhile.
LEMMA FollowsNext ==
  ASSUME ~Overlap, Inv, Alone, \A q \in Actors : Follows(q), [Next]_vars,
         NEW p \in Actors
  PROVE  Follows(p)'
  <1>1. /\ TypeOK /\ pc \in [Actors -> {"idle", "observed", "writing"}]
        /\ Good(file, issued) /\ Good(copy[p], issued)
        /\ copy = [q \in Actors |-> copy[q]]
    <2>1. TypeOK /\ Good(file, issued) /\ copy = [q \in Actors |-> copy[q]]
          /\ \A q \in Actors : Good(copy[q], issued)
      BY Zenon DEF Inv
    <2>2. pc \in [Actors -> {"idle", "observed", "writing"}]
      BY <2>1 DEF TypeOK
    <2> QED
      BY <2>1, <2>2
  <1>2. ASSUME NEW q \in Actors, Observe(q) \/ Write(q) \/ Abort(q)
        PROVE  Follows(p)'
    <2>1. CASE p = q
      BY <1>1, <1>2, <2>1 DEF Follows, Observe, Write, Abort
    <2>2. CASE p # q
      BY <1>1, <1>2, <2>2 DEF Follows, Observe, Write, Abort, Alone
    <2> QED
      BY <2>1, <2>2
  <1>3. ASSUME NEW q \in Actors, Evaluate(q)
        PROVE  Follows(p)'
    <2>1. CASE p = q
      <3>1. copy'[p] = Evaluated(p, file) /\ file' = file
        BY <1>1, <1>3, <2>1 DEF Evaluate
      <3> QED
        BY <1>1, <3>1, EvaluatedKeeps DEF Follows, Recorded
    <2>2. CASE p # q
      BY <1>1, <1>3, <2>2 DEF Follows, Evaluate, Alone
    <2> QED
      BY <2>1, <2>2
  <1>4. ASSUME Test
        PROVE  Follows(p)'
    <2>1. CASE p = Cli
      BY <1>1, <1>4, <2>1 DEF Follows, Test, Recorded
    <2>2. CASE p # Cli
      BY <1>1, <1>4, <2>2 DEF Follows, Test, Recorded
    <2> QED
      BY <2>1, <2>2
  <1>5. ASSUME NEW i \in Incidents, Acknowledge(i)
        PROVE  Follows(p)'
    <2> DEFINE g == [file EXCEPT !.events[i].acknowledged = TRUE]
    <2>1. CASE p = Operator
      <3>1. copy'[p] = g /\ file' = file
        BY <1>1, <1>5, <2>1 DEF Acknowledge
      <3>2. Alike(file, g)
        BY <1>1, <1>5, AcknowledgedAlike DEF Acknowledge
      <3> HIDE DEF g
      <3> QED
        BY <3>1, <3>2 DEF Follows, Alike, Recorded
    <2>2. CASE p # Operator
      BY <1>1, <1>5, <2>2 DEF Follows, Acknowledge, Recorded
    <2> QED
      BY <2>1, <2>2
  <1>6. ASSUME Tick
        PROVE  Follows(p)'
    <2>1. file' = Aging(file) /\ copy'[p] = Aging(copy[p]) /\ pc' = pc
      BY <1>6 DEF Tick
    <2>2. Alike(file, Aging(file)) /\ Alike(copy[p], Aging(copy[p]))
      BY <1>1, AgingAlike
    <2>3. CASE pc[p] # "writing"
      BY <2>1, <2>3 DEF Follows
    <2>4. CASE pc[p] = "writing"
      <3>1. p # Cli => \A c \in Doctor :
                 file.active[c] # NoIncident => copy[p].active[c] = file.active[c]
        BY <2>4 DEF Follows
      <3>2. p # Cli => \A c \in Doctor :
                 file'.active[c] # NoIncident => copy'[p].active[c] = file'.active[c]
        BY <2>1, <2>2, <3>1 DEF Alike
      <3> QED
        BY <3>2 DEF Follows, Recorded
    <2> QED
      BY <2>3, <2>4
  <1>7. ASSUME (\E c \in Conditions : Raise(c) \/ Clear(c)) \/ UNCHANGED vars
        PROVE  Follows(p)'
    BY <1>7 DEF Follows, Raise, Clear, vars, Recorded
  <1> QED
    BY <1>2, <1>3, <1>4, <1>5, <1>6, <1>7 DEF Next

\* The invariant of serial actors holds in every reachable state.
LEMMA SerialInvariance == ~Overlap => (Spec => []SerialInv)
  <1> SUFFICES ASSUME ~Overlap
               PROVE  Spec => []SerialInv
    OBVIOUS
  <1>1. SerialInv /\ [Next]_vars => SerialInv'
    BY NextInv, AloneNext, FollowsNext DEF SerialInv
  <1> QED
    BY <1>1, InitSerial, PTL DEF Spec

\* The file changes when an actor replaces it and when time passes.
LEMMA FileChanges ==
  ASSUME [Next]_vars
  PROVE  \/ UNCHANGED file
         \/ file' = Aging(file)
         \/ \E p \in Actors : Write(p)
  BY DEF Next, Observe, Evaluate, Abort, Test, Acknowledge, Raise, Clear, Tick, vars

\* When they come one after the other, an incident that Doctor opened is closed by an
\* evaluation that ran Doctor and by nothing else.
THEOREM DoctorsIncidentsStay == ~Overlap => (Spec => DoctorPreserved)
  <1> SUFFICES ASSUME ~Overlap
               PROVE  Spec => DoctorPreserved
    OBVIOUS
  <1> DEFINE Stays == \A c \in Doctor :
                        file.active[c] # NoIncident /\ file'.active[c] # file.active[c]
                          => pc[Cli] = "writing" /\ file' = copy[Cli]
  <1>1. ASSUME SerialInv, [Next]_vars
        PROVE  Stays
    <2>1. CASE UNCHANGED file
      BY <2>1
    <2>2. CASE file' = Aging(file)
      <3>1. Aging(file).active = file.active
        BY <1>1, AgingAlike DEF SerialInv, Inv, Alike
      <3> QED
        BY <2>2, <3>1
    <2>3. ASSUME NEW p \in Actors, Write(p)
          PROVE  Stays
      BY <1>1, <2>3 DEF SerialInv, Follows, Write
    <2> QED
      BY <1>1, <2>1, <2>2, <2>3, FileChanges
  <1>2. SerialInv /\ [Next]_vars => [Stays]_vars
    BY <1>1
  <1> QED
    BY <1>2, SerialInvariance, PTL DEF Spec, DoctorPreserved

-----------------------------------------------------------------------------
\* One actor after the other, and none dies

\* What an evaluation has attempted it records.
LEMMA EvaluatedMatches ==
  ASSUME Inv, AttemptsInv, NEW p \in Actors, Evaluate(p), Matches(file)
  PROVE  /\ \A i \in Recorded(Evaluated(p, file)), ch \in Channels :
              since'[i][ch] = Evaluated(p, file).events[i].tried[ch]
         /\ \A i \in Incidents, ch \in Channels : i > issued' => since'[i][ch] = Repeat
  <1> DEFINE E == Evaluated(p, file)
             N == Numbers(p, file)
             n == Cardinality(Fresh(p, file))
  <1>1. TypeOK /\ File(file, issued) /\ Consistent(file)
    BY DEF Inv, Good
  <1>2. n \in Nat /\ issued \in Nat /\ MaxIncidents \in Nat
    BY <1>1, Parts, OpenedNumbers, BoundsAssumption
  <1>3. issued' = issued + n /\ issued + n <= MaxIncidents
    BY DEF Evaluate
  <1>4. \A i \in N : i \in (issued + 1) .. (issued + n)
    BY <1>1, NumbersAreNew
  <1>5. \A i \in Recorded(file) : i \in 1 .. issued
    BY <1>1 DEF File
  <1>6. DOMAIN E.events = Recorded(file) \cup N
    BY <1>1, EvaluatedEvents
  <1>7. \A i \in N : i \notin Recorded(file) /\ E.events[i] = New(p, file, i)
    BY <1>1, EvaluatedEvents
  <1>8. \A i \in Incidents, ch \in Channels :
          since'[i][ch] = IF <<i, ch>> \in Deliveries(p, file) THEN 0 ELSE since[i][ch]
    BY DEF Evaluate
  <1>9. ASSUME NEW i \in Recorded(file), NEW ch \in Channels
        PROVE  since'[i][ch] = E.events[i].tried[ch]
    <2> DEFINE tried == [k \in Channels |->
                 IF <<i, k>> \in Deliveries(p, file) THEN 0 ELSE file.events[i].tried[k]]
               recoveries == IF i \in Closes(p, file) THEN file.events[i].recoveries + 1
                             ELSE file.events[i].recoveries
               open == file.events[i].open /\ i \notin Closes(p, file)
    <2>1. E.events[i] = [condition |-> file.events[i].condition, open |-> open,
             acknowledged |-> file.events[i].acknowledged, recoveries |-> recoveries,
             tried |-> tried]
      BY <1>1, EvaluatedEvents
    <2>2. tried[ch] = IF <<i, ch>> \in Deliveries(p, file) THEN 0
                      ELSE file.events[i].tried[ch]
      OBVIOUS
    <2> HIDE DEF tried, recoveries, open, E
    <2>3. E.events[i].tried = tried
      BY <2>1
    <2>4. i \in Incidents
      BY <1>2, <1>3, <1>5 DEF Incidents
    <2>5. since[i][ch] = file.events[i].tried[ch]
      BY DEF Matches
    <2> QED
      BY <1>8, <2>2, <2>3, <2>4, <2>5
  <1>10. ASSUME NEW i \in N, NEW ch \in Channels
        PROVE  since'[i][ch] = E.events[i].tried[ch]
    <2>1. i \in Incidents
      BY <1>2, <1>3, <1>4 DEF Incidents
    <2>2. <<i, ch>> \in Deliveries(p, file)
      BY DEF Deliveries, Numbers
    <2>3. E.events[i] = New(p, file, i)
      BY <1>7
    <2>4. E.events[i].tried = [k \in Channels |-> 0]
      BY <1>1, <2>3, NewEvent
    <2> QED
      BY <1>8, <2>1, <2>2, <2>4
  <1>11. ASSUME NEW i \in Incidents, NEW ch \in Channels, i > issued'
         PROVE  since'[i][ch] = Repeat
    <2>1. i \in Nat
      BY DEF Incidents
    <2>2. i \notin N /\ i \notin Recorded(file) /\ i > issued
      BY <1>2, <1>3, <1>4, <1>5, <1>11, <2>1
    <2>3. \A d \in Deliveries(p, file) : d[1] \in N \/ d[1] \in Recorded(file)
      <3>1. \A c \in Continuing(p, file) : file.active[c] \in Recorded(file)
        BY <1>1 DEF Consistent, Continuing, TypeOK
      <3> QED
        BY <3>1 DEF Deliveries, Numbers
    <2>4. <<i, ch>> \notin Deliveries(p, file)
      BY <2>2, <2>3
    <2> QED
      BY <1>8, <2>2, <2>4 DEF AttemptsInv
  <1> QED
    BY <1>6, <1>9, <1>10, <1>11 DEF Recorded

\* Time makes the recorded attempts older as it makes the attempts themselves.
LEMMA AgingMatches ==
  ASSUME TypeOK, NEW f, Good(f, issued), Matches(f),
         since' = [i \in Incidents |-> [ch \in Channels |-> Older(since[i][ch])]]
  PROVE  \A i \in Recorded(Aging(f)), ch \in Channels :
           since'[i][ch] = Aging(f).events[i].tried[ch]
  <1>1. \A i \in Recorded(f) : i \in Incidents
    BY BoundsAssumption DEF Good, File, Incidents, TypeOK
  <1>2. Recorded(Aging(f)) = Recorded(f)
    BY AgingAlike DEF Alike
  <1>3. \A i \in Recorded(f), ch \in Channels :
          Aging(f).events[i].tried[ch] = Older(f.events[i].tried[ch])
    BY AgingAlike
  <1> QED
    BY <1>1, <1>2, <1>3 DEF Matches

\* The file, or the copy that is about to replace it, records every attempt.
LEMMA AttemptsNext ==
  ASSUME ~Overlap, ~Crashes, SerialInv, AttemptsInv, [Next]_vars
  PROVE  AttemptsInv'
  <1>1. /\ Inv /\ TypeOK /\ Alone
        /\ pc \in [Actors -> {"idle", "observed", "writing"}]
        /\ copy = [q \in Actors |-> copy[q]]
        /\ Good(file, issued) /\ \A q \in Actors : Good(copy[q], issued)
    <2>1. Inv /\ Alone
      BY DEF SerialInv
    <2>2. TypeOK /\ copy = [q \in Actors |-> copy[q]]
          /\ Good(file, issued) /\ \A q \in Actors : Good(copy[q], issued)
      BY <2>1, Zenon DEF Inv
    <2> QED
      BY <2>1, <2>2 DEF TypeOK
  <1>2. ASSUME NEW p \in Actors, Observe(p)
        PROVE  AttemptsInv'
    BY <1>1, <1>2 DEF AttemptsInv, Matches, Recorded, Observe, MayStart
  <1>3. ASSUME NEW p \in Actors, Evaluate(p)
        PROVE  AttemptsInv'
    <2>1. \A q \in Actors : pc[q] # "writing"
      BY <1>1, <1>3 DEF Alone, Evaluate
    <2>2. Matches(file)
      BY <2>1 DEF AttemptsInv
    <2>3. /\ copy'[p] = Evaluated(p, file)
          /\ \A q \in Actors : pc'[q] = "writing" <=> q = p
      BY <1>1, <1>3, <2>1 DEF Evaluate
    <2>4. /\ \A i \in Recorded(Evaluated(p, file)), ch \in Channels :
               since'[i][ch] = Evaluated(p, file).events[i].tried[ch]
          /\ \A i \in Incidents, ch \in Channels : i > issued' => since'[i][ch] = Repeat
      BY <1>1, <1>3, <2>2, EvaluatedMatches
    <2> DEFINE E == Evaluated(p, file)
    <2>5. \A i \in Recorded(copy'[p]), ch \in Channels :
            since'[i][ch] = copy'[p].events[i].tried[ch]
      <3> HIDE DEF E
      <3> QED
        BY <2>3, <2>4
    <2>6. Matches(copy[p])'
      BY <2>5 DEF Matches, Recorded
    <2> QED
      BY <2>3, <2>4, <2>6 DEF AttemptsInv
  <1>4. ASSUME NEW p \in Actors, Write(p)
        PROVE  AttemptsInv'
    <2>1. /\ file' = copy[p] /\ since' = since /\ issued' = issued
          /\ \A q \in Actors : pc'[q] # "writing"
      BY <1>1, <1>4 DEF Alone, Write
    <2>2. Matches(copy[p])
      BY <1>4 DEF AttemptsInv, Write
    <2> QED
      BY <2>1, <2>2 DEF AttemptsInv, Matches, Recorded
  <1>5. ASSUME Test
        PROVE  AttemptsInv'
    <2>1. \A q \in Actors : pc[q] = "idle"
      BY <1>5 DEF Test, MayStart
    <2>2. /\ copy'[Cli] = file /\ file' = file /\ since' = since /\ issued' = issued
          /\ \A q \in Actors : pc'[q] = "writing" <=> q = Cli
      BY <1>1, <1>5, <2>1 DEF Test, Actors
    <2>3. Matches(file)
      BY <2>1 DEF AttemptsInv
    <2> QED
      BY <2>2, <2>3 DEF AttemptsInv, Matches, Recorded, Actors
  <1>6. ASSUME NEW i \in Incidents, Acknowledge(i)
        PROVE  AttemptsInv'
    <2> DEFINE g == [file EXCEPT !.events[i].acknowledged = TRUE]
    <2>1. \A q \in Actors : pc[q] = "idle"
      BY <1>6 DEF Acknowledge, MayStart
    <2>2. /\ copy'[Operator] = g /\ file' = file /\ since' = since /\ issued' = issued
          /\ \A q \in Actors : pc'[q] = "writing" <=> q = Operator
      BY <1>1, <1>6, <2>1 DEF Acknowledge, Actors
    <2>3. Matches(file)
      BY <2>1 DEF AttemptsInv
    <2>4. Recorded(g) = Recorded(file)
          /\ \A j \in Recorded(file) : g.events[j].tried = file.events[j].tried
      BY <1>1, <1>6, AcknowledgedAlike DEF Acknowledge, Alike
    <2> HIDE DEF g
    <2>5. \A j \in Recorded(copy'[Operator]), ch \in Channels :
            since'[j][ch] = copy'[Operator].events[j].tried[ch]
      BY <2>2, <2>3, <2>4 DEF Matches
    <2>6. Matches(copy[Operator])'
      BY <2>5 DEF Matches, Recorded
    <2> QED
      BY <2>2, <2>6 DEF AttemptsInv, Actors
  <1>7. ASSUME Tick
        PROVE  AttemptsInv'
    <2>1. /\ file' = Aging(file) /\ \A p \in Actors : copy'[p] = Aging(copy[p])
          /\ pc' = pc /\ issued' = issued
          /\ since' = [i \in Incidents |-> [ch \in Channels |-> Older(since[i][ch])]]
      BY <1>7 DEF Tick
    <2>2. ASSUME Matches(file)
          PROVE  Matches(file)'
      <3> DEFINE g == Aging(file)
      <3>1. \A i \in Recorded(g), ch \in Channels : since'[i][ch] = g.events[i].tried[ch]
        <4>1. TypeOK /\ Good(file, issued) /\ Matches(file)
          BY <1>1, <2>2
        <4>2. since' = [i \in Incidents |-> [ch \in Channels |-> Older(since[i][ch])]]
          BY <2>1
        <4> QED
          BY <4>1, <4>2, AgingMatches
      <3>2. file' = g
        BY <2>1
      <3> HIDE DEF g
      <3> QED
        BY <3>1, <3>2 DEF Matches, Recorded
    <2>3. ASSUME NEW p \in Actors, Matches(copy[p])
          PROVE  Matches(copy[p])'
      <3> DEFINE g == Aging(copy[p])
      <3>1. \A i \in Recorded(g), ch \in Channels : since'[i][ch] = g.events[i].tried[ch]
        <4>1. TypeOK /\ Good(copy[p], issued) /\ Matches(copy[p])
          BY <1>1, <2>3
        <4>2. since' = [i \in Incidents |-> [ch \in Channels |-> Older(since[i][ch])]]
          BY <2>1
        <4> QED
          BY <4>1, <4>2, AgingMatches
      <3>2. copy'[p] = g
        BY <2>1
      <3> HIDE DEF g
      <3> QED
        BY <3>1, <3>2 DEF Matches, Recorded
    <2>4. \A i \in Incidents, ch \in Channels : i > issued => since'[i][ch] = Repeat
      BY <2>1, BoundsAssumption DEF AttemptsInv, Older
    <2> QED
      BY <2>1, <2>2, <2>3, <2>4 DEF AttemptsInv
  <1>8. ASSUME (\E c \in Conditions : Raise(c) \/ Clear(c)) \/ UNCHANGED vars
        PROVE  AttemptsInv'
    <2>1. UNCHANGED <<file, copy, pc, issued, since>>
      BY <1>8 DEF Raise, Clear, vars, world
    <2> QED
      BY <2>1 DEF AttemptsInv, Matches, Recorded
  <1> QED
    BY <1>2, <1>3, <1>4, <1>5, <1>6, <1>7, <1>8 DEF Next, Abort

\* An attempt is made when the last one is as old as the suppression window, for an
\* incident that the file does not show as acknowledged.
LEMMA DeliveriesAreDue ==
  ASSUME SerialInv, AttemptsInv, NEW p \in Actors, Evaluate(p)
  PROVE  \A d \in Deliveries(p, file) :
           /\ since[d[1]][d[2]] >= Repeat
           /\ ~Acknowledged(file, d[1])
  <1>1. Inv /\ TypeOK /\ File(file, issued) /\ Consistent(file)
    BY DEF SerialInv, Inv, Good
  <1>2. Matches(file)
    <2>1. \A q \in Actors : pc[q] # "writing"
      BY DEF SerialInv, Alone, Evaluate
    <2> QED
      BY <2>1 DEF AttemptsInv
  <1>3. Cardinality(Fresh(p, file)) \in Nat /\ issued \in Nat /\ MaxIncidents \in Nat
        /\ issued + Cardinality(Fresh(p, file)) <= MaxIncidents
    BY <1>1, Parts, OpenedNumbers, BoundsAssumption DEF Evaluate
  <1>4. ASSUME NEW c \in Continuing(p, file), NEW ch \in Channels,
               Again(file, file.active[c], ch)
        PROVE  /\ since[file.active[c]][ch] >= Repeat
               /\ ~file.events[file.active[c]].acknowledged
    <2>1. file.active[c] \in Recorded(file)
      BY <1>1 DEF Consistent, Continuing, TypeOK
    <2> QED
      BY <1>2, <1>4, <2>1 DEF Again, Matches
  <1>5. ASSUME NEW i \in Numbers(p, file), NEW ch \in Channels
        PROVE  since[i][ch] >= Repeat /\ i \notin Recorded(file)
    <2>1. i \in (issued + 1) .. (issued + Cardinality(Fresh(p, file)))
      BY <1>1, NumbersAreNew
    <2>2. i \in Incidents /\ i > issued
      BY <1>3, <2>1 DEF Incidents
    <2>3. since[i][ch] = Repeat
      BY <2>2 DEF AttemptsInv
    <2>4. i \notin Recorded(file)
      BY <1>1, <2>2, <1>3 DEF File
    <2> QED
      BY <2>3, <2>4, BoundsAssumption
  <1> QED
    BY <1>4, <1>5 DEF Deliveries, Numbers, Acknowledged

\* When they come one after the other and none dies before it writes, no channel is
\* tried twice for an incident within the suppression window, or at all for an
\* acknowledged one.
THEOREM SuppressionHolds == ~Overlap /\ ~Crashes => (Spec => NotRepeated)
  <1> SUFFICES ASSUME ~Overlap, ~Crashes
               PROVE  Spec => NotRepeated
    OBVIOUS
  <1> DEFINE Due == \A d \in told' : since[d[1]][d[2]] >= Repeat /\
                      ~Acknowledged(file, d[1])
  <1>1. Init => AttemptsInv
    BY DEF Init, AttemptsInv, Matches, Recorded, EmptyFile
  <1>2. SerialInv /\ AttemptsInv /\ [Next]_vars => AttemptsInv'
    BY AttemptsNext
  <1>3. SerialInv /\ AttemptsInv /\ [Next]_vars => [Due]_vars
    <2> SUFFICES ASSUME SerialInv, AttemptsInv, Next
                 PROVE  Due
      OBVIOUS
    <2>1. ASSUME NEW p \in Actors, Evaluate(p)
          PROVE  Due
      <3>1. told' = Deliveries(p, file)
        BY <2>1 DEF Evaluate
      <3> QED
        BY <2>1, <3>1, DeliveriesAreDue
    <2>2. CASE told' = {}
      BY <2>2
    <2> QED
      BY <2>1, <2>2 DEF Next, Observe, Write, Abort, Test, Acknowledge, Raise, Clear, Tick
  <1> QED
    BY <1>1, <1>2, <1>3, SerialInvariance, PTL DEF Spec, NotRepeated

===============================================================================
