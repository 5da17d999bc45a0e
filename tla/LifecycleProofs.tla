---------------------------- MODULE LifecycleProofs ----------------------------
(***************************************************************************)
(* Theorems about Lifecycle, for any number of signals: what a stop closes *)
(* is no longer used, and a process that ends by itself has closed it all. *)
(***************************************************************************)
EXTENDS Lifecycle, LineLemmas

Timer == Signal \cup {"grace"}

(* The types, part by part *)

StageNames ==
    /\ life \in {"starting", "running", "stopping", "stopped"}
    /\ main \in {"booting", "booted", "stopping", "failed"}
    /\ http \in {"opening", "listening", "failed", "closing", "closed"}
    /\ stop \in {"no", "http", "worker", "rabbit first", "worker again",
                 "rabbit", "knex", "done"}

ResourceNames ==
    /\ worker \in {"idle", "running", "stopping", "stopped"}
    /\ iteration \in {"none", "broker", "database"}
    /\ rabbit \in {"open", "closing", "closed"} /\ knex \in {"open", "closing", "closed"}

Names == StageNames /\ ResourceNames

Flags == handler \in BOOLEAN /\ timer \in BOOLEAN /\ direct \in BOOLEAN

Ends ==
    /\ signal \in [Signal -> {"none", "handled", "over"}]
    /\ exit \in [how : {"no", "ended", "forced"}, code : {0, 1}]

\* The parts are the whole before a step.
LEMMA TypeParts == LifecycleTypeOK <=> Names /\ Flags /\ Ends /\ armed \in Line(Timer)
BY DEF LifecycleTypeOK, Names, StageNames, ResourceNames, Flags, Ends, Line, Timer

\* A hard stop, which closes the resources, keeps the types.
LEMMA ClosingNames ==
    ASSUME Names, UNCHANGED <<life, main, http, stop, worker, iteration>>,
           rabbit' = Closing(rabbit), knex' = Closing(knex)
    PROVE  Names'
<1>1. StageNames'
  BY DEF Names, StageNames
<1>2. ResourceNames'
  BY DEF Names, ResourceNames, Closing
<1>3. QED
  BY <1>1, <1>2 DEF Names

\* So does a step that does nothing.
LEMMA NamesStay ==
    ASSUME Names, UNCHANGED <<life, main, http, stop, worker, iteration, rabbit, knex>>
    PROVE  Names'
<1>1. StageNames'
  BY DEF Names, StageNames
<1>2. ResourceNames'
  BY DEF Names, ResourceNames
<1>3. QED
  BY <1>1, <1>2 DEF Names

\* The parts are the whole after a step.
LEMMA TypePartsNext ==
    LifecycleTypeOK' <=> Names' /\ Flags' /\ Ends' /\ armed' \in Line(Timer)
BY DEF LifecycleTypeOK, Names, StageNames, ResourceNames, Flags, Ends, Line, Timer

\* The timers are a line: none is armed twice.
LEMMA ArmedIsALine == ASSUME LifecycleInv PROVE armed \in Line(Timer)
BY DEF LifecycleInv, LifecycleTypeOK, Line, Timer

\* clearTimeout takes one timer out of the line, and leaves another at its head.
LEMMA ClearClears ==
    ASSUME armed \in Line(Timer), NEW t
    PROVE  /\ Clear(t) \in Line(Timer) /\ ToSet(Clear(t)) = ToSet(armed) \ {t}
           /\ armed # <<>> /\ Head(armed) # t =>
                  Clear(t) # <<>> /\ Head(Clear(t)) = Head(armed)
<1>1. CASE t \notin ToSet(armed)
  BY <1>1 DEF Clear
<1>2. CASE t \in ToSet(armed)
  <2> DEFINE k == CHOOSE i \in DOMAIN armed : armed[i] = t
  <2>1. k \in DOMAIN armed /\ armed[k] = t
    BY <1>2 DEF ToSet
  <2>2. Clear(t) = RemoveAt(armed, k)
    BY <1>2 DEF Clear
  <2> HIDE DEF k
  <2>3. RemoveAt(armed, k) \in Line(Timer) /\ ToSet(RemoveAt(armed, k)) = ToSet(armed) \ {armed[k]}
    BY <2>1, LineRemoveAt
  <2>4. Head(armed) # t => RemoveAt(armed, k) # <<>> /\ Head(RemoveAt(armed, k)) = Head(armed)
    BY <2>1, LineKeepsHead
  <2>5. QED
    BY <2>1, <2>2, <2>3, <2>4
<1>3. QED
  BY <1>1, <1>2

\* A timer that is armed comes after those that are.
LEMMA ArmsLast ==
    ASSUME NEW s \in Line(Timer), NEW t \in Timer, t \notin ToSet(s)
    PROVE  /\ Append(s, t) \in Line(Timer) /\ ToSet(Append(s, t)) = ToSet(s) \cup {t}
           /\ Append(s, t) # <<>>
           /\ Head(Append(s, t)) = IF s = <<>> THEN t ELSE Head(s)
<1>1. s \in Seq(Timer)
  BY DEF Line
<1>2. Append(s, t) # <<>> /\ Head(Append(s, t)) = IF s = <<>> THEN t ELSE Head(s)
  BY <1>1, AppendProperties, HeadTailAppend
<1>3. QED
  BY <1>2, LineAppend

\* No timer is no line.
LEMMA NoTimers == <<>> \in Line(Timer) /\ ToSet(<<>>) = {}
BY DEF Line, IsInjective, ToSet

\* Initially nothing is armed and nothing is closed.
LEMMA LifecycleInitInv == LifecycleInit => LifecycleInv
<1> SUFFICES ASSUME LifecycleInit PROVE LifecycleInv
  OBVIOUS
<1> USE DEF LifecycleInit
<1>1. Names /\ Flags /\ Ends
  BY DEF Names, StageNames, ResourceNames, Flags, Ends
<1>2. LifecycleTypeOK
  BY <1>1, TypeParts, NoTimers
<1>3. StagesMatch /\ EndsCleanly
  BY DEF StagesMatch, EndsCleanly
<1>4. WorkerMatches
  BY DEF WorkerMatches
<1>5. ResourcesMatch
  BY DEF ResourcesMatch
<1>6. TimersMatch /\ HardStopComesFirst /\ NoGraceIsOver
  BY NoTimers DEF TimersMatch, HardStopComesFirst, NoGraceIsOver
<1>7. QED
  BY <1>2, <1>3, <1>4, <1>5, <1>6 DEF LifecycleInv

\* Boot starts the worker only while nobody has stopped it.
LEMMA BootKeepsInv == ASSUME LifecycleInv, Boot PROVE LifecycleInv'
<1> USE SignalAssumption DEF Boot, Listening, ListenFails, Start, AtRabbit, Closing,
     workerVars
<1>0. Names /\ Flags /\ Ends
  BY TypeParts DEF LifecycleInv
<1>1. armed' = armed
  OBVIOUS
<1>2. LifecycleTypeOK'
  <2>1. Names'
    BY <1>0 DEF Names, StageNames, ResourceNames
  <2>2. Flags'
    BY <1>0 DEF Flags
  <2>3. Ends'
    BY <1>0 DEF Ends
  <2>4. QED
    BY <1>1, <2>1, <2>2, <2>3, ArmedIsALine, TypePartsNext
<1>3. TimersMatch'
  BY <1>0, <1>1 DEF LifecycleInv, Names, StageNames, ResourceNames, Flags, Ends,
     TimersMatch
<1>4. HardStopComesFirst'
  BY <1>0, <1>1 DEF LifecycleInv, Names, StageNames, ResourceNames, Flags, Ends,
     StagesMatch, HardStopComesFirst, TimersMatch
<1>5. NoGraceIsOver'
  BY <1>0 DEF LifecycleInv, Names, StageNames, ResourceNames, Flags, Ends,
     StagesMatch, NoGraceIsOver, HardStopComesFirst
<1>6. StagesMatch'
  BY <1>0 DEF LifecycleInv, Names, StageNames, ResourceNames, Flags, Ends, StagesMatch
<1>7. WorkerMatches'
  <2>1. CASE Listening
    <3>1. iteration' = iteration /\ stop' = stop
      BY <2>1
    <3>2. \/ life = "starting" /\ worker' = "running" /\ timer' = TRUE
          \/ worker' = worker /\ timer' = timer
      BY <2>1
    <3>3. WorkerMatches /\ (life = "starting" => stop = "no" /\ worker = "idle")
      BY DEF LifecycleInv, StagesMatch
    <3>4. CASE life = "starting" /\ worker' = "running" /\ timer' = TRUE
      BY <3>1, <3>3, <3>4 DEF WorkerMatches
    <3>5. CASE worker' = worker /\ timer' = timer
      BY <3>1, <3>3, <3>5 DEF WorkerMatches
    <3>6. QED
      BY <3>2, <3>4, <3>5
  <2>2. CASE ListenFails
    BY <1>0, <2>2 DEF LifecycleInv, Names, StageNames, ResourceNames, StagesMatch,
       WorkerMatches
  <2>3. QED
    BY <2>1, <2>2
<1>8. ResourcesMatch'
  BY <1>0 DEF LifecycleInv, Names, StageNames, ResourceNames, Flags, Ends, Alive,
     ResourcesMatch, StagesMatch
<1>9. EndsCleanly'
  BY <1>0 DEF LifecycleInv, Names, StageNames, ResourceNames, Flags, Ends, Alive,
     StagesMatch, WorkerMatches, ResourcesMatch, EndsCleanly
<1>10. QED
  BY <1>2, <1>3, <1>4, <1>5, <1>6, <1>7, <1>8, <1>9 DEF LifecycleInv

\* Requests come only while the server listens.
LEMMA RequestsKeepInv == ASSUME LifecycleInv, Requests PROVE LifecycleInv'
<1> USE SignalAssumption DEF Requests, RequestArrives, RequestEnds, workerVars
<1>0. Names /\ Flags /\ Ends
  BY TypeParts DEF LifecycleInv
<1>1. armed' = armed
  OBVIOUS
<1>2. LifecycleTypeOK'
  <2>1. Names'
    BY <1>0 DEF Names, StageNames, ResourceNames
  <2>2. Flags'
    BY <1>0 DEF Flags
  <2>3. Ends'
    BY <1>0 DEF Ends
  <2>4. QED
    BY <1>1, <2>1, <2>2, <2>3, ArmedIsALine, TypePartsNext
<1>3. TimersMatch'
  BY <1>0, <1>1 DEF LifecycleInv, Names, StageNames, ResourceNames, Flags, Ends,
     TimersMatch
<1>4. HardStopComesFirst'
  BY <1>0, <1>1 DEF LifecycleInv, Names, StageNames, ResourceNames, Flags, Ends,
     StagesMatch, HardStopComesFirst, TimersMatch
<1>5. NoGraceIsOver'
  BY <1>0 DEF LifecycleInv, Names, StageNames, ResourceNames, Flags, Ends,
     StagesMatch, NoGraceIsOver, HardStopComesFirst
<1>6. StagesMatch'
  BY <1>0 DEF LifecycleInv, Names, StageNames, ResourceNames, Flags, Ends, StagesMatch
<1>7. WorkerMatches'
  <2>1. CASE RequestArrives
    BY <1>0, <2>1 DEF LifecycleInv, Names, StageNames, ResourceNames, StagesMatch,
       WorkerMatches
  <2>2. CASE RequestEnds
    BY <1>0, <2>2 DEF LifecycleInv, Names, StageNames, ResourceNames, StagesMatch,
       WorkerMatches
  <2>3. QED
    BY <2>1, <2>2
<1>8. ResourcesMatch'
  BY <1>0 DEF LifecycleInv, Names, StageNames, ResourceNames, Flags, Ends, Alive,
     ResourcesMatch, StagesMatch
<1>9. EndsCleanly'
  BY <1>0 DEF LifecycleInv, Names, StageNames, ResourceNames, Flags, Ends, Alive,
     StagesMatch, WorkerMatches, ResourcesMatch, EndsCleanly
<1>10. QED
  BY <1>2, <1>3, <1>4, <1>5, <1>6, <1>7, <1>8, <1>9 DEF LifecycleInv

\* Polls begin only while the worker runs.
LEMMA PollGoesOnKeepsInv == ASSUME LifecycleInv, (PollBegins \/ PollGoesOn) PROVE LifecycleInv'
<1> USE SignalAssumption DEF PollBegins, PollGoesOn, workerVars
<1>0. Names /\ Flags /\ Ends
  BY TypeParts DEF LifecycleInv
<1>1. armed' = armed
  OBVIOUS
<1>2. LifecycleTypeOK'
  <2>1. Names'
    BY <1>0 DEF Names, StageNames, ResourceNames
  <2>2. Flags'
    BY <1>0 DEF Flags
  <2>3. Ends'
    BY <1>0 DEF Ends
  <2>4. QED
    BY <1>1, <2>1, <2>2, <2>3, ArmedIsALine, TypePartsNext
<1>3. TimersMatch'
  BY <1>0, <1>1 DEF LifecycleInv, Names, StageNames, ResourceNames, Flags, Ends,
     TimersMatch
<1>4. HardStopComesFirst'
  BY <1>0, <1>1 DEF LifecycleInv, Names, StageNames, ResourceNames, Flags, Ends,
     StagesMatch, HardStopComesFirst, TimersMatch
<1>5. NoGraceIsOver'
  BY <1>0 DEF LifecycleInv, Names, StageNames, ResourceNames, Flags, Ends,
     StagesMatch, NoGraceIsOver, HardStopComesFirst
<1>6. StagesMatch'
  BY <1>0 DEF LifecycleInv, Names, StageNames, ResourceNames, Flags, Ends, StagesMatch
<1>7. WorkerMatches'
  <2>1. CASE PollBegins
    BY <1>0, <2>1 DEF LifecycleInv, Names, StageNames, ResourceNames, StagesMatch,
       WorkerMatches
  <2>2. CASE PollGoesOn
    BY <1>0, <2>2 DEF LifecycleInv, Names, StageNames, ResourceNames, StagesMatch,
       WorkerMatches
  <2>3. QED
    BY <2>1, <2>2
<1>8. ResourcesMatch'
  BY <1>0 DEF LifecycleInv, Names, StageNames, ResourceNames, Flags, Ends, Alive,
     ResourcesMatch, StagesMatch
<1>9. EndsCleanly'
  BY <1>0 DEF LifecycleInv, Names, StageNames, ResourceNames, Flags, Ends, Alive,
     StagesMatch, WorkerMatches, ResourcesMatch, EndsCleanly
<1>10. QED
  BY <1>2, <1>3, <1>4, <1>5, <1>6, <1>7, <1>8, <1>9 DEF LifecycleInv

\* The end of an iteration lets a stop that waited for it go on.
LEMMA PollEndsKeepsInv == ASSUME LifecycleInv, PollEnds PROVE LifecycleInv'
<1> USE SignalAssumption DEF PollEnds, ScheduleNext, AtRabbit, AtKnex, Closing,
     workerVars
<1>0. Names /\ Flags /\ Ends
  BY TypeParts DEF LifecycleInv
<1>1. /\ armed' \in Line(Timer) /\ ToSet(armed') \subseteq ToSet(armed)
      /\ stop = "no" => armed' = armed
  BY ArmedIsALine, ClearClears
<1>2. LifecycleTypeOK'
  <2>1. Names'
    <3>1. rabbit' \in {"open", "closing", "closed"} /\ knex' \in {"open", "closing", "closed"}
      BY <1>0 DEF Names, StageNames, ResourceNames
    <3>2. /\ life' = life /\ main' = main /\ http' = http
          /\ stop' \in {stop, "worker again", "rabbit first", "rabbit", "knex"}
          /\ worker' \in {worker, "stopped"} /\ iteration' \in {iteration, "none"}
      OBVIOUS
    <3>3. QED
      BY <1>0, <3>1, <3>2 DEF Names, StageNames, ResourceNames
  <2>2. Flags'
    BY <1>0 DEF Flags
  <2>3. Ends'
    BY <1>0 DEF Ends
  <2>4. QED
    BY <1>1, <2>1, <2>2, <2>3, ArmedIsALine, TypePartsNext
<1>3. TimersMatch'
  BY <1>0, <1>1 DEF LifecycleInv, Names, StageNames, ResourceNames, Flags, Ends,
     TimersMatch
<1>4. HardStopComesFirst'
  BY <1>0, <1>1 DEF LifecycleInv, Names, StageNames, ResourceNames, Flags, Ends,
     StagesMatch, HardStopComesFirst, TimersMatch
<1>5. NoGraceIsOver'
  BY <1>0 DEF LifecycleInv, Names, StageNames, ResourceNames, Flags, Ends,
     StagesMatch, NoGraceIsOver, HardStopComesFirst
<1>6. StagesMatch'
  BY <1>0 DEF LifecycleInv, Names, StageNames, ResourceNames, Flags, Ends, StagesMatch
<1>7. WorkerMatches'
  BY <1>0 DEF LifecycleInv, Names, StageNames, ResourceNames, Flags, Ends,
     StagesMatch, WorkerMatches
<1>8. ResourcesMatch'
  BY <1>0 DEF LifecycleInv, Names, StageNames, ResourceNames, Flags, Ends, Alive,
     ResourcesMatch, StagesMatch
<1>9. EndsCleanly'
  BY <1>0 DEF LifecycleInv, Names, StageNames, ResourceNames, Flags, Ends, Alive,
     StagesMatch, WorkerMatches, ResourcesMatch, EndsCleanly
<1>10. QED
  BY <1>2, <1>3, <1>4, <1>5, <1>6, <1>7, <1>8, <1>9 DEF LifecycleInv

\* The worker is told to stop when the server is closed.
LEMMA HttpCloseKeepsInv == ASSUME LifecycleInv, (HttpCloses \/ HttpGraceOver) PROVE LifecycleInv'
<1> USE SignalAssumption DEF HttpCloses, HttpGraceOver, AfterHttp, AtWorker,
     AtRabbit, Closing, Expires, workerVars
<1>0. Names /\ Flags /\ Ends
  BY TypeParts DEF LifecycleInv
<1>1. /\ armed' \in Line(Timer) /\ ToSet(armed') \subseteq ToSet(armed) \cup {"grace"}
      /\ armed # <<>> /\ Head(armed) # "grace" => armed' # <<>> /\ Head(armed') # "grace"
  <2>1. /\ Clear("grace") \in Line(Timer) /\ ToSet(Clear("grace")) = ToSet(armed) \ {"grace"}
        /\ armed # <<>> /\ Head(armed) # "grace" =>
               Clear("grace") # <<>> /\ Head(Clear("grace")) = Head(armed)
    BY ArmedIsALine, ClearClears
  <2>2. CASE armed' = Clear("grace")
    BY <2>1, <2>2
  <2>3. CASE armed' = Append(Clear("grace"), "grace")
    <3>1. "grace" \in Timer
      BY DEF Timer
    <3>2. QED
      BY <2>1, <2>3, <3>1, ArmsLast
  <2>4. QED
    BY <2>2, <2>3
<1>2. LifecycleTypeOK'
  <2>1. Names'
    BY <1>0 DEF Names, StageNames, ResourceNames
  <2>2. Flags'
    BY <1>0 DEF Flags
  <2>3. Ends'
    BY <1>0 DEF Ends
  <2>4. QED
    BY <1>1, <2>1, <2>2, <2>3, ArmedIsALine, TypePartsNext
<1>3. TimersMatch'
  BY <1>0, <1>1 DEF LifecycleInv, Names, StageNames, ResourceNames, Flags, Ends,
     TimersMatch
<1>4. HardStopComesFirst'
  BY <1>0, <1>1 DEF LifecycleInv, Names, StageNames, ResourceNames, Flags, Ends,
     StagesMatch, HardStopComesFirst, TimersMatch
<1>5. NoGraceIsOver'
  BY <1>0 DEF LifecycleInv, Names, StageNames, ResourceNames, Flags, Ends,
     StagesMatch, NoGraceIsOver, HardStopComesFirst
<1>6. StagesMatch'
  BY <1>0 DEF LifecycleInv, Names, StageNames, ResourceNames, Flags, Ends, StagesMatch
<1>7. WorkerMatches'
  BY <1>0 DEF LifecycleInv, Names, StageNames, ResourceNames, Flags, Ends,
     StagesMatch, WorkerMatches
<1>8. ResourcesMatch'
  BY <1>0 DEF LifecycleInv, Names, StageNames, ResourceNames, Flags, Ends, Alive,
     ResourcesMatch, StagesMatch
<1>9. EndsCleanly'
  BY <1>0 DEF LifecycleInv, Names, StageNames, ResourceNames, Flags, Ends, Alive,
     StagesMatch, WorkerMatches, ResourcesMatch, EndsCleanly
<1>10. QED
  BY <1>2, <1>3, <1>4, <1>5, <1>6, <1>7, <1>8, <1>9 DEF LifecycleInv

\* The grace of the worker is over only in a direct call.
LEMMA WorkerGraceKeepsInv == ASSUME LifecycleInv, WorkerGraceOver PROVE LifecycleInv'
<1> USE SignalAssumption DEF WorkerGraceOver, Closing, Expires, workerVars
<1>0. Names /\ Flags /\ Ends
  BY TypeParts DEF LifecycleInv
<1>1. armed' \in Line(Timer) /\ ToSet(armed') \subseteq ToSet(armed) /\ stop # "no" /\ direct
  BY <1>0, ArmedIsALine, LineTail DEF LifecycleInv, HardStopComesFirst, Flags
<1>2. LifecycleTypeOK'
  <2>1. Names'
    <3>1. rabbit' \in {"open", "closing", "closed"} /\ knex' \in {"open", "closing", "closed"}
      BY <1>0 DEF Names, StageNames, ResourceNames
    <3>2. /\ life' = life /\ main' = main /\ http' = http
          /\ stop' \in {stop, "worker again", "rabbit first", "rabbit", "knex"}
          /\ worker' \in {worker, "stopped"} /\ iteration' \in {iteration, "none"}
      OBVIOUS
    <3>3. QED
      BY <1>0, <3>1, <3>2 DEF Names, StageNames, ResourceNames
  <2>2. Flags'
    BY <1>0 DEF Flags
  <2>3. Ends'
    BY <1>0 DEF Ends
  <2>4. QED
    BY <1>1, <2>1, <2>2, <2>3, ArmedIsALine, TypePartsNext
<1>3. TimersMatch'
  BY <1>0, <1>1 DEF LifecycleInv, Names, StageNames, ResourceNames, Flags, Ends,
     TimersMatch
<1>4. HardStopComesFirst'
  BY <1>0, <1>1 DEF LifecycleInv, Names, StageNames, ResourceNames, Flags, Ends,
     StagesMatch, HardStopComesFirst, TimersMatch
<1>5. NoGraceIsOver'
  BY <1>0 DEF LifecycleInv, Names, StageNames, ResourceNames, Flags, Ends,
     StagesMatch, NoGraceIsOver, HardStopComesFirst
<1>6. StagesMatch'
  BY <1>0 DEF LifecycleInv, Names, StageNames, ResourceNames, Flags, Ends, StagesMatch
<1>7. WorkerMatches'
  BY <1>0 DEF LifecycleInv, Names, StageNames, ResourceNames, Flags, Ends,
     StagesMatch, WorkerMatches
<1>8. ResourcesMatch'
  BY <1>0 DEF LifecycleInv, Names, StageNames, ResourceNames, Flags, Ends, Alive,
     ResourcesMatch, StagesMatch
<1>9. EndsCleanly'
  BY <1>0 DEF LifecycleInv, Names, StageNames, ResourceNames, Flags, Ends, Alive,
     StagesMatch, WorkerMatches, ResourcesMatch, EndsCleanly
<1>10. QED
  BY <1>2, <1>3, <1>4, <1>5, <1>6, <1>7, <1>8, <1>9 DEF LifecycleInv

\* The pool is closed when no iteration is left.
LEMMA RabbitClosesKeepsInv == ASSUME LifecycleInv, RabbitCloses PROVE LifecycleInv'
<1> USE SignalAssumption DEF RabbitCloses, AtKnex, Closing, workerVars
<1>0. Names /\ Flags /\ Ends
  BY TypeParts DEF LifecycleInv
<1>1. armed' = armed
  OBVIOUS
<1>2. LifecycleTypeOK'
  <2>1. Names'
    <3>1. rabbit' \in {"open", "closing", "closed"} /\ knex' \in {"open", "closing", "closed"}
      BY <1>0 DEF Names, StageNames, ResourceNames
    <3>2. /\ life' = life /\ main' = main /\ http' = http
          /\ stop' \in {stop, "worker again", "rabbit first", "rabbit", "knex"}
          /\ worker' \in {worker, "stopped"} /\ iteration' \in {iteration, "none"}
      OBVIOUS
    <3>3. QED
      BY <1>0, <3>1, <3>2 DEF Names, StageNames, ResourceNames
  <2>2. Flags'
    BY <1>0 DEF Flags
  <2>3. Ends'
    BY <1>0 DEF Ends
  <2>4. QED
    BY <1>1, <2>1, <2>2, <2>3, ArmedIsALine, TypePartsNext
<1>3. TimersMatch'
  BY <1>0, <1>1 DEF LifecycleInv, Names, StageNames, ResourceNames, Flags, Ends,
     TimersMatch
<1>4. HardStopComesFirst'
  BY <1>0, <1>1 DEF LifecycleInv, Names, StageNames, ResourceNames, Flags, Ends,
     StagesMatch, HardStopComesFirst, TimersMatch
<1>5. NoGraceIsOver'
  BY <1>0 DEF LifecycleInv, Names, StageNames, ResourceNames, Flags, Ends,
     StagesMatch, NoGraceIsOver, HardStopComesFirst
<1>6. StagesMatch'
  BY <1>0 DEF LifecycleInv, Names, StageNames, ResourceNames, Flags, Ends, StagesMatch
<1>7. WorkerMatches'
  BY <1>0 DEF LifecycleInv, Names, StageNames, ResourceNames, Flags, Ends,
     StagesMatch, WorkerMatches
<1>8. ResourcesMatch'
  BY <1>0 DEF LifecycleInv, Names, StageNames, ResourceNames, Flags, Ends, Alive,
     ResourcesMatch, StagesMatch
<1>9. EndsCleanly'
  BY <1>0 DEF LifecycleInv, Names, StageNames, ResourceNames, Flags, Ends, Alive,
     StagesMatch, WorkerMatches, ResourcesMatch, EndsCleanly
<1>10. QED
  BY <1>2, <1>3, <1>4, <1>5, <1>6, <1>7, <1>8, <1>9 DEF LifecycleInv

\* A stop that has settled leaves no timer.
LEMMA KnexClosesKeepsInv == ASSUME LifecycleInv, KnexCloses PROVE LifecycleInv'
<1> USE SignalAssumption DEF KnexCloses, Settled, workerVars
<1>0. Names /\ Flags /\ Ends
  BY TypeParts DEF LifecycleInv
<1>1. armed' \in Line(Timer) /\ ToSet(armed') = {} /\ armed' = <<>>
  BY NoTimers
<1>2. LifecycleTypeOK'
  <2>1. Names'
    BY <1>0 DEF Names, StageNames, ResourceNames
  <2>2. Flags'
    BY <1>0 DEF Flags
  <2>3. Ends'
    BY <1>0 DEF Ends
  <2>4. QED
    BY <1>1, <2>1, <2>2, <2>3, ArmedIsALine, TypePartsNext
<1>3. TimersMatch'
  BY <1>0, <1>1 DEF LifecycleInv, Names, StageNames, ResourceNames, Flags, Ends,
     TimersMatch
<1>4. HardStopComesFirst'
  BY <1>0, <1>1 DEF LifecycleInv, Names, StageNames, ResourceNames, Flags, Ends,
     StagesMatch, HardStopComesFirst, TimersMatch
<1>5. NoGraceIsOver'
  BY <1>0 DEF LifecycleInv, Names, StageNames, ResourceNames, Flags, Ends,
     StagesMatch, NoGraceIsOver, HardStopComesFirst
<1>6. StagesMatch'
  BY <1>0 DEF LifecycleInv, Names, StageNames, ResourceNames, Flags, Ends, StagesMatch
<1>7. WorkerMatches'
  BY <1>0 DEF LifecycleInv, Names, StageNames, ResourceNames, Flags, Ends,
     StagesMatch, WorkerMatches
<1>8. ResourcesMatch'
  BY <1>0 DEF LifecycleInv, Names, StageNames, ResourceNames, Flags, Ends, Alive,
     ResourcesMatch, StagesMatch
<1>9. EndsCleanly'
  BY <1>0 DEF LifecycleInv, Names, StageNames, ResourceNames, Flags, Ends, Alive,
     StagesMatch, WorkerMatches, ResourcesMatch, EndsCleanly
<1>10. QED
  BY <1>2, <1>3, <1>4, <1>5, <1>6, <1>7, <1>8, <1>9 DEF LifecycleInv

\* A signal arms its hard stop before any grace of the stop it begins.
LEMMA HandleSignalKeepsInv ==
    ASSUME LifecycleInv, NEW s \in Signal, HandleSignal(s)
    PROVE  LifecycleInv'
<1> USE SignalAssumption DEF HandleSignal, BeginShutdown, workerVars
<1>0. Names /\ Flags /\ Ends
  BY TypeParts DEF LifecycleInv
<1>1. /\ armed' \in Line(Timer) /\ ToSet(armed') \subseteq ToSet(armed) \cup {s, "grace"}
      /\ armed' # <<>> /\ Head(armed') = IF armed = <<>> THEN s ELSE Head(armed)
  <2>1. s \in Timer /\ "grace" \in Timer /\ s # "grace"
    BY DEF Timer
  <2>2. s \notin ToSet(armed)
    BY DEF LifecycleInv, TimersMatch
  <2>3. /\ Append(armed, s) \in Line(Timer) /\ ToSet(Append(armed, s)) = ToSet(armed) \cup {s}
        /\ Append(armed, s) # <<>>
        /\ Head(Append(armed, s)) = IF armed = <<>> THEN s ELSE Head(armed)
    BY <2>1, <2>2, ArmedIsALine, ArmsLast
  <2>4. CASE stop = "no"
    <3>1. armed' = Append(Append(armed, s), "grace")
      BY <2>4
    <3>2. ToSet(armed) = {}
      BY <2>4, NoTimers DEF LifecycleInv, TimersMatch
    <3>3. QED
      BY <2>1, <2>3, <3>1, <3>2, ArmsLast
  <2>5. CASE stop # "no"
    BY <2>3, <2>5
  <2>6. QED
    BY <2>4, <2>5
<1>2. LifecycleTypeOK'
  <2>1. Names'
    BY <1>0 DEF Names, StageNames, ResourceNames
  <2>2. Flags'
    BY <1>0 DEF Flags
  <2>3. Ends'
    BY <1>0 DEF Ends
  <2>4. QED
    BY <1>1, <2>1, <2>2, <2>3, ArmedIsALine, TypePartsNext
<1>3. TimersMatch'
  BY <1>0, <1>1 DEF LifecycleInv, Names, StageNames, ResourceNames, Flags, Ends,
     TimersMatch
<1>4. HardStopComesFirst'
  BY <1>0, <1>1 DEF LifecycleInv, Names, StageNames, ResourceNames, Flags, Ends,
     StagesMatch, HardStopComesFirst, TimersMatch
<1>5. NoGraceIsOver'
  BY <1>0 DEF LifecycleInv, Names, StageNames, ResourceNames, Flags, Ends,
     StagesMatch, NoGraceIsOver, HardStopComesFirst
<1>6. StagesMatch'
  BY <1>0 DEF LifecycleInv, Names, StageNames, ResourceNames, Flags, Ends, StagesMatch
<1>7. WorkerMatches'
  BY <1>0 DEF LifecycleInv, Names, StageNames, ResourceNames, Flags, Ends,
     StagesMatch, WorkerMatches
<1>8. ResourcesMatch'
  BY <1>0 DEF LifecycleInv, Names, StageNames, ResourceNames, Flags, Ends, Alive,
     ResourcesMatch, StagesMatch
<1>9. EndsCleanly'
  BY <1>0 DEF LifecycleInv, Names, StageNames, ResourceNames, Flags, Ends, Alive,
     StagesMatch, WorkerMatches, ResourcesMatch, EndsCleanly
<1>10. QED
  BY <1>2, <1>3, <1>4, <1>5, <1>6, <1>7, <1>8, <1>9 DEF LifecycleInv

\* A direct call has a grace and no hard stop.
LEMMA CallKeepsInv == ASSUME LifecycleInv, CallShutdown PROVE LifecycleInv'
<1> USE SignalAssumption DEF CallShutdown, BeginShutdown, workerVars
<1>0. Names /\ Flags /\ Ends
  BY TypeParts DEF LifecycleInv
<1>1. armed' \in Line(Timer) /\ ToSet(armed') \subseteq {"grace"}
  <2>1. "grace" \in Timer
    BY DEF Timer
  <2>2. armed = <<>>
    BY DEF LifecycleInv, TimersMatch
  <2>3. QED
    BY <2>1, <2>2, NoTimers, ArmsLast
<1>2. LifecycleTypeOK'
  <2>1. Names'
    BY <1>0 DEF Names, StageNames, ResourceNames
  <2>2. Flags'
    BY <1>0 DEF Flags
  <2>3. Ends'
    BY <1>0 DEF Ends
  <2>4. QED
    BY <1>1, <2>1, <2>2, <2>3, ArmedIsALine, TypePartsNext
<1>3. TimersMatch'
  BY <1>0, <1>1 DEF LifecycleInv, Names, StageNames, ResourceNames, Flags, Ends,
     TimersMatch
<1>4. HardStopComesFirst'
  BY <1>0, <1>1 DEF LifecycleInv, Names, StageNames, ResourceNames, Flags, Ends,
     StagesMatch, HardStopComesFirst, TimersMatch
<1>5. NoGraceIsOver'
  BY <1>0 DEF LifecycleInv, Names, StageNames, ResourceNames, Flags, Ends,
     StagesMatch, NoGraceIsOver, HardStopComesFirst
<1>6. StagesMatch'
  BY <1>0 DEF LifecycleInv, Names, StageNames, ResourceNames, Flags, Ends, StagesMatch
<1>7. WorkerMatches'
  BY <1>0 DEF LifecycleInv, Names, StageNames, ResourceNames, Flags, Ends,
     StagesMatch, WorkerMatches
<1>8. ResourcesMatch'
  BY <1>0 DEF LifecycleInv, Names, StageNames, ResourceNames, Flags, Ends, Alive,
     ResourcesMatch, StagesMatch
<1>9. EndsCleanly'
  BY <1>0 DEF LifecycleInv, Names, StageNames, ResourceNames, Flags, Ends, Alive,
     StagesMatch, WorkerMatches, ResourcesMatch, EndsCleanly
<1>10. QED
  BY <1>2, <1>3, <1>4, <1>5, <1>6, <1>7, <1>8, <1>9 DEF LifecycleInv

\* The process ends by itself when everything is closed.
LEMMA EndKeepsInv == ASSUME LifecycleInv, ProcessEnds PROVE LifecycleInv'
<1> USE SignalAssumption DEF ProcessEnds, workerVars
<1>0. Names /\ Flags /\ Ends
  BY TypeParts DEF LifecycleInv
<1>1. armed' = armed
  OBVIOUS
<1>2. LifecycleTypeOK'
  <2>1. Names'
    BY <1>0 DEF Names, StageNames, ResourceNames
  <2>2. Flags'
    BY <1>0 DEF Flags
  <2>3. Ends'
    BY <1>0 DEF Ends
  <2>4. QED
    BY <1>1, <2>1, <2>2, <2>3, ArmedIsALine, TypePartsNext
<1>3. TimersMatch'
  BY <1>0, <1>1 DEF LifecycleInv, Names, StageNames, ResourceNames, Flags, Ends,
     TimersMatch
<1>4. HardStopComesFirst'
  BY <1>0, <1>1 DEF LifecycleInv, Names, StageNames, ResourceNames, Flags, Ends,
     StagesMatch, HardStopComesFirst, TimersMatch
<1>5. NoGraceIsOver'
  BY <1>0 DEF LifecycleInv, Names, StageNames, ResourceNames, Flags, Ends,
     StagesMatch, NoGraceIsOver, HardStopComesFirst
<1>6. StagesMatch'
  BY <1>0 DEF LifecycleInv, Names, StageNames, ResourceNames, Flags, Ends, StagesMatch
<1>7. WorkerMatches'
  BY <1>0 DEF LifecycleInv, Names, StageNames, ResourceNames, Flags, Ends,
     StagesMatch, WorkerMatches
<1>8. ResourcesMatch'
  BY <1>0 DEF LifecycleInv, Names, StageNames, ResourceNames, Flags, Ends, Alive,
     ResourcesMatch, StagesMatch
<1>9. EndsCleanly'
  BY <1>0 DEF LifecycleInv, Names, StageNames, ResourceNames, Flags, Ends, Alive,
     StagesMatch, WorkerMatches, ResourcesMatch, EndsCleanly
<1>10. QED
  BY <1>2, <1>3, <1>4, <1>5, <1>6, <1>7, <1>8, <1>9 DEF LifecycleInv

\* The hard stop ends the process.
LEMMA HardStopKeepsInv == ASSUME LifecycleInv, NEW s \in Signal, HardStop(s) PROVE LifecycleInv'
<1> USE SignalAssumption DEF HardStop, Closing, Expires, workerVars
<1>0. Names /\ Flags /\ Ends
  BY TypeParts DEF LifecycleInv
<1>1. armed' = armed
  OBVIOUS
<1>2. LifecycleTypeOK'
  <2>1. Names'
    <3>1. rabbit' = Closing(rabbit) /\ knex' = Closing(knex)
      OBVIOUS
    <3>2. UNCHANGED <<life, main, http, stop, worker, iteration>>
      OBVIOUS
    <3>3. QED
      BY <1>0, <3>1, <3>2, ClosingNames
  <2>2. Flags'
    BY <1>0 DEF Flags
  <2>3. Ends'
    BY <1>0 DEF Ends
  <2>4. QED
    BY <1>1, <2>1, <2>2, <2>3, ArmedIsALine, TypePartsNext
<1>3. TimersMatch'
  BY <1>0, <1>1 DEF LifecycleInv, Names, StageNames, ResourceNames, Flags, Ends,
     TimersMatch
<1>4. HardStopComesFirst'
  BY <1>0, <1>1 DEF LifecycleInv, Names, StageNames, ResourceNames, Flags, Ends,
     StagesMatch, HardStopComesFirst, TimersMatch
<1>5. NoGraceIsOver'
  BY <1>0 DEF LifecycleInv, Names, StageNames, ResourceNames, Flags, Ends,
     StagesMatch, NoGraceIsOver, HardStopComesFirst
<1>6. StagesMatch'
  BY <1>0 DEF LifecycleInv, Names, StageNames, ResourceNames, Flags, Ends, StagesMatch
<1>7. WorkerMatches'
  BY <1>0 DEF LifecycleInv, Names, StageNames, ResourceNames, Flags, Ends,
     StagesMatch, WorkerMatches
<1>8. ResourcesMatch'
  BY <1>0 DEF LifecycleInv, Names, StageNames, ResourceNames, Flags, Ends, Alive,
     ResourcesMatch, StagesMatch
<1>9. EndsCleanly'
  BY <1>0 DEF LifecycleInv, Names, StageNames, ResourceNames, Flags, Ends, Alive,
     StagesMatch, WorkerMatches, ResourcesMatch, EndsCleanly
<1>10. QED
  BY <1>2, <1>3, <1>4, <1>5, <1>6, <1>7, <1>8, <1>9 DEF LifecycleInv

\* The invariant is inductive.
LEMMA LifecycleNextInv == LifecycleInv /\ [LifecycleNext]_lifecycleVars => LifecycleInv'
<1> SUFFICES ASSUME LifecycleInv, [LifecycleNext]_lifecycleVars PROVE LifecycleInv'
  OBVIOUS
<1>1. CASE Boot
  BY <1>1, BootKeepsInv
<1>2. CASE Requests
  BY <1>2, RequestsKeepInv
<1>3. CASE Polls
  BY <1>3, PollGoesOnKeepsInv, PollEndsKeepsInv DEF Polls
<1>4. CASE Shutdown
  BY <1>4, HttpCloseKeepsInv, WorkerGraceKeepsInv, RabbitClosesKeepsInv,
     KnexClosesKeepsInv
     DEF Shutdown
<1>5. CASE CallShutdown
  BY <1>5, CallKeepsInv
<1>6. CASE ProcessEnds
  BY <1>6, EndKeepsInv
<1>7. ASSUME NEW s \in Signal, HandleSignal(s) \/ HardStop(s) PROVE LifecycleInv'
  BY <1>7, HandleSignalKeepsInv, HardStopKeepsInv
<1>8. CASE UNCHANGED lifecycleVars
  <2> USE <1>8 DEF lifecycleVars, workerVars
  <2>1. LifecycleTypeOK'
    <3>1. Names /\ Flags /\ Ends
      BY TypeParts DEF LifecycleInv
    <3>2. Names' /\ Flags' /\ Ends'
      <4>1. Names'
        BY <3>1, NamesStay
      <4>2. Flags'
        BY <3>1 DEF Flags
      <4>3. Ends'
        BY <3>1 DEF Ends
      <4>4. QED
        BY <4>1, <4>2, <4>3
    <3>3. QED
      BY <3>2, ArmedIsALine, TypePartsNext
  <2>2. StagesMatch' /\ EndsCleanly' /\ ResourcesMatch'
    BY DEF LifecycleInv, StagesMatch, EndsCleanly, ResourcesMatch, Alive
  <2>3. WorkerMatches'
    BY DEF LifecycleInv, WorkerMatches
  <2>4. TimersMatch' /\ HardStopComesFirst' /\ NoGraceIsOver'
    BY DEF LifecycleInv, TimersMatch, HardStopComesFirst, NoGraceIsOver
  <2>5. QED
    BY <2>1, <2>2, <2>3, <2>4 DEF LifecycleInv
<1>9. QED
  BY <1>1, <1>2, <1>3, <1>4, <1>5, <1>6, <1>7, <1>8 DEF LifecycleNext

-----------------------------------------------------------------------------
(* Theorems *)

\* PaymentServiceBootstrap, main and the loop of OutboxPublisherWorker: the
\* inductive invariant.
THEOREM LifecycleInvHolds == LifecycleSpec => []LifecycleInv
  BY LifecycleInitInv, LifecycleNextInv, PTL DEF LifecycleSpec

\* No grace timer of handleSignal or stop is armed twice.
THEOREM LifecycleTypeCorrect == LifecycleSpec => []LifecycleTypeOK
<1>1. LifecycleInv => LifecycleTypeOK
  BY DEF LifecycleInv
<1>2. QED
  BY LifecycleInvHolds, <1>1, PTL

\* Nothing polls a pool that is closed, and a stop() told by signals never takes
\* the broker or the pool away from a request or an iteration, in whatever order
\* boot, signals, iterations and timers come: the hard stop comes first.
THEOREM ClosesNothingInUse == LifecycleSpec => []ClosesBehindWork
<1>1. LifecycleInv => NothingPollsAClosedPool
  BY DEF LifecycleInv, LifecycleTypeOK, WorkerMatches, ResourcesMatch,
     NothingPollsAClosedPool
<1>2. LifecycleInv => WorkIsNotCutOff
  BY DEF LifecycleInv, LifecycleTypeOK, StagesMatch, WorkerMatches, ResourcesMatch,
     NoGraceIsOver, WorkIsNotCutOff
<1>3. LifecycleInv => ClosesBehindWork
  BY <1>1, <1>2 DEF ClosesBehindWork
<1>4. QED
  BY LifecycleInvHolds, <1>3, PTL

\* A process that ends by itself has closed the broker and the pool, and exits with
\* 0 only when main's boot neither failed nor was interrupted.
THEOREM EndsAreClean == LifecycleSpec => []EndsCleanly
<1>1. LifecycleInv => EndsCleanly
  BY DEF LifecycleInv
<1>2. QED
  BY LifecycleInvHolds, <1>1, PTL

===============================================================================
