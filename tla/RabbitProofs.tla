------------------------------ MODULE RabbitProofs ------------------------------
(***************************************************************************)
(* Theorems about RabbitConnection: for any number of callers, attempts,   *)
(* connections and channels, nothing open is forgotten, whoever publishes  *)
(* hears of returned messages, and the manager implements Transport.       *)
(***************************************************************************)
EXTENDS RabbitConnection, TLAPS

-----------------------------------------------------------------------------
(* States *)

\* What an attempt holds at which point.
LEMMA AttemptFields ==
    ASSUME NEW s \in AttemptState
    PROVE  /\ s.at \in {"none", "opening", "opened", "creating", "discarding",
                        "asserting", "asserted"}
           /\ s.at \in {"none", "opening"} => s.conn = None
           /\ s.at \notin {"none", "opening"} => s.conn \in Connection
           /\ s.at \in {"asserting", "asserted"} => s.chan \in Channel
           /\ s.at \notin {"asserting", "asserted"} => s.chan = None
           /\ s.at = "none" => s = NoAttempt
BY DEF AttemptState, NoAttempt

\* What a caller waits for or has got.
LEMMA CallerFields ==
    ASSUME NEW s \in CallerState
    PROVE  /\ s.at \in {"idle", "waiting", "holding", "confirming"}
           /\ s.at = "idle" => s = Idle
           /\ s.at = "waiting" => s.on \in Attempt /\ s = [at |-> "waiting", on |-> s.on]
           /\ s.at \in {"holding", "confirming"} => s.on \in Channel
BY DEF CallerState, Idle

\* A channel has a connection until it ends.
LEMMA ChannelFields ==
    ASSUME RabbitTypeOK, NEW h \in Channel
    PROVE  /\ chans[h].life \in Life
           /\ chans[h] = NoChannel <=> chans[h].life = "dead"
           /\ chans[h] # NoChannel => chans[h].of \in Connection
<1>1. chans[h] \in {NoChannel} \cup [life : {"open", "closing"}, of : Connection]
  BY DEF RabbitTypeOK
<1>2. QED
  BY <1>1 DEF NoChannel, Life

\* What close() holds at which point.
LEMMA ClosingFields ==
    ASSUME RabbitTypeOK
    PROVE  /\ closing.at \in {"no", "waiting", "done", "channel", "connection"}
           /\ closing.at \in {"no", "waiting", "done"} => closing.conn = None
           /\ closing.at # "channel" => closing.chan = None
           /\ closing.at = "channel" => closing.chan \in Channel
           /\ closing.at = "channel" => closing.conn \in Connection \cup {None}
           /\ closing.at = "connection" => closing.conn \in Connection
BY DEF RabbitTypeOK

\* Only the attempt that callers share is under way.
LEMMA SoleAttempt ==
    ASSUME RInv
    PROVE  /\ \A a \in Attempt : attempt[a] \in AttemptState
           /\ \A a \in Attempt : connecting # a => attempt[a] = NoAttempt
           /\ \A a \in Attempt : attempt[a].at # "none" =>
                 connecting = a /\ channel = None /\ connecting # None
<1>1. \A a \in Attempt : attempt[a] \in AttemptState
  BY DEF RInv, RabbitTypeOK
<1>2. \A a \in Attempt : connecting # a => attempt[a].at = "none"
  BY DEF RInv, AttemptIsShared
<1>3. \A a \in Attempt : attempt[a].at # "none" =>
         connecting = a /\ channel = None /\ connecting # None
  BY NoneAssumption DEF RInv, AttemptIsShared
<1>4. QED
  BY <1>1, <1>2, <1>3, AttemptFields

\* amqplib's close() of a connection: an open one is closing, a dead one stays dead.
LEMMA CloseLinkFacts ==
    ASSUME RabbitTypeOK, NEW k \in Connection, links' = CloseLink(k)
    PROVE  /\ links' \in [Connection -> Life]
           /\ links'[k] # "open"
           /\ \A j \in Connection : links'[j] = "dead" <=> links[j] = "dead"
           /\ \A j \in Connection : links'[j] = "open" => links[j] = "open" /\ j # k
           /\ \A j \in Connection : j # k => links'[j] = links[j]
BY DEF RabbitTypeOK, CloseLink, Closed, Life

\* Likewise of a channel, which stays one of its connection.
LEMMA CloseChanFacts ==
    ASSUME RabbitTypeOK, NEW h \in Channel, chans' = CloseChan(h)
    PROVE  /\ chans' \in [Channel -> {NoChannel}
                             \cup [life : {"open", "closing"}, of : Connection]]
           /\ chans'[h].life # "open"
           /\ \A g \in Channel : g # h => chans'[g] = chans[g]
           /\ \A g \in Channel : chans'[g] = NoChannel <=> chans[g] = NoChannel
           /\ \A g \in Channel : chans'[g].of = chans[g].of
<1> DEFINE T == [life : {"open", "closing"}, of : Connection]
<1>1. chans \in [Channel -> {NoChannel} \cup T]
  BY DEF RabbitTypeOK
<1>2. \A g \in Channel : g # h => chans'[g] = chans[g]
  BY <1>1 DEF CloseChan
<1>3. CASE chans[h] = NoChannel
  <2>1. /\ chans'[h] \in [life : {"dead"}, of : {None}]
        /\ chans'[h].of = None /\ chans'[h].life = "dead"
    BY <1>1, <1>3 DEF CloseChan, Closed, NoChannel
  <2>2. chans'[h] = NoChannel
    BY <2>1 DEF NoChannel
  <2>3. chans' \in [Channel -> {NoChannel} \cup T]
    BY <1>1, <1>2, <2>2 DEF CloseChan
  <2>4. QED
    BY <1>2, <1>3, <2>1, <2>2, <2>3 DEF NoChannel
<1>4. CASE chans[h] # NoChannel
  <2>1. chans[h] \in T
    BY <1>1, <1>4
  <2>2. /\ chans'[h] \in T /\ chans'[h].of = chans[h].of /\ chans'[h].life # "open"
        /\ chans'[h] # NoChannel
    BY <1>1, <2>1 DEF CloseChan, Closed, NoChannel
  <2>3. chans' \in [Channel -> {NoChannel} \cup T]
    BY <1>1, <1>2, <2>2 DEF CloseChan
  <2>4. QED
    BY <1>2, <1>4, <2>2, <2>3
<1>5. QED
  BY <1>3, <1>4

\* The promise of an attempt settles: no attempt is under way, nobody waits.
LEMMA Settles ==
    ASSUME RInv, NEW a \in Attempt, attempt[a].at # "none",
           NEW outcome \in CallerState, outcome.at # "waiting", SettleWith(a, outcome)
    PROVE  /\ connecting' = None
           /\ attempt' \in [Attempt -> AttemptState]
           /\ \A b \in Attempt : attempt'[b] = NoAttempt
           /\ caller' \in [Caller -> CallerState]
           /\ \A c \in Caller : caller'[c].at # "waiting"
           /\ \A c \in Caller : caller'[c] \in {caller[c], outcome}
<1>1. connecting = a
  BY SoleAttempt
<1>2. \E c \in Caller : caller[c] = [at |-> "waiting", on |-> a]
  BY <1>1 DEF RInv, AttemptIsShared
<1>3. connecting' = None
  BY <1>2 DEF SettleWith
<1>4. attempt' \in [Attempt -> AttemptState] /\ \A b \in Attempt : attempt'[b] = NoAttempt
  <2>1. NoAttempt \in AttemptState
    BY DEF NoAttempt, AttemptState
  <2>2. attempt \in [Attempt -> AttemptState]
    BY DEF RInv, RabbitTypeOK
  <2>3. QED
    BY <1>1, <2>1, <2>2, SoleAttempt DEF SettleWith
<1>5. caller \in [Caller -> CallerState]
  BY DEF RInv, RabbitTypeOK
<1>6. /\ caller' \in [Caller -> CallerState]
      /\ \A c \in Caller : caller'[c] \in {caller[c], outcome}
  BY <1>5 DEF SettleWith
<1>7. ASSUME NEW c \in Caller PROVE caller'[c].at # "waiting"
  <2>1. CASE caller[c] = [at |-> "waiting", on |-> a]
    BY <1>7, <2>1 DEF SettleWith
  <2>2. CASE caller[c] # [at |-> "waiting", on |-> a]
    <3>1. caller[c].at # "waiting"
      BY <1>1, <1>5, <2>2, CallerFields DEF RInv, AttemptIsShared
    <3>2. QED
      BY <2>2, <3>1 DEF SettleWith
  <2>3. QED
    BY <2>1, <2>2
<1>8. QED
  BY <1>3, <1>4, <1>6, <1>7

-----------------------------------------------------------------------------
(* The inductive invariant: callers *)

\* Initially nothing is open and nobody has called.
LEMMA RabbitInitInv == RabbitInit => RInv
<1> SUFFICES ASSUME RabbitInit PROVE RInv
  OBVIOUS
<1>1. RabbitTypeOK
  BY DEF RabbitInit, RabbitTypeOK, AttemptState, NoAttempt, CallerState, NotClosing, Life
<1>2. NoOrphans /\ ClosingIsFinal /\ CallersAreHeard
  BY DEF RabbitInit, NoOrphans, ClosingIsFinal, CallersAreHeard, NotClosing, Usable,
         NoChannel, Idle
<1>3. AttemptIsShared /\ ConnectionIsHandedOver /\ ChannelsBelong
  BY NoneAssumption DEF RabbitInit, AttemptIsShared, ConnectionIsHandedOver, ChannelsBelong,
         NoAttempt, NoChannel, Idle
<1>4. QED
  BY <1>1, <1>2, <1>3 DEF RInv

\* A caller without a promise to wait for changes nothing but itself.
LEMMA CallerMovesInv ==
    ASSUME RInv, NEW c \in Caller, caller[c].at # "waiting",
           NEW s \in CallerState, s.at # "waiting",
           s.at \in {"holding", "confirming"} /\ Usable(s.on) => s.on \in listening,
           caller' = [caller EXCEPT ![c] = s],
           UNCHANGED <<fieldVars, attempt, closing, linkVars>>
    PROVE  RInv'
<1> USE DEF fieldVars, linkVars
<1>1. caller \in [Caller -> CallerState]
  BY DEF RInv, RabbitTypeOK
<1>2. RabbitTypeOK'
  BY <1>1 DEF RInv, RabbitTypeOK
<1>3. NoOrphans' /\ ConnectionIsHandedOver' /\ ClosingIsFinal' /\ ChannelsBelong'
  BY DEF RInv, NoOrphans, ConnectionIsHandedOver, ClosingIsFinal, ChannelsBelong, Usable
<1>4. AttemptIsShared'
  <2>1. ASSUME NEW a \in Attempt, connecting' = a
        PROVE  \E d \in Caller : caller'[d] = [at |-> "waiting", on |-> a]
    <3>1. PICK d \in Caller : caller[d] = [at |-> "waiting", on |-> a]
      BY <2>1 DEF RInv, AttemptIsShared
    <3>2. d # c
      BY <3>1
    <3>3. QED
      BY <1>1, <3>1, <3>2
  <2>2. \A d \in Caller : caller'[d].at = "waiting" => connecting' = caller'[d].on
    BY <1>1 DEF RInv, AttemptIsShared
  <2>3. QED
    BY <2>1, <2>2 DEF RInv, AttemptIsShared
<1>5. CallersAreHeard'
  BY <1>1 DEF RInv, CallersAreHeard, Usable
<1>6. QED
  BY <1>2, <1>3, <1>4, <1>5 DEF RInv

\* A caller gives up the channel it has got and has it invalidated.
LEMMA InvalidateKeepsInv ==
    ASSUME RInv, NEW c \in Caller, caller[c].at \in {"holding", "confirming"},
           Invalidate(caller[c].on), caller' = [caller EXCEPT ![c] = Idle],
           UNCHANGED <<connection, connecting, closed, attempt, closing, links>>
    PROVE  RInv'
<1> DEFINE h == caller[c].on
<1>1. caller \in [Caller -> CallerState] /\ h \in Channel
  BY CallerFields DEF RInv, RabbitTypeOK
<1>2. Idle \in CallerState /\ Idle.at = "idle"
  BY DEF Idle, CallerState
<1>3. CASE h # channel
  <2>1. UNCHANGED <<fieldVars, attempt, closing, linkVars>>
    BY <1>3 DEF Invalidate, fieldVars, linkVars
  <2>2. QED
    BY <1>2, <2>1, CallerMovesInv
<1>4. CASE h = channel
  <2>1. /\ channel' = None /\ listening' = listening \ {h} /\ chans' = CloseChan(h)
        /\ connecting = None
    <3>1. channel # None
      BY <1>1, <1>4, NoneAssumption
    <3>2. QED
      BY <1>4, <3>1 DEF Invalidate, RInv, AttemptIsShared
  <2>2. RabbitTypeOK
    BY DEF RInv
  <2>3. RabbitTypeOK'
    BY <1>1, <1>2, <2>1, <2>2, CloseChanFacts DEF RabbitTypeOK
  <2>4. \A g \in Channel : Usable(g)' => Usable(g) /\ g # h
    BY <1>1, <2>1, <2>2, CloseChanFacts DEF Usable
  <2>5. NoOrphans'
    BY <1>4, <2>1, <2>4 DEF RInv, NoOrphans
  <2>6. AttemptIsShared' /\ ConnectionIsHandedOver' /\ ClosingIsFinal'
    <3>1. \A d \in Caller : caller'[d].at # "waiting"
      BY <1>1, <1>2, <2>1, NoneAssumption, CallerFields DEF RInv, AttemptIsShared
    <3>2. AttemptIsShared'
      BY <2>1, <3>1, NoneAssumption DEF RInv, AttemptIsShared
    <3>3. ConnectionIsHandedOver' /\ ClosingIsFinal'
      BY <2>1 DEF RInv, ConnectionIsHandedOver, ClosingIsFinal
    <3>4. QED
      BY <3>2, <3>3
  <2>7. ChannelsBelong'
    <3>1. \A g \in Channel : /\ chans'[g] = NoChannel <=> chans[g] = NoChannel
                             /\ chans'[g].of = chans[g].of
      BY <1>1, <2>1, <2>2, CloseChanFacts
    <3>2. \A a \in Attempt : attempt[a].chan \in Channel \cup {None}
      BY SoleAttempt, AttemptFields
    <3>3. QED
      BY <2>1, <3>1, <3>2 DEF RInv, ChannelsBelong
  <2>8. CallersAreHeard'
    <3>1. ASSUME NEW d \in Caller, caller'[d].at \in {"holding", "confirming"}
          PROVE  caller'[d] = caller[d] /\ caller[d].on \in Channel
      BY <1>1, <1>2, <3>1, CallerFields
    <3>2. \A g \in Channel : Usable(g)' /\ g \in listening => g \in listening'
      BY <2>1, <2>4
    <3>3. \A d \in Caller : \A g \in Channel :
             caller'[d].at \in {"holding", "confirming"} /\ caller'[d].on = g /\ Usable(g)'
                 => g \in listening'
      BY <2>4, <3>1, <3>2 DEF RInv, CallersAreHeard
    <3>4. QED
      BY <3>1, <3>3 DEF CallersAreHeard, Usable
  <2>9. QED
    BY <2>3, <2>5, <2>6, <2>7, <2>8 DEF RInv
<1>5. QED
  BY <1>3, <1>4

\* publish with the channel a caller got, and what it does to a dead one.
LEMMA PublishKeepsInv ==
    ASSUME RInv, NEW c \in Caller, Publish(c)
    PROVE  RInv'
<1>1. caller[c] \in CallerState /\ caller[c].on \in Channel /\ caller[c].at = "holding"
  BY CallerFields DEF Publish, RInv, RabbitTypeOK
<1>2. CASE Usable(caller[c].on)
  <2> DEFINE s == [at |-> "confirming", on |-> caller[c].on]
  <2>1. caller[c] \in [at : {"holding"}, on : Channel]
    BY <1>1 DEF CallerState, Idle
  <2>2. /\ UNCHANGED <<fieldVars, attempt, closing, linkVars>>
        /\ caller' = [caller EXCEPT ![c].at = "confirming"]
    BY <1>2 DEF Publish, fieldVars, linkVars
  <2>3. s \in CallerState
    BY <1>1 DEF CallerState
  <2>4. caller' = [caller EXCEPT ![c] = s]
    <3>1. caller \in [Caller -> CallerState]
      BY DEF RInv, RabbitTypeOK
    <3>2. caller'[c] \in [at : {"confirming"}, on : {caller[c].on}]
      BY <2>1, <2>2, <3>1
    <3>3. caller'[c] = s
      BY <3>2
    <3>4. QED
      BY <2>2, <3>1, <3>3
  <2>5. Usable(s.on) => s.on \in listening
    BY <1>1, <1>2 DEF RInv, CallersAreHeard
  <2>6. QED
    BY <1>1, <2>2, <2>3, <2>4, <2>5, CallerMovesInv
<1>3. CASE ~Usable(caller[c].on)
  BY <1>1, <1>3, InvalidateKeepsInv DEF Publish
<1>4. QED
  BY <1>2, <1>3

\* Release, Confirmed and ConfirmTimeout: a caller is done.
LEMMA CallerIsDoneInv ==
    ASSUME RInv, NEW c \in Caller, Release(c) \/ Confirmed(c) \/ ConfirmTimeout(c)
    PROVE  RInv'
<1>1. Idle \in CallerState /\ Idle.at = "idle"
  BY DEF Idle, CallerState
<1>2. CASE Release(c) \/ Confirmed(c)
  BY <1>1, <1>2, CallerMovesInv DEF Release, Confirmed
<1>3. CASE ConfirmTimeout(c)
  BY <1>3, InvalidateKeepsInv DEF ConfirmTimeout
<1>4. QED
  BY <1>2, <1>3

\* A caller gets the channel, joins the attempt under way or begins one.
LEMMA GetConfirmChannelKeepsInv ==
    ASSUME RInv, NEW c \in Caller, GetConfirmChannel(c)
    PROVE  RInv'
<1> USE DEF fieldVars, linkVars
<1>1. /\ caller[c] = Idle /\ ~closed /\ caller \in [Caller -> CallerState]
      /\ UNCHANGED <<connection, channel, closed, closing, linkVars>>
      /\ Idle.at = "idle" /\ closing.at = "no"
  BY DEF GetConfirmChannel, Idle, RInv, RabbitTypeOK, ClosingIsFinal
<1>2. CASE channel # None /\ UNCHANGED <<connecting, attempt>>
           /\ caller' = [caller EXCEPT ![c] = [at |-> "holding", on |-> channel]]
  <2>1. channel \in Channel /\ channel \in listening
    BY <1>2 DEF RInv, RabbitTypeOK, ChannelsBelong
  <2>2. [at |-> "holding", on |-> channel] \in CallerState
    BY <2>1 DEF CallerState
  <2>3. QED
    BY <1>1, <1>2, <2>1, <2>2, CallerMovesInv
<1>3. ASSUME NEW a \in Attempt, connecting' = a,
             caller' = [caller EXCEPT ![c] = [at |-> "waiting", on |-> a]],
             attempt' \in [Attempt -> AttemptState],
             attempt'[a].at # "none",
             \A b \in Attempt : b # a => attempt'[b] = attempt[b],
             \/ connecting = a /\ attempt' = attempt
             \/ /\ connecting = None /\ channel = None
                /\ attempt'[a].at = IF connection = None THEN "opening" ELSE "creating"
                /\ attempt'[a].conn = connection
                /\ attempt'[a].chan = None
      PROVE  RInv'
  <2>1. [at |-> "waiting", on |-> a] \in CallerState
    BY DEF CallerState
  <2>2. RabbitTypeOK'
    BY <1>1, <1>3, <2>1 DEF RInv, RabbitTypeOK
  <2>3. AttemptIsShared'
    <3>1. channel' = None
      BY <1>1, <1>3, NoneAssumption DEF RInv, AttemptIsShared
    <3>2. \A d \in Caller : caller'[d].at = "waiting" => caller'[d].on = a
      BY <1>1, <1>3, NoneAssumption, CallerFields DEF RInv, AttemptIsShared
    <3>3. caller'[c] = [at |-> "waiting", on |-> a]
      BY <1>1, <1>3
    <3>4. \A b \in Attempt : b # a => attempt'[b].at = "none"
      BY <1>3, SoleAttempt DEF NoAttempt
    <3>5. QED
      BY <1>3, <3>1, <3>2, <3>3, <3>4 DEF AttemptIsShared
  <2>4. CallersAreHeard'
    BY <1>1, <1>3 DEF RInv, CallersAreHeard, Usable
  <2>5. ClosingIsFinal'
    BY <1>1 DEF RInv, ClosingIsFinal
  <2>6. NoOrphans' /\ ConnectionIsHandedOver' /\ ChannelsBelong'
    <3>1. CASE attempt' = attempt
      BY <1>1, <3>1 DEF RInv, NoOrphans, ConnectionIsHandedOver, ChannelsBelong, Usable
    <3>2. CASE connecting = None /\ attempt' # attempt
      <4>1. \A b \in Attempt : attempt[b] = NoAttempt
        BY <3>2, NoneAssumption, SoleAttempt
      <4>2. NoAttempt.at = "none" /\ NoAttempt.conn = None /\ NoAttempt.chan = None
        BY DEF NoAttempt
      <4>3. connection # None => links[connection] = "open"
        BY <4>1, <4>2 DEF RInv, ConnectionIsHandedOver
      <4>4. NoOrphans'
        BY <1>1, <1>3, <4>1, <4>2, NoneAssumption DEF RInv, RabbitTypeOK, NoOrphans, Usable
      <4>5. ConnectionIsHandedOver'
        BY <1>1, <1>3, <3>2, <4>1, <4>2, <4>3 DEF ConnectionIsHandedOver
      <4>6. ChannelsBelong'
        BY <1>1, <1>3, <3>2, <4>1, <4>2 DEF RInv, ChannelsBelong
      <4>7. QED
        BY <4>4, <4>5, <4>6
    <3>3. QED
      BY <1>3, <3>1, <3>2
  <2>7. QED
    BY <2>2, <2>3, <2>4, <2>5, <2>6 DEF RInv
<1>4. CASE channel = None /\ connecting # None /\ UNCHANGED <<connecting, attempt>>
           /\ caller' = [caller EXCEPT ![c] = [at |-> "waiting", on |-> connecting]]
  <2>1. PICK a \in Attempt : connecting = a
    BY <1>4 DEF RInv, RabbitTypeOK
  <2>2. attempt[a].at # "none" /\ attempt \in [Attempt -> AttemptState]
    BY <2>1 DEF RInv, AttemptIsShared, RabbitTypeOK
  <2>3. QED
    BY <1>3, <1>4, <2>1, <2>2
<1>5. ASSUME channel = None, connecting = None, NEW a \in Attempt, Starting(a),
             connecting' = a, caller' = [caller EXCEPT ![c] = [at |-> "waiting", on |-> a]]
      PROVE  RInv'
  <2> DEFINE s == [at   |-> IF connection = None THEN "opening" ELSE "creating",
                   conn |-> connection, chan |-> None]
  <2>1. s \in AttemptState
    BY DEF AttemptState, RInv, RabbitTypeOK
  <2>2. attempt \in [Attempt -> AttemptState]
    BY DEF RInv, RabbitTypeOK
  <2>3. attempt' \in [Attempt -> AttemptState] /\ attempt'[a] = s
    BY <1>5, <2>1, <2>2 DEF Starting
  <2>4. \A b \in Attempt : b # a => attempt'[b] = attempt[b]
    BY <1>5, <2>2 DEF Starting
  <2>5. /\ attempt'[a].at # "none" /\ attempt'[a].conn = connection
        /\ attempt'[a].at = IF connection = None THEN "opening" ELSE "creating"
        /\ attempt'[a].chan = None
    BY <2>3
  <2>6. QED
    <3> HIDE DEF s
    <3> QED
      BY <1>3, <1>5, <2>3, <2>4, <2>5
<1>6. QED
  BY <1>2, <1>4, <1>5 DEF GetConfirmChannel

-----------------------------------------------------------------------------
(* The inductive invariant: attempts *)

\* An attempt moves on: the shared one stays the shared one.
LEMMA AttemptMoves ==
    ASSUME RInv, NEW a \in Attempt, attempt[a].at # "none",
           NEW s \in AttemptState, s.at # "none",
           attempt' = [attempt EXCEPT ![a] = s],
           channel' = None, UNCHANGED <<connecting, caller>>
    PROVE  /\ attempt' \in [Attempt -> AttemptState]
           /\ attempt'[a] = s
           /\ \A b \in Attempt : b # a => attempt'[b] = NoAttempt /\ attempt[b] = NoAttempt
           /\ AttemptIsShared'
<1>1. attempt \in [Attempt -> AttemptState]
  BY DEF RInv, RabbitTypeOK
<1>2. attempt' \in [Attempt -> AttemptState] /\ attempt'[a] = s
  BY <1>1
<1>3. \A b \in Attempt : b # a => attempt'[b] = NoAttempt /\ attempt[b] = NoAttempt
  BY <1>1, SoleAttempt
<1>4. AttemptIsShared'
  BY <1>2, <1>3, SoleAttempt DEF RInv, AttemptIsShared, NoAttempt
<1>5. QED
  BY <1>2, <1>3, <1>4

\* OpenOk: nothing refers to the new connection but its attempt.
LEMMA OpenOkKeepsInv ==
    ASSUME RInv, NEW a \in Attempt, OpenOk(a)
    PROVE  RInv'
<1> USE DEF fieldVars, linkVars
<1>1. PICK k \in Connection :
        /\ Unused(k) /\ links' = [links EXCEPT ![k] = "open"]
        /\ attempt' = [attempt EXCEPT ![a].at = "opened", ![a].conn = k]
  BY DEF OpenOk
<1>2. /\ attempt[a].at = "opening" /\ connecting = a /\ channel = None /\ connection = None
      /\ UNCHANGED <<fieldVars, caller, closing, chans, listening>>
  BY SoleAttempt DEF OpenOk, RInv, ConnectionIsHandedOver
<1> DEFINE s == [at |-> "opened", conn |-> k, chan |-> None]
<1>3. s \in AttemptState /\ attempt' = [attempt EXCEPT ![a] = s]
  <2>1. attempt \in [Attempt -> AttemptState]
    BY DEF RInv, RabbitTypeOK
  <2>2. attempt[a] \in [at : {"opening"}, conn : {None}, chan : {None}]
    BY <1>2, <2>1 DEF AttemptState
  <2>3. attempt'[a] \in [at : {"opened"}, conn : {k}, chan : {None}]
    BY <1>1, <2>1, <2>2
  <2>4. attempt'[a] = s
    BY <2>3
  <2>5. QED
    BY <1>1, <2>1, <2>4 DEF AttemptState
<1>4. /\ attempt' \in [Attempt -> AttemptState] /\ attempt'[a] = s
      /\ \A b \in Attempt : b # a => attempt'[b] = NoAttempt /\ attempt[b] = NoAttempt
      /\ AttemptIsShared'
  <2> HIDE DEF s
  <2>1. s.at # "none"
    BY DEF s
  <2>2. QED
    BY <1>2, <1>3, <2>1, AttemptMoves
<1>5. attempt'[a].at = "opened" /\ attempt'[a].conn = k /\ attempt'[a].chan = None
  BY <1>4
<1>6. NoAttempt.at = "none" /\ NoAttempt.conn = None /\ NoAttempt.chan = None
  BY DEF NoAttempt
<1> HIDE DEF s
<1>7. /\ links \in [Connection -> Life] /\ links[k] = "dead" /\ k # closing.conn
      /\ links'[k] = "open" /\ \A j \in Connection : j # k => links'[j] = links[j]
  BY <1>1 DEF RInv, RabbitTypeOK, Unused
<1>8. RabbitTypeOK'
  BY <1>1, <1>2, <1>4 DEF RInv, RabbitTypeOK, Life
<1>9. \A h \in Channel : chans[h] # NoChannel => chans[h].of # k /\ chans[h].of \in Connection
  BY <1>7, ChannelFields DEF RInv, ChannelsBelong
<1>10. \A h \in Channel : Usable(h)' => Usable(h)
  BY <1>2, <1>7, <1>9, ChannelFields DEF RInv, Usable
<1>11. attempt[a].conn = None /\ attempt[a].chan = None
  BY <1>2, SoleAttempt, AttemptFields
<1>12. NoOrphans'
  BY <1>2, <1>4, <1>5, <1>6, <1>7, <1>10, <1>11, NoneAssumption DEF RInv, NoOrphans
<1>13. ConnectionIsHandedOver'
  BY <1>2, <1>4, <1>5, <1>6, <1>7 DEF ConnectionIsHandedOver
<1>14. ClosingIsFinal'
  BY <1>2, <1>7, ClosingFields DEF RInv, ClosingIsFinal
<1>15. ChannelsBelong'
  BY <1>2, <1>4, <1>5, <1>6, <1>7, <1>9 DEF RInv, ChannelsBelong
<1>16. CallersAreHeard'
  <2>1. \A c \in Caller : caller[c].at \in {"holding", "confirming"} => caller[c].on \in Channel
    BY CallerFields DEF RInv, RabbitTypeOK
  <2>2. \A c \in Caller : \A h \in Channel :
           caller[c].at \in {"holding", "confirming"} /\ caller[c].on = h /\ Usable(h)
             => h \in listening
    BY DEF RInv, CallersAreHeard
  <2>3. QED
    BY <1>2, <1>10, <2>1, <2>2 DEF CallersAreHeard, Usable
<1>17. QED
  BY <1>4, <1>8, <1>12, <1>13, <1>14, <1>15, <1>16 DEF RInv

\* Callers stay heard where channels only end and listeners go with them.
LEMMA StaysHeard ==
    ASSUME RInv,
           \A c \in Caller : \/ caller'[c] = caller[c]
                             \/ caller'[c].at \notin {"holding", "confirming"},
           \A c \in Caller : \A h \in Channel : caller[c].on = h /\ Usable(h)' => Usable(h),
           \A h \in Channel : h \in listening /\ Usable(h)' => h \in listening'
    PROVE  CallersAreHeard'
<1>1. \A c \in Caller : caller[c].at \in {"holding", "confirming"} => caller[c].on \in Channel
  BY CallerFields DEF RInv, RabbitTypeOK
<1>2. \A c \in Caller : \A h \in Channel :
         caller[c].at \in {"holding", "confirming"} /\ caller[c].on = h /\ Usable(h)
           => h \in listening
  BY DEF RInv, CallersAreHeard
<1>3. \A c \in Caller : \A h \in Channel :
         caller'[c].at \in {"holding", "confirming"} /\ caller'[c].on = h /\ Usable(h)'
           => h \in listening'
  BY <1>2
<1>4. \A c \in Caller : caller'[c].at \in {"holding", "confirming"} => caller'[c].on \in Channel
  BY <1>1
<1>5. QED
  BY <1>3, <1>4 DEF CallersAreHeard, Usable

\* ConnectFails and Rejected: the attempt has no open connection.
LEMMA FailureKeepsInv ==
    ASSUME RInv, NEW a \in Attempt, ConnectFails(a) \/ Rejected(a)
    PROVE  RInv'
<1> USE DEF fieldVars, linkVars
<1>1. /\ attempt[a].at \in {"opening", "discarding"} /\ SettleWith(a, Idle)
      /\ UNCHANGED <<connection, channel, closed, closing, linkVars>>
      /\ Idle \in CallerState /\ Idle.at = "idle"
  BY DEF ConnectFails, Rejected, CallerState, Idle
<1>2. connecting = a /\ channel = None /\ connection = None
  BY <1>1, SoleAttempt DEF RInv, ConnectionIsHandedOver
<1>3. /\ connecting' = None /\ attempt' \in [Attempt -> AttemptState]
      /\ \A b \in Attempt : attempt'[b] = NoAttempt
      /\ caller' \in [Caller -> CallerState]
      /\ \A c \in Caller : caller'[c].at # "waiting"
      /\ \A c \in Caller : caller'[c] \in {caller[c], Idle}
  BY <1>1, Settles
<1>4. NoAttempt.at = "none" /\ NoAttempt.conn = None /\ NoAttempt.chan = None
  BY DEF NoAttempt
<1>5. RabbitTypeOK'
  BY <1>1, <1>3 DEF RInv, RabbitTypeOK
<1>6. attempt[a].chan = None /\ (attempt[a].conn # None => links[attempt[a].conn] # "open")
  BY <1>1, SoleAttempt, AttemptFields DEF RInv, ConnectionIsHandedOver
<1>7. \A b \in Attempt : b # a => attempt[b].conn = None /\ attempt[b].chan = None
  BY <1>2, <1>4, SoleAttempt
<1>8. NoOrphans'
  BY <1>1, <1>3, <1>6, <1>7, NoneAssumption DEF RInv, NoOrphans, Usable
<1>9. AttemptIsShared' /\ ConnectionIsHandedOver' /\ ChannelsBelong'
  BY <1>1, <1>2, <1>3, <1>4, NoneAssumption
     DEF RInv, AttemptIsShared, ConnectionIsHandedOver, ChannelsBelong
<1>10. ClosingIsFinal'
  BY <1>1, <1>3 DEF RInv, ClosingIsFinal
<1>11. CallersAreHeard'
  BY <1>1, <1>3, StaysHeard DEF Usable
<1>12. QED
  BY <1>5, <1>8, <1>9, <1>10, <1>11 DEF RInv

\* Connect: the connection is stored, or closed if nobody wants it any more.
LEMMA ConnectKeepsInv ==
    ASSUME RInv, NEW a \in Attempt, Connect(a)
    PROVE  RInv'
<1> USE DEF fieldVars, linkVars
<1>1. /\ attempt[a].at = "opened" /\ attempt[a].conn \in Connection /\ attempt[a].chan = None
      /\ connecting = a /\ channel = None /\ connection = None
      /\ UNCHANGED <<channel, connecting, closed, caller, closing, chans, listening>>
  BY SoleAttempt, AttemptFields DEF Connect, RInv, ConnectionIsHandedOver
<1> DEFINE k == attempt[a].conn
           s(at) == [at |-> at, conn |-> k, chan |-> None]
<1>2. NoAttempt.at = "none" /\ NoAttempt.conn = None /\ NoAttempt.chan = None
  BY DEF NoAttempt
<1>3. ASSUME NEW at \in {"creating", "discarding"},
             attempt' = [attempt EXCEPT ![a].at = at]
      PROVE  /\ attempt' \in [Attempt -> AttemptState] /\ AttemptIsShared'
             /\ attempt'[a].at = at /\ attempt'[a].conn = k /\ attempt'[a].chan = None
             /\ \A b \in Attempt : b # a => attempt'[b] = NoAttempt /\ attempt[b] = NoAttempt
  <2>1. attempt \in [Attempt -> AttemptState]
    BY DEF RInv, RabbitTypeOK
  <2>2. attempt[a] \in [at : {"opened"}, conn : Connection, chan : {None}]
    BY <1>1, <2>1 DEF AttemptState
  <2>3. attempt'[a] \in [at : {at}, conn : {k}, chan : {None}]
    BY <1>3, <2>1, <2>2
  <2>4. attempt'[a] = s(at) /\ s(at) \in AttemptState /\ s(at).at # "none"
    BY <1>1, <2>3 DEF AttemptState
  <2>5. attempt' = [attempt EXCEPT ![a] = s(at)]
    BY <1>3, <2>1, <2>4
  <2>6. s(at).at = at /\ s(at).conn = k /\ s(at).chan = None
    OBVIOUS
  <2>7. QED
    <3> HIDE DEF s
    <3> QED
      BY <1>1, <2>4, <2>5, <2>6, AttemptMoves
<1>4. RabbitTypeOK
  BY DEF RInv
<1>5. CASE /\ links' = CloseLink(k) /\ UNCHANGED connection
           /\ attempt' = [attempt EXCEPT ![a].at = "discarding"]
  <2>1. /\ attempt' \in [Attempt -> AttemptState] /\ AttemptIsShared'
        /\ attempt'[a].at = "discarding" /\ attempt'[a].conn = k /\ attempt'[a].chan = None
        /\ \A b \in Attempt : b # a => attempt'[b] = NoAttempt /\ attempt[b] = NoAttempt
    BY <1>3, <1>5
  <2>2. /\ links' \in [Connection -> Life] /\ links'[k] # "open"
        /\ \A j \in Connection : links'[j] = "dead" <=> links[j] = "dead"
        /\ \A j \in Connection : links'[j] = "open" => links[j] = "open"
    BY <1>1, <1>4, <1>5, CloseLinkFacts
  <2>3. \A h \in Channel : Usable(h)' => Usable(h)
    BY <1>1, <1>4, <2>2, ChannelFields DEF Usable, NoChannel, Life
  <2>4. RabbitTypeOK'
    BY <1>1, <1>4, <1>5, <2>1, <2>2 DEF RabbitTypeOK
  <2>5. NoOrphans'
    BY <1>1, <1>2, <1>5, <2>1, <2>2, <2>3 DEF RInv, NoOrphans
  <2>6. ConnectionIsHandedOver'
    BY <1>1, <1>2, <1>5, <2>1, <2>2 DEF ConnectionIsHandedOver
  <2>7. ClosingIsFinal'
    BY <1>1, <1>4, <1>5, <2>2, ClosingFields DEF RInv, ClosingIsFinal
  <2>8. ChannelsBelong'
    BY <1>1, <1>2, <1>4, <2>1, <2>2, ChannelFields DEF RInv, ChannelsBelong
  <2>9. CallersAreHeard'
    BY <1>1, <2>3, StaysHeard
  <2>10. QED
    BY <2>1, <2>4, <2>5, <2>6, <2>7, <2>8, <2>9 DEF RInv
<1>6. CASE /\ ~closed /\ connection' = k /\ UNCHANGED links
           /\ attempt' = [attempt EXCEPT ![a].at = "creating"]
  <2>1. /\ attempt' \in [Attempt -> AttemptState] /\ AttemptIsShared'
        /\ attempt'[a].at = "creating" /\ attempt'[a].conn = k /\ attempt'[a].chan = None
        /\ \A b \in Attempt : b # a => attempt'[b] = NoAttempt /\ attempt[b] = NoAttempt
    BY <1>3, <1>6
  <2>2. links[k] \in {"open", "dead"} /\ k # None
    BY <1>1, NoneAssumption DEF RInv, RabbitTypeOK, ConnectionIsHandedOver, Life
  <2>3. \A h \in Channel : Usable(h)' <=> Usable(h)
    BY <1>1, <1>6 DEF Usable
  <2>4. RabbitTypeOK'
    BY <1>1, <1>4, <1>6, <2>1 DEF RabbitTypeOK
  <2>5. NoOrphans'
    BY <1>1, <1>2, <1>6, <2>1, <2>3, NoneAssumption DEF RInv, NoOrphans
  <2>6. ConnectionIsHandedOver'
    BY <1>1, <1>2, <1>6, <2>1, <2>2 DEF ConnectionIsHandedOver
  <2>7. ClosingIsFinal'
    BY <1>1, <1>6 DEF RInv, ClosingIsFinal
  <2>8. ChannelsBelong'
    BY <1>1, <1>2, <1>6, <2>1 DEF RInv, ChannelsBelong
  <2>9. CallersAreHeard'
    BY <1>1, <2>3, StaysHeard
  <2>10. QED
    BY <2>1, <2>4, <2>5, <2>6, <2>7, <2>8, <2>9 DEF RInv
<1>7. QED
  BY <1>1, <1>5, <1>6 DEF Connect

\* ChannelOpens: nothing refers to the new channel but its attempt, whose
\* connection is open, hence the current one.
LEMMA ChannelOpensKeepsInv ==
    ASSUME RInv, NEW a \in Attempt, ChannelOpens(a)
    PROVE  RInv'
<1> USE DEF fieldVars, linkVars
<1> DEFINE k == attempt[a].conn
<1>1. /\ attempt[a].at = "creating" /\ k \in Connection /\ attempt[a].chan = None
      /\ links[k] = "open" /\ connecting = a /\ channel = None /\ connection = k
      /\ UNCHANGED <<fieldVars, caller, closing, links, listening>>
  BY SoleAttempt, AttemptFields DEF ChannelOpens, RInv, ConnectionIsHandedOver
<1>2. PICK h \in Channel :
        /\ UnusedChan(h)
        /\ chans' = [chans EXCEPT ![h] = [life |-> "open", of |-> k]]
        /\ attempt' = [attempt EXCEPT ![a].at = "asserting", ![a].chan = h]
  BY DEF ChannelOpens
<1> DEFINE s == [at |-> "asserting", conn |-> k, chan |-> h]
<1>3. /\ attempt' \in [Attempt -> AttemptState] /\ AttemptIsShared'
      /\ attempt'[a].at = "asserting" /\ attempt'[a].conn = k /\ attempt'[a].chan = h
      /\ \A b \in Attempt : b # a => attempt'[b] = NoAttempt /\ attempt[b] = NoAttempt
  <2>1. attempt \in [Attempt -> AttemptState]
    BY DEF RInv, RabbitTypeOK
  <2>2. attempt[a] \in [at : {"creating"}, conn : Connection, chan : {None}]
    BY <1>1, <2>1 DEF AttemptState
  <2>3. attempt'[a] \in [at : {"asserting"}, conn : {k}, chan : {h}]
    BY <1>2, <2>1, <2>2
  <2>4. attempt'[a] = s /\ s \in AttemptState /\ s.at # "none"
    BY <1>1, <2>3 DEF AttemptState
  <2>5. attempt' = [attempt EXCEPT ![a] = s]
    BY <1>2, <2>1, <2>4
  <2>6. s.at = "asserting" /\ s.conn = k /\ s.chan = h
    OBVIOUS
  <2>7. QED
    <3> HIDE DEF s
    <3> QED
      BY <1>1, <2>4, <2>5, <2>6, AttemptMoves
<1> HIDE DEF s
<1>4. NoAttempt.at = "none" /\ NoAttempt.conn = None /\ NoAttempt.chan = None
  BY DEF NoAttempt
<1>5. /\ chans[h] = NoChannel /\ chans'[h] = [life |-> "open", of |-> k]
      /\ \A g \in Channel : g # h => chans'[g] = chans[g]
      /\ \A c \in Caller : caller[c].on # h
  BY <1>2 DEF UnusedChan, RInv, RabbitTypeOK
<1>6. RabbitTypeOK'
  BY <1>1, <1>2, <1>3 DEF RInv, RabbitTypeOK
<1>7. \A g \in Channel : g # h /\ Usable(g)' => Usable(g)
  BY <1>1, <1>5 DEF Usable
<1>8. NoOrphans'
  BY <1>1, <1>3, <1>4, <1>5, <1>7 DEF RInv, NoOrphans
<1>9. ConnectionIsHandedOver' /\ ClosingIsFinal'
  BY <1>1, <1>3, <1>4 DEF RInv, ConnectionIsHandedOver, ClosingIsFinal
<1>10. ChannelsBelong'
  BY <1>1, <1>3, <1>4, <1>5 DEF RInv, ChannelsBelong
<1>11. CallersAreHeard'
  BY <1>1, <1>5, <1>7, StaysHeard
<1>12. QED
  BY <1>3, <1>6, <1>8, <1>9, <1>10, <1>11 DEF RInv

\* ExchangeAsserted: the channel was usable, so its connection is the current one.
LEMMA ExchangeAssertedKeepsInv ==
    ASSUME RInv, NEW a \in Attempt, ExchangeAsserted(a)
    PROVE  RInv'
<1> USE DEF fieldVars, linkVars
<1> DEFINE k == attempt[a].conn
           h == attempt[a].chan
           s == [at |-> "asserted", conn |-> k, chan |-> h]
<1>1. /\ attempt[a].at = "asserting" /\ k \in Connection /\ h \in Channel /\ Usable(h)
      /\ connecting = a /\ channel = None
      /\ UNCHANGED <<fieldVars, caller, closing, linkVars>>
      /\ attempt' = [attempt EXCEPT ![a].at = "asserted"]
  BY SoleAttempt, AttemptFields DEF ExchangeAsserted
<1>2. /\ attempt' \in [Attempt -> AttemptState] /\ AttemptIsShared'
      /\ attempt'[a].at = "asserted" /\ attempt'[a].conn = k /\ attempt'[a].chan = h
      /\ \A b \in Attempt : b # a => attempt'[b] = NoAttempt /\ attempt[b] = NoAttempt
  <2>1. attempt \in [Attempt -> AttemptState]
    BY DEF RInv, RabbitTypeOK
  <2>2. attempt[a] \in [at : {"asserting"}, conn : Connection, chan : Channel]
    BY <1>1, <2>1 DEF AttemptState
  <2>3. attempt'[a] \in [at : {"asserted"}, conn : {k}, chan : {h}]
    BY <1>1, <2>1, <2>2
  <2>4. attempt'[a] = s /\ s \in AttemptState /\ s.at # "none"
    BY <1>1, <2>3 DEF AttemptState
  <2>5. attempt' = [attempt EXCEPT ![a] = s]
    BY <1>1, <2>1, <2>4
  <2>6. s.at = "asserted" /\ s.conn = k /\ s.chan = h
    OBVIOUS
  <2>7. QED
    <3> HIDE DEF s
    <3> QED
      BY <1>1, <2>4, <2>5, <2>6, AttemptMoves
<1> HIDE DEF s
<1>3. NoAttempt.at = "none" /\ NoAttempt.conn = None /\ NoAttempt.chan = None
  BY DEF NoAttempt
<1>4. RabbitTypeOK'
  BY <1>1, <1>2 DEF RInv, RabbitTypeOK
<1>5. NoOrphans'
  BY <1>1, <1>2, <1>3 DEF RInv, NoOrphans, Usable
<1>6. links[k] = "open"
  <2>1. chans[h] # NoChannel
    BY <1>1, ChannelFields DEF RInv, Usable
  <2>2. chans[h].of = k
    BY <1>1, <2>1, NoneAssumption DEF RInv, ChannelsBelong
  <2>3. QED
    BY <1>1, <2>2 DEF Usable
<1>7. ConnectionIsHandedOver'
  BY <1>1, <1>2, <1>3, <1>6 DEF RInv, ConnectionIsHandedOver
<1>8. ClosingIsFinal'
  BY <1>1 DEF RInv, ClosingIsFinal
<1>9. ChannelsBelong'
  BY <1>1, <1>2, <1>3 DEF RInv, ChannelsBelong
<1>10. CallersAreHeard'
  BY <1>1, StaysHeard DEF Usable
<1>11. QED
  BY <1>2, <1>4, <1>5, <1>7, <1>8, <1>9, <1>10 DEF RInv

\* AttachChannel: an attempt that ends well leaves its connection and its channel
\* in the fields, dead or not, and the listener on the channel.
LEMMA AttachChannelKeepsInv ==
    ASSUME RInv, NEW a \in Attempt, AttachChannel(a)
    PROVE  RInv'
<1> DEFINE k == attempt[a].conn
           h == attempt[a].chan
           out == [at |-> "holding", on |-> h]
<1>1. /\ attempt[a].at = "asserted" /\ k \in Connection /\ h \in Channel
      /\ connecting = a /\ channel = None
      /\ channel' = h /\ listening' = listening \cup {h} /\ SettleWith(a, out)
      /\ UNCHANGED <<connection, closed, closing, links, chans>>
  BY SoleAttempt, AttemptFields DEF AttachChannel
<1>2. out \in CallerState /\ out.at = "holding" /\ out.on = h
  BY <1>1 DEF CallerState
<1> HIDE DEF out
<1>3. /\ connecting' = None /\ attempt' \in [Attempt -> AttemptState]
      /\ \A b \in Attempt : attempt'[b] = NoAttempt
      /\ caller' \in [Caller -> CallerState]
      /\ \A c \in Caller : caller'[c].at # "waiting"
      /\ \A c \in Caller : caller'[c] \in {caller[c], out}
  BY <1>1, <1>2, Settles
<1>4. NoAttempt.at = "none" /\ NoAttempt.conn = None /\ NoAttempt.chan = None
  BY DEF NoAttempt
<1>5. \A b \in Attempt : b # a => attempt[b] = NoAttempt
  BY <1>1, SoleAttempt
<1>6. connection = k \/ (connection = None /\ links[k] = "dead")
  BY <1>1 DEF RInv, ConnectionIsHandedOver
<1>7. RabbitTypeOK'
  BY <1>1, <1>3 DEF RInv, RabbitTypeOK
<1>8. NoOrphans'
  BY <1>1, <1>3, <1>4, <1>5, <1>6 DEF RInv, NoOrphans, Usable
<1>9. AttemptIsShared'
  BY <1>3, <1>4, NoneAssumption DEF AttemptIsShared
<1>10. ConnectionIsHandedOver'
  BY <1>1, <1>3, <1>4, <1>5 DEF RInv, ConnectionIsHandedOver
<1>11. ClosingIsFinal'
  BY <1>1, NoneAssumption DEF RInv, ClosingIsFinal
<1>12. ChannelsBelong'
  <2>1. chans[h] # NoChannel => chans[h].of = k /\ links[k] # "dead"
    BY <1>1, NoneAssumption DEF RInv, ChannelsBelong
  <2>2. QED
    BY <1>1, <1>3, <1>4, <1>6, <2>1 DEF RInv, ChannelsBelong
<1>13. CallersAreHeard'
  BY <1>1, <1>2, <1>3 DEF RInv, CallersAreHeard, Usable
<1>14. QED
  BY <1>7, <1>8, <1>9, <1>10, <1>11, <1>12, <1>13 DEF RInv

\* SetupFails: the connection is given up before its attempt forgets the channel.
LEMMA SetupFailsKeepsInv ==
    ASSUME RInv, NEW a \in Attempt, SetupFails(a)
    PROVE  RInv'
<1> DEFINE k == attempt[a].conn
           s == [at |-> "discarding", conn |-> k, chan |-> None]
<1>1. /\ attempt[a].at \in {"creating", "asserting"} /\ k \in Connection
      /\ connecting = a /\ channel = None /\ links' = CloseLink(k)
      /\ attempt' = [attempt EXCEPT ![a].at = "discarding", ![a].chan = None]
      /\ UNCHANGED <<channel, connecting, closed, caller, closing, chans, listening>>
  BY SoleAttempt, AttemptFields DEF SetupFails
<1>2. connection' = None
  BY <1>1 DEF SetupFails, RInv, ConnectionIsHandedOver
<1>3. /\ attempt' \in [Attempt -> AttemptState] /\ AttemptIsShared'
      /\ attempt'[a].at = "discarding" /\ attempt'[a].conn = k /\ attempt'[a].chan = None
      /\ \A b \in Attempt : b # a => attempt'[b] = NoAttempt /\ attempt[b] = NoAttempt
  <2>1. attempt \in [Attempt -> AttemptState]
    BY DEF RInv, RabbitTypeOK
  <2>2. attempt[a] \in [at : {"creating", "asserting"}, conn : Connection,
                        chan : Channel \cup {None}]
    BY <1>1, <2>1 DEF AttemptState
  <2>3. attempt'[a] \in [at : {"discarding"}, conn : {k}, chan : {None}]
    BY <1>1, <2>1, <2>2
  <2>4. attempt'[a] = s /\ s \in AttemptState /\ s.at # "none"
    BY <1>1, <2>3 DEF AttemptState
  <2>5. attempt' = [attempt EXCEPT ![a] = s]
    BY <1>1, <2>1, <2>4
  <2>6. s.at = "discarding" /\ s.conn = k /\ s.chan = None
    OBVIOUS
  <2>7. QED
    <3> HIDE DEF s
    <3> QED
      BY <1>1, <2>4, <2>5, <2>6, AttemptMoves
<1> HIDE DEF s
<1>4. NoAttempt.at = "none" /\ NoAttempt.conn = None /\ NoAttempt.chan = None
  BY DEF NoAttempt
<1>5. RabbitTypeOK
  BY DEF RInv
<1>6. /\ links' \in [Connection -> Life] /\ links'[k] # "open"
      /\ \A j \in Connection : links'[j] = "dead" <=> links[j] = "dead"
      /\ \A j \in Connection : links'[j] = "open" => links[j] = "open"
  BY <1>1, <1>5, CloseLinkFacts
<1>7. \A h \in Channel : Usable(h)' => Usable(h) /\ chans[h].of # k
  BY <1>1, <1>5, <1>6, ChannelFields DEF Usable, NoChannel, Life
<1>8. connection \in {k, None}
  BY <1>1 DEF RInv, ConnectionIsHandedOver
<1>9. RabbitTypeOK'
  BY <1>1, <1>2, <1>3, <1>5, <1>6 DEF RabbitTypeOK
<1>10. NoOrphans'
  <2>1. \A h \in Channel : Usable(h) /\ h = attempt[a].chan => chans[h].of = k
    BY <1>5, NoneAssumption, ChannelFields DEF Usable, RInv, ChannelsBelong
  <2>2. QED
    BY <1>1, <1>2, <1>3, <1>4, <1>6, <1>7, <1>8, <2>1, NoneAssumption DEF RInv, NoOrphans
<1>11. ConnectionIsHandedOver'
  BY <1>1, <1>2, <1>3, <1>4, <1>6 DEF ConnectionIsHandedOver
<1>12. ClosingIsFinal'
  BY <1>1, <1>2, <1>5, <1>6, ClosingFields DEF RInv, ClosingIsFinal
<1>13. ChannelsBelong'
  BY <1>1, <1>3, <1>4, <1>5, <1>6, ChannelFields DEF RInv, ChannelsBelong
<1>14. CallersAreHeard'
  BY <1>1, <1>7, StaysHeard
<1>15. QED
  BY <1>3, <1>9, <1>10, <1>11, <1>12, <1>13, <1>14 DEF RInv

-----------------------------------------------------------------------------
(* The inductive invariant: endings *)

\* A connection ends, with its channels and whatever the fields say of it.
LEMMA ConnectionEndsKeepsInv ==
    ASSUME RInv, NEW k \in Connection, ConnectionEnds(k)
    PROVE  RInv'
<1> DEFINE mine  == {h \in Channel : chans[h].of = k}
           stale == connection # k /\ channel \notin mine
<1>1. /\ links[k] # "dead" /\ links' = [links EXCEPT ![k] = "dead"]
      /\ chans' = [h \in Channel |-> IF h \in mine THEN NoChannel ELSE chans[h]]
      /\ connection' = IF connection = k THEN None ELSE connection
      /\ channel' = IF stale THEN channel ELSE None
      /\ listening' = IF stale THEN listening ELSE listening \ {channel}
      /\ UNCHANGED <<connecting, closed, attempt, caller, closing>>
  BY DEF ConnectionEnds
<1>2. /\ RabbitTypeOK /\ links \in [Connection -> Life] /\ links'[k] = "dead"
      /\ \A j \in Connection : j # k => links'[j] = links[j]
  BY <1>1 DEF RInv, RabbitTypeOK
<1>3. /\ \A h \in Channel : chans[h].of = k => chans'[h] = NoChannel
      /\ \A h \in Channel : chans[h].of # k => chans'[h] = chans[h]
  BY <1>1
<1>4. NoChannel.life = "dead" /\ NoChannel.of = None
  BY DEF NoChannel
<1>5. \A h \in Channel : chans'[h] # NoChannel =>
         /\ chans'[h] = chans[h] /\ chans[h] # NoChannel
         /\ chans[h].of # k /\ chans[h].of \in Connection
  BY <1>2, <1>3, ChannelFields
<1>6. \A h \in Channel : Usable(h)' =>
         Usable(h) /\ chans[h].of # k /\ chans[h] # NoChannel /\ chans[h].of \in Connection
  BY <1>2, <1>4, <1>5 DEF Usable
<1>7. channel # None /\ channel' = None =>
         chans[channel] = NoChannel \/ (chans[channel].of = k /\ connection = k)
  BY <1>1 DEF RInv, ChannelsBelong
<1>8. channel' = None \/ (channel' = channel /\ listening' = listening)
  BY <1>1
<1> HIDE DEF stale, mine
<1>9. RabbitTypeOK'
  BY <1>1, <1>2 DEF RabbitTypeOK, Life
<1>10. NoOrphans'
  <2>1. \A h \in Channel : Usable(h)' /\ h = channel => channel' = channel
    BY <1>6, <1>7, <1>8, NoneAssumption
  <2>2. QED
    BY <1>1, <1>2, <1>6, <2>1 DEF RInv, NoOrphans
<1>11. AttemptIsShared'
  BY <1>1, <1>8 DEF RInv, AttemptIsShared
<1>12. ConnectionIsHandedOver'
  <2>1. \A a \in Attempt : attempt[a].at \notin {"none", "opening"} =>
           attempt[a].conn \in Connection
    BY SoleAttempt, AttemptFields
  <2>2. connection \in Connection \cup {None}
    BY <1>2 DEF RabbitTypeOK
  <2>3. \A a \in Attempt :
           /\ attempt[a].at \in {"opening", "opened", "discarding"} => connection' = None
           /\ attempt[a].at = "opened" => links'[attempt[a].conn] # "closing"
           /\ attempt[a].at = "discarding" => links'[attempt[a].conn] # "open"
    BY <1>1, <1>2, <2>1 DEF RInv, ConnectionIsHandedOver
  <2>4. \A a \in Attempt : attempt[a].at \in {"creating", "asserting", "asserted"} =>
           \/ connection' = attempt[a].conn
           \/ connection' = None /\ links'[attempt[a].conn] = "dead"
    BY <1>1, <1>2, <2>1 DEF RInv, ConnectionIsHandedOver
  <2>5. QED
    BY <1>1, <1>2, <2>2, <2>3, <2>4 DEF RInv, ConnectionIsHandedOver
<1>13. ClosingIsFinal'
  <2>1. closing.at = "connection" => links'[closing.conn] # "open"
    BY <1>2, ClosingFields DEF RInv, ClosingIsFinal
  <2>2. QED
    BY <1>1, <1>8, <2>1 DEF RInv, ClosingIsFinal
<1>14. ChannelsBelong'
  <2>1. \A a \in Attempt : attempt[a].chan # None => attempt[a].chan \in Channel
    BY SoleAttempt, AttemptFields
  <2>2. \A h \in Channel : chans'[h] # NoChannel => links'[chans'[h].of] # "dead"
    BY <1>2, <1>5 DEF RInv, ChannelsBelong
  <2>3. \A a \in Attempt :
           attempt'[a].chan # None /\ chans'[attempt'[a].chan] # NoChannel =>
              chans'[attempt'[a].chan].of = attempt'[a].conn
    BY <1>1, <1>5, <2>1 DEF RInv, ChannelsBelong
  <2>4. channel' # None => connection' = connection
    BY <1>1 DEF stale
  <2>5. channel \in Channel \cup {None}
    BY <1>2 DEF RabbitTypeOK
  <2>6. channel' # None =>
           /\ channel' \in listening'
           /\ chans'[channel'] # NoChannel => chans'[channel'].of = connection'
    BY <1>5, <1>8, <2>4, <2>5 DEF RInv, ChannelsBelong
  <2>7. QED
    BY <2>2, <2>3, <2>6 DEF ChannelsBelong
<1>15. CallersAreHeard'
  <2>1. \A h \in Channel : h \in listening /\ Usable(h)' => h \in listening'
    <3>1. channel \in Channel \cup {None}
      BY <1>2 DEF RabbitTypeOK
    <3>2. listening \ {channel} \subseteq listening'
      BY <1>1
    <3>3. QED
      BY <1>6, <1>7, <1>8, <3>2, NoneAssumption
  <2>2. QED
    BY <1>1, <1>6, <2>1, StaysHeard
<1>16. QED
  BY <1>9, <1>10, <1>11, <1>12, <1>13, <1>14, <1>15 DEF RInv

\* A channel ends alone; its connection may be invalidated with it.
LEMMA ChannelEndsKeepsInv ==
    ASSUME RInv, NEW h \in Channel, ChannelEnds(h)
    PROVE  RInv'
<1>1. /\ chans[h].life # "dead" /\ chans' = [chans EXCEPT ![h] = NoChannel]
      /\ UNCHANGED <<connecting, closed, attempt, caller, closing>>
  BY DEF ChannelEnds
<1>2. RabbitTypeOK /\ chans[h] # NoChannel /\ chans[h].of \in Connection
  BY <1>1, ChannelFields DEF RInv
<1>3. /\ NoChannel.life = "dead" /\ chans'[h] = NoChannel
      /\ \A g \in Channel : g # h => chans'[g] = chans[g]
      /\ chans' \in [Channel -> {NoChannel}
                        \cup [life : {"open", "closing"}, of : Connection]]
  BY <1>1 DEF NoChannel, RInv, RabbitTypeOK
<1>4. \A a \in Attempt : attempt[a].chan # None => attempt[a].chan \in Channel
  BY SoleAttempt, AttemptFields
<1>5. channel \in Channel \cup {None}
  BY <1>2 DEF RabbitTypeOK
<1>6. CASE h # channel /\ UNCHANGED <<channel, listening, connection, links>>
  <2>1. \A g \in Channel : Usable(g)' => Usable(g)
    BY <1>3, <1>6 DEF Usable
  <2>2. RabbitTypeOK'
    BY <1>1, <1>2, <1>3, <1>6 DEF RabbitTypeOK
  <2>3. NoOrphans' /\ AttemptIsShared' /\ ConnectionIsHandedOver' /\ ClosingIsFinal'
    BY <1>1, <1>6, <2>1
       DEF RInv, NoOrphans, AttemptIsShared, ConnectionIsHandedOver, ClosingIsFinal
  <2>4. ChannelsBelong'
    BY <1>1, <1>3, <1>4, <1>5, <1>6 DEF RInv, ChannelsBelong
  <2>5. CallersAreHeard'
    BY <1>1, <1>6, <2>1, StaysHeard
  <2>6. QED
    BY <2>2, <2>3, <2>4, <2>5 DEF RInv
<1>7. CASE h = channel
  <2> DEFINE k == chans[h].of
  <2>1. /\ channel # None /\ connection = k /\ k # None /\ connecting = None
        /\ \A a \in Attempt : attempt[a] = NoAttempt
        /\ closing.at \in {"no", "waiting"}
    <3>1. channel # None /\ k # None
      BY <1>2, <1>7, NoneAssumption
    <3>2. connection = k /\ connecting = None
      BY <1>2, <1>7, <3>1 DEF RInv, ChannelsBelong, AttemptIsShared
    <3>3. closing.at \in {"no", "waiting"}
      BY <3>1 DEF RInv, ClosingIsFinal
    <3>4. QED
      BY <3>1, <3>2, <3>3, NoneAssumption, SoleAttempt
  <2>2. /\ channel' = None /\ listening' = listening \ {h} /\ connection' = None
        /\ links' = CloseLink(k)
    BY <1>7, <2>1 DEF ChannelEnds
  <2>3. /\ links' \in [Connection -> Life] /\ links'[k] # "open"
        /\ \A j \in Connection : links'[j] = "dead" <=> links[j] = "dead"
        /\ \A j \in Connection : links'[j] = "open" => links[j] = "open"
    BY <1>2, <2>2, CloseLinkFacts
  <2>4. \A g \in Channel : Usable(g)' => Usable(g) /\ g # h
    BY <1>2, <1>3, <2>3, ChannelFields DEF Usable, NoChannel, Life
  <2>5. NoAttempt.at = "none" /\ NoAttempt.conn = None /\ NoAttempt.chan = None
    BY DEF NoAttempt
  <2>6. RabbitTypeOK'
    BY <1>1, <1>2, <1>3, <2>2, <2>3 DEF RabbitTypeOK
  <2>7. NoOrphans'
    BY <1>1, <1>7, <2>1, <2>2, <2>3, <2>4 DEF RInv, NoOrphans
  <2>8. AttemptIsShared' /\ ConnectionIsHandedOver'
    BY <1>1, <2>1, <2>2, <2>5 DEF RInv, AttemptIsShared, ConnectionIsHandedOver
  <2>9. ClosingIsFinal'
    BY <1>1, <2>1, <2>2 DEF RInv, ClosingIsFinal
  <2>10. ChannelsBelong'
    BY <1>1, <1>2, <1>3, <2>1, <2>2, <2>3, <2>5, ChannelFields DEF RInv, ChannelsBelong
  <2>11. CallersAreHeard'
    BY <1>1, <2>2, <2>4, StaysHeard
  <2>12. QED
    BY <2>6, <2>7, <2>8, <2>9, <2>10, <2>11 DEF RInv
<1>8. QED
  BY <1>6, <1>7 DEF ChannelEnds

-----------------------------------------------------------------------------
(* The inductive invariant: close() *)

\* closeResources takes the fields: no attempt is under way that could fill them.
LEMMA TakeResourcesKeepsInv ==
    ASSUME RInv, connecting = None, closing.at \in {"no", "waiting"}, closed',
           TakeResources, UNCHANGED <<connecting, attempt, caller>>
    PROVE  RInv'
<1>1. /\ \A a \in Attempt : attempt[a] = NoAttempt
      /\ NoAttempt.at = "none" /\ NoAttempt.conn = None /\ NoAttempt.chan = None
  BY NoneAssumption, SoleAttempt DEF NoAttempt
<1>2. /\ RabbitTypeOK /\ closing.conn = None /\ closing.chan = None
      /\ connection \in Connection \cup {None} /\ channel \in Channel \cup {None}
      /\ links \in [Connection -> Life] /\ listening \subseteq Channel
      /\ chans \in [Channel -> {NoChannel}
                       \cup [life : {"open", "closing"}, of : Connection]]
  BY ClosingFields DEF RInv, RabbitTypeOK
<1>3. connection # None => links[connection] = "open"
  BY <1>1 DEF RInv, ConnectionIsHandedOver
<1>4. /\ closing'.at = IF channel # None THEN "channel"
                       ELSE IF connection # None THEN "connection" ELSE "done"
      /\ closing'.conn = connection /\ closing'.chan = channel
      /\ channel' = None /\ connection' = None /\ listening' = listening \ {channel}
  BY DEF TakeResources
<1>5. /\ links' \in [Connection -> Life]
      /\ channel = None /\ connection # None => links'[connection] # "open"
      /\ \A j \in Connection : links'[j] = "dead" <=> links[j] = "dead"
      /\ \A j \in Connection : links'[j] = "open" => links[j] = "open"
  <2>1. CASE channel = None /\ connection # None
    <3>1. links' = CloseLink(connection)
      BY <2>1 DEF TakeResources
    <3>2. QED
      BY <1>2, <2>1, <3>1, CloseLinkFacts
  <2>2. CASE ~(channel = None /\ connection # None)
    BY <1>2, <2>2 DEF TakeResources
  <2>3. QED
    BY <2>1, <2>2
<1>6. /\ chans' \in [Channel -> {NoChannel}
                        \cup [life : {"open", "closing"}, of : Connection]]
      /\ \A g \in Channel : chans'[g] = NoChannel <=> chans[g] = NoChannel
      /\ \A g \in Channel : chans'[g].of = chans[g].of
      /\ \A g \in Channel : chans'[g].life = "open" => chans[g].life = "open" /\ g # channel
  <2>1. CASE channel # None
    <3>1. chans' = CloseChan(channel) /\ channel \in Channel
      BY <1>2, <2>1 DEF TakeResources
    <3>2. QED
      BY <1>2, <3>1, CloseChanFacts
  <2>2. CASE channel = None
    BY <1>2, <2>2, NoneAssumption DEF TakeResources
  <2>3. QED
    BY <2>1, <2>2
<1>7. \A g \in Channel : chans[g] # NoChannel <=> chans[g].life # "dead"
  BY <1>2, ChannelFields
<1>8. \A g \in Channel : chans[g] # NoChannel => chans[g].of \in Connection
  BY <1>2, ChannelFields
<1>9. \A g \in Channel : Usable(g)' => Usable(g) /\ g # channel
  BY <1>5, <1>6, <1>7, <1>8 DEF Usable
<1>10. RabbitTypeOK'
  <2>1. closing' \in [at : {"no", "waiting", "done"}, conn : {None}, chan : {None}]
              \cup [at : {"channel"}, conn : Connection \cup {None}, chan : Channel]
              \cup [at : {"connection"}, conn : Connection, chan : {None}]
    BY <1>2 DEF TakeResources
  <2>2. closed' \in BOOLEAN
    OBVIOUS
  <2>3. QED
    BY <1>2, <1>4, <1>5, <1>6, <2>1 DEF RabbitTypeOK
<1>11. NoOrphans'
  BY <1>1, <1>2, <1>4, <1>5, <1>9 DEF RInv, NoOrphans
<1>12. AttemptIsShared' /\ ConnectionIsHandedOver'
  BY <1>1, <1>4 DEF RInv, AttemptIsShared, ConnectionIsHandedOver
<1>13. ClosingIsFinal'
  BY <1>4, <1>5 DEF ClosingIsFinal
<1>14. ChannelsBelong'
  BY <1>1, <1>4, <1>5, <1>6, <1>8 DEF RInv, ChannelsBelong
<1>15. CallersAreHeard'
  BY <1>4, <1>9, StaysHeard
<1>16. QED
  BY <1>10, <1>11, <1>12, <1>13, <1>14, <1>15 DEF RInv

\* close() takes the fields, or waits for the attempt that may fill them.
LEMMA CloseBeginsKeepsInv == RInv /\ CloseBegins => RInv'
<1> SUFFICES ASSUME RInv, CloseBegins PROVE RInv'
  OBVIOUS
<1>1. closing.at = "no" /\ closed' = TRUE /\ UNCHANGED <<connecting, attempt, caller>>
  BY DEF CloseBegins
<1>2. CASE connecting = None /\ TakeResources
  BY <1>1, <1>2, TakeResourcesKeepsInv
<1>3. CASE /\ connecting # None /\ closing' = [closing EXCEPT !.at = "waiting"]
           /\ UNCHANGED <<connection, channel, linkVars>>
  <2> USE DEF linkVars
  <2>1. closing \in [at : {"no"}, conn : {None}, chan : {None}]
    BY <1>1 DEF RInv, RabbitTypeOK
  <2>2. closing' \in [at : {"waiting"}, conn : {None}, chan : {None}]
    BY <1>3, <2>1
  <2>3. /\ closing'.at = "waiting" /\ closing'.conn = closing.conn
        /\ closing'.chan = closing.chan
    BY <2>1, <2>2
  <2>4. RabbitTypeOK'
    <3>1. closing' \in [at : {"no", "waiting", "done"}, conn : {None}, chan : {None}]
      BY <2>2
    <3>2. QED
      BY <1>1, <1>3, <3>1 DEF RInv, RabbitTypeOK
  <2>5. NoOrphans' /\ AttemptIsShared' /\ ConnectionIsHandedOver' /\ ChannelsBelong'
    BY <1>1, <1>3, <2>3 DEF RInv, NoOrphans, AttemptIsShared, ConnectionIsHandedOver,
                            ChannelsBelong, Usable
  <2>6. ClosingIsFinal'
    BY <1>1, <2>3 DEF ClosingIsFinal
  <2>7. CallersAreHeard'
    BY <1>1, <1>3, StaysHeard DEF Usable
  <2>8. QED
    BY <2>4, <2>5, <2>6, <2>7 DEF RInv
<1>4. QED
  BY <1>2, <1>3 DEF CloseBegins

\* The awaits of closeResources.
LEMMA CloseStepKeepsInv == RInv /\ CloseStep => RInv'
<1> SUFFICES ASSUME RInv, CloseStep PROVE RInv'
  OBVIOUS
<1> USE DEF fieldVars, linkVars
<1>1. CASE CloseGoesOn
  BY <1>1, TakeResourcesKeepsInv DEF CloseGoesOn, RInv, ClosingIsFinal
<1>2. ASSUME closing' = CloseLeft(closing'.conn),
             closing'.conn = None \/ closing'.conn = closing.conn,
             closing.at \in {"channel", "connection"},
             closing.at = "channel" => chans[closing.chan] = NoChannel,
             UNCHANGED <<fieldVars, attempt, caller, chans, listening>>,
             links' \in [Connection -> Life],
             closing'.conn # None => links'[closing'.conn] # "open",
             closing'.conn # closing.conn =>
                 closing.conn = None \/ links'[closing.conn] # "open",
             \A j \in Connection : links'[j] = "dead" <=> links[j] = "dead",
             \A j \in Connection : links'[j] = "open" => links[j] = "open"
      PROVE  RInv'
  <2>1. RabbitTypeOK /\ closing.conn \in Connection \cup {None}
    BY ClosingFields, <1>2 DEF RInv
  <2>2. /\ closing'.at = IF closing'.conn = None THEN "done" ELSE "connection"
        /\ closing'.chan = None /\ closing'.conn \in Connection \cup {None}
    BY <1>2, <2>1 DEF CloseLeft
  <2>3. connecting = None /\ connection = None /\ channel = None
    BY <1>2 DEF RInv, ClosingIsFinal
  <2>4. \A g \in Channel : Usable(g)' => Usable(g) /\ g # closing.chan
    <3>1. \A g \in Channel : chans[g] # NoChannel => chans[g].of \in Connection
      BY <2>1, ChannelFields
    <3>2. \A g \in Channel : chans[g].life = "open" => chans[g] # NoChannel
      BY DEF NoChannel
    <3>3. closing.at = "connection" => closing.chan = None
      BY <2>1, ClosingFields
    <3>4. QED
      BY <1>2, <3>1, <3>2, <3>3, NoneAssumption DEF Usable
  <2>5. RabbitTypeOK'
    <3>1. closing' \in [at : {"no", "waiting", "done"}, conn : {None}, chan : {None}]
                \cup [at : {"connection"}, conn : Connection, chan : {None}]
      BY <1>2, <2>2 DEF CloseLeft
    <3>2. QED
      BY <1>2, <2>1, <3>1 DEF RabbitTypeOK
  <2>6. NoOrphans'
    BY <1>2, <2>1, <2>2, <2>4 DEF RInv, NoOrphans
  <2>7. AttemptIsShared'
    BY <1>2 DEF RInv, AttemptIsShared
  <2>8. ConnectionIsHandedOver'
    BY <1>2, <2>3, NoneAssumption DEF RInv, ConnectionIsHandedOver, AttemptIsShared
  <2>9. ClosingIsFinal'
    BY <1>2, <2>2, <2>3 DEF RInv, ClosingIsFinal
  <2>10. ChannelsBelong'
    BY <1>2, <2>1, ChannelFields DEF RInv, ChannelsBelong
  <2>11. CallersAreHeard'
    BY <1>2, <2>4, StaysHeard
  <2>12. QED
    BY <2>5, <2>6, <2>7, <2>8, <2>9, <2>10, <2>11 DEF RInv
<1>3. RabbitTypeOK
  BY DEF RInv
<1>4. CASE ChannelClosed
  <2>1. closing.at = "channel" /\ closing.conn \in Connection \cup {None}
    BY <1>3, <1>4, ClosingFields DEF ChannelClosed
  <2>2. closing'.conn = closing.conn /\ closing' = CloseLeft(closing'.conn)
    BY <1>4 DEF ChannelClosed, CloseLeft
  <2>3. /\ links' \in [Connection -> Life]
        /\ closing.conn # None => links'[closing.conn] # "open"
        /\ \A j \in Connection : links'[j] = "dead" <=> links[j] = "dead"
        /\ \A j \in Connection : links'[j] = "open" => links[j] = "open"
    <3>1. CASE closing.conn # None
      <4>1. links' = CloseLink(closing.conn)
        BY <1>4, <3>1 DEF ChannelClosed
      <4>2. QED
        BY <1>3, <2>1, <3>1, <4>1, CloseLinkFacts
    <3>2. CASE closing.conn = None
      BY <1>3, <1>4, <3>2 DEF ChannelClosed, RabbitTypeOK
    <3>3. QED
      BY <3>1, <3>2
  <2>4. QED
    BY <1>2, <1>4, <2>1, <2>2, <2>3 DEF ChannelClosed
<1>5. CASE ConnectionClosed
  <2>1. closing'.conn = None /\ closing' = CloseLeft(closing'.conn)
    BY <1>5 DEF ConnectionClosed, CloseLeft
  <2>2. links \in [Connection -> Life] /\ UNCHANGED links
    BY <1>3, <1>5 DEF ConnectionClosed, RabbitTypeOK
  <2>3. QED
    BY <1>2, <1>5, <2>1, <2>2 DEF ConnectionClosed
<1>6. QED
  BY <1>1, <1>4, <1>5 DEF CloseStep

\* The invariant is inductive.
LEMMA RabbitStepKeepsInv == RInv /\ [RabbitNext]_rabbitVars => RInv'
<1> SUFFICES ASSUME RInv, [RabbitNext]_rabbitVars PROVE RInv'
  OBVIOUS
<1>1. ASSUME NEW c \in Caller,
             \/ GetConfirmChannel(c) \/ Publish(c) \/ Release(c)
             \/ Confirmed(c) \/ ConfirmTimeout(c)
      PROVE  RInv'
  BY <1>1, GetConfirmChannelKeepsInv, PublishKeepsInv, CallerIsDoneInv
<1>2. ASSUME NEW a \in Attempt, Proceeds(a) \/ ConnectFails(a) \/ SetupFails(a)
      PROVE  RInv'
  BY <1>2, OpenOkKeepsInv, ConnectKeepsInv, ChannelOpensKeepsInv, ExchangeAssertedKeepsInv,
     AttachChannelKeepsInv, FailureKeepsInv, SetupFailsKeepsInv DEF Proceeds
<1>3. ASSUME NEW k \in Connection, ConnectionEnds(k) PROVE RInv'
  BY <1>3, ConnectionEndsKeepsInv
<1>4. ASSUME NEW h \in Channel, ChannelEnds(h) PROVE RInv'
  BY <1>4, ChannelEndsKeepsInv
<1>5. CASE CloseBegins \/ CloseStep
  BY <1>5, CloseBeginsKeepsInv, CloseStepKeepsInv
<1>6. CASE UNCHANGED rabbitVars
  BY <1>6 DEF rabbitVars, fieldVars, linkVars, RInv, RabbitTypeOK, NoOrphans,
              AttemptIsShared, ConnectionIsHandedOver, ClosingIsFinal, ChannelsBelong,
              CallersAreHeard, Usable
<1>7. QED
  BY <1>1, <1>2, <1>3, <1>4, <1>5, <1>6 DEF RabbitNext

\* The attempts, the fields and the close() of RabbitMqConnectionManager: the
\* inductive invariant.
THEOREM RabbitInvHolds == RabbitSpec => []RInv
BY RabbitInitInv, RabbitStepKeepsInv, PTL DEF RabbitSpec

-----------------------------------------------------------------------------
(* What follows from it *)

\* Types, and which resources an attempt and a close() hold at which point.
THEOREM RabbitTypeCorrect == RabbitSpec => []RabbitTypeOK
<1>1. RInv => RabbitTypeOK
  BY DEF RInv
<1>2. QED
  BY <1>1, RabbitInvHolds, PTL

\* Whatever opens, ends, fails or is closed meanwhile: an open connection or channel
\* is current, in an attempt's hands or about to be closed by close().
THEOREM NothingLeaks == RabbitSpec => []NoOrphans
<1>1. RInv => NoOrphans
  BY DEF RInv
<1>2. QED
  BY <1>1, RabbitInvHolds, PTL

\* A publish that the broker can still confirm is one whose return is heard.
THEOREM ReturnsAreHeard == RabbitSpec => []HeardWhileUsable
<1>1. RInv => HeardWhileUsable
  BY DEF RInv, CallersAreHeard, HeardWhileUsable
<1>2. QED
  BY <1>1, RabbitInvHolds, PTL

-----------------------------------------------------------------------------
(* The refinement *)

\* An open connection is the current one, the one of the attempt under way or the
\* one close() has taken, and only one of these is there.
LEMMA OneLives ==
    ASSUME RInv, NEW j \in Live, NEW k \in Live
    PROVE  j = k
<1>1. /\ j \in {connection, closing.conn} \cup {attempt[a].conn : a \in Attempt}
      /\ k \in {connection, closing.conn} \cup {attempt[a].conn : a \in Attempt}
      /\ j # None /\ k # None
  BY NoneAssumption DEF RInv, NoOrphans, Live
<1>2. NoAttempt.conn = None
  BY DEF NoAttempt
<1>3. CASE connecting = None
  <2>1. \A a \in Attempt : attempt[a].conn = None
    BY <1>2, <1>3, NoneAssumption, SoleAttempt
  <2>2. closing.conn # None => connection = None
    BY ClosingFields DEF RInv, ClosingIsFinal
  <2>3. QED
    BY <1>1, <2>1, <2>2
<1>4. ASSUME NEW a \in Attempt, connecting = a PROVE j = k
  <2>1. \A b \in Attempt : b # a => attempt[b].conn = None
    BY <1>2, <1>4, SoleAttempt
  <2>2. closing.conn = None
    BY <1>4, NoneAssumption, ClosingFields DEF RInv, ClosingIsFinal
  <2>3. attempt[a].conn = None \/ connection \in {None, attempt[a].conn}
    BY <1>4, SoleAttempt, AttemptFields DEF RInv, ConnectionIsHandedOver
  <2>4. QED
    BY <1>1, <2>1, <2>2, <2>3
<1>5. QED
  BY <1>3, <1>4 DEF RInv, RabbitTypeOK

\* A manager that holds no connection and attempts nothing has none open.
LEMMA NoneLives ==
    ASSUME RInv, connection = None, closing.conn = None \/ links[closing.conn] # "open",
           \A a \in Attempt : attempt[a].conn = None
    PROVE  Live = {}
BY NoneAssumption DEF RInv, NoOrphans, Live

\* Where no connection opens and close() is where it was, a connection drops, if any.
LEMMA OnlyDrops ==
    ASSUME RInv, \A k \in Connection : links'[k] = "open" => links[k] = "open",
           Status' = Status
    PROVE  [Promise!TransportNext]_(Promise!transportVars)
<1>1. Live' \subseteq Live
  BY DEF Live
<1>2. Live' = Live \/ (Live # {} /\ Live' = {})
  BY <1>1, OneLives
<1>3. QED
  BY <1>2 DEF Promise!TransportNext, Promise!Drop, Promise!transportVars

\* What callers do opens and closes no connection.
LEMMA CallersStutter ==
    ASSUME RInv, NEW c \in Caller,
           \/ GetConfirmChannel(c) \/ Publish(c) \/ Release(c)
           \/ Confirmed(c) \/ ConfirmTimeout(c)
    PROVE  [Promise!TransportNext]_(Promise!transportVars)
<1>1. UNCHANGED <<links, closing>>
  BY DEF GetConfirmChannel, Publish, Release, Confirmed, ConfirmTimeout, linkVars
<1>2. QED
  BY <1>1, OnlyDrops DEF Status

\* An attempt opens a connection only when there is none.
LEMMA AttemptsRefine ==
    ASSUME RInv, NEW a \in Attempt, Proceeds(a) \/ ConnectFails(a) \/ SetupFails(a)
    PROVE  [Promise!TransportNext]_(Promise!transportVars)
<1>1. closing' = closing
  BY DEF Proceeds, OpenOk, Connect, ChannelOpens, ExchangeAsserted, AttachChannel, Rejected,
         ConnectFails, SetupFails
<1>2. CASE OpenOk(a)
  <2>1. PICK k \in Connection : links' = [links EXCEPT ![k] = "open"]
    BY <1>2 DEF OpenOk
  <2>2. /\ attempt[a].at = "opening" /\ connecting = a /\ connecting # None
        /\ connection = None
    BY <1>2, SoleAttempt DEF OpenOk, RInv, ConnectionIsHandedOver
  <2>3. closing.at \in {"no", "waiting"} /\ closing.conn = None
    BY <2>2, ClosingFields DEF RInv, ClosingIsFinal
  <2>4. \A b \in Attempt : attempt[b].conn = None
    BY <2>2, SoleAttempt, AttemptFields DEF NoAttempt
  <2>5. Live = {}
    BY <2>2, <2>3, <2>4, NoneLives
  <2>6. links \in [Connection -> Life]
    BY DEF RInv, RabbitTypeOK
  <2>7. Live' = {k}
    BY <2>1, <2>5, <2>6 DEF Live
  <2>8. Status' = Status /\ Status # "closed"
    BY <1>1, <2>3 DEF Status
  <2>9. Promise!Establish(k)
    BY <2>5, <2>7, <2>8 DEF Promise!Establish
  <2>10. QED
    BY <2>9 DEF Promise!TransportNext
<1>3. CASE ~OpenOk(a)
  <2>1. \/ links' = links
        \/ \E k \in Connection : links' = CloseLink(k)
    <3>1. attempt[a].at \in {"opened", "creating", "asserting"} => attempt[a].conn \in Connection
      BY SoleAttempt, AttemptFields
    <3>2. QED
      BY <1>3, <3>1 DEF Proceeds, Connect, ChannelOpens, ExchangeAsserted, AttachChannel,
                        Rejected, ConnectFails, SetupFails, linkVars
  <2>2. \A k \in Connection : links'[k] = "open" => links[k] = "open"
    BY <2>1, CloseLinkFacts DEF RInv
  <2>3. QED
    BY <1>1, <2>2, OnlyDrops DEF Status
<1>4. QED
  BY <1>2, <1>3

\* What ends may leave none.
LEMMA EndingsRefine ==
    ASSUME RInv, \/ \E k \in Connection : ConnectionEnds(k)
                 \/ \E h \in Channel : ChannelEnds(h)
    PROVE  [Promise!TransportNext]_(Promise!transportVars)
<1>1. closing' = closing
  BY DEF ConnectionEnds, ChannelEnds
<1>2. \A k \in Connection : links'[k] = "open" => links[k] = "open"
  <2>1. ASSUME NEW k \in Connection, ConnectionEnds(k)
        PROVE  \A j \in Connection : links'[j] = "open" => links[j] = "open"
    BY <2>1 DEF ConnectionEnds, RInv, RabbitTypeOK
  <2>2. ASSUME NEW h \in Channel, ChannelEnds(h)
        PROVE  \A j \in Connection : links'[j] = "open" => links[j] = "open"
    <3>1. chans[h].of \in Connection
      BY <2>2, ChannelFields DEF ChannelEnds, RInv
    <3>2. QED
      BY <2>2, <3>1, CloseLinkFacts DEF ChannelEnds, RInv
  <2>3. QED
    BY <2>1, <2>2
<1>3. QED
  BY <1>1, <1>2, OnlyDrops DEF Status

\* closeResources gives up the connection, or finds none.
LEMMA TakingResources ==
    ASSUME RInv, TakeResources, connecting = None, closing.at \in {"no", "waiting"}
    PROVE  /\ closing'.at \in {"channel", "connection", "done"}
           /\ \A k \in Connection : links'[k] = "open" => links[k] = "open"
           /\ closing'.at = "done" => Live = {} /\ Live' = {}
<1>1. closing'.at = IF channel # None THEN "channel"
                    ELSE IF connection # None THEN "connection" ELSE "done"
  BY DEF TakeResources
<1>2. \A k \in Connection : links'[k] = "open" => links[k] = "open"
  <2>1. connection \in Connection \cup {None}
    BY DEF RInv, RabbitTypeOK
  <2>2. links' = links \/ \E k \in Connection : links' = CloseLink(k)
    BY <2>1 DEF TakeResources
  <2>3. QED
    BY <2>2, CloseLinkFacts DEF RInv
<1>3. ASSUME closing'.at = "done" PROVE Live = {} /\ Live' = {}
  <2>1. connection = None /\ closing.conn = None
    BY <1>1, <1>3, ClosingFields DEF RInv
  <2>2. \A a \in Attempt : attempt[a].conn = None
    BY NoneAssumption, SoleAttempt DEF NoAttempt
  <2>3. Live = {}
    BY <2>1, <2>2, NoneLives
  <2>4. QED
    BY <1>2, <2>3 DEF Live
<1>4. QED
  BY <1>1, <1>2, <1>3

\* close() begins, and may find nothing to wait for.
LEMMA CloseBeginsRefines ==
    ASSUME RInv, CloseBegins
    PROVE  Promise!TransportNext
<1>1. closing.at = "no"
  BY DEF CloseBegins
<1>2. Status = "open"
  BY <1>1 DEF Status
<1>3. CASE connecting = None /\ TakeResources
  <2>1. /\ closing'.at \in {"channel", "connection", "done"} /\ Live' \subseteq Live
        /\ closing'.at = "done" => Live = {}
    BY <1>1, <1>3, TakingResources DEF Live
  <2>2. Live' \in {Live, {}}
    BY <2>1, OneLives
  <2>3. Status' \in IF Live = {} THEN {"closing", "closed"} ELSE {"closing"}
    BY <2>1 DEF Status
  <2>4. QED
    BY <1>2, <2>2, <2>3 DEF Promise!TransportNext, Promise!BeginClose
<1>4. CASE closing' = [closing EXCEPT !.at = "waiting"] /\ UNCHANGED linkVars
  <2>1. closing \in [at : {"no"}, conn : {None}, chan : {None}]
    BY <1>1 DEF RInv, RabbitTypeOK
  <2>2. closing'.at = "waiting" /\ Live' = Live
    BY <1>4, <2>1 DEF Live, linkVars
  <2>3. Status' = "closing"
    BY <2>2 DEF Status
  <2>4. QED
    BY <1>2, <2>2, <2>3 DEF Promise!TransportNext, Promise!BeginClose
<1>5. QED
  BY <1>3, <1>4 DEF CloseBegins

\* A close() that has returned leaves none.
LEMMA CloseStepRefines ==
    ASSUME RInv, CloseStep
    PROVE  [Promise!TransportNext]_(Promise!transportVars)
<1>1. Status = "closing"
  BY DEF CloseStep, CloseGoesOn, ChannelClosed, ConnectionClosed, Status
<1>2. CASE closing'.at \in {"channel", "connection"}
  <2>1. \A k \in Connection : links'[k] = "open" => links[k] = "open"
    <3>1. CASE CloseGoesOn
      BY <3>1, TakingResources DEF CloseGoesOn
    <3>2. CASE ChannelClosed
      <4>1. closing.conn \in Connection \cup {None}
        BY <3>2, ClosingFields DEF ChannelClosed, RInv
      <4>2. links' = links \/ \E k \in Connection : links' = CloseLink(k)
        BY <3>2, <4>1 DEF ChannelClosed
      <4>3. QED
        BY <4>2, CloseLinkFacts DEF RInv
    <3>3. CASE ConnectionClosed
      BY <3>3 DEF ConnectionClosed, linkVars
    <3>4. QED
      BY <3>1, <3>2, <3>3 DEF CloseStep
  <2>2. Status' = Status
    BY <1>1, <1>2 DEF Status
  <2>3. QED
    BY <2>1, <2>2, OnlyDrops
<1>3. CASE closing'.at = "done"
  <2>1. Live = {} /\ Live' = {}
    <3>1. CASE CloseGoesOn
      BY <1>3, <3>1, TakingResources DEF CloseGoesOn
    <3>2. CASE ChannelClosed \/ ConnectionClosed
      <4>1. connecting = None /\ connection = None
        BY <3>2 DEF ChannelClosed, ConnectionClosed, RInv, ClosingIsFinal
      <4>2. \A a \in Attempt : attempt[a].conn = None
        BY <4>1, NoneAssumption, SoleAttempt DEF NoAttempt
      <4>3. /\ closing.conn = None \/ links[closing.conn] # "open"
            /\ links' = links
        BY <1>3, <3>2 DEF ChannelClosed, ConnectionClosed, CloseLeft, linkVars
      <4>4. Live = {}
        BY <4>1, <4>2, <4>3, NoneLives
      <4>5. QED
        BY <4>3, <4>4 DEF Live
    <3>3. QED
      BY <3>1, <3>2 DEF CloseStep
  <2>2. Status' = "closed"
    BY <1>3 DEF Status
  <2>3. QED
    BY <1>1, <2>1, <2>2 DEF Promise!TransportNext, Promise!EndClose
<1>4. closing'.at \in {"channel", "connection", "done"}
  <2>1. CASE CloseGoesOn
    BY <2>1, TakingResources DEF CloseGoesOn
  <2>2. CASE ChannelClosed \/ ConnectionClosed
    BY <2>2 DEF ChannelClosed, ConnectionClosed, CloseLeft
  <2>3. QED
    BY <2>1, <2>2 DEF CloseStep
<1>5. QED
  BY <1>2, <1>3, <1>4

\* However attempts, endings and close() overlap: one connection at a time is in
\* use, and none once close() has returned.
THEOREM TransportIsImplemented == RabbitSpec => ImplementsTransport
<1>1. RabbitInit => Promise!TransportInit
  BY DEF RabbitInit, NotClosing, Promise!TransportInit, Live, Status
<1>2. ASSUME RInv, [RabbitNext]_rabbitVars
      PROVE  [Promise!TransportNext]_(Promise!transportVars)
  <2>1. CASE RabbitNext
    BY <1>2, <2>1, CallersStutter, AttemptsRefine, EndingsRefine, CloseBeginsRefines,
       CloseStepRefines DEF RabbitNext
  <2>2. CASE UNCHANGED rabbitVars
    BY <2>2 DEF rabbitVars, linkVars, Live, Status, Promise!transportVars
  <2>3. QED
    BY <1>2, <2>1, <2>2
<1>3. QED
  BY <1>1, <1>2, RabbitInvHolds, PTL DEF RabbitSpec, ImplementsTransport, Promise!TransportSpec

=============================================================================
