---------------------------- MODULE RabbitConnection ----------------------------
(***************************************************************************)
(* RabbitMqConnectionManager: one broker connection and one confirm        *)
(* channel, shared by the callers of getConfirmChannel, lost at any time   *)
(* and closed once.                                                        *)
(*                                                                         *)
(* An action is a run of the event loop up to the next await.  Frames that *)
(* arrive together are handled before the code that waited for the first   *)
(* of them goes on: that is the only thing that can happen while the       *)
(* manager is not Quiet.                                                   *)
(*                                                                         *)
(* Any number of callers may publish at the same time.  The worker awaits  *)
(* each publish before the next one, so it is one caller that does.        *)
(***************************************************************************)
EXTENDS FiniteSets

CONSTANTS
    Connection,   \* broker connections; a dead one nobody refers to is reused
    Channel,      \* confirm channels, likewise
    Attempt,      \* runs of connectConfirmChannel
    Caller,       \* callers of getConfirmChannel: poller and publisher
    None          \* null

ASSUME NoneAssumption ==
    None \notin Connection \cup Channel \cup Attempt

VARIABLES
    connection,   \* this.connection
    channel,      \* this.channel
    connecting,   \* this.connecting
    closed,       \* this.closed
    attempt,      \* where a run of connectConfirmChannel is
    caller,       \* what a caller waits for or has got
    closing,      \* where closeResources is, and what it has taken
    links,        \* the broker connections
    chans,        \* the channels, and the connection each is of
    listening     \* channels with the listener for returned messages

fieldVars == <<connection, channel, connecting, closed>>
linkVars  == <<links, chans, listening>>
rabbitVars == <<fieldVars, attempt, caller, closing, linkVars>>

Life == {"dead", "open", "closing"}

NoAttempt == [at |-> "none", conn |-> None, chan |-> None]
NoChannel == [life |-> "dead", of |-> None]
Idle      == [at |-> "idle", on |-> None]
NotClosing == [at |-> "no", conn |-> None, chan |-> None]

Usable(h) == chans[h].life = "open" /\ links[chans[h].of] = "open"

\* amqplib's close(): asks the broker and forgets; a dead resource stays dead.
Closed(life) == IF life = "open" THEN "closing" ELSE life

CloseLink(k) == [links EXCEPT ![k] = Closed(@)]
CloseChan(h) == [chans EXCEPT ![h].life = Closed(@)]

Unused(k) ==
    /\ links[k] = "dead"
    /\ k \notin {connection, closing.conn} \cup {attempt[a].conn : a \in Attempt}

UnusedChan(h) ==
    /\ chans[h] = NoChannel
    /\ h \notin {channel, closing.chan} \cup {attempt[a].chan : a \in Attempt}
    /\ \A c \in Caller : caller[c].on # h

\* No promise is settled whose continuation has not run: the next event of the
\* loop may be a call or a timer.
Quiet ==
    /\ \A a \in Attempt : attempt[a].at \notin {"opened", "asserted"}
    /\ \A c \in Caller : caller[c].at # "holding"
    /\ ~(closing.at = "waiting" /\ connecting = None)

-----------------------------------------------------------------------------
(* getConfirmChannel *)

Starting(a) ==
    /\ attempt[a] = NoAttempt
    /\ attempt' = [attempt EXCEPT
                     ![a] = [at   |-> IF connection = None THEN "opening" ELSE "creating",
                             conn |-> connection,
                             chan |-> None]]

\* The current channel, or the attempt under way, or a new attempt.  A closed
\* manager throws.
GetConfirmChannel(c) ==
    /\ Quiet /\ caller[c] = Idle /\ ~closed
    /\ \/ /\ channel # None
          /\ caller' = [caller EXCEPT ![c] = [at |-> "holding", on |-> channel]]
          /\ UNCHANGED <<connecting, attempt>>
       \/ /\ channel = None /\ connecting # None
          /\ caller' = [caller EXCEPT ![c] = [at |-> "waiting", on |-> connecting]]
          /\ UNCHANGED <<connecting, attempt>>
       \/ /\ channel = None /\ connecting = None
          /\ \E a \in Attempt :
                /\ Starting(a)
                /\ connecting' = a
                /\ caller' = [caller EXCEPT ![c] = [at |-> "waiting", on |-> a]]
    /\ UNCHANGED <<connection, channel, closed, closing, linkVars>>

SettleWith_KeepBug(a, outcome) ==
    /\ attempt' = [attempt EXCEPT ![a] = NoAttempt]
    /\ caller' = [c \in Caller |->
                    IF caller[c] = [at |-> "waiting", on |-> a] THEN outcome ELSE caller[c]]
    /\ UNCHANGED connecting

\* The promise of an attempt settles: all who waited for it go on, in one batch
\* of continuations, and each of them clears this.connecting.
SettleWith(a, outcome) ==
    /\ attempt' = [attempt EXCEPT ![a] = NoAttempt]
    /\ caller' = [c \in Caller |->
                    IF caller[c] = [at |-> "waiting", on |-> a] THEN outcome ELSE caller[c]]
    /\ connecting' = IF \E c \in Caller : caller[c] = [at |-> "waiting", on |-> a]
                     THEN None ELSE connecting

-----------------------------------------------------------------------------
(* connectConfirmChannel and connect *)

\* The broker accepts the connection, perhaps after it was aborted.
OpenOk(a) ==
    /\ attempt[a].at = "opening"
    /\ \E k \in Connection :
          /\ Unused(k)
          /\ links' = [links EXCEPT ![k] = "open"]
          /\ attempt' = [attempt EXCEPT ![a].at = "opened", ![a].conn = k]
    /\ UNCHANGED <<fieldVars, caller, closing, chans, listening>>

\* Refused, timed out or aborted.
ConnectFails(a) ==
    /\ attempt[a].at = "opening"
    /\ SettleWith(a, Idle)
    /\ UNCHANGED <<connection, channel, closed, closing, linkVars>>

Connect_LeakBug(a) ==
    /\ attempt[a].at = "opened"
    /\ \/ /\ closed
          /\ SettleWith(a, Idle)
          /\ UNCHANGED connection
       \/ /\ ~closed
          /\ connection' = attempt[a].conn
          /\ attempt' = [attempt EXCEPT ![a].at = "creating"]
          /\ UNCHANGED <<connecting, caller>>
    /\ UNCHANGED <<channel, closed, closing, linkVars>>

\* connect() goes on: a manager closed meanwhile gives the connection back.
Connect(a) ==
    /\ attempt[a].at = "opened"
    /\ \/ /\ closed
          /\ links' = CloseLink(attempt[a].conn)
          /\ attempt' = [attempt EXCEPT ![a].at = "discarding"]
          /\ UNCHANGED connection
       \/ /\ ~closed
          /\ connection' = attempt[a].conn
          /\ attempt' = [attempt EXCEPT ![a].at = "creating"]
          /\ UNCHANGED links
    /\ UNCHANGED <<channel, connecting, closed, caller, closing, chans, listening>>

\* createConfirmChannel and assertExchange succeed.
ChannelOpens(a) ==
    /\ attempt[a].at = "creating"
    /\ links[attempt[a].conn] = "open"
    /\ \E h \in Channel :
          /\ UnusedChan(h)
          /\ chans' = [chans EXCEPT ![h] = [life |-> "open", of |-> attempt[a].conn]]
          /\ attempt' = [attempt EXCEPT ![a].at = "asserting", ![a].chan = h]
    /\ UNCHANGED <<fieldVars, caller, closing, links, listening>>

ExchangeAsserted(a) ==
    /\ attempt[a].at = "asserting"
    /\ Usable(attempt[a].chan)
    /\ attempt' = [attempt EXCEPT ![a].at = "asserted"]
    /\ UNCHANGED <<fieldVars, caller, closing, linkVars>>

\* The listeners are attached and the channel is stored, even if it has ended
\* since the exchange was asserted.
AttachChannel(a) ==
    /\ attempt[a].at = "asserted"
    /\ channel' = attempt[a].chan
    /\ listening' = listening \cup {attempt[a].chan}
    /\ SettleWith(a, [at |-> "holding", on |-> attempt[a].chan])
    /\ UNCHANGED <<connection, closed, closing, links, chans>>

SetupFails_KeepChannelBug(a) ==
    /\ attempt[a].at \in {"creating", "asserting"}
    /\ connection' = IF connection = attempt[a].conn THEN None ELSE connection
    /\ links' = CloseLink(attempt[a].conn)
    /\ attempt' = [attempt EXCEPT ![a].at = "discarding"]
    /\ UNCHANGED <<channel, connecting, closed, caller, closing, chans, listening>>

\* The catch of connectConfirmChannel.
SetupFails(a) ==
    /\ attempt[a].at \in {"creating", "asserting"}
    /\ connection' = IF connection = attempt[a].conn THEN None ELSE connection
    /\ links' = CloseLink(attempt[a].conn)
    /\ attempt' = [attempt EXCEPT ![a].at = "discarding", ![a].chan = None]
    /\ UNCHANGED <<channel, connecting, closed, caller, closing, chans, listening>>

\* safeClose has ended and the error is thrown to the callers.
Rejected(a) ==
    /\ attempt[a].at = "discarding"
    /\ links[attempt[a].conn] = "dead"
    /\ SettleWith(a, Idle)
    /\ UNCHANGED <<connection, channel, closed, closing, linkVars>>

-----------------------------------------------------------------------------
(* Endings *)

ConnectionEnds_AnyConnectionBug(k) ==
    /\ links[k] # "dead"
    /\ links' = [links EXCEPT ![k] = "dead"]
    /\ chans' = [h \in Channel |-> IF chans[h].of = k THEN NoChannel ELSE chans[h]]
    /\ connection' = None /\ channel' = None
    /\ listening' = listening \ {channel}
    /\ UNCHANGED <<connecting, closed, attempt, caller, closing>>

\* The channel events and connection events of a connection that ends:
\* invalidateTransport and invalidateConnection ignore what is not current.
ConnectionEnds(k) ==
    LET mine  == {h \in Channel : chans[h].of = k}
        stale == connection # k /\ channel \notin mine
    IN  /\ links[k] # "dead"
        /\ links' = [links EXCEPT ![k] = "dead"]
        /\ chans' = [h \in Channel |-> IF h \in mine THEN NoChannel ELSE chans[h]]
        /\ connection' = IF connection = k THEN None ELSE connection
        /\ channel' = IF stale THEN channel ELSE None
        /\ listening' = IF stale THEN listening ELSE listening \ {channel}
        /\ UNCHANGED <<connecting, closed, attempt, caller, closing>>

ChannelEnds_KeepLinkBug(h) ==
    /\ chans[h].life # "dead"
    /\ chans' = [chans EXCEPT ![h] = NoChannel]
    /\ \/ /\ h = channel
          /\ channel' = None
          /\ listening' = listening \ {h}
          /\ connection' = IF connection = chans[h].of THEN None ELSE connection
       \/ /\ h # channel
          /\ UNCHANGED <<channel, listening, connection>>
    /\ UNCHANGED <<connecting, closed, attempt, caller, closing, links>>

\* invalidateTransport: the loss of the current channel gives up its
\* connection, which is closed without waiting.
ChannelEnds(h) ==
    /\ chans[h].life # "dead"
    /\ chans' = [chans EXCEPT ![h] = NoChannel]
    /\ \/ /\ h = channel
          /\ channel' = None
          /\ listening' = listening \ {h}
          /\ connection' = IF connection = chans[h].of THEN None ELSE connection
          /\ links' = CloseLink(chans[h].of)
       \/ /\ h # channel
          /\ UNCHANGED <<channel, listening, connection, links>>
    /\ UNCHANGED <<connecting, closed, attempt, caller, closing>>

-----------------------------------------------------------------------------
(* What callers do with a channel: RabbitMqPublisher.publish, pollOnce *)

\* invalidateChannel: the connection is kept.
Invalidate(h) ==
    IF h = channel
    THEN channel' = None /\ listening' = listening \ {h} /\ chans' = CloseChan(h)
    ELSE UNCHANGED <<channel, listening, chans>>

Publish_KeepDeadBug(c) ==
    /\ caller[c].at = "holding"
    /\ caller' = [caller EXCEPT ![c] = IF Usable(@.on) THEN [@ EXCEPT !.at = "confirming"]
                                                       ELSE Idle]
    /\ UNCHANGED <<fieldVars, attempt, closing, linkVars>>

\* channel.publish throws on a channel that is not open.
Publish(c) ==
    /\ caller[c].at = "holding"
    /\ \/ /\ Usable(caller[c].on)
          /\ caller' = [caller EXCEPT ![c].at = "confirming"]
          /\ UNCHANGED <<channel, listening, chans>>
       \/ /\ ~Usable(caller[c].on)
          /\ Invalidate(caller[c].on)
          /\ caller' = [caller EXCEPT ![c] = Idle]
    /\ UNCHANGED <<connection, connecting, closed, attempt, closing, links>>

\* pollOnce only wants to know that there is a channel.
Release(c) ==
    /\ caller[c].at = "holding"
    /\ caller' = [caller EXCEPT ![c] = Idle]
    /\ UNCHANGED <<fieldVars, attempt, closing, linkVars>>

\* The broker's confirm, or the error a channel gives its publishes as it ends.
Confirmed(c) ==
    /\ caller[c].at = "confirming"
    /\ caller' = [caller EXCEPT ![c] = Idle]
    /\ UNCHANGED <<fieldVars, attempt, closing, linkVars>>

ConfirmTimeout(c) ==
    /\ Quiet
    /\ caller[c].at = "confirming"
    /\ Invalidate(caller[c].on)
    /\ caller' = [caller EXCEPT ![c] = Idle]
    /\ UNCHANGED <<connection, connecting, closed, attempt, closing, links>>

-----------------------------------------------------------------------------
(* closeResources *)

\* Takes the channel and the connection and starts to close the first of them.
TakeResources ==
    /\ closing' = [at   |-> IF channel # None THEN "channel"
                            ELSE IF connection # None THEN "connection" ELSE "done",
                   conn |-> connection,
                   chan |-> channel]
    /\ channel' = None /\ connection' = None
    /\ listening' = listening \ {channel}
    /\ chans' = IF channel # None THEN CloseChan(channel) ELSE chans
    /\ links' = IF channel = None /\ connection # None THEN CloseLink(connection) ELSE links

CloseBegins_NoWaitBug ==
    /\ Quiet /\ closing.at = "no"
    /\ closed' = TRUE
    /\ TakeResources
    /\ UNCHANGED <<connecting, attempt, caller>>

\* close(): the connection attempt is aborted and waited for.  Later calls
\* return the same promise.
CloseBegins ==
    /\ Quiet /\ closing.at = "no"
    /\ closed' = TRUE
    /\ \/ /\ connecting # None
          /\ closing' = [closing EXCEPT !.at = "waiting"]
          /\ UNCHANGED <<connection, channel, linkVars>>
       \/ /\ connecting = None
          /\ TakeResources
    /\ UNCHANGED <<connecting, attempt, caller>>

CloseGoesOn ==
    /\ closing.at = "waiting" /\ connecting = None
    /\ TakeResources
    /\ UNCHANGED <<connecting, closed, attempt, caller>>

CloseLeft(conn) == [at |-> IF conn = None THEN "done" ELSE "connection",
                    conn |-> conn, chan |-> None]

ChannelClosed ==
    /\ closing.at = "channel" /\ chans[closing.chan] = NoChannel
    /\ closing' = CloseLeft(closing.conn)
    /\ links' = IF closing.conn # None THEN CloseLink(closing.conn) ELSE links
    /\ UNCHANGED <<fieldVars, attempt, caller, chans, listening>>

ConnectionClosed ==
    /\ closing.at = "connection" /\ links[closing.conn] = "dead"
    /\ closing' = CloseLeft(None)
    /\ UNCHANGED <<fieldVars, attempt, caller, linkVars>>

-----------------------------------------------------------------------------
(* Specification *)

RabbitInit ==
    /\ connection = None /\ channel = None /\ connecting = None /\ closed = FALSE
    /\ attempt = [a \in Attempt |-> NoAttempt]
    /\ caller = [c \in Caller |-> Idle]
    /\ closing = NotClosing
    /\ links = [k \in Connection |-> "dead"]
    /\ chans = [h \in Channel |-> NoChannel]
    /\ listening = {}

\* The next step of an attempt that nothing disturbs.
Proceeds(a) ==
    \/ OpenOk(a) \/ Connect(a) \/ ChannelOpens(a)
    \/ ExchangeAsserted(a) \/ AttachChannel(a) \/ Rejected(a)

SetupDoomed(a) ==
    \/ attempt[a].at = "creating" /\ links[attempt[a].conn] # "open"
    \/ attempt[a].at = "asserting" /\ ~Usable(attempt[a].chan)

CloseStep == CloseGoesOn \/ ChannelClosed \/ ConnectionClosed

RabbitNext ==
    \/ \E c \in Caller :
          \/ GetConfirmChannel(c) \/ Publish(c) \/ Release(c)
          \/ Confirmed(c) \/ ConfirmTimeout(c)
    \/ \E a \in Attempt : Proceeds(a) \/ ConnectFails(a) \/ SetupFails(a)
    \/ \E k \in Connection : ConnectionEnds(k)
    \/ \E h \in Channel : ChannelEnds(h)
    \/ CloseBegins
    \/ CloseStep

RabbitSpec == RabbitInit /\ [][RabbitNext]_rabbitVars

\* What closing a resource leads to; the heartbeat ends a silent connection.
ClosingEnds ==
    \/ \E k \in Connection : links[k] = "closing" /\ ConnectionEnds(k)
    \/ \E h \in Channel : chans[h].life = "closing" /\ ChannelEnds(h)

\* Callers keep calling (the poll interval), an attempt has a timeout and a
\* publish has one.  SF of Publish: now and then there is an event to publish,
\* an unused channel is only found dead by publishing on it.
RabbitFairSpec ==
    /\ RabbitSpec
    /\ WF_rabbitVars(ClosingEnds) /\ WF_rabbitVars(CloseStep)
    /\ \A a \in Attempt :
          /\ WF_rabbitVars(Proceeds(a) \/ ConnectFails(a))
          /\ WF_rabbitVars(SetupDoomed(a) /\ SetupFails(a))
    /\ \A c \in Caller :
          /\ WF_rabbitVars(GetConfirmChannel(c))
          /\ WF_rabbitVars(Confirmed(c) \/ ConfirmTimeout(c))
          /\ WF_rabbitVars(Publish(c) \/ Release(c))
          /\ SF_rabbitVars(Publish(c))

-----------------------------------------------------------------------------
(* Properties *)

AttemptState ==
         [at : {"none", "opening"}, conn : {None}, chan : {None}]
    \cup [at : {"opened", "creating", "discarding"}, conn : Connection, chan : {None}]
    \cup [at : {"asserting", "asserted"}, conn : Connection, chan : Channel]

CallerState ==
         {Idle} \cup [at : {"waiting"}, on : Attempt]
    \cup [at : {"holding", "confirming"}, on : Channel]

\* Types, and which of its resources an attempt and a close hold at which point.
RabbitTypeOK ==
    /\ connection \in Connection \cup {None} /\ channel \in Channel \cup {None}
    /\ connecting \in Attempt \cup {None} /\ closed \in BOOLEAN
    /\ attempt \in [Attempt -> AttemptState]
    /\ caller \in [Caller -> CallerState]
    /\ closing \in
            [at : {"no", "waiting", "done"}, conn : {None}, chan : {None}]
       \cup [at : {"channel"}, conn : Connection \cup {None}, chan : Channel]
       \cup [at : {"connection"}, conn : Connection, chan : {None}]
    /\ links \in [Connection -> Life]
    /\ chans \in [Channel -> {NoChannel} \cup [life : {"open", "closing"}, of : Connection]]
    /\ listening \subseteq Channel

\* Nothing leaks: a connection that is open and not being closed is the current
\* one, or one an attempt is about to store or to give back, and likewise for a
\* channel on such a connection.  invalidateTransport forgets a connection it
\* has to close, connect() gets one that nobody wants any more.
NoOrphans ==
    /\ \A k \in Connection : links[k] = "open" =>
          k \in {connection, closing.conn} \cup {attempt[a].conn : a \in Attempt}
    /\ \A h \in Channel : Usable(h) =>
          h \in {channel, closing.chan} \cup {attempt[a].chan : a \in Attempt}

\* As long as the broker can confirm a publish, it can return it too and the
\* publisher hears of it: a channel that lost its return listener confirms
\* nothing.  A message that is returned unheard counts as published.  The end of
\* a connection that was given up comes late, while a publish waits on the next
\* channel: it must not be taken for the end of that one.
HeardWhileUsable ==
    \A c \in Caller :
        caller[c].at = "confirming" /\ Usable(caller[c].on) => caller[c].on \in listening

(* The inductive invariant behind them *)

\* this.connecting is the one attempt under way; somebody waits for it, and there
\* is no channel yet.
AttemptIsShared ==
    /\ \A a \in Attempt :
          /\ attempt[a].at # "none" <=> connecting = a
          /\ connecting = a => \E c \in Caller : caller[c] = [at |-> "waiting", on |-> a]
    /\ \A c \in Caller : caller[c].at = "waiting" => connecting = caller[c].on
    /\ connecting # None => channel = None

\* An attempt stores its connection or gives it back; a connection that ended while
\* it was handed over is dead, and only the attempt still refers to it.
ConnectionIsHandedOver ==
    /\ \A a \in Attempt :
          /\ attempt[a].at \in {"opening", "opened", "discarding"} => connection = None
          /\ attempt[a].at = "opened" => links[attempt[a].conn] # "closing"
          /\ attempt[a].at = "discarding" => links[attempt[a].conn] # "open"
          /\ attempt[a].at \in {"creating", "asserting", "asserted"} =>
                \/ connection = attempt[a].conn
                \/ connection = None /\ links[attempt[a].conn] = "dead"
    /\ connection # None =>
          \/ links[connection] = "open"
          \/ links[connection] = "dead" /\ \E a \in Attempt : attempt[a].at = "creating"

\* close() takes the fields when no attempt can fill them any more.
ClosingIsFinal ==
    /\ closing.at = "no" <=> ~closed
    /\ closing.at \notin {"no", "waiting"} =>
          connecting = None /\ connection = None /\ channel = None
    /\ closing.at = "connection" => links[closing.conn] # "open"

\* A channel ends with its connection; the stored one is of the stored connection
\* and has its listener.
ChannelsBelong ==
    /\ \A h \in Channel : chans[h] # NoChannel => links[chans[h].of] # "dead"
    /\ \A a \in Attempt :
          attempt[a].chan # None /\ chans[attempt[a].chan] # NoChannel =>
              chans[attempt[a].chan].of = attempt[a].conn
    /\ channel # None =>
          /\ channel \in listening
          /\ chans[channel] # NoChannel => chans[channel].of = connection

\* Whoever has got a channel is heard as long as it works.
CallersAreHeard ==
    \A c \in Caller :
        caller[c].at \in {"holding", "confirming"} /\ Usable(caller[c].on) =>
            caller[c].on \in listening

RInv == /\ RabbitTypeOK
        /\ NoOrphans
        /\ AttemptIsShared
        /\ ConnectionIsHandedOver
        /\ ClosingIsFinal
        /\ ChannelsBelong
        /\ CallersAreHeard

(* Refinement and liveness *)

\* A connection that attempts, endings and close() pass around is, from outside,
\* one connection at a time and none after close().
Live == {k \in Connection : links[k] = "open"}

Status == CASE closing.at = "no"   -> "open"
            [] closing.at = "done" -> "closed"
            [] OTHER               -> "closing"

Promise == INSTANCE Transport WITH live <- Live, status <- Status

ImplementsTransport == Promise!TransportSpec

\* A call of getConfirmChannel returns or throws, for everybody who shares the
\* attempt, and close() returns whatever it interrupts.
EveryCallReturns ==
    /\ \A c \in Caller : caller[c].at = "waiting" ~> caller[c].at # "waiting"
    /\ closing.at # "no" ~> closing.at = "done"

Fault ==
    \/ \E a \in Attempt : ConnectFails(a) \/ (~SetupDoomed(a) /\ SetupFails(a))
    \/ \E k \in Connection : links[k] = "open" /\ ConnectionEnds(k)
    \/ \E h \in Channel : Usable(h) /\ ChannelEnds(h)
    \/ \E c \in Caller : ConfirmTimeout(c)

\* When connections, channels and confirms stop failing there is a usable channel
\* again and again, even after a dead one was stored.
RecoversWhenFaultsStop ==
    <>[][~Fault]_rabbitVars
        => []<>(closed \/ (channel # None /\ Usable(channel)))

=============================================================================
