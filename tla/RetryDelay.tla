------------------------------- MODULE RetryDelay -------------------------------
(***************************************************************************)
(* Outbox, with the delays between the attempts at an event: what          *)
(* retryDelayFor computes from the row as the iteration has read it, and   *)
(* what COMMIT makes of next_retry_at.                                     *)
(***************************************************************************)
EXTENDS Outbox

CONSTANTS
    RetryBaseDelay,   \* OUTBOX_RETRY_BASE_DELAY_MS
    RetryMaxDelay,    \* OUTBOX_RETRY_MAX_DELAY_MS
    MaxExponent       \* 52

ASSUME MaxExponentAssumption == MaxExponent \in Nat

\* The worker accepts any positive integers.  2 ^ 52 ms are 142 thousand years,
\* about as far as a Date reaches.
ASSUME DelayAssumption ==
    /\ RetryBaseDelay \in Nat \ {0}
    /\ RetryMaxDelay \in 1 .. 2 ^ MaxExponent

VARIABLES
    read,        \* the attempts of the events in hand, as fetchPendingBatch returned them
    scheduled    \* the delay in next_retry_at, as committed; 0 for NULL

retryVars == <<outboxVars, read, scheduled>>

NothingRead == [e \in Event |-> 0]

-----------------------------------------------------------------------------
(* The delay *)

Least(a, b) == IF a <= b THEN a ELSE b

\* attempts are those of the event in hand, without the one that has just failed.
RetryDelayFor(attempts) ==
    Least(RetryMaxDelay, RetryBaseDelay * 2 ^ Least(attempts, MaxExponent))

-----------------------------------------------------------------------------
(* The steps of an iteration that read or write it *)

\* An iteration that is over has forgotten its events.
Forgets ==
    read' = [w \in Worker |-> IF phase'[w] = "idle" THEN NothingRead ELSE read[w]]

FetchRows(w) ==
    /\ Fetch(w)
    /\ read' = [read EXCEPT ![w] = [e \in Event |-> IF e \in PendingBatch
                                                    THEN table[e].attempts ELSE 0]]
    /\ UNCHANGED scheduled

CommitDelays_NextAttemptBug(w) ==
    /\ Commit(w)
    /\ scheduled' = [e \in Event |->
                       CASE draft[w][e].waiting            -> RetryDelayFor(read[w][e] + 1)
                         [] draft[w][e].status = "FAILED" -> 0
                         [] OTHER                         -> scheduled[e]]
    /\ Forgets

\* publishEvent computes the delay from the event in hand, markPublishFailed
\* counts the attempt in the row; a terminal attempt leaves no next_retry_at.
CommitDelays(w) ==
    /\ Commit(w)
    /\ scheduled' = [e \in Event |->
                       CASE draft[w][e].waiting            -> RetryDelayFor(read[w][e])
                         [] draft[w][e].status = "FAILED" -> 0
                         [] OTHER                         -> scheduled[e]]
    /\ Forgets

\* The other steps of Outbox.
OtherStep(w) ==
    \/ Send(w) \/ HandleReturn(w) \/ HandleConfirm(w) \/ ConfirmTimeout(w)
    \/ CommitFails(w) \/ Broker(w) \/ OutboxFault(w)

-----------------------------------------------------------------------------
RetryInit ==
    /\ OutboxInit
    /\ read = [w \in Worker |-> NothingRead]
    /\ scheduled = [e \in Event |-> 0]

RetryNext ==
    \/ \E w \in Worker : FetchRows(w) \/ CommitDelays(w)
    \/ /\ \/ \E e \in Event : Record(e) \/ RetryDue(e) \/ StrayEnds(e)
          \/ \E w \in Worker : OtherStep(w)
       /\ Forgets
       /\ UNCHANGED scheduled

RetrySpec == RetryInit /\ [][RetryNext]_retryVars

RetryFairSpec == RetrySpec /\ OutboxFairness

-----------------------------------------------------------------------------
\* An event that failed waits for the base delay at first, or for the maximum if
\* that is less, and from then on for twice as long as after its last failure,
\* until that is the maximum: neither what the worker passes to retryDelayFor, nor
\* an attempt counted out of turn, nor the capped exponent makes it come back sooner.
DelaysBackOff ==
    [][\A e \in Event :
          table'[e].waiting /\ table'[e].attempts # table[e].attempts =>
              scheduled'[e] = IF table[e].attempts = 0
                              THEN Least(RetryBaseDelay, RetryMaxDelay)
                              ELSE Least(2 * scheduled[e], RetryMaxDelay)
      ]_retryVars

(* What it rests on, besides OInv *)

\* What an open transaction has written for an event is an outcome of the row as
\* it still is: nobody else counts an attempt meanwhile.
DraftsFollowRows ==
    \A w \in Worker, e \in Event :
        session[w] /\ draft[w][e] # NoRow =>
            draft[w][e] \in {MarkedPublished(table[e]), MarkedFailed(table[e])}

\* The attempts an open transaction has read are still those of the row.
ReadsFollowRows ==
    \A w \in Worker, e \in Event : Holds(w, e) => read[w][e] = table[e].attempts

\* An event that will be tried again waits, or waited, for the delay of the
\* attempts before the last one.
DelaysFollowRows ==
    \A e \in Event : table[e].status = "PENDING" /\ table[e].attempts > 0 =>
        scheduled[e] = RetryDelayFor(table[e].attempts - 1)

RetryInv == /\ OInv
            /\ DraftsFollowRows
            /\ ReadsFollowRows
            /\ DelaysFollowRows
            /\ read \in [Worker -> [Event -> Nat]]

=============================================================================
