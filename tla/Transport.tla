-------------------------------- MODULE Transport --------------------------------
(***************************************************************************)
(* What RabbitMqConnectionManager promises to those who share it: at most  *)
(* one broker connection is in use at any time, and once close() has       *)
(* returned there is none and there will be none.  Channels, callers,      *)
(* attempts to connect and the ways a connection ends are not visible.     *)
(***************************************************************************)
CONSTANT Connection

VARIABLES
    live,      \* the connections that are open and not being closed
    status     \* whether close() was called ("closing") or has returned ("closed")

transportVars == <<live, status>>

Establish(k) ==
    /\ live = {} /\ status # "closed"
    /\ live' = {k}
    /\ UNCHANGED status

Drop ==
    /\ live # {}
    /\ live' = {}
    /\ UNCHANGED status

\* A close that finds nothing to wait for returns at once.
BeginClose ==
    /\ status = "open"
    /\ live' \in {live, {}}
    /\ status' \in IF live = {} THEN {"closing", "closed"} ELSE {"closing"}

EndClose ==
    /\ status = "closing" /\ live = {}
    /\ status' = "closed"
    /\ UNCHANGED live

TransportInit == live = {} /\ status = "open"

TransportNext ==
    Drop \/ BeginClose \/ EndClose \/ \E k \in Connection : Establish(k)

TransportSpec == TransportInit /\ [][TransportNext]_transportVars

=============================================================================
