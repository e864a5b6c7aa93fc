---------------------------- MODULE MetricsFeed ----------------------------
(***************************************************************************)
(* What a client of the agent's WebSocket is promised: snapshots that      *)
(* never go back, each of which was in place at some time; one pong per    *)
(* ping, in the order of the pings; and nothing after a close frame, which *)
(* only answers the client's own.  Snapshots may be skipped, pongs not.    *)
(***************************************************************************)
EXTENDS Naturals

VARIABLES
  published,  \* the number of the snapshot in place
  pinged,     \* pings the client has sent
  closing,    \* the client has sent a close frame
  seen        \* what has reached the client: [frame, pongs, closed]

vars == <<published, pinged, closing, seen>>

Init ==
  /\ published = 0
  /\ pinged = 0
  /\ closing = FALSE
  /\ seen = [frame |-> 0, pongs |-> 0, closed |-> FALSE]

Publish ==
  /\ published' = published + 1
  /\ UNCHANGED <<pinged, closing, seen>>

Ping ==
  /\ ~ closing
  /\ pinged' = pinged + 1
  /\ UNCHANGED <<published, closing, seen>>

Close ==
  /\ closing' = TRUE
  /\ UNCHANGED <<published, pinged, seen>>

\* The client receives a snapshot that is not older than the one it has.
Deliver ==
  /\ ~ seen.closed
  /\ \E v \in seen.frame .. published : seen' = [seen EXCEPT !.frame = v]
  /\ UNCHANGED <<published, pinged, closing>>

\* The client receives the answer to its oldest ping that has none.
Answer ==
  /\ ~ seen.closed
  /\ seen.pongs < pinged
  /\ seen' = [seen EXCEPT !.pongs = @ + 1]
  /\ UNCHANGED <<published, pinged, closing>>

CloseBack ==
  /\ closing
  /\ ~ seen.closed
  /\ seen' = [seen EXCEPT !.closed = TRUE]
  /\ UNCHANGED <<published, pinged, closing>>

Next == Publish \/ Ping \/ Close \/ Deliver \/ Answer \/ CloseBack

Spec == Init /\ [][Next]_vars
=============================================================================
