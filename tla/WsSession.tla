----------------------------- MODULE WsSession -----------------------------
(***************************************************************************)
(* One WebSocket session of the agent (agent/src/websocket.rs).            *)
(*                                                                         *)
(* handle_socket runs a loop that waits for its one second timer or for a  *)
(* frame of the client, and hands what is to be sent to a writer task      *)
(* through a bounded channel, without ever waiting for room in it.  The    *)
(* writer owns the sending half of the socket.  When the loop ends it      *)
(* drops its end of the channel and waits for the writer.                  *)
(*                                                                         *)
(* The environment: snapshots are published (module MetricsPipeline), the  *)
(* client sends frames, and the connection may be lost at any time.        *)
(* Data: a snapshot is its number; a ping is its number, the content the   *)
(* pong echoes.  serde_json cannot fail on a FullMetricsSnapshot, so the   *)
(* loop has no step for its error arm.                                     *)
(***************************************************************************)
EXTENDS Naturals, Sequences

CONSTANTS
  Capacity,      \* of the channel (10 in the code)
  MaxPublished,  \* bound: snapshots published
  MaxPings,      \* bound: pings the client sends
  MaxInbox       \* bound: client frames in flight

ASSUME CapacityAssumption == Capacity \in Nat \ {0}
ASSUME BoundsAssumption == MaxPublished \in Nat /\ MaxPings \in Nat /\ MaxInbox \in Nat

VARIABLES
  published,  \* the number of the snapshot in MetricsState
  conn,       \* the connection: "open" or "lost"
  inbox,      \* client frames the loop has not read
  pinged,     \* pings the client has sent
  closing,    \* the client has sent its close frame
  loop,       \* "select", "tick" (waits for the snapshot), "join", "done"
  heard,      \* the loop has read the close frame
  answered,   \* the last ping whose pong the channel accepted
  queue,      \* the channel
  writer,     \* the writer task: "recv", "send", "stopped"
  hand,       \* the message the writer is sending
  seen        \* what has reached the client: [frame, pongs, closed]

clientVars == <<inbox, pinged, closing>>
loopVars   == <<loop, heard, answered>>
writerVars == <<writer, hand, seen>>
vars == <<published, conn, clientVars, loopVars, queue, writerVars>>

Text(v)  == [kind |-> "text", n |-> v]
Pong(i)  == [kind |-> "pong", n |-> i]
CloseMsg == [kind |-> "close", n |-> 0]
Message  == [kind : {"text", "pong", "close"}, n : Nat]

\* What the client sends; n is the content of a ping.
Frame(kind, n) == [kind |-> kind, n |-> n]
ClientFrame    == [kind : {"ping", "other", "close"}, n : Nat]

Init ==
  /\ published = 0
  /\ conn = "open"
  /\ inbox = << >> /\ pinged = 0 /\ closing = FALSE
  /\ loop = "select" /\ heard = FALSE /\ answered = 0
  /\ queue = << >>
  /\ writer = "recv" /\ hand = CloseMsg
  /\ seen = [frame |-> 0, pongs |-> 0, closed |-> FALSE]

-----------------------------------------------------------------------------
(***************************************************************************)
(* The environment.                                                        *)
(***************************************************************************)
Publish ==
  /\ published < MaxPublished
  /\ published' = published + 1
  /\ UNCHANGED <<conn, clientVars, loopVars, queue, writerVars>>

ClientPing ==
  /\ conn = "open" /\ ~ closing /\ pinged < MaxPings /\ Len(inbox) < MaxInbox
  /\ pinged' = pinged + 1
  /\ inbox' = Append(inbox, Frame("ping", pinged + 1))
  /\ UNCHANGED <<published, conn, closing, loopVars, queue, writerVars>>

\* A text, binary or pong frame.
ClientOther ==
  /\ conn = "open" /\ ~ closing /\ Len(inbox) < MaxInbox
  /\ inbox' = Append(inbox, Frame("other", 0))
  /\ UNCHANGED <<published, conn, pinged, closing, loopVars, queue, writerVars>>

ClientClose ==
  /\ conn = "open" /\ ~ closing
  /\ closing' = TRUE
  /\ inbox' = Append(inbox, Frame("close", 0))
  /\ UNCHANGED <<published, conn, pinged, loopVars, queue, writerVars>>

\* Frames of the client that were not read may be lost with the connection.
LoseConnection ==
  /\ conn = "open"
  /\ conn' = "lost"
  /\ inbox' \in {inbox, << >>}
  /\ UNCHANGED <<published, pinged, closing, loopVars, queue, writerVars>>

-----------------------------------------------------------------------------
(***************************************************************************)
(* The loop.  try_send fails when the channel is full and when the writer  *)
(* has gone; the three call sites treat the failure differently.           *)
(***************************************************************************)
Room == writer # "stopped" /\ Len(queue) < Capacity

TrySend(m) == queue' = IF Room THEN Append(queue, m) ELSE queue

TimerFires ==
  /\ loop = "select"
  /\ loop' = "tick"
  /\ UNCHANGED <<published, conn, clientVars, heard, answered, queue, writerVars>>

\* Faulty variant: the loop waits for room, also when the writer has gone.
PushFrameWaits ==
  /\ loop = "tick"
  /\ Room
  /\ TrySend(Text(published))
  /\ loop' = "select"
  /\ UNCHANGED <<published, conn, clientVars, heard, answered, writerVars>>

\* A frame that finds no room is dropped and the loop goes on.
PushFrame ==
  /\ loop = "tick"
  /\ TrySend(Text(published))
  /\ loop' = "select"
  /\ UNCHANGED <<published, conn, clientVars, heard, answered, writerVars>>

Receive(kind) ==
  /\ loop = "select"
  /\ inbox # << >> /\ Head(inbox).kind = kind
  /\ inbox' = Tail(inbox)
  /\ UNCHANGED <<published, conn, pinged, closing, writerVars>>

\* Faulty variant: a pong that finds no room is dropped like a snapshot.
ReadPingDrops ==
  /\ Receive("ping")
  /\ TrySend(Pong(Head(inbox).n))
  /\ answered' = Head(inbox).n
  /\ UNCHANGED <<loop, heard>>

\* The pong echoes the ping. A pong that finds no room ends the loop.
ReadPing ==
  /\ Receive("ping")
  /\ TrySend(Pong(Head(inbox).n))
  /\ IF Room THEN answered' = Head(inbox).n /\ loop' = loop
             ELSE answered' = answered /\ loop' = "join"
  /\ UNCHANGED heard

\* A close that finds no room is not answered; the loop ends either way.
ReadClose ==
  /\ Receive("close")
  /\ TrySend(CloseMsg)
  /\ heard' = TRUE
  /\ loop' = "join"
  /\ UNCHANGED answered

ReadOther ==
  /\ Receive("other")
  /\ UNCHANGED <<loopVars, queue>>

\* The stream yields an error or ends.
ReadEnd ==
  /\ loop = "select"
  /\ conn = "lost"
  /\ loop' = "join"
  /\ UNCHANGED <<published, conn, clientVars, heard, answered, queue, writerVars>>

\* send_task.await returns.
Join ==
  /\ loop = "join"
  /\ writer = "stopped"
  /\ loop' = "done"
  /\ UNCHANGED <<published, conn, clientVars, heard, answered, queue, writerVars>>

-----------------------------------------------------------------------------
(***************************************************************************)
(* The writer.  When it stops, the receiving end of the channel is dropped *)
(* and with it what the channel holds.                                     *)
(***************************************************************************)
\* Faulty variant: the newest message first.
RecvNewest ==
  /\ writer = "recv"
  /\ queue # << >>
  /\ hand' = queue[Len(queue)]
  /\ queue' = SubSeq(queue, 1, Len(queue) - 1)
  /\ writer' = "send"
  /\ UNCHANGED <<published, conn, clientVars, loopVars, seen>>

Recv ==
  /\ writer = "recv"
  /\ queue # << >>
  /\ hand' = Head(queue)
  /\ queue' = Tail(queue)
  /\ writer' = "send"
  /\ UNCHANGED <<published, conn, clientVars, loopVars, seen>>

\* Faulty variant: the loop keeps its end of the channel while it waits.
RecvClosedLate ==
  /\ writer = "recv"
  /\ queue = << >>
  /\ loop = "done"
  /\ writer' = "stopped"
  /\ UNCHANGED <<published, conn, clientVars, loopVars, queue, hand, seen>>

\* The channel is empty and its sender has been dropped.
RecvClosed ==
  /\ writer = "recv"
  /\ queue = << >>
  /\ loop \in {"join", "done"}
  /\ writer' = "stopped"
  /\ UNCHANGED <<published, conn, clientVars, loopVars, queue, hand, seen>>

\* What the client has seen once m has reached it.
Reach(m) ==
  CASE m.kind = "text"  -> [seen EXCEPT !.frame = m.n]
    [] m.kind = "pong"  -> [seen EXCEPT !.pongs = m.n]
    [] m.kind = "close" -> [seen EXCEPT !.closed = TRUE]

\* The socket takes the message, also for a connection that is already lost.
SendOk ==
  /\ writer = "send"
  /\ seen' = IF conn = "open" THEN Reach(hand) ELSE seen
  /\ IF hand.kind = "close" THEN writer' = "stopped" /\ queue' = << >>
                            ELSE writer' = "recv" /\ queue' = queue
  /\ UNCHANGED <<published, conn, clientVars, loopVars, hand>>

\* Faulty variant: the writer goes on after a failed send.
SendFailGoesOn ==
  /\ writer = "send"
  /\ conn = "lost" \/ heard
  /\ writer' = "recv"
  /\ UNCHANGED <<published, conn, clientVars, loopVars, queue, hand, seen>>

\* The connection is lost, or the socket has already been closed by the peer
\* and refuses the message.
SendFail ==
  /\ writer = "send"
  /\ conn = "lost" \/ heard
  /\ writer' = "stopped"
  /\ queue' = << >>
  /\ UNCHANGED <<published, conn, clientVars, loopVars, hand, seen>>

-----------------------------------------------------------------------------
ReadStep   == ReadPing \/ ReadClose \/ ReadOther \/ ReadEnd
WriterStep == Recv \/ RecvClosed \/ SendOk \/ SendFail

Next ==
  \/ Publish \/ ClientPing \/ ClientOther \/ ClientClose \/ LoseConnection
  \/ TimerFires \/ PushFrame \/ ReadStep \/ Join
  \/ WriterStep

\* select! polls its two branches in random order, so neither starves while it
\* keeps becoming ready: strong fairness. The snapshot lock is always granted
\* (MetricsPipeline). That a send finishes or fails is an assumption on the
\* client: it reads, or its connection breaks.
Fairness ==
  /\ SF_vars(TimerFires)
  /\ SF_vars(ReadStep)
  /\ WF_vars(PushFrame)
  /\ WF_vars(Join)
  /\ WF_vars(WriterStep)

Spec     == Init /\ [][Next]_vars
FairSpec == Spec /\ Fairness

-----------------------------------------------------------------------------
TypeOK ==
  /\ published \in Nat
  /\ conn \in {"open", "lost"}
  /\ inbox \in Seq(ClientFrame)
  /\ pinged \in Nat
  /\ closing \in BOOLEAN
  /\ loop \in {"select", "tick", "join", "done"}
  /\ heard \in BOOLEAN
  /\ answered \in Nat
  /\ queue \in Seq(Message)
  /\ Len(queue) <= Capacity
  /\ writer \in {"recv", "send", "stopped"}
  /\ hand \in Message
  /\ seen \in [frame : Nat, pongs : Nat, closed : BOOLEAN]

\* What one message on its way to the client may be followed by.
MayPrecede(m1, m2) ==
  /\ m1.kind # "close"
  /\ m1.kind = "text" /\ m2.kind = "text" => m1.n <= m2.n
  /\ m1.kind = "pong" /\ m2.kind = "pong" => m1.n < m2.n

\* Messages reach the client in an order that makes sense: snapshots never go
\* back, pongs follow the pings, and a close frame is the last message.
InOrder ==
  /\ \A i, j \in DOMAIN queue : i < j => MayPrecede(queue[i], queue[j])
  /\ writer = "send" => \A i \in DOMAIN queue : MayPrecede(hand, queue[i])

\* The messages between the loop and the client.
OnTheWay(m) ==
  \/ \E i \in DOMAIN queue : queue[i] = m
  \/ writer = "send" /\ hand = m

\* Backpressure drops snapshots but never a pong: as long as the connection and
\* the writer live, every ping the loop went on after has been answered or its
\* pong is on the way.
PongsKept ==
  conn = "open" /\ writer # "stopped" =>
    \A i \in seen.pongs + 1 .. answered : OnTheWay(Pong(i))

\* A close frame goes out only as the answer to the client's, and the session
\* then accepts nothing more.
CloseIsAnswer ==
  /\ OnTheWay(CloseMsg) /\ writer # "stopped" => heard /\ loop \in {"join", "done"}
  /\ seen.closed => heard /\ writer = "stopped"

\* A snapshot reaches a client that keeps reading, or a newer one does, however
\* many frames the full channel drops, unless the session is over.
LatestArrives ==
  \A v \in 1 .. MaxPublished :
    published >= v ~> seen.frame >= v \/ loop \in {"join", "done"}

\* The handler returns, and its writer with it, once the client has closed or
\* the connection is lost, whatever is still in the channel.
SessionEnds ==
  closing \/ conn = "lost" ~> loop = "done" /\ writer = "stopped"

-----------------------------------------------------------------------------
(***************************************************************************)
(* The inductive invariant behind the safety properties.                   *)
(***************************************************************************)

\* The pings that wait to be read are the ones after answered, without a gap.
PingsWait ==
  loop \in {"select", "tick"} =>
    /\ \A i \in DOMAIN inbox :
         inbox[i].kind = "ping" => inbox[i].n > answered /\ inbox[i].n <= pinged
    /\ \A i, j \in DOMAIN inbox :
         i < j /\ inbox[i].kind = "ping" /\ inbox[j].kind = "ping" => inbox[i].n < inbox[j].n
    /\ conn = "open" \/ inbox # << >> =>
         \A k \in answered + 1 .. pinged : \E i \in DOMAIN inbox : inbox[i] = Frame("ping", k)

\* A message on its way is news to the client, and was true when it was queued.
News(m) ==
  /\ m.kind = "text" => seen.frame <= m.n /\ m.n <= published
  /\ m.kind = "pong" => seen.pongs < m.n /\ m.n <= answered
  /\ m.kind = "close" => heard /\ loop \in {"join", "done"}

AllNews ==
  /\ seen.frame <= published
  /\ seen.pongs <= answered
  /\ answered <= pinged
  /\ \A i \in DOMAIN queue : News(queue[i])
  /\ writer = "send" => News(hand)
  /\ writer = "stopped" => queue = << >>
  /\ heard => closing
  /\ closing \/ \A i \in DOMAIN inbox : inbox[i].kind # "close"

\* Every reachable state: nothing on its way to the client is out of order, out
\* of date or missing.
SessionInv ==
  /\ TypeOK
  /\ PingsWait
  /\ AllNews
  /\ InOrder
  /\ PongsKept
  /\ CloseIsAnswer

-----------------------------------------------------------------------------
\* To its client the session is a MetricsFeed.
Feed == INSTANCE MetricsFeed
ImplementsMetricsFeed == Feed!Spec
=============================================================================
