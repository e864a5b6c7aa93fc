--------------------------- MODULE WsSessionProofs ---------------------------
(***************************************************************************)
(* Proofs about WsSession, for every capacity of the channel and every     *)
(* number of snapshots, pings and frames in flight.                        *)
(***************************************************************************)
EXTENDS WsSession, TLAPS

-----------------------------------------------------------------------------
(***************************************************************************)
(* What the steps do to the two queues, entry by entry.                    *)
(***************************************************************************)

\* m was added at the end of the channel if there was room.
Pushed(m) ==
  /\ queue' \in Seq(Message) /\ Len(queue') <= Capacity
  /\ \A i \in DOMAIN queue : i \in DOMAIN queue' /\ queue'[i] = queue[i]
  /\ \A i \in DOMAIN queue' :
       i \in DOMAIN queue \/ (Room /\ i = Len(queue) + 1 /\ queue'[i] = m)
  /\ Room => Len(queue) + 1 \in DOMAIN queue' /\ queue'[Len(queue) + 1] = m
  /\ ~ Room => queue' = queue

LEMMA SendEffect ==
  ASSUME TypeOK, NEW m \in Message, TrySend(m)
  PROVE  Pushed(m)
<1>1. CASE Room
  <2>1. /\ queue' = Append(queue, m) /\ queue \in Seq(Message) /\ Len(queue) \in Nat
        /\ Len(queue) < Capacity /\ Capacity \in Nat
    BY <1>1, CapacityAssumption DEF TypeOK, TrySend, Room
  <2>2. queue' \in Seq(Message) /\ Len(queue') = Len(queue) + 1
    BY <2>1
  <2>3. DOMAIN queue = 1 .. Len(queue) /\ DOMAIN queue' = 1 .. Len(queue) + 1
    BY <2>1, <2>2
  <2>4. \A i \in 1 .. Len(queue) : queue'[i] = queue[i]
    BY <2>1
  <2>5. queue'[Len(queue) + 1] = m
    BY <2>1
  <2>6. QED
    BY <1>1, <2>1, <2>2, <2>3, <2>4, <2>5 DEF Pushed
<1>2. CASE ~ Room
  <2>1. queue' = queue
    BY <1>2 DEF TrySend
  <2>2. QED
    BY <1>2, <2>1 DEF TypeOK, Pushed
<1>3. QED
  BY <1>1, <1>2

\* The first frame of the inbox was taken, and it is a frame of this kind.
Taken(kind) ==
  /\ inbox' \in Seq(ClientFrame)
  /\ 1 \in DOMAIN inbox /\ Head(inbox) = inbox[1]
  /\ Head(inbox) \in ClientFrame /\ Head(inbox).kind = kind
  /\ \A i \in DOMAIN inbox' : i + 1 \in DOMAIN inbox /\ inbox'[i] = inbox[i + 1]
  /\ \A i \in DOMAIN inbox :
       i = 1 \/ (i - 1 \in DOMAIN inbox' /\ inbox'[i - 1] = inbox[i])

LEMMA ReceiveEffect ==
  ASSUME TypeOK, NEW kind, Receive(kind)
  PROVE  Taken(kind)
<1>1. /\ inbox \in Seq(ClientFrame) /\ inbox # << >> /\ inbox' = Tail(inbox)
      /\ Head(inbox).kind = kind
  BY DEF TypeOK, Receive
<1>2. /\ Len(inbox) \in Nat /\ Len(inbox) > 0 /\ DOMAIN inbox = 1 .. Len(inbox)
      /\ inbox' \in Seq(ClientFrame) /\ DOMAIN inbox' = 1 .. Len(inbox) - 1
      /\ Head(inbox) = inbox[1]
  BY <1>1
<1>3. \A i \in 1 .. Len(inbox) - 1 : inbox'[i] = inbox[i + 1]
  BY <1>1
<1>4. Head(inbox) \in ClientFrame
  BY <1>1, <1>2
<1>5. QED
  BY <1>1, <1>2, <1>3, <1>4 DEF Taken

\* A frame was added at the end of the inbox.
Arrived(f) ==
  /\ inbox' \in Seq(ClientFrame)
  /\ \A i \in DOMAIN inbox : i \in DOMAIN inbox' /\ inbox'[i] = inbox[i]
  /\ \A i \in DOMAIN inbox' : i \in DOMAIN inbox \/ i = Len(inbox) + 1
  /\ Len(inbox) + 1 \in DOMAIN inbox' /\ inbox'[Len(inbox) + 1] = f
  /\ \A i \in DOMAIN inbox : i < Len(inbox) + 1

LEMMA ArriveEffect ==
  ASSUME TypeOK, NEW f \in ClientFrame, inbox' = Append(inbox, f)
  PROVE  Arrived(f)
  BY DEF TypeOK, Arrived

\* What the client sends arrives.
LEMMA ClientEffect ==
  /\ TypeOK /\ ClientPing => Arrived(Frame("ping", pinged + 1))
  /\ TypeOK /\ ClientOther => Arrived(Frame("other", 0))
  /\ TypeOK /\ ClientClose => Arrived(Frame("close", 0))
<1>1. \A n \in Nat : \A k \in {"ping", "other", "close"} : Frame(k, n) \in ClientFrame
  BY DEF Frame, ClientFrame
<1>2. TypeOK => pinged + 1 \in Nat
  BY DEF TypeOK
<1>3. QED
  BY <1>1, <1>2, ArriveEffect DEF ClientPing, ClientOther, ClientClose

\* The writer took the first message of the channel.
Handed ==
  /\ queue' \in Seq(Message) /\ Len(queue') <= Capacity /\ hand' \in Message
  /\ 1 \in DOMAIN queue /\ hand' = queue[1]
  /\ \A i \in DOMAIN queue' : i + 1 \in DOMAIN queue /\ queue'[i] = queue[i + 1] /\ i > 0
  /\ \A i \in DOMAIN queue :
       i = 1 \/ (i - 1 \in DOMAIN queue' /\ queue'[i - 1] = queue[i])

LEMMA RecvEffect ==
  ASSUME TypeOK, Recv
  PROVE  Handed
<1>1. queue \in Seq(Message) /\ queue # << >> /\ queue' = Tail(queue) /\ hand' = Head(queue)
  BY DEF TypeOK, Recv
<1>2. /\ Len(queue) \in Nat /\ Len(queue) > 0 /\ DOMAIN queue = 1 .. Len(queue)
      /\ queue' \in Seq(Message) /\ Len(queue') = Len(queue) - 1
      /\ DOMAIN queue' = 1 .. Len(queue) - 1 /\ Head(queue) = queue[1]
  BY <1>1
<1>3. \A i \in 1 .. Len(queue) - 1 : queue'[i] = queue[i + 1]
  BY <1>1
<1>4. Len(queue') <= Capacity /\ hand' \in Message
  BY <1>1, <1>2, CapacityAssumption DEF TypeOK
<1>5. QED
  BY <1>1, <1>2, <1>3, <1>4 DEF Handed

\* The types of what the queues hold.
LEMMA Ranges ==
  ASSUME TypeOK
  PROVE  /\ DOMAIN queue = 1 .. Len(queue) /\ Len(queue) \in Nat
         /\ DOMAIN inbox = 1 .. Len(inbox) /\ Len(inbox) \in Nat
         /\ \A i \in DOMAIN queue : queue[i] \in Message /\ queue[i].n \in Nat
         /\ \A i \in DOMAIN inbox : inbox[i] \in ClientFrame /\ inbox[i].n \in Nat
         /\ hand.n \in Nat
         /\ seen.frame \in Nat /\ seen.pongs \in Nat
         /\ published \in Nat /\ pinged \in Nat /\ answered \in Nat
<1>1. /\ DOMAIN queue = 1 .. Len(queue) /\ Len(queue) \in Nat
      /\ \A i \in DOMAIN queue : queue[i] \in Message
  BY DEF TypeOK
<1>2. /\ DOMAIN inbox = 1 .. Len(inbox) /\ Len(inbox) \in Nat
      /\ \A i \in DOMAIN inbox : inbox[i] \in ClientFrame
  BY DEF TypeOK
<1>3. \A m \in Message : m.n \in Nat
  BY DEF Message
<1>4. \A f \in ClientFrame : f.n \in Nat
  BY DEF ClientFrame
<1>5. QED
  BY <1>1, <1>2, <1>3, <1>4 DEF TypeOK

\* The ping that is read is the one after the last that was answered.
LEMMA NextPing ==
  ASSUME SessionInv, ReadPing
  PROVE  Head(inbox).n = answered + 1 /\ answered < pinged
<1>1. Taken("ping")
  BY ReceiveEffect DEF SessionInv, ReadPing
<1>2. loop = "select" /\ inbox # << >>
  BY DEF ReadPing, Receive
<1>3. inbox[1].kind = "ping" /\ inbox[1].n > answered /\ inbox[1].n <= pinged
  BY <1>1, <1>2 DEF SessionInv, PingsWait, Taken
<1>4. inbox[1].n \in Nat /\ answered \in Nat /\ pinged \in Nat
  BY <1>1, Ranges DEF SessionInv, Taken
<1>5. answered + 1 \in answered + 1 .. pinged
  BY <1>3, <1>4
<1>6. PICK i \in DOMAIN inbox : inbox[i] = Frame("ping", answered + 1)
  BY <1>2, <1>5 DEF SessionInv, PingsWait
<1>7. inbox[i].kind = "ping" /\ inbox[i].n = answered + 1
  BY <1>6 DEF Frame
<1>8. 1 < i => inbox[1].n < inbox[i].n
  BY <1>1, <1>2, <1>3, <1>7 DEF SessionInv, PingsWait, Taken
<1>9. i = 1
  BY <1>3, <1>4, <1>7, <1>8, Ranges DEF SessionInv
<1>10. QED
  BY <1>1, <1>3, <1>4, <1>7, <1>9 DEF Taken

\* What each of the three call sites hands to the channel.
LEMMA PushEffect ==
  /\ TypeOK /\ PushFrame => Pushed(Text(published))
  /\ TypeOK /\ ReadPing => Pushed(Pong(Head(inbox).n)) /\ Pong(Head(inbox).n) \in Message
  /\ TypeOK /\ ReadClose => Pushed(CloseMsg)
<1>1. \A n \in Nat : Text(n) \in Message /\ Pong(n) \in Message
  BY DEF Text, Pong, Message
<1>2. CloseMsg \in Message
  BY DEF CloseMsg, Message
<1>3. TypeOK /\ ReadPing => Head(inbox).n \in Nat
  BY ReceiveEffect DEF ReadPing, Taken, ClientFrame
<1>4. QED
  BY <1>1, <1>2, <1>3, SendEffect DEF PushFrame, ReadPing, ReadClose, TypeOK

-----------------------------------------------------------------------------
(***************************************************************************)
(* The parts of the invariant, one after the other.                        *)
(***************************************************************************)

\* The initial state is typed, and nothing is on its way.
LEMMA InitInv == Init => SessionInv
<1> SUFFICES ASSUME Init
             PROVE  SessionInv
  OBVIOUS
<1>1. Len(queue) <= Capacity /\ hand \in Message
  BY CapacityAssumption DEF Init, CloseMsg, Message
<1>2. /\ inbox \in Seq(ClientFrame) /\ queue \in Seq(Message)
      /\ seen \in [frame : Nat, pongs : Nat, closed : BOOLEAN]
  BY DEF Init
<1>a. TypeOK
  BY <1>1, <1>2 DEF Init, TypeOK
<1>3. PingsWait /\ AllNews
  BY DEF Init, PingsWait, AllNews, News, Frame
<1>4. InOrder /\ PongsKept /\ CloseIsAnswer
  BY DEF Init, InOrder, PongsKept, CloseIsAnswer, OnTheWay
<1>5. QED
  BY <1>a, <1>3, <1>4 DEF SessionInv

\* A step of any actor keeps the type of every variable, and the channel its bound.
LEMMA TypeStep == TypeOK /\ [Next]_vars => TypeOK'
<1> SUFFICES ASSUME TypeOK, [Next]_vars
             PROVE  TypeOK'
  OBVIOUS
<1> USE DEF clientVars, loopVars, writerVars
<1>1. CASE Publish
  BY <1>1 DEF Publish, TypeOK
<1>2. CASE ClientPing
  <2>1. inbox' \in Seq(ClientFrame) /\ pinged' \in Nat
    BY <1>2, ClientEffect DEF ClientPing, Arrived, TypeOK
  <2>2. QED
    BY <1>2, <2>1 DEF ClientPing, TypeOK
<1>3. CASE ClientOther
  <2>1. inbox' \in Seq(ClientFrame)
    BY <1>3, ClientEffect DEF Arrived
  <2>2. QED
    BY <1>3, <2>1 DEF ClientOther, TypeOK
<1>4. CASE ClientClose
  <2>1. inbox' \in Seq(ClientFrame)
    BY <1>4, ClientEffect DEF Arrived
  <2>2. QED
    BY <1>4, <2>1 DEF ClientClose, TypeOK
<1>5. CASE LoseConnection
  <2>1. inbox' \in Seq(ClientFrame)
    <3>1. inbox \in Seq(ClientFrame) /\ << >> \in Seq(ClientFrame)
      BY DEF TypeOK
    <3>2. QED
      BY <1>5, <3>1 DEF LoseConnection
  <2>2. QED
    BY <1>5, <2>1 DEF LoseConnection, TypeOK
<1>6. CASE TimerFires
  BY <1>6 DEF TimerFires, TypeOK
<1>7. CASE PushFrame
  <2>1. queue' \in Seq(Message) /\ Len(queue') <= Capacity
    BY <1>7, PushEffect DEF Pushed
  <2>2. QED
    BY <1>7, <2>1 DEF PushFrame, TypeOK
<1>8. CASE ReadPing
  <2>1. queue' \in Seq(Message) /\ Len(queue') <= Capacity
    BY <1>8, PushEffect DEF Pushed
  <2>2. inbox' \in Seq(ClientFrame) /\ Head(inbox).n \in Nat
    BY <1>8, ReceiveEffect DEF ReadPing, Taken, ClientFrame
  <2>3. answered' \in Nat /\ loop' \in {"select", "tick", "join", "done"}
    BY <1>8, <2>2 DEF ReadPing, TypeOK
  <2>4. QED
    BY <1>8, <2>1, <2>2, <2>3 DEF ReadPing, Receive, TypeOK
<1>9. CASE ReadClose
  <2>1. queue' \in Seq(Message) /\ Len(queue') <= Capacity
    BY <1>9, PushEffect DEF Pushed
  <2>2. inbox' \in Seq(ClientFrame)
    BY <1>9, ReceiveEffect DEF ReadClose, Taken
  <2>3. QED
    BY <1>9, <2>1, <2>2 DEF ReadClose, Receive, TypeOK
<1>10. CASE ReadOther
  <2>1. inbox' \in Seq(ClientFrame)
    BY <1>10, ReceiveEffect DEF ReadOther, Taken
  <2>2. QED
    BY <1>10, <2>1 DEF ReadOther, Receive, TypeOK
<1>11. CASE ReadEnd
  BY <1>11 DEF ReadEnd, TypeOK
<1>12. CASE Join
  BY <1>12 DEF Join, TypeOK
<1>13. CASE Recv
  <2>1. Handed
    BY <1>13, RecvEffect
  <2>2. QED
    BY <1>13, <2>1 DEF Recv, Handed, TypeOK
<1>14. CASE RecvClosed
  BY <1>14 DEF RecvClosed, TypeOK
<1>15. CASE SendOk
  <2>1. Reach(hand) \in [frame : Nat, pongs : Nat, closed : BOOLEAN]
    BY DEF Reach, TypeOK, Message
  <2>2. queue' \in Seq(Message) /\ Len(queue') <= Capacity
    <3>1. queue' \in {queue, << >>}
      BY <1>15 DEF SendOk
    <3>2. << >> \in Seq(Message) /\ Len(<< >>) <= Capacity
      BY CapacityAssumption
    <3>3. QED
      BY <3>1, <3>2 DEF TypeOK
  <2>3. seen' \in [frame : Nat, pongs : Nat, closed : BOOLEAN]
    BY <1>15, <2>1 DEF SendOk, TypeOK
  <2>4. QED
    BY <1>15, <2>2, <2>3 DEF SendOk, TypeOK
<1>16. CASE SendFail
  <2>1. queue' \in Seq(Message) /\ Len(queue') <= Capacity
    BY <1>16, CapacityAssumption DEF SendFail, TypeOK
  <2>2. QED
    BY <1>16, <2>1 DEF SendFail, TypeOK
<1>17. CASE UNCHANGED vars
  BY <1>17 DEF vars, TypeOK
<1>18. QED
  BY <1>1, <1>2, <1>3, <1>4, <1>5, <1>6, <1>7, <1>8, <1>9,
     <1>10, <1>11, <1>12, <1>13, <1>14, <1>15, <1>16, <1>17 DEF Next, ReadStep, WriterStep

\* The pings that wait are the ones after the last that was answered.
LEMMA PingsStep == SessionInv /\ [Next]_vars => PingsWait'
<1> SUFFICES ASSUME SessionInv, [Next]_vars
             PROVE  PingsWait'
  OBVIOUS
<1> USE DEF SessionInv, clientVars, loopVars, writerVars
<1>1. CASE Publish
  BY <1>1 DEF Publish, PingsWait
<1>2. CASE ClientPing
  <2>1. Arrived(Frame("ping", pinged + 1))
    BY <1>2, ClientEffect
  <2>2. pinged' = pinged + 1 /\ conn' = conn /\ conn = "open" /\ loop' = loop /\ answered' = answered
    BY <1>2 DEF ClientPing
  <2> SUFFICES ASSUME loop \in {"select", "tick"}
                 PROVE  PingsWait'
    BY <2>2 DEF PingsWait
  <2>4. \A i \in DOMAIN inbox' :
          \/ i \in DOMAIN inbox /\ inbox'[i] = inbox[i]
          \/ i = Len(inbox) + 1 /\ inbox'[i] = Frame("ping", pinged + 1)
    BY <2>1 DEF Arrived
  <2>5. \A i \in DOMAIN inbox' :
          inbox'[i].kind = "ping" => inbox'[i].n > answered /\ inbox'[i].n <= pinged + 1
    BY <2>4, Ranges DEF PingsWait, AllNews, Frame
  <2>6. \A i, j \in DOMAIN inbox' :
          i < j /\ inbox'[i].kind = "ping" /\ inbox'[j].kind = "ping" => inbox'[i].n < inbox'[j].n
    <3> SUFFICES ASSUME NEW i \in DOMAIN inbox', NEW j \in DOMAIN inbox', i < j,
                        inbox'[i].kind = "ping", inbox'[j].kind = "ping"
                 PROVE  inbox'[i].n < inbox'[j].n
      OBVIOUS
    <3>1. i \in DOMAIN inbox /\ inbox'[i] = inbox[i]
      <4>1. i # Len(inbox) + 1
        BY <2>4, Ranges
      <4>2. QED
        BY <2>4, <4>1
    <3>2. CASE j \in DOMAIN inbox /\ inbox'[j] = inbox[j]
      BY <3>1, <3>2 DEF PingsWait
    <3>3. CASE inbox'[j] = Frame("ping", pinged + 1)
      <4>1. inbox'[i].n \in Nat /\ inbox'[i].n <= pinged
        BY <3>1, Ranges DEF PingsWait
      <4>2. inbox'[j].n = pinged + 1
        BY <3>3 DEF Frame
      <4>3. QED
        BY <4>1, <4>2, Ranges
    <3>4. QED
      BY <2>4, <3>2, <3>3
  <2>7. \A k \in answered + 1 .. pinged + 1 : \E i \in DOMAIN inbox' : inbox'[i] = Frame("ping", k)
    <3>1. \A k \in answered + 1 .. pinged : \E i \in DOMAIN inbox' : inbox'[i] = Frame("ping", k)
      BY <2>1, <2>2 DEF PingsWait, Arrived
    <3>2. \E i \in DOMAIN inbox' : inbox'[i] = Frame("ping", pinged + 1)
      BY <2>1 DEF Arrived
    <3>3. \A k \in answered + 1 .. pinged + 1 : k = pinged + 1 \/ k \in answered + 1 .. pinged
      BY Ranges
    <3>4. QED
      BY <3>1, <3>2, <3>3
  <2>8. QED
    BY <2>2, <2>5, <2>6, <2>7 DEF PingsWait
<1>3. CASE ClientOther
  <2>1. Arrived(Frame("other", 0))
    BY <1>3, ClientEffect
  <2>2. \A i \in DOMAIN inbox' : inbox'[i].kind = "ping" => i \in DOMAIN inbox /\ inbox'[i] = inbox[i]
    BY <2>1 DEF Arrived, Frame
  <2>3. conn = "open" /\ UNCHANGED <<conn, pinged, loop, answered>>
    BY <1>3 DEF ClientOther
  <2>4. QED
    BY <2>1, <2>2, <2>3 DEF PingsWait, Arrived
<1>4. CASE ClientClose
  <2>1. Arrived(Frame("close", 0))
    BY <1>4, ClientEffect
  <2>2. \A i \in DOMAIN inbox' : inbox'[i].kind = "ping" => i \in DOMAIN inbox /\ inbox'[i] = inbox[i]
    BY <2>1 DEF Arrived, Frame
  <2>3. conn = "open" /\ UNCHANGED <<conn, pinged, loop, answered>>
    BY <1>4 DEF ClientClose
  <2>4. QED
    BY <2>1, <2>2, <2>3 DEF PingsWait, Arrived
<1>5. CASE LoseConnection
  <2>1. CASE inbox' = inbox
    BY <1>5, <2>1 DEF LoseConnection, PingsWait
  <2>2. CASE inbox' = << >>
    BY <1>5, <2>2 DEF LoseConnection, PingsWait
  <2>3. QED
    BY <1>5, <2>1, <2>2 DEF LoseConnection
<1>6. CASE TimerFires
  BY <1>6 DEF TimerFires, PingsWait
<1>7. CASE PushFrame
  BY <1>7 DEF PushFrame, PingsWait
<1>8. CASE ReadPing
  <2>1. Taken("ping") /\ Head(inbox).n = answered + 1
    BY <1>8, ReceiveEffect, NextPing DEF ReadPing
  <2>2. /\ loop = "select" /\ inbox # << >> /\ UNCHANGED <<conn, pinged>>
        /\ (loop' = "select" /\ answered' = answered + 1) \/ loop' = "join"
    BY <1>8, <2>1 DEF ReadPing, Receive
  <2> SUFFICES ASSUME loop' = "select", answered' = answered + 1
                 PROVE  PingsWait'
    BY <2>2 DEF PingsWait
  <2>4. inbox[1].n = answered + 1 /\ inbox[1].kind = "ping"
    BY <2>1 DEF Taken
  <2>5. \A i \in DOMAIN inbox : i = 1 \/ 1 < i
    BY Ranges
  <2>6. \A i \in DOMAIN inbox :
          i # 1 /\ inbox[i].kind = "ping" => inbox[i].n > answered + 1 /\ inbox[i].n <= pinged
    BY <2>1, <2>2, <2>4, <2>5 DEF PingsWait, Taken
  <2>7. \A i \in DOMAIN inbox' : i + 1 \in DOMAIN inbox /\ i + 1 # 1 /\ inbox'[i] = inbox[i + 1] /\ i \in Nat
    BY <2>1 DEF Taken
  <2>8. \A i, j \in DOMAIN inbox' :
          i < j /\ inbox'[i].kind = "ping" /\ inbox'[j].kind = "ping" => inbox'[i].n < inbox'[j].n
    BY <2>2, <2>7 DEF PingsWait
  <2>9. \A k \in answered + 2 .. pinged : \E i \in DOMAIN inbox' : inbox'[i] = Frame("ping", k)
    <3> SUFFICES ASSUME NEW k \in answered + 2 .. pinged
                   PROVE  \E i \in DOMAIN inbox' : inbox'[i] = Frame("ping", k)
      OBVIOUS
    <3>2. k \in answered + 1 .. pinged /\ k # answered + 1
      BY Ranges
    <3>3. PICK i \in DOMAIN inbox : inbox[i] = Frame("ping", k)
      BY <2>2, <3>2 DEF PingsWait
    <3>4. i # 1
      BY <2>4, <3>2, <3>3 DEF Frame
    <3>5. QED
      BY <2>1, <3>3, <3>4 DEF Taken
  <2>10. answered + 1 + 1 = answered + 2
    BY Ranges
  <2>11. QED
    BY <2>2, <2>6, <2>7, <2>8, <2>9, <2>10 DEF PingsWait
<1>9. CASE ReadClose
  BY <1>9 DEF ReadClose, PingsWait
<1>10. CASE ReadOther
  <2>1. Taken("other")
    BY <1>10, ReceiveEffect DEF ReadOther
  <2>2. loop = "select" /\ inbox # << >> /\ UNCHANGED <<conn, pinged, loop, answered>>
    BY <1>10 DEF ReadOther, Receive
  <2>3. \A i \in DOMAIN inbox' : i + 1 \in DOMAIN inbox /\ inbox'[i] = inbox[i + 1] /\ i \in Nat
    BY <2>1 DEF Taken
  <2>4. \A k : \A i \in DOMAIN inbox : inbox[i] = Frame("ping", k) => i - 1 \in DOMAIN inbox' /\ inbox'[i - 1] = Frame("ping", k)
    BY <2>1 DEF Taken, Frame
  <2>5. /\ \A i \in DOMAIN inbox' :
             inbox'[i].kind = "ping" => inbox'[i].n > answered /\ inbox'[i].n <= pinged
        /\ \A i, j \in DOMAIN inbox' :
             i < j /\ inbox'[i].kind = "ping" /\ inbox'[j].kind = "ping" => inbox'[i].n < inbox'[j].n
    BY <2>2, <2>3 DEF PingsWait
  <2>6. \A k \in answered + 1 .. pinged : \E i \in DOMAIN inbox' : inbox'[i] = Frame("ping", k)
    BY <2>2, <2>4 DEF PingsWait
  <2>7. QED
    BY <2>2, <2>5, <2>6 DEF PingsWait
<1>11. CASE ReadEnd
  BY <1>11 DEF ReadEnd, PingsWait
<1>12. CASE Join
  BY <1>12 DEF Join, PingsWait
<1>13. CASE Recv
  BY <1>13 DEF Recv, PingsWait
<1>14. CASE RecvClosed
  BY <1>14 DEF RecvClosed, PingsWait
<1>15. CASE SendOk
  BY <1>15 DEF SendOk, PingsWait
<1>16. CASE SendFail
  BY <1>16 DEF SendFail, PingsWait
<1>17. CASE UNCHANGED vars
  BY <1>17 DEF vars, PingsWait
<1>18. QED
  BY <1>1, <1>2, <1>3, <1>4, <1>5, <1>6, <1>7, <1>8, <1>9,
     <1>10, <1>11, <1>12, <1>13, <1>14, <1>15, <1>16, <1>17 DEF Next, ReadStep, WriterStep

\* A message that is news may precede whatever the loop queues next.
LEMMA NewsPrecede ==
  ASSUME SessionInv, loop \in {"select", "tick"}, NEW m \in Message, News(m)
  PROVE  /\ MayPrecede(m, Text(published))
         /\ MayPrecede(m, Pong(answered + 1))
         /\ MayPrecede(m, CloseMsg)
<1>1. m.n \in Nat /\ published \in Nat /\ answered \in Nat
  BY Ranges DEF Message, SessionInv
<1>2. m.kind # "close"
  BY DEF News
<1>3. QED
  BY <1>1, <1>2 DEF News, MayPrecede, Text, Pong, CloseMsg

\* A message on its way stays news until it arrives.
LEMMA NewsStep == SessionInv /\ [Next]_vars => AllNews'
<1> SUFFICES ASSUME SessionInv, [Next]_vars
             PROVE  AllNews'
  OBVIOUS
<1> USE DEF SessionInv, clientVars, loopVars, writerVars
<1>1. CASE Publish
  <2>1. \A m \in Message : News(m) => News(m)'
    <3> SUFFICES ASSUME NEW m \in Message, News(m)
                 PROVE  News(m)'
      OBVIOUS
    <3>2. m.n \in Nat /\ published \in Nat /\ published' = published + 1
      BY <1>1, Ranges DEF Publish, Message
    <3>3. QED
      BY <1>1, <3>2 DEF Publish, News
  <2>2. seen'.frame <= published'
    BY <1>1, Ranges DEF Publish, AllNews
  <2>3. QED
    BY <1>1, <2>1, <2>2, Ranges DEF Publish, AllNews, TypeOK
<1>2. CASE ClientPing
  <2>1. Arrived(Frame("ping", pinged + 1)) /\ answered <= pinged'
    BY <1>2, ClientEffect, Ranges DEF ClientPing, AllNews
  <2>2. \A i \in DOMAIN inbox' : inbox'[i].kind # "close"
    BY <1>2, <2>1 DEF ClientPing, AllNews, Arrived, Frame
  <2>3. QED
    BY <1>2, <2>1, <2>2 DEF ClientPing, AllNews, News
<1>3. CASE ClientOther
  <2>1. Arrived(Frame("other", 0))
    BY <1>3, ClientEffect
  <2>2. \A i \in DOMAIN inbox' : inbox'[i].kind # "close"
    BY <1>3, <2>1 DEF ClientOther, AllNews, Arrived, Frame
  <2>3. QED
    BY <1>3, <2>2 DEF ClientOther, AllNews, News
<1>4. CASE ClientClose
  BY <1>4 DEF ClientClose, AllNews, News
<1>5. CASE LoseConnection
  <2>1. closing \/ \A i \in DOMAIN inbox' : inbox'[i].kind # "close"
    BY <1>5 DEF LoseConnection, AllNews
  <2>2. QED
    BY <1>5, <2>1 DEF LoseConnection, AllNews, News
<1>6. CASE TimerFires
  BY <1>6 DEF TimerFires, AllNews, News
<1>7. CASE PushFrame
  <2>1. Pushed(Text(published)) /\ UNCHANGED <<seen, published, answered, heard, pinged, closing, inbox, writer, hand>>
    BY <1>7, PushEffect DEF PushFrame
  <2>2. \A m : News(m) /\ loop = "tick" => News(m)'
    BY <2>1 DEF News
  <2>3. News(Text(published))'
    BY <2>1, Ranges DEF News, Text, AllNews
  <2>4. (\A i \in DOMAIN queue : News(queue[i]))'
    BY <1>7, <2>1, <2>2, <2>3 DEF Pushed, AllNews, PushFrame, News
  <2>5. writer = "stopped" => queue' = queue
    BY <2>1 DEF Pushed, Room
  <2>6. QED
    BY <1>7, <2>1, <2>2, <2>4, <2>5 DEF AllNews, PushFrame, News
<1>8. CASE ReadPing
  <2>1. /\ Taken("ping") /\ Head(inbox).n = answered + 1 /\ answered < pinged
        /\ Pushed(Pong(Head(inbox).n))
        /\ UNCHANGED <<seen, published, heard, pinged, closing, writer, hand>>
    BY <1>8, ReceiveEffect, NextPing, PushEffect DEF ReadPing, Receive
  <2>2. /\ loop = "select" /\ answered' \in {answered, answered + 1}
        /\ Room => answered' = answered + 1
    BY <1>8, <2>1 DEF ReadPing, Receive
  <2>3. \A m \in Message : News(m) => News(m)'
    <3> SUFFICES ASSUME NEW m \in Message, News(m)
                 PROVE  News(m)'
      OBVIOUS
    <3>2. m.n \in Nat /\ answered \in Nat
      BY Ranges DEF Message
    <3>3. QED
      BY <2>1, <2>2, <3>2 DEF News
  <2>4. \A m : Room /\ m = Pong(answered + 1) => News(m)'
    BY <2>1, <2>2, Ranges DEF News, Pong, AllNews
  <2>5. (\A i \in DOMAIN queue : News(queue[i]))'
    BY <2>1, <2>3, <2>4, Ranges DEF Pushed, AllNews, News
  <2>6. writer = "stopped" => queue' = queue
    BY <2>1 DEF Pushed, Room
  <2>7. seen'.pongs <= answered' /\ answered' <= pinged'
    BY <2>1, <2>2, Ranges DEF AllNews
  <2>8. closing \/ \A i \in DOMAIN inbox' : inbox'[i].kind # "close"
    BY <2>1 DEF Taken, AllNews
  <2>9. (writer = "send" => News(hand))'
    BY <2>1, <2>3 DEF AllNews, TypeOK, News
  <2>10. QED
    BY <2>1, <2>5, <2>6, <2>7, <2>8, <2>9 DEF AllNews, News
<1>9. CASE ReadClose
  <2>1. /\ Taken("close") /\ Pushed(CloseMsg)
        /\ UNCHANGED <<seen, published, answered, pinged, closing, writer, hand>>
        /\ heard' /\ loop' = "join"
    BY <1>9, ReceiveEffect, PushEffect DEF ReadClose, Receive
  <2>2. closing
    BY <2>1 DEF AllNews, Taken
  <2>3. \A m : News(m) => News(m)'
    BY <2>1 DEF News
  <2>4. News(CloseMsg)'
    BY <2>1 DEF News, CloseMsg
  <2>5. (\A i \in DOMAIN queue : News(queue[i]))'
    BY <2>1, <2>3, <2>4 DEF Pushed, AllNews, News
  <2>6. writer = "stopped" => queue' = queue
    BY <2>1 DEF Pushed, Room
  <2>7. QED
    BY <2>1, <2>2, <2>3, <2>5, <2>6 DEF AllNews, News
<1>10. CASE ReadOther
  <2>1. Taken("other")
    BY <1>10, ReceiveEffect DEF ReadOther
  <2>2. closing \/ \A i \in DOMAIN inbox' : inbox'[i].kind # "close"
    BY <2>1 DEF Taken, AllNews
  <2>3. QED
    BY <1>10, <2>2 DEF ReadOther, Receive, AllNews, News
<1>11. CASE ReadEnd
  BY <1>11 DEF ReadEnd, AllNews, News
<1>12. CASE Join
  BY <1>12 DEF Join, AllNews, News
<1>13. CASE Recv
  <2>1. Handed
    BY <1>13, RecvEffect
  <2>2. UNCHANGED <<seen, published, answered, heard, loop, pinged, closing, inbox>> /\ writer' = "send"
    BY <1>13 DEF Recv
  <2>3. \A m : News(m) => News(m)'
    BY <2>2 DEF News
  <2>4. QED
    BY <2>1, <2>2, <2>3 DEF AllNews, Handed
<1>14. CASE RecvClosed
  BY <1>14 DEF RecvClosed, AllNews, News
<1>15. CASE SendOk
  <2>1. UNCHANGED <<published, answered, heard, loop, pinged, closing, inbox, hand>> /\ writer = "send"
    BY <1>15 DEF SendOk
  <2>2. News(hand) /\ hand.n \in Nat
    BY <2>1, Ranges DEF AllNews
  <2>3. seen' \in {seen, Reach(hand)}
    BY <1>15 DEF SendOk
  <2>4. seen'.frame <= published /\ seen'.pongs <= answered
    BY <2>2, <2>3, Ranges DEF AllNews, Reach, News, TypeOK, Message
  <2>5. \A i \in DOMAIN queue : \A m : m = queue[i] => News(m)'
    <3> SUFFICES ASSUME NEW i \in DOMAIN queue, NEW m, m = queue[i]
                 PROVE  News(m)'
      OBVIOUS
    <3>2. /\ queue[i].n \in Nat /\ News(queue[i]) /\ MayPrecede(hand, queue[i])
          /\ hand.kind \in {"text", "pong", "close"}
      BY <2>1, Ranges DEF AllNews, InOrder, TypeOK, Message
    <3>3. /\ queue[i].kind = "text" => seen'.frame <= queue[i].n
          /\ queue[i].kind = "pong" => seen'.pongs < queue[i].n
      BY <2>3, <3>2 DEF Reach, MayPrecede, News, TypeOK
    <3>4. QED
      BY <2>1, <3>2, <3>3 DEF News
  <2>6. writer' # "send" /\ (writer' = "stopped" => queue' = << >>) /\ queue' \in {queue, << >>}
    BY <1>15 DEF SendOk
  <2>7. QED
    BY <2>1, <2>4, <2>5, <2>6 DEF AllNews, News
<1>16. CASE SendFail
  BY <1>16 DEF SendFail, AllNews
<1>17. CASE UNCHANGED vars
  BY <1>17 DEF vars, AllNews, News
<1>18. QED
  BY <1>1, <1>2, <1>3, <1>4, <1>5, <1>6, <1>7, <1>8, <1>9,
     <1>10, <1>11, <1>12, <1>13, <1>14, <1>15, <1>16, <1>17 DEF Next, ReadStep, WriterStep
----------------------------------------------------------------
\* A push keeps the order if whatever is on the way may precede the message.
LEMMA OrderKept ==
  ASSUME SessionInv, NEW m, Pushed(m), UNCHANGED <<writer, hand>>,
         \A i \in DOMAIN queue : MayPrecede(queue[i], m),
         writer = "send" => MayPrecede(hand, m)
  PROVE  InOrder'
<1>1. \A i \in DOMAIN queue : i < Len(queue) + 1 /\ i \in Nat
  BY Ranges DEF SessionInv
<1>2. (\A i, j \in DOMAIN queue : i < j => MayPrecede(queue[i], queue[j]))'
  <2> SUFFICES ASSUME NEW i \in DOMAIN queue', NEW j \in DOMAIN queue', i < j
               PROVE  MayPrecede(queue[i], queue[j])'
    BY DEF MayPrecede
  <2>1. i \in DOMAIN queue /\ queue'[i] = queue[i]
    BY <1>1, Ranges DEF Pushed, SessionInv
  <2>2. CASE j \in DOMAIN queue
    BY <2>1, <2>2 DEF Pushed, SessionInv, InOrder, MayPrecede
  <2>3. CASE queue'[j] = m
    BY <2>1, <2>3 DEF MayPrecede
  <2>4. QED
    BY <2>2, <2>3 DEF Pushed
<1>3. (writer = "send" => \A i \in DOMAIN queue : MayPrecede(hand, queue[i]))'
  BY DEF Pushed, SessionInv, InOrder, MayPrecede
<1>4. QED
  BY <1>2, <1>3 DEF InOrder

\* The channel is filled at one end and emptied at the other.
LEMMA OrderStep == SessionInv /\ [Next]_vars => InOrder'
<1> SUFFICES ASSUME SessionInv, [Next]_vars
             PROVE  InOrder'
  OBVIOUS
<1> USE DEF SessionInv, clientVars, loopVars, writerVars
<1>1. CASE Publish
  BY <1>1 DEF Publish, InOrder, MayPrecede
<1>2. CASE ClientPing
  BY <1>2 DEF ClientPing, InOrder, MayPrecede
<1>3. CASE ClientOther
  BY <1>3 DEF ClientOther, InOrder, MayPrecede
<1>4. CASE ClientClose
  BY <1>4 DEF ClientClose, InOrder, MayPrecede
<1>5. CASE LoseConnection
  BY <1>5 DEF LoseConnection, InOrder, MayPrecede
<1>6. CASE TimerFires
  BY <1>6 DEF TimerFires, InOrder, MayPrecede
<1>7. CASE PushFrame
  <2>1. Pushed(Text(published)) /\ UNCHANGED <<writer, hand>> /\ loop = "tick"
    BY <1>7, PushEffect DEF PushFrame
  <2>2. /\ \A i \in DOMAIN queue : MayPrecede(queue[i], Text(published))
        /\ writer = "send" => MayPrecede(hand, Text(published))
    BY <2>1, NewsPrecede, Ranges DEF AllNews, TypeOK
  <2>3. QED
    BY <2>1, <2>2, OrderKept
<1>8. CASE ReadPing
  <2>1. /\ Head(inbox).n = answered + 1 /\ Pushed(Pong(answered + 1))
        /\ UNCHANGED <<writer, hand>> /\ loop = "select"
    <3>1. Head(inbox).n = answered + 1
      BY <1>8, NextPing
    <3>2. Pushed(Pong(Head(inbox).n))
      BY <1>8, PushEffect
    <3>3. QED
      BY <1>8, <3>1, <3>2 DEF ReadPing, Receive
  <2>2. /\ \A i \in DOMAIN queue : MayPrecede(queue[i], Pong(answered + 1))
        /\ writer = "send" => MayPrecede(hand, Pong(answered + 1))
    BY <2>1, NewsPrecede, Ranges DEF AllNews, TypeOK
  <2>3. QED
    BY <2>1, <2>2, OrderKept
<1>9. CASE ReadClose
  <2>1. Pushed(CloseMsg) /\ UNCHANGED <<writer, hand>> /\ loop = "select"
    BY <1>9, PushEffect DEF ReadClose, Receive
  <2>2. /\ \A i \in DOMAIN queue : MayPrecede(queue[i], CloseMsg)
        /\ writer = "send" => MayPrecede(hand, CloseMsg)
    BY <2>1, NewsPrecede, Ranges DEF AllNews, TypeOK
  <2>3. QED
    BY <2>1, <2>2, OrderKept
<1>10. CASE ReadOther
  BY <1>10 DEF ReadOther, Receive, InOrder, MayPrecede
<1>11. CASE ReadEnd
  BY <1>11 DEF ReadEnd, InOrder, MayPrecede
<1>12. CASE Join
  BY <1>12 DEF Join, InOrder, MayPrecede
<1>13. CASE Recv
  <2>1. Handed
    BY <1>13, RecvEffect
  <2>2. \A i \in DOMAIN queue' : i \in Nat /\ 1 < i + 1
    BY <2>1, Ranges DEF Handed
  <2>3. (\A i, j \in DOMAIN queue : i < j => MayPrecede(queue[i], queue[j]))'
    <3> SUFFICES ASSUME NEW i \in DOMAIN queue', NEW j \in DOMAIN queue', i < j
                 PROVE  MayPrecede(queue[i], queue[j])'
      BY DEF MayPrecede
    <3>1. /\ i + 1 \in DOMAIN queue /\ queue'[i] = queue[i + 1]
          /\ j + 1 \in DOMAIN queue /\ queue'[j] = queue[j + 1]
      BY <2>1 DEF Handed
    <3>2. i + 1 < j + 1
      BY <2>2
    <3>3. MayPrecede(queue[i + 1], queue[j + 1])
      BY <3>1, <3>2 DEF SessionInv, InOrder
    <3>4. QED
      BY <3>1, <3>3 DEF MayPrecede
  <2>4. (\A i \in DOMAIN queue : MayPrecede(hand, queue[i]))'
    <3> SUFFICES ASSUME NEW i \in DOMAIN queue'
                 PROVE  MayPrecede(hand, queue[i])'
      BY DEF MayPrecede
    <3>1. /\ i + 1 \in DOMAIN queue /\ queue'[i] = queue[i + 1]
          /\ 1 \in DOMAIN queue /\ hand' = queue[1]
      BY <2>1 DEF Handed
    <3>2. MayPrecede(queue[1], queue[i + 1])
      BY <2>2, <3>1 DEF SessionInv, InOrder
    <3>3. QED
      BY <3>1, <3>2 DEF MayPrecede
  <2>5. QED
    BY <2>3, <2>4 DEF InOrder
<1>14. CASE RecvClosed
  BY <1>14 DEF RecvClosed, InOrder, MayPrecede
<1>15. CASE SendOk
  BY <1>15 DEF SendOk, InOrder, MayPrecede
<1>16. CASE SendFail
  BY <1>16 DEF SendFail, InOrder, MayPrecede
<1>17. CASE UNCHANGED vars
  BY <1>17 DEF vars, InOrder, MayPrecede
<1>18. QED
  BY <1>1, <1>2, <1>3, <1>4, <1>5, <1>6, <1>7, <1>8, <1>9,
     <1>10, <1>11, <1>12, <1>13, <1>14, <1>15, <1>16, <1>17 DEF Next, ReadStep, WriterStep

\* A push leaves on the way whatever is on the way.
LEMMA StaysOnTheWay ==
  ASSUME NEW m, Pushed(m), UNCHANGED <<writer, hand>>, NEW x, OnTheWay(x)
  PROVE  OnTheWay(x)'
  BY DEF Pushed, OnTheWay

\* A pong enters the channel whenever its ping counts as answered.
LEMMA PongsStep == SessionInv /\ [Next]_vars => PongsKept'
<1> SUFFICES ASSUME SessionInv, [Next]_vars
             PROVE  PongsKept'
  OBVIOUS
<1> USE DEF SessionInv, clientVars, loopVars, writerVars
<1>1. CASE Publish
  BY <1>1 DEF Publish, PongsKept, OnTheWay
<1>2. CASE ClientPing
  BY <1>2 DEF ClientPing, PongsKept, OnTheWay
<1>3. CASE ClientOther
  BY <1>3 DEF ClientOther, PongsKept, OnTheWay
<1>4. CASE ClientClose
  BY <1>4 DEF ClientClose, PongsKept, OnTheWay
<1>5. CASE LoseConnection
  BY <1>5 DEF LoseConnection, PongsKept, OnTheWay
<1>6. CASE TimerFires
  BY <1>6 DEF TimerFires, PongsKept, OnTheWay
<1>7. CASE PushFrame
  <2>1. Pushed(Text(published)) /\ UNCHANGED <<conn, answered, writer, hand, seen>>
    BY <1>7, PushEffect DEF PushFrame
  <2>2. QED
    BY <2>1, StaysOnTheWay DEF PongsKept
<1>8. CASE ReadPing
  <2>1. Head(inbox).n = answered + 1
    BY <1>8, NextPing
  <2>2. /\ Pushed(Pong(answered + 1)) /\ UNCHANGED <<conn, writer, hand, seen>>
        /\ answered' = IF Room THEN answered + 1 ELSE answered
    BY <1>8, <2>1, PushEffect DEF ReadPing, Receive
  <2>3. CASE Room
    <3>1. SUFFICES ASSUME conn = "open" /\ writer # "stopped",
                          NEW i \in seen.pongs + 1 .. answered + 1
                   PROVE  OnTheWay(Pong(i))'
      BY <2>2, <2>3 DEF PongsKept
    <3>2. CASE i \in seen.pongs + 1 .. answered
      BY <2>2, <3>1, <3>2, StaysOnTheWay DEF PongsKept
    <3>3. CASE i = answered + 1
      BY <2>2, <2>3, <3>3 DEF Pushed, OnTheWay
    <3>4. QED
      BY <3>1, <3>2, <3>3, Ranges
  <2>4. CASE ~ Room
    BY <2>2, <2>4, StaysOnTheWay DEF PongsKept
  <2>5. QED
    BY <2>3, <2>4
<1>9. CASE ReadClose
  <2>1. Pushed(CloseMsg) /\ UNCHANGED <<conn, answered, writer, hand, seen>>
    BY <1>9, PushEffect DEF ReadClose, Receive
  <2>2. QED
    BY <2>1, StaysOnTheWay DEF PongsKept
<1>10. CASE ReadOther
  BY <1>10 DEF ReadOther, Receive, PongsKept, OnTheWay
<1>11. CASE ReadEnd
  BY <1>11 DEF ReadEnd, PongsKept, OnTheWay
<1>12. CASE Join
  BY <1>12 DEF Join, PongsKept, OnTheWay
<1>13. CASE Recv
  <2>1. Handed
    BY <1>13, RecvEffect
  <2>2. UNCHANGED <<conn, answered, seen>> /\ writer = "recv" /\ writer' = "send"
    BY <1>13 DEF Recv
  <2>3. \A x : OnTheWay(x) => OnTheWay(x)'
    BY <2>1, <2>2 DEF Handed, OnTheWay
  <2>4. QED
    BY <2>2, <2>3 DEF PongsKept
<1>14. CASE RecvClosed
  BY <1>14 DEF RecvClosed, PongsKept, OnTheWay
<1>15. CASE SendOk
  <2>1. SUFFICES ASSUME conn' = "open", writer' # "stopped"
                 PROVE  (\A i \in seen.pongs + 1 .. answered : OnTheWay(Pong(i)))'
    BY DEF PongsKept
  <2>2. /\ writer = "send" /\ conn = "open" /\ hand.kind # "close" /\ queue' = queue
        /\ seen' = Reach(hand) /\ answered' = answered
    BY <1>15, <2>1 DEF SendOk
  <2>3. /\ seen'.pongs \in Nat /\ seen.pongs <= seen'.pongs
        /\ hand.kind = "pong" => seen'.pongs = hand.n
    BY <2>2, Ranges DEF Reach, AllNews, News, TypeOK, Message
  <2>4. SUFFICES ASSUME NEW i \in seen'.pongs + 1 .. answered
                 PROVE  OnTheWay(Pong(i))'
    BY <2>2
  <2>5. i \in seen.pongs + 1 .. answered
    BY <2>3, <2>4, Ranges
  <2>6. OnTheWay(Pong(i))
    BY <2>2, <2>5 DEF PongsKept
  <2>7. hand # Pong(i)
    BY <2>3, <2>4, Ranges DEF Pong
  <2>8. QED
    BY <2>2, <2>6, <2>7 DEF OnTheWay
<1>16. CASE SendFail
  BY <1>16 DEF SendFail, PongsKept, OnTheWay
<1>17. CASE UNCHANGED vars
  BY <1>17 DEF vars, PongsKept, OnTheWay
<1>18. QED
  BY <1>1, <1>2, <1>3, <1>4, <1>5, <1>6, <1>7, <1>8, <1>9,
     <1>10, <1>11, <1>12, <1>13, <1>14, <1>15, <1>16, <1>17 DEF Next, ReadStep, WriterStep

\* The loop queues a close frame only when it ends.
LEMMA CloseStep == SessionInv /\ [Next]_vars => CloseIsAnswer'
<1> SUFFICES ASSUME SessionInv, [Next]_vars
             PROVE  CloseIsAnswer'
  OBVIOUS
<1> USE DEF SessionInv, clientVars, loopVars, writerVars
<1>1. CASE Publish
  BY <1>1 DEF Publish, CloseIsAnswer, OnTheWay, CloseMsg
<1>2. CASE ClientPing
  BY <1>2 DEF ClientPing, CloseIsAnswer, OnTheWay, CloseMsg
<1>3. CASE ClientOther
  BY <1>3 DEF ClientOther, CloseIsAnswer, OnTheWay, CloseMsg
<1>4. CASE ClientClose
  BY <1>4 DEF ClientClose, CloseIsAnswer, OnTheWay, CloseMsg
<1>5. CASE LoseConnection
  BY <1>5 DEF LoseConnection, CloseIsAnswer, OnTheWay, CloseMsg
<1>6. CASE TimerFires
  BY <1>6 DEF TimerFires, CloseIsAnswer, OnTheWay, CloseMsg
<1>7. CASE PushFrame
  <2>1. Pushed(Text(published)) /\ UNCHANGED <<heard, writer, hand, seen>> /\ loop = "tick"
    BY <1>7, PushEffect DEF PushFrame
  <2>2. Text(published) # CloseMsg
    BY DEF Text, CloseMsg
  <2>3. QED
    BY <2>1, <2>2 DEF CloseIsAnswer, OnTheWay, Pushed
<1>8. CASE ReadPing
  <2>1. Pushed(Pong(Head(inbox).n)) /\ UNCHANGED <<heard, writer, hand, seen>> /\ loop = "select"
    BY <1>8, PushEffect DEF ReadPing, Receive
  <2>2. Pong(Head(inbox).n) # CloseMsg
    BY DEF Pong, CloseMsg
  <2>3. QED
    BY <2>1, <2>2 DEF CloseIsAnswer, OnTheWay, Pushed
<1>9. CASE ReadClose
  BY <1>9 DEF ReadClose, Receive, CloseIsAnswer
<1>10. CASE ReadOther
  BY <1>10 DEF ReadOther, Receive, CloseIsAnswer, OnTheWay
<1>11. CASE ReadEnd
  BY <1>11 DEF ReadEnd, CloseIsAnswer, OnTheWay, CloseMsg
<1>12. CASE Join
  BY <1>12 DEF Join, CloseIsAnswer, OnTheWay, CloseMsg
<1>13. CASE Recv
  <2>1. Handed
    BY <1>13, RecvEffect
  <2>2. UNCHANGED <<heard, loop, seen>> /\ writer = "recv" /\ writer' = "send"
    BY <1>13 DEF Recv
  <2>3. OnTheWay(CloseMsg)' => OnTheWay(CloseMsg)
    BY <2>1, <2>2 DEF Handed, OnTheWay, CloseMsg
  <2>4. QED
    BY <2>2, <2>3 DEF CloseIsAnswer
<1>14. CASE RecvClosed
  BY <1>14 DEF RecvClosed, CloseIsAnswer, OnTheWay, CloseMsg
<1>15. CASE SendOk
  <2>1. UNCHANGED <<heard, loop, hand>> /\ writer = "send" /\ queue' \in {queue, << >>}
    BY <1>15 DEF SendOk
  <2>2. CASE hand.kind = "close"
    BY <1>15, <2>1, <2>2 DEF SendOk, CloseIsAnswer, AllNews, News
  <2>3. CASE hand.kind # "close"
    <3>1. seen'.closed = seen.closed /\ writer' = "recv" /\ queue' = queue
      BY <1>15, <2>3 DEF SendOk, Reach, TypeOK, Message
    <3>2. QED
      BY <2>1, <3>1 DEF CloseIsAnswer, OnTheWay
  <2>4. QED
    BY <2>2, <2>3
<1>16. CASE SendFail
  BY <1>16 DEF SendFail, CloseIsAnswer, OnTheWay, CloseMsg
<1>17. CASE UNCHANGED vars
  BY <1>17 DEF vars, CloseIsAnswer, OnTheWay, CloseMsg
<1>18. QED
  BY <1>1, <1>2, <1>3, <1>4, <1>5, <1>6, <1>7, <1>8, <1>9,
     <1>10, <1>11, <1>12, <1>13, <1>14, <1>15, <1>16, <1>17 DEF Next, ReadStep, WriterStep

LEMMA StepInv == SessionInv /\ [Next]_vars => SessionInv'
<1>1. SessionInv => TypeOK
  BY DEF SessionInv
<1>2. QED
  BY <1>1, TypeStep, PingsStep, NewsStep, OrderStep, PongsStep, CloseStep DEF SessionInv

-----------------------------------------------------------------------------
(***************************************************************************)
(* The theorems.                                                           *)
(***************************************************************************)

\* Every reachable state of a session satisfies the inductive invariant.
THEOREM SessionInvariant == Spec => []SessionInv
<1>1. Init => SessionInv
  BY InitInv
<1>2. SessionInv /\ [Next]_vars => SessionInv'
  BY StepInv
<1>3. QED
  BY <1>1, <1>2, PTL DEF Spec

\* The channel never holds more than its capacity, and every variable keeps
\* its type.
THEOREM TypeCorrect == Spec => []TypeOK
<1>1. SessionInv => TypeOK
  BY DEF SessionInv
<1>2. QED
  BY <1>1, SessionInvariant, PTL

\* Snapshots and pongs are in order all the way, and a close frame is last.
THEOREM Ordering == Spec => []InOrder
<1>1. SessionInv => InOrder
  BY DEF SessionInv
<1>2. QED
  BY <1>1, SessionInvariant, PTL

\* Backpressure never loses a pong.
THEOREM NoPongLost == Spec => []PongsKept
<1>1. SessionInv => PongsKept
  BY DEF SessionInv
<1>2. QED
  BY <1>1, SessionInvariant, PTL

\* A close frame only answers the client's, and ends the session.
THEOREM CloseAnswers == Spec => []CloseIsAnswer
<1>1. SessionInv => CloseIsAnswer
  BY DEF SessionInv
<1>2. QED
  BY <1>1, SessionInvariant, PTL

\* Loop, channel and writer together implement the feed a client is promised.
LEMMA FeedInit == Init => Feed!Init
  BY DEF Init, Feed!Init

\* What the client sees of a completed send is a step of the feed.
LEMMA FeedSend ==
  ASSUME SessionInv, SendOk
  PROVE  [Feed!Next]_(Feed!vars)
<1> USE DEF SessionInv
<1>1. /\ writer = "send" /\ UNCHANGED <<published, pinged, closing>>
      /\ seen' = IF conn = "open" THEN Reach(hand) ELSE seen
  BY DEF SendOk, clientVars
<1>2. News(hand) /\ ~ seen.closed /\ hand.kind \in {"text", "pong", "close"} /\ hand.n \in Nat
  BY <1>1, Ranges DEF AllNews, CloseIsAnswer, TypeOK, Message
<1>3. CASE conn # "open"
  BY <1>1, <1>3 DEF Feed!vars
<1>4. CASE conn = "open" /\ hand.kind = "text"
  <2>1. hand.n \in seen.frame .. published /\ seen' = [seen EXCEPT !.frame = hand.n]
    BY <1>1, <1>2, <1>4, Ranges DEF News, Reach
  <2>2. Feed!Deliver
    BY <1>1, <1>2, <2>1 DEF Feed!Deliver
  <2>3. QED
    BY <2>2 DEF Feed!Next
<1>5. CASE conn = "open" /\ hand.kind = "pong"
  <2>1. seen' = [seen EXCEPT !.pongs = hand.n]
    BY <1>1, <1>5 DEF Reach
  <2>2. seen.pongs + 1 \in seen.pongs + 1 .. answered /\ seen.pongs < pinged
    BY <1>2, <1>5, Ranges DEF News, AllNews
  <2>3. OnTheWay(Pong(seen.pongs + 1))
    BY <1>1, <1>5, <2>2 DEF PongsKept
  <2>4. \A i \in DOMAIN queue : queue[i].kind = "pong" => seen.pongs + 1 < queue[i].n
    BY <1>1, <1>2, <1>5, Ranges DEF InOrder, MayPrecede, News
  <2>5. \A i \in DOMAIN queue : queue[i] # Pong(seen.pongs + 1)
    BY <2>4, Ranges DEF Pong
  <2>6. hand.n = seen.pongs + 1
    BY <1>1, <2>3, <2>5 DEF OnTheWay, Pong
  <2>7. Feed!Answer
    BY <1>1, <1>2, <2>1, <2>2, <2>6 DEF Feed!Answer
  <2>8. QED
    BY <2>7 DEF Feed!Next
<1>6. CASE conn = "open" /\ hand.kind = "close"
  <2>1. seen' = [seen EXCEPT !.closed = TRUE]
    BY <1>1, <1>6 DEF Reach
  <2>2. closing
    BY <1>2, <1>6 DEF News, AllNews
  <2>3. Feed!CloseBack
    BY <1>1, <1>2, <2>1, <2>2 DEF Feed!CloseBack
  <2>4. QED
    BY <2>3 DEF Feed!Next
<1>7. QED
  BY <1>2, <1>3, <1>4, <1>5, <1>6

LEMMA FeedStep == SessionInv /\ [Next]_vars => [Feed!Next]_(Feed!vars)
<1> SUFFICES ASSUME SessionInv, [Next]_vars
             PROVE  [Feed!Next]_(Feed!vars)
  OBVIOUS
<1> USE DEF clientVars, loopVars, writerVars
<1>1. CASE Publish
  BY <1>1 DEF Publish, Feed!Publish, Feed!Next
<1>2. CASE ClientPing
  BY <1>2 DEF ClientPing, Feed!Ping, Feed!Next
<1>3. CASE ClientClose
  BY <1>3 DEF ClientClose, Feed!Close, Feed!Next
<1>4. CASE ClientOther \/ LoseConnection
  BY <1>4 DEF ClientOther, LoseConnection, Feed!vars
<1>5. CASE TimerFires \/ PushFrame \/ Join
  BY <1>5 DEF TimerFires, PushFrame, Join, Feed!vars
<1>6. CASE ReadStep
  BY <1>6 DEF ReadStep, ReadPing, ReadClose, ReadOther, ReadEnd, Receive, Feed!vars
<1>7. CASE Recv \/ RecvClosed \/ SendFail
  BY <1>7 DEF Recv, RecvClosed, SendFail, Feed!vars
<1>8. CASE SendOk
  BY <1>8, FeedSend
<1>9. CASE UNCHANGED vars
  BY <1>9 DEF vars, Feed!vars
<1>10. QED
  BY <1>1, <1>2, <1>3, <1>4, <1>5, <1>6, <1>7, <1>8, <1>9 DEF Next, WriterStep

\* To its client a session is a MetricsFeed: skipped snapshots at most, never a
\* pong too few, an old snapshot or a word after the close.
THEOREM Refinement == Spec => ImplementsMetricsFeed
<1>1. Init => Feed!Init
  BY FeedInit
<1>2. SessionInv /\ [Next]_vars => [Feed!Next]_(Feed!vars)
  BY FeedStep
<1>3. QED
  BY <1>1, <1>2, SessionInvariant, PTL DEF Spec, ImplementsMetricsFeed, Feed!Spec
=============================================================================
