---------------------------- MODULE ServicesProofs ----------------------------
(***************************************************************************)
(* Two services that POX offers its components, each by itself: the        *)
(* DeferredSender, which writes what a socket had no room for, and the     *)
(* DHCP server with its clients.                                           *)
(*                                                                         *)
(* Of the first, that no piece of a message is lost, doubled or overtaken  *)
(* between Connection.send and the thread of the DeferredSender, for every *)
(* number of connections, room in their sockets and number of messages.    *)
(*                                                                         *)
(* Of the second, that no address of the pool is lost and that a client    *)
(* which is bound has the address that the server keeps for it, for every  *)
(* pool, every number of clients, hosts, messages and faults and all       *)
(* timeouts.                                                               *)
(***************************************************************************)
EXTENDS DeferredSender, DHCP, FiniteSetTheorems, SequenceTheorems, WellFoundedInduction, TLAPS

(***************************************************************************)
(* The DeferredSender.                                                     *)
(***************************************************************************)
-----------------------------------------------------------------------------
\* The inductive invariant.

\* The pieces of c that are on their way, in the order they will be written.
InHand(c) == IF at = c THEN rest ELSE <<>>
InOrder(c) == written[c] \o queue[c] \o InHand(c) = [i \in 1..begun[c] |-> i]

\* What the flag promises: as long as it is down nothing is queued, so what is
\* written at once, and what is left of that, comes next; and while the sender
\* has connections to write to, or handles an event, it is up.
FlagHolds ==
  /\ waiting # {} => sender = "selecting"
  /\ waiting \cup ready # {} \/ sender = "entering" => sending
  /\ main = "writing" => ~sending /\ rest = <<>>
  /\ rest # <<>> => ~sending

\* The bound holds for the message the scheduler thread is about to send.
RoomForMessage == main \in {"writing", "deferring"} /\ rest = <<>> => begun[at] + 2 <= MaxSent

OrderInv == NothingLost /\ FlagHolds /\ RoomForMessage

-----------------------------------------------------------------------------
\* Pieces in order.
UpTo(n) == [i \in 1..n |-> i]

\* A message, or the half of one, follows the pieces before it.
LEMMA OneMoreMessage ==
  ASSUME NEW n \in Nat
  PROVE  /\ UpTo(n) \in Pieces /\ UpTo(n + 2) \in Pieces /\ <<n + 1, n + 2>> \in Pieces
         /\ UpTo(n) \o <<n + 1, n + 2>> = UpTo(n + 2)
         /\ (UpTo(n) \o <<n + 1>>) \o <<n + 2>> = UpTo(n + 2)
<1>1. UpTo(n) \in Pieces /\ Len(UpTo(n)) = n /\ <<n + 1, n + 2>> \in Pieces
/\ <<n + 1>> \in Pieces /\ <<n + 2>> \in Pieces
  BY DEF UpTo, Pieces
<1>2. UpTo(n + 2) \in Pieces /\ Len(UpTo(n + 2)) = n + 2
  BY DEF UpTo, Pieces
<1>3. UpTo(n) \o <<n + 1, n + 2>> = UpTo(n + 2)
  <2> DEFINE s == UpTo(n) \o <<n + 1, n + 2>>
  <2>1. s \in Seq(Nat) /\ Len(s) = n + 2
    BY <1>1 DEF Pieces
  <2>2. \A i \in 1..(n + 2) : s[i] = i
    BY <1>1 DEF UpTo, Pieces
  <2>3. \A i \in 1..(n + 2) : UpTo(n + 2)[i] = i
    BY DEF UpTo
  <2>4. QED
    BY <1>2, <2>1, <2>2, <2>3, SeqEqual DEF Pieces
<1>4. (UpTo(n) \o <<n + 1>>) \o <<n + 2>> = UpTo(n) \o <<n + 1, n + 2>>
  BY <1>1 DEF Pieces
<1>5. QED
  BY <1>1, <1>2, <1>3, <1>4

\* Pieces behind pieces.
LEMMA Behind ==
  ASSUME NEW a \in Pieces, NEW b \in Pieces, NEW c \in Pieces
  PROVE  (a \o b) \o c = a \o (b \o c)
BY ConcatAssociative DEF Pieces

\* Pieces behind pieces are pieces.
LEMMA BothAre ==
  ASSUME NEW a \in Pieces, NEW b \in Pieces
  PROVE  a \o b \in Pieces
BY ConcatProperties DEF Pieces

\* Nothing behind pieces.
LEMMA NoneBehind ==
  ASSUME NEW a \in Pieces
  PROVE  a \o <<>> = a
BY ConcatEmptySeq DEF Pieces

\* The first of the pieces, and the others.
LEMMA Parted ==
  ASSUME NEW s \in Pieces, NEW n \in 0..Len(s)
  PROVE  /\ SubSeq(s, 1, n) \in Pieces /\ SubSeq(s, n + 1, Len(s)) \in Pieces
         /\ SubSeq(s, 1, n) \o SubSeq(s, n + 1, Len(s)) = s
<1> USE DEF Pieces
<1>1. Len(s) \in Nat /\ 1 \in 1..Len(s) + 1 /\ n \in 1 - 1..Len(s) /\ Len(s) \in n..Len(s)
  OBVIOUS
<1>2. \A i \in 1..n : s[i] \in Nat
  BY <1>1
<1>3. \A i \in n + 1..Len(s) : s[i] \in Nat
  BY <1>1
<1>4. SubSeq(s, 1, n) \in Seq(Nat) /\ SubSeq(s, n + 1, Len(s)) \in Seq(Nat)
  BY <1>1, <1>2, <1>3, SubSeqProperties
<1>5. SubSeq(s, 1, n) \o SubSeq(s, n + 1, Len(s)) = s
  BY <1>1, ConcatAdjacentSubSeq, SubSeqFull
<1>6. QED
  BY <1>4, <1>5

\* What is left of a message is a sequence of pieces, and none when no message
\* is begun.
LEMMA InHandType ==
  ASSUME TypeOK, NEW c \in Conns
  PROVE  InHand(c) \in Pieces
BY DEF TypeOK, InHand, Pieces

-----------------------------------------------------------------------------
\* The invariant, part by part: each lemma takes the actions one by one.

\* TypeOK, by what its parts are about.
Sockets ==
  /\ raised \subseteq disconnected /\ closed \subseteq raised
  /\ dead \subseteq Conns /\ disconnected \subseteq dead
  /\ room \in [Conns -> 0..Room]
  /\ begun \in [Conns -> 0..MaxSent]
Queues ==
  /\ written \in [Conns -> Pieces] /\ queue \in [Conns -> Pieces] /\ rest \in Pieces
  /\ \A c \in Conns : queue[c] # <<>> => c \in keys
  /\ keys \subseteq Conns /\ sending \in BOOLEAN /\ (keys # {} => sending)
Threading ==
  /\ lock \in {"none", "sender"} /\ mutex \in Threads \cup {"none"}
  /\ main \in {"idle", "writing", "deferring", "entering"}
  /\ IF main \in {"writing", "deferring"} THEN at \in Conns ELSE at = NoConn /\ rest = <<>>
  /\ sender \in {"listing", "selecting", "locking", "writing", "entering", "ended"}
  /\ lock = "sender" <=> sender \in {"writing", "entering"}
  /\ waiting \cup ready \subseteq Conns

\* The parts are TypeOK.
LEMMA TypeParts == TypeOK <=> Sockets /\ Queues /\ Threading
BY DEF TypeOK, Sockets, Queues, Threading

\* Nothing is raised twice before it is found broken, and no bound is passed.
LEMMA SocketsStep ==
  ASSUME Bounds, OrderInv, [DeferredNext]_deferredVars
  PROVE  Sockets'
<1> USE DEF OrderInv, NothingLost
<1>1. ASSUME NEW c \in Conns, ReadSocket(c) PROVE Sockets'
  BY <1>1 DEF ReadSocket, TypeOK, Sockets, Bounds
<1>2. ASSUME NEW c \in Conns, Die(c) PROVE Sockets'
  BY <1>2 DEF Die, TypeOK, Sockets
<1>3. ASSUME NEW c \in Conns, BeginSend(c) PROVE Sockets'
  BY <1>3 DEF BeginSend, TypeOK, Sockets, socket_vars
<1>4. ASSUME NEW c \in Conns, Close(c) PROVE Sockets'
  BY <1>4 DEF Close, TypeOK, Sockets
<1>5. ASSUME NEW c \in Conns, Flush(c) PROVE Sockets'
  <2>1. PICK n \in Nat : n <= room[c] /\ room' = [room EXCEPT ![c] = room[c] - n]
    <3>1. queue[c] \in Seq(Nat) /\ room[c] \in Nat
      BY DEF TypeOK, Pieces, Bounds
    <3>2. Len(queue[c]) \in Nat
      BY <3>1
    <3>3. Least(Len(queue[c]), room[c]) \in Nat /\ Least(Len(queue[c]), room[c]) <= room[c]
      BY <3>1, <3>2 DEF Least
    <3>4. QED
      BY <1>5, <3>3 DEF Flush
  <2>2. room' \in [Conns -> 0..Room]
    BY <2>1 DEF TypeOK, Bounds
  <2>3. QED
    BY <1>5, <2>2 DEF Flush, TypeOK, Sockets
<1>6. ASSUME NEW c \in Conns, FlushFails(c) PROVE Sockets'
  BY <1>6 DEF FlushFails, TypeOK, Sockets
<1>7. ASSUME EnterHandler PROVE Sockets'
  BY <1>7 DEF EnterHandler, TypeOK, Sockets, socket_vars
<1>8. ASSUME LeaveHandler PROVE Sockets'
  BY <1>8 DEF LeaveHandler, TypeOK, Sockets, socket_vars
<1>9. ASSUME Write PROVE Sockets'
  <2>1. /\ at \in Conns /\ rest = <<>> /\ begun[at] + 2 <= MaxSent
        /\ room[at] \in 0..Room /\ begun[at] \in 0..MaxSent /\ MaxSent \in Nat /\ Room \in Nat
    BY <1>9 DEF Write, TypeOK, FlagHolds, RoomForMessage, Bounds
  <2>2. CASE at \in dead
    BY <1>9, <2>2 DEF Write, TypeOK, Sockets
  <2>3. CASE at \notin dead
    <3>1. PICK n \in {0, 1, 2} : /\ n <= room[at] /\ room' = [room EXCEPT ![at] = room[at] - n]
                                /\ begun' = [begun EXCEPT ![at] = IF n = 0 THEN begun[at] ELSE begun[at] + 2]
      BY <1>9, <2>1, <2>3 DEF Write, Least
    <3>2. begun' \in [Conns -> 0..MaxSent]
      BY <2>1, <3>1 DEF TypeOK
    <3>3. room' \in [Conns -> 0..Room]
      BY <2>1, <3>1 DEF TypeOK
    <3>4. QED
      BY <1>9, <2>3, <3>2, <3>3 DEF Write, TypeOK, Sockets
  <2>4. QED
    BY <2>2, <2>3
<1>10. ASSUME Defer PROVE Sockets'
  BY <1>10 DEF Defer, TypeOK, Sockets, RoomForMessage
<1>11. ASSUME List PROVE Sockets'
  BY <1>11 DEF List, TypeOK, Sockets, socket_vars
<1>12. ASSUME Select PROVE Sockets'
  BY <1>12 DEF Select, TypeOK, Sockets, socket_vars
<1>13. ASSUME Lock PROVE Sockets'
  BY <1>13 DEF Lock, TypeOK, Sockets, socket_vars
<1>14. ASSUME HandleOnSender PROVE Sockets'
  <2>1. ASSUME NEW c \in Conns, Sendable(c), begun' = [begun EXCEPT ![c] = begun[c] + 2]
        PROVE  begun' \in [Conns -> 0..MaxSent]
    BY <2>1 DEF Sendable, TypeOK
  <2>2. begun' \in [Conns -> 0..MaxSent]
    BY <1>14, <2>1 DEF HandleOnSender, TypeOK
  <2>3. QED
    BY <1>14, <2>2 DEF HandleOnSender, TypeOK, Sockets
<1>15. ASSUME Unlock PROVE Sockets'
  BY <1>15 DEF Unlock, TypeOK, Sockets, socket_vars
<1>16. CASE UNCHANGED deferredVars
  BY <1>16 DEF deferredVars, socket_vars, TypeOK, Sockets
<1>17. QED
  BY <1>1, <1>2, <1>3, <1>4, <1>5, <1>6, <1>7, <1>8, <1>9, <1>10, <1>11,
     <1>12, <1>13, <1>14, <1>15, <1>16 DEF DeferredNext, Main, Sender

\* A thread is at one place, and holds the lock where it needs it.
LEMMA ThreadingStep ==
  ASSUME Bounds, OrderInv, [DeferredNext]_deferredVars
  PROVE  Threading'
<1> USE DEF OrderInv, NothingLost
<1>1. ASSUME NEW c \in Conns, ReadSocket(c) PROVE Threading'
  BY <1>1 DEF ReadSocket, TypeOK, Threading, main_vars, sender_vars
<1>2. ASSUME NEW c \in Conns, Die(c) PROVE Threading'
  BY <1>2 DEF Die, TypeOK, Threading, main_vars, sender_vars
<1>3. ASSUME NEW c \in Conns, BeginSend(c) PROVE Threading'
  BY <1>3 DEF BeginSend, TypeOK, Threading, sender_vars
<1>4. ASSUME NEW c \in Conns, Close(c) PROVE Threading'
  BY <1>4 DEF Close, TypeOK, Threading, sender_vars
<1>5. ASSUME NEW c \in Conns, Flush(c) PROVE Threading'
  BY <1>5 DEF Flush, TypeOK, Threading, main_vars
<1>6. ASSUME NEW c \in Conns, FlushFails(c) PROVE Threading'
  BY <1>6 DEF FlushFails, TypeOK, Threading, main_vars
<1>7. ASSUME EnterHandler PROVE Threading'
  BY <1>7 DEF EnterHandler, TypeOK, Threading, Threads, sender_vars
<1>8. ASSUME LeaveHandler PROVE Threading'
  BY <1>8 DEF LeaveHandler, TypeOK, Threading, main_vars, sender_vars
<1>9. ASSUME Write PROVE Threading'
  BY <1>9 DEF Write, TypeOK, Threading, FlagHolds, sender_vars
<1>10. ASSUME Defer PROVE Threading'
  BY <1>10 DEF Defer, TypeOK, Threading, sender_vars
<1>11. ASSUME List PROVE Threading'
  BY <1>11 DEF List, TypeOK, Threading, main_vars
<1>12. ASSUME Select PROVE Threading'
  BY <1>12 DEF Select, TypeOK, Threading, main_vars
<1>13. ASSUME Lock PROVE Threading'
  BY <1>13 DEF Lock, TypeOK, Threading, main_vars
<1>14. ASSUME HandleOnSender PROVE Threading'
  BY <1>14 DEF HandleOnSender, TypeOK, Threading, main_vars
<1>15. ASSUME Unlock PROVE Threading'
  BY <1>15 DEF Unlock, TypeOK, Threading, main_vars
<1>16. CASE UNCHANGED deferredVars
  BY <1>16 DEF deferredVars, main_vars, sender_vars, TypeOK, Threading
<1>17. QED
  BY <1>1, <1>2, <1>3, <1>4, <1>5, <1>6, <1>7, <1>8, <1>9, <1>10, <1>11,
     <1>12, <1>13, <1>14, <1>15, <1>16 DEF DeferredNext, Main, Sender

\* What the flag promises holds.
LEMMA FlagStep ==
  ASSUME Bounds, OrderInv, [DeferredNext]_deferredVars
  PROVE  FlagHolds'
<1> USE DEF OrderInv, NothingLost
<1>1. ASSUME NEW c \in Conns, ReadSocket(c) PROVE FlagHolds'
  BY <1>1 DEF ReadSocket, FlagHolds, queue_vars, main_vars, sender_vars
<1>2. ASSUME NEW c \in Conns, Die(c) PROVE FlagHolds'
  BY <1>2 DEF Die, FlagHolds, queue_vars, main_vars, sender_vars
<1>3. ASSUME NEW c \in Conns, BeginSend(c) PROVE FlagHolds'
  BY <1>3 DEF BeginSend, TypeOK, FlagHolds, queue_vars, sender_vars
<1>4. ASSUME NEW c \in Conns, Close(c) PROVE FlagHolds'
  BY <1>4 DEF Close, FlagHolds, queue_vars, sender_vars
<1>5. ASSUME NEW c \in Conns, Flush(c) PROVE FlagHolds'
  <2>1. waiting = {} /\ waiting' = waiting /\ sender' = sender /\ sender = "writing"
  /\ UNCHANGED <<main, rest>>
    BY <1>5 DEF Flush, FlagHolds, main_vars
  <2>2. sending' => sending
    BY <1>5 DEF Flush
  <2>3. ~sending' => ready' = {}
    BY <1>5 DEF Flush
  <2>4. QED
    BY <2>1, <2>2, <2>3 DEF FlagHolds
<1>6. ASSUME NEW c \in Conns, FlushFails(c) PROVE FlagHolds'
  BY <1>6 DEF FlushFails, FlagHolds, main_vars
<1>7. ASSUME EnterHandler PROVE FlagHolds'
  BY <1>7 DEF EnterHandler, FlagHolds, queue_vars, sender_vars
<1>8. ASSUME LeaveHandler PROVE FlagHolds'
  BY <1>8 DEF LeaveHandler, FlagHolds, queue_vars, main_vars, sender_vars
<1>9. ASSUME Write PROVE FlagHolds'
  BY <1>9 DEF Write, FlagHolds, queue_vars, sender_vars
<1>10. ASSUME Defer PROVE FlagHolds'
  BY <1>10 DEF Defer, FlagHolds, sender_vars
<1>11. ASSUME List PROVE FlagHolds'
  BY <1>11 DEF List, TypeOK, FlagHolds, queue_vars, main_vars
<1>12. ASSUME Select PROVE FlagHolds'
  BY <1>12 DEF Select, FlagHolds, queue_vars, main_vars
<1>13. ASSUME Lock PROVE FlagHolds'
  BY <1>13 DEF Lock, FlagHolds, queue_vars, main_vars
<1>14. ASSUME HandleOnSender PROVE FlagHolds'
  BY <1>14 DEF HandleOnSender, FlagHolds, main_vars
<1>15. ASSUME Unlock PROVE FlagHolds'
  BY <1>15 DEF Unlock, FlagHolds, queue_vars, main_vars
<1>16. CASE UNCHANGED deferredVars
  BY <1>16 DEF deferredVars, queue_vars, main_vars, sender_vars, FlagHolds
<1>17. QED
  BY <1>1, <1>2, <1>3, <1>4, <1>5, <1>6, <1>7, <1>8, <1>9, <1>10, <1>11,
     <1>12, <1>13, <1>14, <1>15, <1>16 DEF DeferredNext, Main, Sender

\* A message is begun with its room, and no other takes it.
LEMMA RoomStep ==
  ASSUME Bounds, OrderInv, [DeferredNext]_deferredVars
  PROVE  RoomForMessage'
<1> USE DEF OrderInv, NothingLost
<1>1. ASSUME NEW c \in Conns, ReadSocket(c) PROVE RoomForMessage'
  BY <1>1 DEF ReadSocket, RoomForMessage, main_vars
<1>2. ASSUME NEW c \in Conns, Die(c) PROVE RoomForMessage'
  BY <1>2 DEF Die, RoomForMessage, main_vars
<1>3. ASSUME NEW c \in Conns, BeginSend(c) PROVE RoomForMessage'
  BY <1>3 DEF BeginSend, RoomForMessage, Sendable, socket_vars
<1>4. ASSUME NEW c \in Conns, Close(c) PROVE RoomForMessage'
  BY <1>4 DEF Close, RoomForMessage
<1>5. ASSUME NEW c \in Conns, Flush(c) PROVE RoomForMessage'
  BY <1>5 DEF Flush, RoomForMessage, main_vars
<1>6. ASSUME NEW c \in Conns, FlushFails(c) PROVE RoomForMessage'
  BY <1>6 DEF FlushFails, RoomForMessage, main_vars
<1>7. ASSUME EnterHandler PROVE RoomForMessage'
  BY <1>7 DEF EnterHandler, RoomForMessage
<1>8. ASSUME LeaveHandler PROVE RoomForMessage'
  BY <1>8 DEF LeaveHandler, RoomForMessage, main_vars
<1>9. ASSUME Write PROVE RoomForMessage'
  BY <1>9 DEF Write, TypeOK, FlagHolds, RoomForMessage, Least
<1>10. ASSUME Defer PROVE RoomForMessage'
  BY <1>10 DEF Defer, RoomForMessage
<1>11. ASSUME List PROVE RoomForMessage'
  BY <1>11 DEF List, RoomForMessage, socket_vars, main_vars
<1>12. ASSUME Select PROVE RoomForMessage'
  BY <1>12 DEF Select, RoomForMessage, socket_vars, main_vars
<1>13. ASSUME Lock PROVE RoomForMessage'
  BY <1>13 DEF Lock, RoomForMessage, socket_vars, main_vars
<1>14. ASSUME HandleOnSender PROVE RoomForMessage'
  <2>1. UNCHANGED <<main, at, rest>>
    BY <1>14 DEF HandleOnSender, main_vars
  <2>2. ASSUME NEW c \in Conns, c = at => begun[c] + 4 <= MaxSent, at \in Conns,
               begun' = [begun EXCEPT ![c] = begun[c] + 2], begun[at] + 2 <= MaxSent
        PROVE  begun'[at] + 2 <= MaxSent
    BY <2>2 DEF TypeOK
  <2>3. CASE main \in {"writing", "deferring"} /\ rest = <<>>
    <3>1. at \in Conns /\ begun[at] + 2 <= MaxSent
      BY <2>3 DEF RoomForMessage, TypeOK
    <3>2. QED
      BY <1>14, <2>1, <2>2, <3>1 DEF HandleOnSender, RoomForMessage
  <2>4. QED
    BY <2>1, <2>3 DEF RoomForMessage
<1>15. ASSUME Unlock PROVE RoomForMessage'
  BY <1>15 DEF Unlock, RoomForMessage, socket_vars, main_vars
<1>16. CASE UNCHANGED deferredVars
  BY <1>16 DEF deferredVars, socket_vars, main_vars, RoomForMessage
<1>17. QED
  BY <1>1, <1>2, <1>3, <1>4, <1>5, <1>6, <1>7, <1>8, <1>9, <1>10, <1>11,
     <1>12, <1>13, <1>14, <1>15, <1>16 DEF DeferredNext, Main, Sender

\* What is queued is kept for its connection, with the flag up.
LEMMA QueuesStep ==
  ASSUME Bounds, OrderInv, [DeferredNext]_deferredVars
  PROVE  Queues'
<1> USE DEF OrderInv, NothingLost
<1>1. ASSUME NEW c \in Conns, ReadSocket(c) PROVE Queues'
  BY <1>1 DEF ReadSocket, TypeOK, Queues, queue_vars, main_vars
<1>2. ASSUME NEW c \in Conns, Die(c) PROVE Queues'
  BY <1>2 DEF Die, TypeOK, Queues, queue_vars, main_vars
<1>3. ASSUME NEW c \in Conns, BeginSend(c) PROVE Queues'
  BY <1>3 DEF BeginSend, TypeOK, Queues, socket_vars, queue_vars
<1>4. ASSUME NEW c \in Conns, Close(c) PROVE Queues'
  BY <1>4 DEF Close, TypeOK, Queues, queue_vars
<1>5. ASSUME NEW c \in Conns, Flush(c) PROVE Queues'
  <2> DEFINE n == Least(Len(queue[c]), room[c])
  <2>1. queue[c] \in Pieces /\ written[c] \in Pieces /\ room[c] \in Nat /\ Len(queue[c]) \in Nat
    BY DEF TypeOK, Bounds, Pieces
  <2>2. n \in 0..Len(queue[c])
    BY <2>1 DEF Least
  <2>3. SubSeq(queue[c], 1, n) \in Pieces /\ SubSeq(queue[c], n + 1, Len(queue[c])) \in Pieces
    BY <2>1, <2>2, Parted
  <2>4. written[c] \o SubSeq(queue[c], 1, n) \in Pieces
    BY <2>1, <2>3 DEF Pieces
  <2>5. written' \in [Conns -> Pieces] /\ queue' \in [Conns -> Pieces]
    BY <1>5, <2>3, <2>4 DEF Flush, TypeOK
  <2>6. \A e \in Conns : queue'[e] # <<>> => e \in keys'
    BY <1>5 DEF Flush, TypeOK
  <2>7. keys' \subseteq keys /\ sending' = (sending /\ keys' # {}) /\ rest' = rest
    BY <1>5 DEF Flush, main_vars
  <2>8. sending' \in BOOLEAN /\ (keys' # {} => sending')
    BY <2>7 DEF TypeOK
  <2>9. QED
    BY <2>5, <2>6, <2>7, <2>8 DEF TypeOK, Queues
<1>6. ASSUME NEW c \in Conns, FlushFails(c) PROVE Queues'
  <2>1. queue' \in [Conns -> Pieces]
    BY <1>6 DEF FlushFails, TypeOK, Pieces
  <2>2. \A e \in Conns : queue'[e] # <<>> => e \in keys'
    BY <1>6 DEF FlushFails, TypeOK
  <2>3. QED
    BY <1>6, <2>1, <2>2 DEF FlushFails, TypeOK, Queues, main_vars
<1>7. ASSUME EnterHandler PROVE Queues'
  BY <1>7 DEF EnterHandler, TypeOK, Queues, socket_vars, queue_vars
<1>8. ASSUME LeaveHandler PROVE Queues'
  BY <1>8 DEF LeaveHandler, TypeOK, Queues, socket_vars, queue_vars, main_vars
<1>9. ASSUME Write PROVE Queues'
  <2>1. at \in Conns /\ rest = <<>> /\ UNCHANGED <<queue, keys, sending>>
    BY <1>9 DEF Write, TypeOK, FlagHolds, queue_vars
  <2>2. begun[at] \in Nat /\ <<begun[at] + 2>> \in Pieces /\ <<>> \in Pieces /\ NextMessage(at) \in Pieces
        /\ Len(NextMessage(at)) = 2
    BY <2>1 DEF TypeOK, Pieces, NextMessage
  <2>3. rest' \in Pieces
    BY <1>9, <2>1, <2>2 DEF Write
  <2>4. written' \in [Conns -> Pieces]
    <3>1. Least(2, room[at]) \in 0..2
      BY <2>1 DEF Least, TypeOK
    <3>2. SubSeq(NextMessage(at), 1, Least(2, room[at])) \in Pieces
      BY <2>2, <3>1, Parted
    <3>3. written[at] \o SubSeq(NextMessage(at), 1, Least(2, room[at])) \in Pieces
      BY <2>1, <3>2 DEF TypeOK, Pieces
    <3>4. written' \in {written, [written EXCEPT ![at] =
                                    written[at] \o SubSeq(NextMessage(at), 1, Least(2, room[at]))]}
      BY <1>9 DEF Write
    <3>5. QED
      BY <2>1, <3>3, <3>4 DEF TypeOK
  <2>5. QED
    BY <2>1, <2>3, <2>4 DEF TypeOK, Queues
<1>10. ASSUME Defer PROVE Queues'
  <2>1. at \in Conns /\ rest \in Pieces /\ NextMessage(at) \in Pieces /\ <<>> \in Pieces
    BY <1>10 DEF Defer, TypeOK, NextMessage, Pieces
  <2>2. queue[at] \o (IF rest = <<>> THEN NextMessage(at) ELSE rest) \in Pieces
    BY <2>1 DEF TypeOK, Pieces
  <2>3. queue' \in [Conns -> Pieces]
    BY <1>10, <2>2 DEF Defer, TypeOK
  <2>4. \A c \in Conns : queue'[c] # <<>> => c \in keys'
    BY <1>10, <2>1 DEF Defer, TypeOK
  <2>5. QED
    BY <1>10, <2>1, <2>3, <2>4 DEF Defer, TypeOK, Queues
<1>11. ASSUME List PROVE Queues'
  BY <1>11 DEF List, TypeOK, Queues, socket_vars, queue_vars, main_vars
<1>12. ASSUME Select PROVE Queues'
  BY <1>12 DEF Select, TypeOK, Queues, socket_vars, queue_vars, main_vars
<1>13. ASSUME Lock PROVE Queues'
  BY <1>13 DEF Lock, TypeOK, Queues, socket_vars, queue_vars, main_vars
<1>14. ASSUME HandleOnSender PROVE Queues'
  <2>1. UNCHANGED <<written, rest, sending>> /\ sending
    BY <1>14 DEF HandleOnSender, main_vars, FlagHolds
  <2>2. ASSUME NEW c \in Conns, queue' = [queue EXCEPT ![c] = queue[c] \o NextMessage(c)], keys' = keys \cup {c}
        PROVE  Queues'
    <3>1. queue[c] \in Pieces /\ NextMessage(c) \in Pieces
      BY DEF TypeOK, Pieces, NextMessage, Bounds
    <3>2. queue' \in [Conns -> Pieces]
      BY <2>2, <3>1 DEF TypeOK, Pieces
    <3>3. \A e \in Conns : queue'[e] # <<>> => e \in keys'
      BY <2>2 DEF TypeOK
    <3>4. QED
      BY <2>1, <2>2, <3>2, <3>3 DEF TypeOK, Queues
  <2>3. CASE UNCHANGED <<begun, queue, keys>>
    BY <2>1, <2>3 DEF TypeOK, Queues
  <2>4. QED
    BY <1>14, <2>2, <2>3 DEF HandleOnSender
<1>15. ASSUME Unlock PROVE Queues'
  BY <1>15 DEF Unlock, TypeOK, Queues, socket_vars, queue_vars, main_vars
<1>16. CASE UNCHANGED deferredVars
  BY <1>16 DEF deferredVars, socket_vars, queue_vars, main_vars, TypeOK, Queues
<1>17. QED
  BY <1>1, <1>2, <1>3, <1>4, <1>5, <1>6, <1>7, <1>8, <1>9, <1>10, <1>11,
     <1>12, <1>13, <1>14, <1>15, <1>16 DEF DeferredNext, Main, Sender

\* Every step keeps the types.
LEMMA TypeStep ==
  ASSUME Bounds, OrderInv, [DeferredNext]_deferredVars
  PROVE  TypeOK'
<1>1. Sockets' /\ Queues' /\ Threading'
  BY SocketsStep, QueuesStep, ThreadingStep
<1>2. QED
  BY <1>1, TypeParts, PTL

\* A message comes behind what is queued.
LEMMA MessageQueued ==
  ASSUME NEW e \in Conns, InOrder(e), begun[e] \in Nat, written[e] \in Pieces, queue[e] \in Pieces,
         InHand(e) = <<>>, InHand(e)' = <<>>, written'[e] = written[e],
         queue'[e] = queue[e] \o NextMessage(e), begun'[e] = begun[e] + 2
  PROVE  InOrder(e)'
<1> DEFINE s == begun[e]
<1>1. written[e] \o queue[e] = UpTo(s)
  <2>1. (written[e] \o queue[e]) \o <<>> = written[e] \o queue[e]
    BY BothAre, NoneBehind
  <2>2. QED
    BY <2>1 DEF InOrder, UpTo
<1>2. NextMessage(e) \in Pieces /\ UpTo(s) \o NextMessage(e) = UpTo(s + 2) /\ UpTo(s + 2) \in Pieces
  BY OneMoreMessage DEF NextMessage
<1>3. written[e] \o (queue[e] \o NextMessage(e)) = (written[e] \o queue[e]) \o NextMessage(e)
  BY <1>2, Behind, Zenon
<1>4. UpTo(s + 2) \o <<>> = UpTo(s + 2)
  BY <1>2, NoneBehind
<1>5. QED
  BY <1>1, <1>2, <1>3, <1>4 DEF InOrder, UpTo

\* No action disturbs the order of the pieces of a connection.
LEMMA Undisturbed ==
  ASSUME NEW e \in Conns, InOrder(e), written'[e] = written[e], queue'[e] = queue[e],
         begun'[e] = begun[e], InHand(e)' = InHand(e)
  PROVE  InOrder(e)'
BY DEF InOrder

\* What a socket takes of a message: nothing, the first piece or both.
LEMMA TakenFromQueue ==
  ASSUME NEW a \in Nat, NEW b \in Nat
  PROVE  /\ SubSeq(<<a, b>>, 1, 0) = <<>>
         /\ SubSeq(<<a, b>>, 1, 1) = <<a>>
         /\ SubSeq(<<a, b>>, 1, 2) = <<a, b>>
<1> DEFINE s == <<a, b>>
<1>1. s \in Seq(Nat) /\ Len(s) = 2 /\ s[1] = a
  OBVIOUS
<1>2. SubSeq(s, 1, 0) = <<>>
  BY SubSeqEmpty
<1>3. SubSeq(s, 1, 2) = s
  BY <1>1, SubSeqFull
<1>4. SubSeq(s, 1, 1) = <<a>>
  <2>1. \A i \in 1..1 : s[i] \in Nat
    BY <1>1
  <2>2. /\ SubSeq(s, 1, 1) \in Seq(Nat) /\ Len(SubSeq(s, 1, 1)) = 1
        /\ SubSeq(s, 1, 1)[1] = s[1]
    BY <2>1, SubSeqProperties
  <2>3. <<a>> \in Seq(Nat) /\ Len(<<a>>) = 1 /\ <<a>>[1] = a
    OBVIOUS
  <2>4. \A i \in 1..1 : SubSeq(s, 1, 1)[i] = <<a>>[i]
    BY <1>1, <2>2, <2>3
  <2>5. QED
    BY <2>2, <2>3, <2>4, SeqEqual
<1>5. QED
  BY <1>2, <1>3, <1>4

\* A piece is added behind those that are on their way, and none is taken from
\* between them.
LEMMA InOrderStep ==
  ASSUME Bounds, OrderInv, [DeferredNext]_deferredVars, NEW e \in Conns \ (dead' \cup disconnected')
  PROVE  InOrder(e)'
<1> USE DEF OrderInv, NothingLost
<1>1. e \notin dead /\ e \notin disconnected
  BY DEF DeferredNext, Main, Sender, ReadSocket, Die, EnterHandler, LeaveHandler, BeginSend, Write, Defer, Close,
     List,
     Select, Lock, Flush, FlushFails, HandleOnSender, Unlock, deferredVars, socket_vars
<1>2. /\ InOrder(e) /\ e # NoConn /\ begun[e] \in Nat
      /\ written[e] \in Pieces /\ queue[e] \in Pieces /\ InHand(e) \in Pieces
  <2>1. InOrder(e)
    BY <1>1 DEF InOrder, InHand
  <2>2. e # NoConn /\ begun[e] \in Nat
    BY DEF Bounds, TypeOK
  <2>3. written[e] \in Pieces /\ queue[e] \in Pieces
    BY DEF TypeOK
  <2>4. QED
    BY <2>1, <2>2, <2>3, InHandType
<1>3. ASSUME UNCHANGED <<written, queue, begun, at, rest>> PROVE InOrder(e)'
  BY <1>2, <1>3, Undisturbed DEF InHand
<1>4. ASSUME NEW c \in Conns, BeginSend(c) PROVE InOrder(e)'
  <2>1. rest = <<>> /\ rest' = <<>> /\ UNCHANGED <<written, queue, begun>>
    BY <1>4 DEF BeginSend, TypeOK, socket_vars, queue_vars
  <2>2. QED
    BY <1>2, <2>1, Undisturbed DEF InHand
<1>5. ASSUME Write PROVE InOrder(e)'
  <2>1. at \in Conns /\ rest = <<>> /\ queue[at] = <<>> /\ queue' = queue
    BY <1>5 DEF Write, TypeOK, FlagHolds, queue_vars
  <2>2. CASE e # at
    BY <1>2, <1>5, <2>1, <2>2, Undisturbed DEF Write, InHand, TypeOK
  <2>3. CASE e = at
    <3> DEFINE s == begun[at]
               n == Least(2, room[at])
    <3>1. written[at] = UpTo(s) /\ s \in Nat /\ at \notin dead /\ at # NoConn
      <4>1. written[at] \o <<>> \o <<>> = written[at]
        BY <1>2, <2>3, NoneBehind
      <4>2. QED
        BY <1>1, <1>2, <2>1, <2>3, <4>1 DEF InOrder, InHand, UpTo
    <3>2. /\ written'[at] = UpTo(s) \o SubSeq(<<s + 1, s + 2>>, 1, n)
          /\ begun'[at] = (IF n = 0 THEN s ELSE s + 2)
          /\ rest' = (IF n = 1 THEN <<s + 2>> ELSE <<>>) /\ at' = (IF n = 2 THEN NoConn ELSE at)
      <4>1. /\ written' = [written EXCEPT ![at] = written[at] \o SubSeq(NextMessage(at), 1, n)]
            /\ begun' = [begun EXCEPT ![at] = IF n = 0 THEN begun[at] ELSE begun[at] + 2]
            /\ rest' = (IF n = 1 THEN <<s + 2>> ELSE <<>>) /\ at' = (IF n = 2 THEN NoConn ELSE at)
        BY <1>5, <3>1 DEF Write
      <4>2. QED
        BY <2>1, <3>1, <4>1 DEF TypeOK, NextMessage
    <3>3. n \in {0, 1, 2}
      BY <2>1 DEF Least, TypeOK
    <3> HIDE DEF n
    <3>4. InHand(e)' = rest'
      BY <1>2, <2>3, <3>1, <3>2, <3>3 DEF InHand
    <3>5. UpTo(s) \in Pieces
      BY <3>1, OneMoreMessage
    <3>6. CASE n = 0
      <4>1. SubSeq(<<s + 1, s + 2>>, 1, n) = <<>>
        BY <3>1, <3>6, TakenFromQueue
      <4>2. (UpTo(s) \o <<>>) \o <<>> \o <<>> = UpTo(s)
        BY <3>5, NoneBehind
      <4>3. QED
        BY <2>1, <2>3, <3>1, <3>2, <3>4, <3>6, <4>1, <4>2 DEF InOrder, UpTo
    <3>7. CASE n = 1
      <4>1. SubSeq(<<s + 1, s + 2>>, 1, n) = <<s + 1>>
        BY <3>1, <3>7, TakenFromQueue
      <4>2. (UpTo(s) \o <<s + 1>>) \o <<>> = UpTo(s) \o <<s + 1>>
        <5>1. <<s + 1>> \in Pieces
          BY <3>1 DEF Pieces
        <5>2. QED
          BY <3>5, <5>1, BothAre, NoneBehind
      <4>3. (UpTo(s) \o <<s + 1>>) \o <<>> \o <<s + 2>> = UpTo(s + 2)
        BY <3>1, <4>2, OneMoreMessage
      <4>4. /\ written'[at] = UpTo(s) \o <<s + 1>> /\ queue'[at] = <<>>
            /\ InHand(e)' = <<s + 2>> /\ begun'[at] = s + 2
        BY <2>1, <3>2, <3>4, <3>7, <4>1
      <4>5. QED
        BY <2>3, <4>3, <4>4 DEF InOrder, UpTo
    <3>8. CASE n = 2
      <4>1. SubSeq(<<s + 1, s + 2>>, 1, n) = <<s + 1, s + 2>>
        BY <3>1, <3>8, TakenFromQueue, SMTT(20)
      <4>2. UpTo(s + 2) \o <<>> \o <<>> = UpTo(s + 2) /\ UpTo(s) \o <<s + 1, s + 2>> = UpTo(s + 2)
        <5>1. UpTo(s + 2) \in Pieces /\ UpTo(s) \o <<s + 1, s + 2>> = UpTo(s + 2)
          BY <3>1, OneMoreMessage
        <5>2. QED
          BY <5>1, NoneBehind
      <4>3. /\ written'[at] = UpTo(s + 2) /\ queue'[at] = <<>>
            /\ InHand(e)' = <<>> /\ begun'[at] = s + 2
        <5>1. written'[at] = UpTo(s + 2)
          BY <3>2, <3>8, <4>1, <4>2
        <5>2. queue'[at] = <<>> /\ InHand(e)' = <<>> /\ begun'[at] = s + 2
          BY <2>1, <3>2, <3>4, <3>8
        <5>3. QED
          BY <5>1, <5>2
      <4>4. QED
        BY <2>3, <4>2, <4>3 DEF InOrder, UpTo
    <3>9. QED
      BY <3>3, <3>6, <3>7, <3>8
  <2>4. QED
    BY <2>2, <2>3
<1>6. ASSUME Defer PROVE InOrder(e)'
  <2>1. at \in Conns /\ UNCHANGED written /\ at' = NoConn
    BY <1>6 DEF Defer, TypeOK
  <2>2. CASE e # at
    BY <1>2, <1>6, <2>2, Undisturbed DEF Defer, InHand
  <2>3. CASE e = at
    <3>1. InHand(at) = rest /\ InHand(e)' = <<>>
      BY <1>2, <1>6, <2>1, <2>3 DEF InHand, Defer
    <3>2. CASE rest = <<>>
      <4>1. queue'[at] = queue[at] \o NextMessage(at) /\ begun'[at] = begun[at] + 2
        BY <1>6, <2>1, <3>2 DEF Defer, TypeOK
      <4>2. InHand(e) = <<>> /\ InHand(e)' = <<>> /\ written'[e] = written[e]
        BY <2>1, <2>3, <3>1, <3>2
      <4>3. QED
        BY <1>2, <2>3, <4>1, <4>2, MessageQueued
    <3>3. CASE rest # <<>>
      <4>1. queue'[at] = queue[at] \o rest /\ begun'[at] = begun[at]
        BY <1>6, <2>1, <3>3 DEF Defer, TypeOK
      <4>2. written[at] \in Pieces /\ queue[at] \in Pieces /\ rest \in Pieces
        BY <1>2, <2>3, <3>1
      <4>3. (written[at] \o queue[at]) \o rest = written[at] \o (queue[at] \o rest)
        BY <4>2, Behind, ZenonT(30)
      <4>4. (written[at] \o (queue[at] \o rest)) \o <<>> = written[at] \o (queue[at] \o rest)
        BY <4>2, BothAre, NoneBehind
      <4>5. (written[at] \o queue[at]) \o rest = UpTo(begun[at])
        BY <1>2, <2>3, <3>1 DEF InOrder, UpTo
      <4>6. (written'[at] \o queue'[at]) \o InHand(e)' = UpTo(begun'[at])
        BY <2>1, <3>1, <4>1, <4>3, <4>4, <4>5
      <4>7. QED
        BY <2>3, <4>6 DEF InOrder, UpTo
    <3>4. QED
      BY <3>2, <3>3
  <2>4. QED
    BY <2>2, <2>3
<1>7. ASSUME NEW c \in Conns, Flush(c) PROVE InOrder(e)'
  <2>1. UNCHANGED <<begun, at, rest>> /\ InHand(e)' = InHand(e)
    BY <1>7 DEF Flush, InHand, main_vars
  <2>2. CASE e # c
    BY <1>2, <1>7, <2>1, <2>2, Undisturbed DEF Flush
  <2>3. CASE e = c
    <3> DEFINE n == Least(Len(queue[c]), room[c])
    <3>1. room[c] \in Nat /\ Len(queue[c]) \in Nat
      BY <1>2, <2>3 DEF TypeOK, Pieces
    <3>2. n \in 0..Len(queue[c])
      BY <3>1 DEF Least
    <3>3. /\ written'[c] = written[c] \o SubSeq(queue[c], 1, n)
          /\ queue'[c] = SubSeq(queue[c], n + 1, Len(queue[c]))
      BY <1>7 DEF Flush, TypeOK
    <3> HIDE DEF n
    <3>4. /\ SubSeq(queue[c], 1, n) \in Pieces /\ SubSeq(queue[c], n + 1, Len(queue[c])) \in Pieces
          /\ SubSeq(queue[c], 1, n) \o SubSeq(queue[c], n + 1, Len(queue[c])) = queue[c]
      BY <1>2, <2>3, <3>2, Parted
    <3>5. written'[c] \o queue'[c] = written[c] \o queue[c]
      <4> DEFINE first == SubSeq(queue[c], 1, n)
                 others == SubSeq(queue[c], n + 1, Len(queue[c]))
      <4>1. written[c] \in Pieces /\ first \in Pieces /\ others \in Pieces
        BY <1>2, <2>3, <3>4
      <4>2. first \o others = queue[c] /\ written'[c] = written[c] \o first /\ queue'[c] = others
        BY <3>3, <3>4
      <4> HIDE DEF first, others
      <4>3. (written[c] \o first) \o others = written[c] \o (first \o others)
        BY <4>1, Behind, ZenonT(30)
      <4>4. QED
        BY <4>2, <4>3
    <3>6. QED
      BY <1>2, <2>1, <2>3, <3>5 DEF InOrder
  <2>4. QED
    BY <2>2, <2>3
<1>8. ASSUME NEW c \in Conns, FlushFails(c) PROVE InOrder(e)'
  <2>1. e # c
    BY <1>1, <1>8 DEF FlushFails
  <2>2. QED
    BY <1>2, <1>8, <2>1, Undisturbed DEF FlushFails, InHand, main_vars
<1>9. ASSUME HandleOnSender PROVE InOrder(e)'
  <2>1. UNCHANGED <<written, at, rest>> /\ rest = <<>> /\ InHand(e)' = InHand(e)
    BY <1>9 DEF HandleOnSender, FlagHolds, InHand, main_vars
  <2>2. CASE UNCHANGED <<begun, queue, keys>>
    BY <1>3, <2>1, <2>2
  <2>3. ASSUME NEW c \in Conns, begun' = [begun EXCEPT ![c] = begun[c] + 2],
               queue' = [queue EXCEPT ![c] = queue[c] \o NextMessage(c)]
        PROVE  InOrder(e)'
    <3>1. CASE e # c
      BY <1>2, <2>1, <2>3, <3>1, Undisturbed
    <3>2. CASE e = c
      <4>1. InHand(e) = <<>> /\ InHand(e)' = <<>> /\ queue'[e] = queue[e] \o NextMessage(e)
      /\ begun'[e] = begun[e] + 2
        BY <2>1, <2>3, <3>2 DEF InHand, TypeOK
      <4>2. QED
        BY <1>2, <2>1, <4>1, MessageQueued
    <3>3. QED
      BY <3>1, <3>2
  <2>4. QED
    BY <1>9, <2>2, <2>3 DEF HandleOnSender
<1>10. ASSUME NEW c \in Conns, ReadSocket(c) \/ Die(c) \/ Close(c) PROVE InOrder(e)'
  BY <1>3, <1>10 DEF ReadSocket, Die, Close, queue_vars, main_vars
<1>11. ASSUME EnterHandler \/ LeaveHandler \/ List \/ Select \/ Lock \/ Unlock PROVE InOrder(e)'
  BY <1>3, <1>11 DEF EnterHandler, LeaveHandler, List, Select, Lock, Unlock, socket_vars,
     queue_vars, main_vars
<1>12. CASE UNCHANGED deferredVars
  BY <1>3, <1>12 DEF deferredVars, socket_vars, queue_vars, main_vars
<1>13. QED
  BY <1>4, <1>5, <1>6, <1>7, <1>8, <1>9, <1>10, <1>11, <1>12 DEF DeferredNext, Main, Sender

\* Nothing has been begun at first.
LEMMA OrderInit == Bounds /\ DeferredInit => OrderInv
<1> SUFFICES ASSUME Bounds, DeferredInit PROVE OrderInv
  OBVIOUS
<1>1. <<>> \in Pieces /\ UpTo(0) \in Pieces /\ UpTo(0) = <<>>
  <2>1. UpTo(0) \in Seq(Nat) /\ Len(UpTo(0)) = 0
    BY DEF UpTo
  <2>2. QED
    BY <2>1, EmptySeq DEF Pieces
<1>2. TypeOK
  <2>1. Sockets
    BY DEF DeferredInit, Sockets, Bounds
  <2>2. Queues
    BY <1>1 DEF DeferredInit, Queues
  <2>3. Threading
    BY DEF DeferredInit, Threading, Threads
  <2>4. QED
    BY <2>1, <2>2, <2>3, TypeParts
<1>3. ASSUME NEW c \in Conns PROVE InOrder(c)
  <2>1. written[c] = <<>> /\ queue[c] = <<>> /\ InHand(c) = <<>> /\ begun[c] = 0
    BY DEF DeferredInit, InHand
  <2>2. <<>> \o <<>> \o <<>> = <<>>
    BY <1>1, NoneBehind
  <2>3. QED
    BY <1>1, <2>1, <2>2 DEF InOrder, UpTo
<1>4. FlagHolds /\ RoomForMessage
  BY DEF DeferredInit, FlagHolds, RoomForMessage
<1>5. QED
  BY <1>2, <1>3, <1>4 DEF OrderInv, NothingLost, InOrder, InHand

\* Every piece of every message to a connected switch is written, queued or
\* about to be, once and in order, whichever thread writes it: whatever the
\* sockets take, whichever switch breaks, and whoever handles that.
THEOREM NoPieceIsLost ==
  ASSUME Bounds
  PROVE  DeferredSpec => []NothingLost
<1>1. DeferredInit => OrderInv
  BY OrderInit
<1>2. OrderInv /\ [DeferredNext]_deferredVars => OrderInv'
  <2> SUFFICES ASSUME OrderInv, [DeferredNext]_deferredVars PROVE OrderInv'
    OBVIOUS
  <2>1. TypeOK' /\ FlagHolds' /\ RoomForMessage'
    BY TypeStep, FlagStep, RoomStep
  <2>2. \A c \in Conns \ (dead' \cup disconnected') : InOrder(c)'
    BY InOrderStep
  <2>3. QED
    BY <2>1, <2>2 DEF OrderInv, NothingLost, InOrder, InHand
<1>3. OrderInv => NothingLost
  BY DEF OrderInv
<1>4. QED
  BY <1>1, <1>2, <1>3, PTL DEF DeferredSpec

(***************************************************************************)
(* The DHCP server and its clients.                                        *)
(***************************************************************************)
(* ------------------------------ the inductive invariant ------------------------------ *)
Answers == {"none", "accept", "reject"}
ServerType ==
  /\ removed \subseteq Addrs
  /\ offered \in [Macs -> Addrs \union {None}] /\ leases \in [Macs -> Addrs \union {None}]
  /\ net \subseteq [type : {"discover", "offer", "request", "ack", "release"}, mac : Macs,
                    xid : {"last", "old"}, addr : Addrs \union {None}]

\* A host's offer and lease are of one address, and what has left the pool is somebody's.
Accounted ==
  /\ \A m \in Macs : None \in {offered[m], leases[m]} \/ offered[m] = leases[m]
  /\ removed \subseteq InUse \union {Own}

\* What the other hosts send.
Wants(h) == {m \in net : m.mac = h}
HostsAsk ==
  \A h \in OtherHosts : \A m \in Wants(h) :
    /\ m.type \in {"discover", "request", "release"}
    /\ m.type # "discover" => m.addr # None

\* The server keeps the address of a client for good: what a client is told, asks for and is
\* bound to is that address, however old the message.
ClientMessages ==
  \A m \in net : m.mac \in Clients =>
    /\ m.type # "release"
    /\ m.type # "discover" => m.addr \in Held(m.mac)
    /\ m.type = "discover" => m.addr = None
Told(k, told) ==
  /\ DOMAIN k = DOMAIN New
  /\ k.requested \in told \union {None} /\ k.bound \in told \union {None}
  /\ k.offers \in Seq([addr : told, accept : Answers])
ClientsTold == \A c \in Clients : Told(client[c], Held(c)) /\ client[c].sends = "nothing"

LeaseInv ==
  /\ ServerType /\ Accounted /\ HostsAsk /\ ClientMessages /\ ClientsTold
  /\ DOMAIN client = Clients

(* ------------------------------ operators ------------------------------ *)
\* A set of numbers that is not empty has a least one.
LEMMA LeastNumber ==
  ASSUME NEW T, T \subseteq Nat, T # {}
  PROVE  \E d \in T : \A e \in T : d <= e
<1> DEFINE R == OpToRel(<, Nat)
<1>1. PICK d \in T : \A e \in T : <<e, d>> \notin R
  BY NatLessThanWellFounded, WFMin
<1>2. \A e \in T : <<e, d>> \in R <=> e < d
  BY DEF OpToRel
<1> HIDE DEF R
<1>3. \A e \in T : ~(e < d)
  BY <1>1, <1>2
<1>4. QED
  BY <1>3

\* The search that starts further on goes through the whole pool.
LEMMA Around ==
  ASSUME Count \in Nat, NEW start \in 0..Count - 1, NEW a \in Addrs
  PROVE  \E d \in 0..Count - 1 : ((start + d) % Count) + 1 = a
<1>1. \A n \in 0..Count - 1 : n % Count = n /\ (n + Count) % Count = n
  OBVIOUS
<1> DEFINE R(n) == n % Count
<1>2. \A n \in 0..Count - 1 : R(n) = n /\ R(n + Count) = n
  BY <1>1
<1>3. SUFFICES \E d \in 0..Count - 1 : R(start + d) = a - 1
  BY DEF Addrs
<1> HIDE DEF R
<1>4. CASE a > start
  <2>1. a - 1 - start \in 0..Count - 1 /\ start + (a - 1 - start) = a - 1 /\ a - 1 \in 0..Count - 1
    BY <1>4 DEF Addrs
  <2>2. R(start + (a - 1 - start)) = a - 1
    BY <1>2, <2>1
  <2>3. QED
    BY <2>1, <2>2
<1>5. CASE ~(a > start)
  <2>1. /\ a - 1 - start + Count \in 0..Count - 1 /\ a - 1 \in 0..Count - 1
        /\ start + (a - 1 - start + Count) = (a - 1) + Count
    BY <1>5 DEF Addrs
  <2>2. R(start + (a - 1 - start + Count)) = a - 1
    BY <1>2, <2>1
  <2>3. QED
    BY <2>1, <2>2
<1>6. QED
  BY <1>4, <1>5

\* What the pool gives first belongs to it.
LEMMA FirstOfPool ==
  ASSUME DHCPShape, NEW s, s.removed \subseteq Addrs, Pool(s) # {}
  PROVE  First(s) \in Pool(s)
<1> DEFINE start == Cardinality(s.removed) % Count
           place(d) == ((start + d) % Count) + 1
           free == {d \in 0..Count - 1 : place(d) \in Pool(s)}
<1>1. Count \in Nat \ {0}
  BY DEF DHCPShape, Pool, Addrs
<1>2. Cardinality(s.removed) \in Nat
  <2>1. IsFiniteSet(Addrs)
    BY <1>1, FS_Interval DEF Addrs
  <2>2. IsFiniteSet(s.removed)
    BY <2>1, FS_Subset
  <2>3. QED
    BY <2>2, FS_CardinalityType
<1>3. start \in 0..Count - 1
  BY <1>1, <1>2
<1>4. PICK a \in Addrs : a \in Pool(s)
  BY DEF Pool
<1> HIDE DEF start
<1>5. \E d \in 0..Count - 1 : place(d) = a
  BY <1>1, <1>3, Around
<1>6. free # {} /\ free \subseteq Nat
  BY <1>1, <1>4, <1>5
<1>7. PICK d \in free : \A e \in free : d <= e
  BY <1>6, LeastNumber
<1>8. (CHOOSE x \in free : \A e \in free : x <= e) \in free
  BY <1>7
<1>9. First(s) = place(CHOOSE x \in free : \A e \in free : x <= e)
  BY DEF First, start
<1>10. QED
  BY <1>8, <1>9

\* One host has at most one address: so do the sets that the property counts.
LEMMA OneAddress ==
  ASSUME NEW m \in Macs
  PROVE  Cardinality(Held(m)) <= 1 <=> None \in {offered[m], leases[m]} \/ offered[m] = leases[m]
<1>1. CASE None \in {offered[m], leases[m]} \/ offered[m] = leases[m]
  <2>1. Held(m) = {} \/ Held(m) = {offered[m]} \/ Held(m) = {leases[m]}
    BY <1>1 DEF Held
  <2>2. Cardinality(Held(m)) = 0 \/ Cardinality(Held(m)) = 1
    BY <2>1, FS_EmptySet, FS_Singleton
  <2>3. QED
    BY <1>1, <2>2
<1>2. CASE ~(None \in {offered[m], leases[m]} \/ offered[m] = leases[m])
  <2>1. Held(m) = {offered[m], leases[m]} /\ offered[m] # leases[m]
    BY <1>2 DEF Held
  <2>2. IsFiniteSet({leases[m]}) /\ Cardinality({leases[m]}) = 1 /\ offered[m] \notin {leases[m]}
    BY <2>1, FS_Singleton
  <2>3. Held(m) = {leases[m]} \union {offered[m]}
    BY <2>1
  <2>4. Cardinality(Held(m)) = 2
    BY <2>2, <2>3, FS_AddElement, SMTT(20)
  <2>5. QED
    BY <1>2, <2>4
<1>3. QED
  BY <1>1, <1>2

\* Pieces of a client's memory stay good when there is more to know.
LEMMA ToldMore ==
  ASSUME NEW k, NEW A, NEW B, Told(k, A), A \subseteq B
  PROVE  Told(k, B)
<1>1. k.offers \in Seq([addr : A, accept : Answers]) => k.offers \in Seq([addr : B, accept : Answers])
  <2> DEFINE SA == [addr : A, accept : Answers]
             SB == [addr : B, accept : Answers]
  <2>1. SA \subseteq SB
    OBVIOUS
  <2> HIDE DEF SA, SB
  <2>2. \A q : q \in Seq(SA) => q \in Seq(SB)
    BY <2>1
  <2>3. QED
    BY <2>2 DEF SA, SB
<1>2. QED
  BY <1>1 DEF Told

(* ------------------------------ the server ------------------------------ *)
\* What a message of mac makes of its entries: no other address than those leaves the pool, and
\* one that it has no more is there.
Outcome(mac, x, y) ==
  /\ offered' = [offered EXCEPT ![mac] = x] /\ leases' = [leases EXCEPT ![mac] = y]
  /\ {x, y} \subseteq Addrs \union {None}
  /\ None \in {x, y} \/ x = y
  /\ removed' \subseteq Addrs
  /\ removed' \subseteq (removed \ Held(mac)) \union ({x, y} \ {None})

\* Nobody else is concerned by it.
LEMMA OutcomeKeeps ==
  ASSUME ServerType, Accounted, NEW mac \in Macs, NEW x, NEW y, Outcome(mac, x, y)
  PROVE  /\ Accounted'
         /\ removed' \subseteq Addrs
         /\ offered' \in [Macs -> Addrs \union {None}] /\ leases' \in [Macs -> Addrs \union {None}]
         /\ Held(mac)' = {x, y} \ {None}
         /\ \A n \in Macs : n # mac => Held(n)' = Held(n)
<1>1. /\ offered' \in [Macs -> Addrs \union {None}] /\ leases' \in [Macs -> Addrs \union {None}]
      /\ offered'[mac] = x /\ leases'[mac] = y
      /\ \A n \in Macs : n # mac => offered'[n] = offered[n] /\ leases'[n] = leases[n]
  BY DEF Outcome, ServerType
<1>2. Held(mac)' = {x, y} \ {None}
  BY <1>1 DEF Held
<1>3. \A n \in Macs : n # mac => Held(n)' = Held(n)
  BY <1>1 DEF Held
<1>4. \A a : /\ a \in InUse <=> \E n \in Macs : a \in Held(n)
             /\ a \in InUse' <=> \E n \in Macs : a \in Held(n)'
  BY DEF InUse
<1>5. ASSUME NEW a \in removed' PROVE a \in InUse' \union {Own}
  <2>1. CASE a \in Held(mac)'
    BY <1>4, <2>1
  <2>2. CASE a \in removed \ Held(mac)
    BY <1>3, <1>4, <2>2 DEF Accounted
  <2>3. QED
    BY <1>2, <1>5, <2>1, <2>2 DEF Outcome
<1>6. \A m \in Macs : None \in {offered'[m], leases'[m]} \/ offered'[m] = leases'[m]
  BY <1>1 DEF Accounted, Outcome
<1>7. QED
  BY <1>1, <1>2, <1>3, <1>5, <1>6 DEF Accounted, Outcome

\* What every answer of the server comes to; the address of a client stays.
Outcomes(m, x, y) ==
  /\ Outcome(m.mac, x, y)
  /\ m.mac \in Clients => Held(m.mac) \subseteq {x, y}
  /\ \A r \in net' : r \in net \/ \E type \in {"offer", "ack"}, addr \in {x, y} \ {None} :
       r = Msg(type, m.mac, "last", addr) /\ m.mac \in Clients
  /\ net \subseteq net'
  /\ UNCHANGED <<client, connected, faults>>

\* Replies that are waited for.
LEMMA Replies ==
  ASSUME NEW type, NEW mac, NEW xid, NEW addr
  PROVE  /\ {r \in {} : Awaited(r)} = {}
         /\ {r \in {Msg("nak", mac, xid, addr)} : Awaited(r)} = {}
         /\ \A m \in {r \in {Msg(type, mac, xid, addr)} : Awaited(r)} :
              m = Msg(type, mac, "last", addr) /\ mac \in Clients
BY DEF Awaited, Msg

\* A discovery.
LEMMA Discovered ==
  ASSUME DHCPShape, LeaseInv, NEW m \in net, m.type = "discover", NEW vetoed, Serve(m, vetoed)
  PROVE  \E x, y \in Addrs \union {None} : Outcomes(m, x, y)
<1> DEFINE mac == m.mac
           a == exec_discover(Server, m)
<1>1. /\ mac \in Macs /\ m.addr \in Addrs \union {None} /\ removed \subseteq Addrs
      /\ offered[mac] \in Addrs \union {None} /\ leases[mac] \in Addrs \union {None}
      /\ None \in {offered[mac], leases[mac]} \/ offered[mac] = leases[mac]
      /\ None \notin Addrs
      /\ offered \in [Macs -> Addrs \union {None}] /\ leases \in [Macs -> Addrs \union {None}]
  BY DEF LeaseInv, ServerType, Accounted, Addrs, None
<1>2. /\ removed' = a.server.removed /\ offered' = a.server.offered /\ leases' = a.server.leases
      /\ net' = net \union {r \in a.reply : Awaited(r)}
      /\ UNCHANGED <<client, connected, faults>>
  BY DEF Serve
<1>3. CASE leases[mac] # None
  <2>1. /\ a.server.removed = removed /\ a.server.offered = [offered EXCEPT ![mac] = leases[mac]]
        /\ a.server.leases = [leases EXCEPT ![mac] = None]
        /\ a.reply = {Msg("offer", mac, m.xid, leases[mac])}
    BY <1>3 DEF exec_discover, Server, Answer
  <2>2. Held(mac) = {leases[mac]}
    BY <1>1, <1>3 DEF Held
  <2>3. Outcome(mac, leases[mac], None)
    BY <1>1, <1>2, <2>1, <2>2 DEF Outcome
  <2>4. QED
    BY <1>1, <1>2, <1>3, <2>1, <2>2, <2>3, Replies DEF Outcomes
<1>4. CASE leases[mac] = None /\ offered[mac] # None
  <2>1. /\ a.server.removed = removed /\ a.server.offered = [offered EXCEPT ![mac] = offered[mac]]
        /\ a.server.leases = leases
        /\ a.reply = {Msg("offer", mac, m.xid, offered[mac])}
    BY <1>4 DEF exec_discover, Server, Answer
  <2>2. Held(mac) = {offered[mac]} /\ leases = [leases EXCEPT ![mac] = None]
    BY <1>1, <1>4 DEF Held
  <2>3. Outcome(mac, offered[mac], None)
    BY <1>1, <1>2, <1>4, <2>1, <2>2 DEF Outcome
  <2>4. QED
    BY <1>1, <1>2, <1>4, <2>1, <2>2, <2>3, Replies DEF Outcomes
<1>5. CASE leases[mac] = None /\ offered[mac] = None
  <2>1. Held(mac) = {} /\ leases = [leases EXCEPT ![mac] = None]
    BY <1>1, <1>5 DEF Held
  <2>2. Pool(Server) = Addrs \ removed
    BY DEF Pool, Server
  <2>3. CASE Pool(Server) = {}
    <3>1. /\ a.server.removed = removed /\ a.server.offered = offered /\ a.server.leases = leases
          /\ a.reply = {Msg("nak", mac, m.xid, None)}
      BY <1>5, <2>3 DEF exec_discover, Server, Answer
    <3>2. offered = [offered EXCEPT ![mac] = None]
      BY <1>1, <1>5
    <3>3. Outcome(mac, None, None)
      BY <1>1, <1>2, <2>1, <3>1, <3>2 DEF Outcome
    <3>4. net' = net
      BY <1>2, <3>1, Replies
    <3>5. QED
      BY <1>1, <1>2, <2>1, <3>3, <3>4 DEF Outcomes
  <2>4. CASE Pool(Server) # {}
    <3> DEFINE offer == IF m.addr \in Pool(Server) THEN m.addr ELSE First(Server)
    <3>1. offer \in Addrs \ removed
      BY <1>1, <2>2, <2>4, FirstOfPool DEF Server
    <3>2. /\ a.server.removed = removed \union {offer}
          /\ a.server.offered = [offered EXCEPT ![mac] = offer] /\ a.server.leases = leases
          /\ a.reply = {Msg("offer", mac, m.xid, offer)}
      BY <1>5, <2>4 DEF exec_discover, Server, Answer, Taken
    <3> HIDE DEF offer
    <3>3. Outcome(mac, offer, None)
      BY <1>1, <1>2, <2>1, <3>1, <3>2 DEF Outcome
    <3>4. QED
      BY <1>1, <1>2, <2>1, <3>1, <3>2, <3>3, Replies DEF Outcomes
  <2>5. QED
    BY <2>3, <2>4
<1>6. QED
  BY <1>3, <1>4, <1>5

\* A request of the address that the host has, or of another: then the lease goes back first, and
\* after it the offer, of which append() may complain.
LEMMA Requested ==
  ASSUME DHCPShape, LeaseInv, NEW m \in net, m.type = "request", NEW vetoed, Serve(m, vetoed)
  PROVE  \E x, y \in Addrs \union {None} : Outcomes(m, x, y)
<1> DEFINE mac == m.mac
           wanted == m.addr
           a == exec_request(Server, m, vetoed)
           nak == {Msg("nak", mac, m.xid, None)}
           ack == {Msg("ack", mac, m.xid, wanted)}
<1>1. /\ mac \in Macs /\ removed \subseteq Addrs
      /\ offered[mac] \in Addrs \union {None} /\ leases[mac] \in Addrs \union {None}
      /\ None \in {offered[mac], leases[mac]} \/ offered[mac] = leases[mac]
      /\ None \notin Addrs
      /\ offered \in [Macs -> Addrs \union {None}] /\ leases \in [Macs -> Addrs \union {None}]
      /\ mac \in Clients \/ mac \in OtherHosts
  BY DEF LeaseInv, ServerType, Accounted, Addrs, None, Macs
<1>2. /\ removed' = a.server.removed /\ offered' = a.server.offered /\ leases' = a.server.leases
      /\ net' = net \union {r \in a.reply : Awaited(r)}
      /\ UNCHANGED <<client, connected, faults>>
  BY DEF Serve
<1>3. wanted \in Addrs /\ (mac \in Clients => wanted \in Held(mac))
  <2>1. wanted \in Addrs \union {None}
    BY DEF LeaseInv, ServerType
  <2>2. mac \in Clients => wanted \in Held(mac)
    BY DEF LeaseInv, ClientMessages
  <2>3. mac \in OtherHosts => wanted # None
    BY DEF LeaseInv, HostsAsk, Wants
  <2>4. QED
    BY <1>1, <2>1, <2>2, <2>3 DEF Held
<1>4. CASE leases[mac] = wanted
  <2>1. /\ a.server.removed = removed /\ a.server.offered = offered
        /\ a.server.leases = [leases EXCEPT ![mac] = wanted]
        /\ a.reply = nak \/ a.reply = ack
    BY <1>3, <1>4 DEF exec_request, Server, Answer, Raises
  <2>2. offered = [offered EXCEPT ![mac] = offered[mac]]
    BY <1>1
  <2>3. Held(mac) = {offered[mac], wanted} \ {None}
    BY <1>4 DEF Held
  <2>4. Outcome(mac, offered[mac], wanted)
    BY <1>1, <1>2, <1>3, <1>4, <2>1, <2>2, <2>3 DEF Outcome
  <2>5. QED
    BY <1>1, <1>2, <1>3, <1>4, <2>1, <2>3, <2>4, Replies DEF Outcomes
<1>5. CASE leases[mac] = None /\ offered[mac] = wanted
  <2>1. /\ a.server.removed = removed /\ a.server.offered = offered
        /\ a.server.leases = [leases EXCEPT ![mac] = wanted]
        /\ a.reply = nak \/ a.reply = ack
    BY <1>1, <1>3, <1>5 DEF exec_request, Server, Answer, Raises, Returned
  <2>2. offered = [offered EXCEPT ![mac] = offered[mac]]
    BY <1>1
  <2>3. Held(mac) = {wanted}
    BY <1>1, <1>3, <1>5 DEF Held
  <2>4. Outcome(mac, wanted, wanted)
    BY <1>1, <1>2, <1>3, <1>5, <2>1, <2>2, <2>3 DEF Outcome
  <2>5. QED
    BY <1>1, <1>2, <1>3, <1>5, <2>1, <2>3, <2>4, Replies DEF Outcomes
<1>6. CASE leases[mac] # wanted /\ offered[mac] # wanted
  <2> DEFINE none == [leases EXCEPT ![mac] = None]
             back1 == removed \ {leases[mac]}
             back == back1 \ {offered[mac]}
             s1 == [Returned(Server, mac, Server.leases, wanted) EXCEPT !.leases[mac] = None]
             s2 == [Returned(s1, mac, Server.offered, wanted) EXCEPT !.offered[mac] = None]
             raises == Raises(Server, mac, Server.leases, wanted)
             raises1 == Raises(s1, mac, Server.offered, wanted)
  <2>1. Held(mac) = {offered[mac], leases[mac]} \ {None} /\ removed \ Held(mac) = back /\ mac \notin Clients
    BY <1>1, <1>3, <1>6 DEF Held
  <2>2. s1 = [removed |-> back1, offered |-> offered, leases |-> none]
    <3> DEFINE r1 == Returned(Server, mac, Server.leases, wanted)
    <3>1. r1 = [removed |-> back1, offered |-> offered, leases |-> leases]
      <4>1. CASE leases[mac] = None
        BY <1>1, <4>1 DEF Returned, Server
      <4>2. CASE leases[mac] # None
        <5>1. r1 = [Server EXCEPT !.removed = back1]
          BY <1>6, <4>2 DEF Returned, Back, Server
        <5> HIDE DEF r1
        <5>2. QED
          BY <5>1 DEF Server
      <4>3. QED
        BY <4>1, <4>2
    <3>2. s1 = [r1 EXCEPT !.leases[mac] = None]
      OBVIOUS
    <3> HIDE DEF s1, r1
    <3>3. s1 = [r1 EXCEPT !.leases = none]
      BY <3>1, <3>2
    <3>4. QED
      BY <3>1, <3>3
  <2>3. s2 = [removed |-> back, offered |-> [offered EXCEPT ![mac] = None], leases |-> none]
    <3> DEFINE r2 == Returned(s1, mac, Server.offered, wanted)
               freed == [offered EXCEPT ![mac] = None]
    <3>0. Server.offered = offered
      BY DEF Server
    <3>1. s2 = [r2 EXCEPT !.offered[mac] = None]
      OBVIOUS
    <3> HIDE DEF s1, s2
    <3>2. r2 = [removed |-> back, offered |-> offered, leases |-> none]
      <4>1. CASE offered[mac] = None
        <5>1. back = back1 /\ r2 = s1
          BY <1>1, <2>2, <3>0, <4>1 DEF Returned
        <5>2. QED
          BY <2>2, <5>1
      <4>2. CASE offered[mac] # None
        <5>1. r2 = [s1 EXCEPT !.removed = back]
          BY <1>6, <2>2, <3>0, <4>2 DEF Returned, Back
        <5> HIDE DEF r2
        <5>2. QED
          BY <2>2, <5>1
      <4>3. QED
        BY <4>1, <4>2
    <3> HIDE DEF r2
    <3>3. s2 = [r2 EXCEPT !.offered = freed]
      BY <3>1, <3>2
    <3>4. QED
      BY <3>2, <3>3
  <2>4. Server.removed = removed /\ Server.offered = offered /\ Server.leases = leases
    BY DEF Server
  <2>5. Server.leases[mac] # wanted /\ Server.offered[mac] # wanted
    BY <1>6, <2>4
  <2>6. a = IF raises THEN Answer(Server, {})
            ELSE IF raises1 THEN Answer(s1, {})
            ELSE IF wanted \notin Pool(s2) THEN Answer(s2, nak)
            ELSE Answer([Taken(s2, wanted) EXCEPT !.leases[mac] = wanted],
                        IF vetoed THEN nak ELSE ack)
    <3> HIDE DEF Server
    <3>1. QED
      BY <2>5 DEF exec_request
  <2>7. wanted \notin Pool(s2) <=> wanted \in back
    BY <1>3, <2>3 DEF Pool
  <2> HIDE DEF s1, s2, raises, raises1, a
  <2>8. CASE raises
    <3>1. a.server = Server /\ a.reply = {}
      BY <2>6, <2>8 DEF Answer
    <3>2. /\ removed' = removed /\ offered' = offered /\ leases' = leases
          /\ offered = [offered EXCEPT ![mac] = offered[mac]]
          /\ leases = [leases EXCEPT ![mac] = leases[mac]]
      BY <1>1, <1>2, <2>4, <3>1
    <3>3. Outcome(mac, offered[mac], leases[mac])
      BY <1>1, <2>1, <3>2 DEF Outcome
    <3>4. net' = net
      BY <1>2, <3>1
    <3>5. QED
      BY <1>1, <1>2, <2>1, <3>3, <3>4 DEF Outcomes
  <2>9. CASE ~raises /\ raises1
    <3>1. a.server = s1 /\ a.reply = {}
      BY <2>6, <2>9 DEF Answer
    <3>2. /\ removed' = back1 /\ offered' = offered /\ leases' = none
          /\ offered = [offered EXCEPT ![mac] = offered[mac]]
      BY <1>1, <1>2, <2>2, <3>1
    <3>3. Outcome(mac, offered[mac], None)
      BY <1>1, <2>1, <3>2 DEF Outcome
    <3>4. net' = net
      BY <1>2, <3>1
    <3>5. QED
      BY <1>1, <1>2, <2>1, <3>3, <3>4 DEF Outcomes
  <2>10. CASE ~raises /\ ~raises1 /\ wanted \in back
    <3>1. a.server = s2 /\ a.reply = nak
      BY <2>6, <2>7, <2>10 DEF Answer
    <3>2. removed' = back /\ offered' = [offered EXCEPT ![mac] = None] /\ leases' = none
      BY <1>2, <2>3, <3>1
    <3>3. Outcome(mac, None, None)
      BY <1>1, <2>1, <3>2 DEF Outcome
    <3>4. net' = net
      BY <1>2, <3>1, Replies
    <3>5. QED
      BY <1>1, <1>2, <2>1, <3>3, <3>4 DEF Outcomes
  <2>11. CASE ~raises /\ ~raises1 /\ wanted \notin back
    <3> DEFINE freed == [offered EXCEPT ![mac] = None]
               given == [leases EXCEPT ![mac] = wanted]
               t == Taken(s2, wanted)
               s4 == [t EXCEPT !.leases[mac] = wanted]
    <3>1. a = Answer(s4, IF vetoed THEN nak ELSE ack)
      BY <2>6, <2>7, <2>11
    <3> HIDE DEF nak, ack
    <3>2. t = [removed |-> back \union {wanted}, offered |-> freed, leases |-> none]
      BY <2>3 DEF Taken
    <3> HIDE DEF t
    <3>3. s4 = [t EXCEPT !.leases = given]
      BY <3>2
    <3> HIDE DEF s4
    <3>4. s4 = [removed |-> back \union {wanted}, offered |-> freed, leases |-> given]
      BY <3>2, <3>3
    <3>5. /\ removed' = back \union {wanted} /\ offered' = freed /\ leases' = given
          /\ a.reply = nak \/ a.reply = ack
      BY <1>2, <3>1, <3>4 DEF Answer
    <3>6. Outcome(mac, None, wanted)
      BY <1>1, <1>3, <2>1, <3>5 DEF Outcome
    <3>7. QED
      BY <1>1, <1>2, <1>3, <2>1, <3>5, <3>6, Replies DEF Outcomes, nak, ack
  <2>12. QED
    BY <2>8, <2>9, <2>10, <2>11
<1>7. QED
  BY <1>1, <1>3, <1>4, <1>5, <1>6

\* A release, which only other hosts send: the offer stays, and it may be of the same address.
LEMMA Released ==
  ASSUME DHCPShape, LeaseInv, NEW m \in net, m.type = "release", NEW vetoed, Serve(m, vetoed)
  PROVE  \E x, y \in Addrs \union {None} : Outcomes(m, x, y)
<1> DEFINE mac == m.mac
           a == exec_release(Server, m)
<1>1. /\ mac \in Macs /\ removed \subseteq Addrs
      /\ offered[mac] \in Addrs \union {None} /\ leases[mac] \in Addrs \union {None}
      /\ None \in {offered[mac], leases[mac]} \/ offered[mac] = leases[mac]
      /\ None \notin Addrs
      /\ offered \in [Macs -> Addrs \union {None}] /\ leases \in [Macs -> Addrs \union {None}]
  BY DEF LeaseInv, ServerType, Accounted, Addrs, None
<1>2. /\ removed' = a.server.removed /\ offered' = a.server.offered /\ leases' = a.server.leases
      /\ net' = net \union {r \in a.reply : Awaited(r)}
      /\ UNCHANGED <<client, connected, faults>>
  BY DEF Serve
<1>3. mac \notin Clients /\ m.addr # None
  BY <1>1 DEF LeaseInv, ClientMessages, HostsAsk, Wants, Macs
<1>4. a.reply = {} /\ a.server.offered = offered /\ offered = [offered EXCEPT ![mac] = offered[mac]]
  BY <1>1 DEF exec_release, Server, Answer, Back
<1>5. net' = net
  BY <1>2, <1>4
<1>6. Held(mac) = {offered[mac], leases[mac]} \ {None}
  BY DEF Held
<1>7. CASE leases[mac] # m.addr
  <2>1. /\ a.server.removed = removed /\ a.server.leases = leases
        /\ leases = [leases EXCEPT ![mac] = leases[mac]]
    BY <1>1, <1>7 DEF exec_release, Server, Answer
  <2>2. Outcome(mac, offered[mac], leases[mac])
    BY <1>1, <1>2, <1>4, <1>6, <2>1 DEF Outcome
  <2>3. QED
    BY <1>1, <1>2, <1>3, <1>5, <2>2 DEF Outcomes
<1>8. CASE leases[mac] = m.addr
  <2>1. a.server.removed = removed \ {m.addr} /\ a.server.leases = [leases EXCEPT ![mac] = None]
    BY <1>8 DEF exec_release, Server, Answer, Back
  <2>2. Outcome(mac, offered[mac], None)
    BY <1>1, <1>2, <1>4, <1>6, <1>8, <2>1 DEF Outcome
  <2>3. QED
    BY <1>1, <1>2, <1>3, <1>5, <2>2 DEF Outcomes
<1>9. QED
  BY <1>7, <1>8

\* The invariant is kept by the server.
LEMMA ServeKeeps ==
  ASSUME DHCPShape, LeaseInv, NEW m \in net, NEW vetoed, Serve(m, vetoed)
  PROVE  LeaseInv'
<1> DEFINE mac == m.mac
<1>1. PICK x, y \in Addrs \union {None} : Outcomes(m, x, y)
  <2>1. m.type \in {"discover", "request", "release"}
    BY DEF Serve
  <2>2. QED
    BY <2>1, Discovered, Requested, Released
<1>2. mac \in Macs /\ Outcome(mac, x, y) /\ ServerType /\ Accounted
  BY <1>1 DEF Outcomes, LeaseInv, ServerType
<1>3. /\ Accounted'
      /\ removed' \subseteq Addrs
      /\ offered' \in [Macs -> Addrs \union {None}] /\ leases' \in [Macs -> Addrs \union {None}]
      /\ Held(mac)' = {x, y} \ {None}
      /\ \A n \in Macs : n # mac => Held(n)' = Held(n)
  BY <1>2, OutcomeKeeps
<1>4. \A c \in Clients : Held(c) \subseteq Held(c)'
  <2>1. mac \in Clients => Held(mac) \subseteq Held(mac)'
    BY <1>1, <1>3 DEF Outcomes, Held
  <2>2. QED
    BY <1>3, <2>1 DEF Macs
<1>5. /\ \A r \in net' : r \in net \/ \E type \in {"offer", "ack"}, addr \in {x, y} \ {None} :
           r = Msg(type, mac, "last", addr) /\ mac \in Clients
      /\ net \subseteq net'
  BY <1>1 DEF Outcomes
<1>6. ServerType'
  <2>1. \A type \in {"offer", "ack"}, addr \in {x, y} \ {None} :
          Msg(type, mac, "last", addr) \in
            [type : {"discover", "offer", "request", "ack", "release"}, mac : Macs,
             xid : {"last", "old"}, addr : Addrs \union {None}]
    BY <1>2 DEF Msg
  <2>2. QED
    BY <1>2, <1>3, <1>5, <2>1 DEF ServerType
<1>7. HostsAsk'
  <2>1. ASSUME NEW h \in OtherHosts PROVE Wants(h)' = Wants(h)
    <3>1. h \notin Clients
      BY DEF DHCPShape
    <3>2. QED
      BY <1>5, <3>1 DEF Wants, Msg
  <2>2. QED
    BY <2>1 DEF LeaseInv, HostsAsk
<1>8. ClientMessages'
  <2>1. ASSUME NEW r \in net', r.mac \in Clients
        PROVE  /\ r.type # "release" /\ (r.type # "discover" => r.addr \in Held(r.mac)')
               /\ (r.type = "discover" => r.addr = None)
    <3>1. CASE r \in net
      BY <1>4, <2>1, <3>1 DEF LeaseInv, ClientMessages
    <3>2. CASE r \notin net
      <4>1. PICK type \in {"offer", "ack"}, addr \in {x, y} \ {None} : r = Msg(type, mac, "last", addr)
        BY <1>5, <3>2
      <4>2. r.type = type /\ r.addr = addr /\ r.mac = mac
        BY <4>1 DEF Msg
      <4>3. QED
        BY <1>3, <4>2
    <3>3. QED
      BY <3>1, <3>2
  <2>2. QED
    BY <2>1 DEF ClientMessages
<1>9. ClientsTold' /\ DOMAIN client' = Clients
  <2>1. client' = client
    BY <1>1 DEF Outcomes
  <2>2. ASSUME NEW c \in Clients PROVE Told(client[c], Held(c)') /\ client[c].sends = "nothing"
    BY <1>4, ToldMore DEF LeaseInv, ClientsTold
  <2>3. QED
    BY <2>1, <2>2 DEF LeaseInv, ClientsTold, Told
<1>10. QED
  BY <1>3, <1>6, <1>7, <1>8, <1>9 DEF LeaseInv

(* ------------------------------ the clients ------------------------------ *)
Message == [type : {"discover", "offer", "request", "ack", "release"}, mac : Macs,
            xid : {"last", "old"}, addr : Addrs \union {None}]
\* A message of a client, or for it.
Proper(r, c) ==
  /\ r \in Message /\ r.mac = c /\ r.type # "release"
  /\ r.type # "discover" => r.addr \in Held(c)
  /\ r.type = "discover" => r.addr = None

\* A step of a client leaves the server and the other hosts alone.
LEMMA ClientKeeps ==
  ASSUME DHCPShape, LeaseInv, NEW c \in Clients, UNCHANGED serverVars,
         \A r \in net' : r \in net \/ Proper(r, c),
         \A r \in net : r.mac # c => r \in net',
         DOMAIN client' = Clients,
         \A d \in Clients : Told(client'[d], Held(d)) /\ client'[d].sends = "nothing"
  PROVE  LeaseInv'
<1>1. removed' = removed /\ offered' = offered /\ leases' = leases
  BY DEF serverVars
<1>2. \A m : Held(m)' = Held(m)
  BY <1>1 DEF Held
<1>3. InUse' = InUse
  BY <1>2 DEF InUse
<1>4. Accounted'
  BY <1>1, <1>2, <1>3 DEF LeaseInv, Accounted
<1>5. ServerType'
  BY <1>1 DEF LeaseInv, ServerType, Proper, Message
<1>6. \A h \in OtherHosts : Wants(h)' = Wants(h)
  <2>1. \A h \in OtherHosts : h # c
    BY DEF DHCPShape
  <2>2. QED
    BY <2>1 DEF Wants, Proper
<1>7. HostsAsk'
  BY <1>6 DEF LeaseInv, HostsAsk
<1>8. ClientMessages'
  BY <1>2 DEF LeaseInv, ClientMessages, Proper
<1>9. ClientsTold'
  BY <1>2 DEF ClientsTold, Told
<1>10. QED
  BY <1>4, <1>5, <1>7, <1>8, <1>9 DEF LeaseInv

\* Messages that are old already are no others than before.
LEMMA AgedMessages ==
  ASSUME LeaseInv, NEW c \in Clients, NEW asked, NEW answered
  PROVE  /\ \A r \in Aged(c, asked, answered) : r \in net \/ Proper(r, c)
         /\ \A r \in net : r.mac # c => r \in Aged(c, asked, answered)
<1>1. ASSUME NEW m \in net, m.mac = c PROVE Proper([m EXCEPT !.xid = "old"], c)
  <2>1. m \in Message /\ m.type # "release" /\ (m.type # "discover" => m.addr \in Held(c))
        /\ (m.type = "discover" => m.addr = None)
    BY <1>1 DEF LeaseInv, ServerType, ClientMessages, Message
  <2>2. [m EXCEPT !.xid = "old"] \in Message
    BY <2>1 DEF Message
  <2>3. QED
    BY <1>1, <2>1, <2>2 DEF Proper, Message
<1>2. QED
  BY <1>1 DEF Aged

\* What a handler leaves behind: it may have sent a discovery, or a request of what it was told.
Kept(k, told) ==
  /\ Told(k, told)
  /\ k.sends \in {"nothing", "discover", "request"}
  /\ k.sends = "request" => k.requested \in told

\* A handler of a client keeps the invariant, whatever it sends: what the client was told is held.
LEMMA BecomesKeeps ==
  ASSUME DHCPShape, LeaseInv, NEW c \in Clients, NEW k, Kept(k, Held(c)), Becomes(c, k)
  PROVE  LeaseInv'
<1>1. client' = [client EXCEPT ![c] = [k EXCEPT !.sends = "nothing"]] /\ DOMAIN client = Clients
  BY DEF Becomes, LeaseInv
<1>2. Told([k EXCEPT !.sends = "nothing"], Held(c)) /\ [k EXCEPT !.sends = "nothing"].sends = "nothing"
  BY DEF Kept, Told, New
<1>3. \A d \in Clients : Told(client'[d], Held(d)) /\ client'[d].sends = "nothing"
  BY <1>1, <1>2 DEF LeaseInv, ClientsTold
<1>4. c \in Macs /\ Held(c) \subseteq Addrs
  BY DEF Macs, LeaseInv, ServerType, Held
<1>5. (\A r \in net' : r \in net \/ Proper(r, c)) /\ (\A r \in net : r.mac # c => r \in net')
  <2>1. CASE k.sends = "discover"
    <3>1. net' = Aged(c, {"discover"}, {"offer"}) \union {Msg("discover", c, "last", None)}
      BY <2>1 DEF Becomes, Sent
    <3>2. Proper(Msg("discover", c, "last", None), c)
      BY <1>4 DEF Proper, Msg, Message
    <3>3. QED
      BY <3>1, <3>2, AgedMessages
  <2>2. CASE k.sends = "request"
    <3>1. net' = Aged(c, {"request"}, {"ack"}) \union {Msg("request", c, "last", k.requested)}
      BY <2>2 DEF Becomes, Sent
    <3>2. k.requested \in Held(c)
      BY <2>2 DEF Kept
    <3>3. Proper(Msg("request", c, "last", k.requested), c)
      BY <1>4, <3>2 DEF Proper, Msg, Message
    <3>4. QED
      BY <3>1, <3>3, AgedMessages
  <2>3. CASE k.sends = "nothing"
    BY <2>3 DEF Becomes, Sent
  <2>4. QED
    BY <2>1, <2>2, <2>3 DEF Kept
<1>6. QED
  BY <1>1, <1>3, <1>5, ClientKeeps DEF Becomes

\* Nothing is sent, and no offer forgotten.
Silent(k, old) == k.sends = "nothing" /\ k.offers = old.offers

\* Entering a state and leaving one.
LEMMA SetStateKeeps ==
  ASSUME NEW k, NEW told, NEW new, NEW up, Told(k, told), k.sends = "nothing",
         new = "REQUESTING" => k.requested \in told
  PROVE  /\ Kept(SetState(k, new, up), told)
         /\ new \notin {"INIT", "REQUESTING"} => Silent(SetState(k, new, up), k)
<1> DEFINE left == Left(k)
           k1 == [left EXCEPT !.listening = Listens(new)]
           setter == IF k.state = "REQUESTING" /\ new = "BOUND" THEN [k1 EXCEPT !.bound = k.requested] ELSE k1
           k2 == [setter EXCEPT !.state = new,
                                !.requested = IF new = "REQUESTING" THEN k.requested ELSE @]
           k3 == Entered(k2, k.state, up)
<1>1. Told(left, told) /\ left.sends = "nothing" /\ left.offers = k.offers
  BY DEF Left, Told, New
<1> HIDE DEF left
<1>2. Told(k1, told) /\ k1.sends = "nothing" /\ k1.offers = k.offers
  BY <1>1 DEF Told, New
<1> HIDE DEF k1
<1>3. Told(setter, told) /\ setter.sends = "nothing" /\ setter.offers = k.offers
  BY <1>2 DEF Told, New
<1> HIDE DEF setter
<1>4. /\ Told(k2, told) /\ k2.sends = "nothing" /\ k2.offers = k.offers /\ k2.state = new
      /\ new = "REQUESTING" => k2.requested \in told
  BY <1>3 DEF Told, New
<1> HIDE DEF k2
<1>5. ASSUME NEW j, j \in {k2, [k2 EXCEPT !.total = TotalTimeout]}
      PROVE  Kept(Discovering(j, up), told)
  <2>1. Told(j, told) /\ j.sends = "nothing"
    BY <1>4, <1>5 DEF Told, New
  <2> DEFINE j1 == [j EXCEPT !.offers = <<>>]
  <2>2. Told(j1, told) /\ j1.sends = "nothing"
    BY <2>1 DEF Told, New
  <2>3. Discovering(j, up) \in {j1, [j1 EXCEPT !.sends = "discover", !.discover = DiscoverTimeout]}
    BY DEF Discovering
  <2> HIDE DEF j1
  <2>4. QED
    BY <2>2, <2>3 DEF Kept, Told, New
<1>6. Kept(k3, told) /\ (new \notin {"INIT", "REQUESTING"} => k3.offers = k.offers /\ k3.sends = "nothing")
  <2>1. CASE new = "INIT"
    <3>1. k3 \in {k2, Discovering(k2, up), Discovering([k2 EXCEPT !.total = TotalTimeout], up)}
      BY <1>4, <2>1 DEF Entered
    <3>2. Kept(k2, told)
      BY <1>4 DEF Kept
    <3>3. QED
      BY <1>5, <2>1, <3>1, <3>2
  <2>2. CASE new = "SELECTING"
    <3>1. k3 = [k2 EXCEPT !.offer = OfferTimeout]
      BY <1>4, <2>2 DEF Entered
    <3>2. QED
      BY <1>4, <3>1 DEF Kept, Told, New
  <2>3. CASE new = "REQUESTING"
    <3>1. k3 \in {k2, [k2 EXCEPT !.sends = "request", !.request = RequestTimeout]}
      BY <1>4, <2>3 DEF Entered, Requesting
    <3>2. QED
      BY <1>4, <2>3, <3>1 DEF Kept, Told, New
  <2>4. CASE new = "BOUND"
    <3>1. k3 = [k2 EXCEPT !.total = Off]
      BY <1>4, <2>4 DEF Entered
    <3>2. QED
      BY <1>4, <3>1 DEF Kept, Told, New
  <2>5. CASE new \notin {"INIT", "SELECTING", "REQUESTING", "BOUND"}
    <3>1. k3 = k2
      BY <1>4, <2>5 DEF Entered
    <3>2. QED
      BY <1>4, <3>1 DEF Kept
  <2>6. QED
    BY <2>1, <2>2, <2>3, <2>4, <2>5
<1>7. SetState(k, new, up) \in {setter, k3}
  BY DEF SetState, k1, setter, k2, left
<1> HIDE DEF k3
<1>8. \A j \in {setter, k3} :
        Kept(j, told) /\ (new \notin {"INIT", "REQUESTING"} => Silent(j, k))
  BY <1>3, <1>6 DEF Kept, Silent
<1> HIDE DEF setter
<1>9. QED
  BY <1>7, <1>8

\* The offers a client remembers are of addresses it was told.
LEMMA OffersHeard ==
  ASSUME NEW k, NEW told, Told(k, told)
  PROVE  /\ Len(k.offers) \in Nat /\ DOMAIN k.offers = 1..Len(k.offers)
         /\ \A j \in DOMAIN k.offers : k.offers[j].addr \in told
<1> DEFINE Offer == [addr : told, accept : Answers]
           offers == k.offers
<1>1. offers \in Seq(Offer)
  BY DEF Told
<1>2. \A o \in Offer : o.addr \in told
  OBVIOUS
<1> HIDE DEF Offer, offers
<1>3. Len(offers) \in Nat /\ DOMAIN offers = 1..Len(offers) /\ \A j \in DOMAIN offers : offers[j] \in Offer
  BY <1>1
<1>4. QED
  BY <1>2, <1>3 DEF offers

\* The offer that is taken is one of those that were heard.
LEMMA AcceptKeeps ==
  ASSUME NEW k, NEW told, NEW chosen, NEW up, Told(k, told), k.sends = "nothing",
         chosen # None => chosen \in 1..Len(k.offers)
  PROVE  Kept(do_accept(k, chosen, up), told)
<1> DEFINE that(ops) == {i \in DOMAIN k.offers : k.offers[i].accept \in ops}
           least(s) == CHOOSE i \in s : \A j \in s : i <= j
           i == IF chosen # None THEN chosen
                ELSE IF that({"accept"}) # {} THEN least(that({"accept"}))
                ELSE IF that({"none"}) # {} THEN least(that({"none"})) ELSE None
<1>1. DOMAIN k.offers = 1..Len(k.offers) /\ Len(k.offers) \in Nat
      /\ \A j \in DOMAIN k.offers : k.offers[j].addr \in told
  BY OffersHeard
<1>2. ASSUME NEW ops, that(ops) # {} PROVE least(that(ops)) \in DOMAIN k.offers
  <2>1. that(ops) \subseteq Nat
    BY <1>1
  <2>2. \E d \in that(ops) : \A e \in that(ops) : d <= e
    BY <1>2, <2>1, LeastNumber
  <2>3. least(that(ops)) \in that(ops)
    BY <2>2
  <2>4. QED
    BY <2>3
<1>3. i = None \/ i \in DOMAIN k.offers
  BY <1>1, <1>2, SMTT(20)
<1>4. do_accept(k, chosen, up) =
        IF i = None THEN SetState(k, "IDLE", up)
        ELSE SetState([k EXCEPT !.requested = k.offers[i].addr], "REQUESTING", up)
  BY DEF do_accept
<1> HIDE DEF i
<1>5. CASE i = None
  BY <1>4, <1>5, SetStateKeeps
<1>6. CASE i # None
  <2> DEFINE k1 == [k EXCEPT !.requested = k.offers[i].addr]
  <2>1. k.offers[i].addr \in told
    BY <1>1, <1>3, <1>6
  <2>2. Told(k1, told) /\ k1.sends = "nothing" /\ k1.requested \in told
    BY <2>1 DEF Told, New
  <2> HIDE DEF k1
  <2>3. Kept(SetState(k1, "REQUESTING", up), told)
    BY <2>2, SetStateKeeps
  <2>4. QED
    BY <1>4, <1>6, <2>3 DEF k1
<1>7. QED
  BY <1>5, <1>6

\* An offer is heard.
LEMMA OfferKeeps ==
  ASSUME DHCPShape, NEW k, NEW told, NEW m, m.addr \in told, NEW opinion \in Opinions, NEW up,
         Told(k, told), k.sends = "nothing", NEW chosen \in 0..Len(k.offers) + 1
  PROVE  Kept(exec_offer(k, m, opinion, chosen, up), told)
<1> DEFINE accept == IF AutoAccept /\ opinion # "reject" THEN "accept" ELSE opinion
           offer == [addr |-> m.addr, accept |-> accept]
           k1 == [k EXCEPT !.offers = Append(@, offer)]
<1>1. offer \in [addr : told, accept : Answers]
  BY DEF DHCPShape, Answers
<1> HIDE DEF offer
<1>2. Append(k.offers, offer) \in Seq([addr : told, accept : Answers])
      /\ Len(Append(k.offers, offer)) = Len(k.offers) + 1
  BY <1>1, AppendProperties DEF Told
<1>3. Told(k1, told) /\ k1.sends = "nothing" /\ Len(k1.offers) = Len(k.offers) + 1
  BY <1>2 DEF Told, New
<1>4. chosen # None => chosen \in 1..Len(k1.offers)
  BY <1>2, <1>3 DEF None, Told
<1>5. exec_offer(k, m, opinion, chosen, up) \in {k1, do_accept(k1, chosen, up)}
  BY DEF exec_offer, offer
<1> HIDE DEF k1
<1>6. Kept(do_accept(k1, chosen, up), told)
  BY <1>3, <1>4, AcceptKeeps
<1>7. QED
  BY <1>3, <1>5, <1>6 DEF Kept

\* A reply is heard: an offer, by which the client selects, or the acknowledgement that binds it.
LEMMA HearKeeps ==
  ASSUME DHCPShape, LeaseInv, NEW m \in net, NEW c \in Clients, Hear(c, m)
  PROVE  LeaseInv'
<1> DEFINE k == client[c]
<1>1. Told(k, Held(c)) /\ k.sends = "nothing"
  BY DEF LeaseInv, ClientsTold
<1>2. CASE m.type = "offer" /\ m.mac = c
  <2> DEFINE k1 == IF k.state = "INIT" THEN SetState(k, "SELECTING", TRUE) ELSE k
  <2>1. m.addr \in Held(c)
    BY <1>2 DEF LeaseInv, ClientMessages
  <2>2. PICK opinion \in Opinions, chosen \in Choices(Len(k.offers) + 1) :
          Becomes(c, exec_offer(k1, m, opinion, chosen, TRUE))
    BY <1>2 DEF Hear
  <2>3. Told(k1, Held(c)) /\ k1.sends = "nothing" /\ k1.offers = k.offers
    <3> DEFINE selecting == SetState(k, "SELECTING", TRUE)
    <3>1. Kept(selecting, Held(c)) /\ Silent(selecting, k)
      BY <1>1, SetStateKeeps
    <3> HIDE DEF selecting
    <3>2. Told(selecting, Held(c))
      BY <3>1 DEF Kept
    <3>3. k1 = selecting \/ k1 = k
      BY DEF selecting
    <3> HIDE DEF k1
    <3>4. QED
      BY <1>1, <3>1, <3>2, <3>3 DEF Silent
  <2>4. chosen \in 0..Len(k1.offers) + 1
    <3>1. Len(k.offers) \in Nat
      BY <1>1, OffersHeard
    <3>2. chosen \in 0..Len(k.offers) + 1
      BY <2>2, <3>1 DEF Choices, None
    <3>3. QED
      BY <2>3, <3>2
  <2> HIDE DEF k1
  <2>5. Kept(exec_offer(k1, m, opinion, chosen, TRUE), Held(c))
    BY <2>1, <2>3, <2>4, OfferKeeps
  <2>6. QED
    BY <2>2, <2>5, BecomesKeeps
<1>3. CASE ~(m.type = "offer" /\ m.mac = c)
  <2>1. Becomes(c, SetState(k, "BOUND", TRUE))
    BY <1>3 DEF Hear
  <2>2. Kept(SetState(k, "BOUND", TRUE), Held(c))
    BY <1>1, SetStateKeeps
  <2>3. QED
    BY <2>1, <2>2, BecomesKeeps
<1>4. QED
  BY <1>2, <1>3

\* A client starts, and has been told nothing.
LEMMA StartKeeps ==
  ASSUME DHCPShape, LeaseInv, NEW c \in Clients, NEW known, Start(c, known)
  PROVE  LeaseInv'
<1>1. Told(client[c], Held(c)) /\ client[c].sends = "nothing"
  BY DEF LeaseInv, ClientsTold
<1>2. \A new \in {"INIT", "ERROR"} : Kept(SetState(client[c], new, TRUE), Held(c))
  BY <1>1, SetStateKeeps
<1>3. QED
  BY <1>2, BecomesKeeps DEF Start

\* A timer goes off.
LEMMA FireKeeps ==
  ASSUME DHCPShape, LeaseInv, NEW c \in Clients, NEW t \in Timers, Fire(c, t)
  PROVE  LeaseInv'
<1> DEFINE k == [client[c] EXCEPT ![t] = Off]
<1>1. Told(client[c], Held(c)) /\ client[c].sends = "nothing"
  BY DEF LeaseInv, ClientsTold
<1>2. Told(k, Held(c)) /\ k.sends = "nothing"
  BY <1>1 DEF Told, New, Timers
<1>3. \A new \in {"INIT", "ERROR"} : Kept(SetState(k, new, Up(c)), Held(c))
  BY <1>2, SetStateKeeps
<1>4. CASE t \in {"discover", "request"}
  BY <1>3, <1>4, BecomesKeeps DEF Fire
<1>5. CASE t = "total"
  BY <1>3, <1>5, BecomesKeeps DEF Fire
<1>6. CASE t = "offer"
  <2>1. PICK chosen \in Choices(Len(k.offers)) : Becomes(c, do_accept(k, chosen, Up(c)))
    BY <1>6 DEF Fire
  <2>2. chosen # None => chosen \in 1..Len(k.offers)
    BY <1>2 DEF Choices, None, Told
  <2> HIDE DEF k
  <2>3. Kept(do_accept(k, chosen, Up(c)), Held(c))
    BY <1>2, <2>2, AcceptKeeps
  <2>4. QED
    BY <2>1, <2>3, BecomesKeeps
<1>7. QED
  BY <1>4, <1>5, <1>6 DEF Timers

\* A controller that starts anew has been told nothing.
LEMMA RestartKeeps ==
  ASSUME DHCPShape, LeaseInv, NEW c \in Clients, Restart(c)
  PROVE  LeaseInv'
<1>1. client' = [client EXCEPT ![c] = New] /\ net' = Aged(c, {"discover", "request"}, {"offer", "ack"})
      /\ UNCHANGED serverVars /\ DOMAIN client = Clients
  BY DEF Restart, LeaseInv
<1>2. Told(New, Held(c)) /\ New.sends = "nothing"
  BY EmptySeq DEF Told, New
<1>3. \A d \in Clients : Told(client'[d], Held(d)) /\ client'[d].sends = "nothing"
  BY <1>1, <1>2 DEF LeaseInv, ClientsTold
<1>4. QED
  BY <1>1, <1>3, AgedMessages, ClientKeeps

\* Time passes: no timer is what a client was told.
LEMMA TimePasses ==
  ASSUME DHCPShape, LeaseInv, NEW c \in Clients, Tick
  PROVE  LeaseInv'
<1>1. UNCHANGED serverVars /\ net' = net /\ DOMAIN client' = Clients
  BY DEF Tick
<1>2. ASSUME NEW d \in Clients PROVE Told(client'[d], Held(d)) /\ client'[d].sends = "nothing"
  <2>1. Told(client[d], Held(d)) /\ client[d].sends = "nothing"
    BY DEF LeaseInv, ClientsTold
  <2>2. client'[d] = [f \in DOMAIN client[d] |->
                        IF f \in Timers /\ client[d][f] > 0 THEN client[d][f] - 1 ELSE client[d][f]]
    BY DEF Tick
  <2>3. QED
    BY <2>1, <2>2 DEF Told, New, Timers
<1>3. QED
  BY <1>1, <1>2, ClientKeeps

(* ------------------------------ the other hosts ------------------------------ *)
\* Another host asks for what it likes, and nothing is its own until it is answered.
LEMMA HostKeeps ==
  ASSUME DHCPShape, LeaseInv, NEW h \in OtherHosts, HostSends(h)
  PROVE  LeaseInv'
<1>1. h \in Macs /\ h \notin Clients
  BY DEF DHCPShape, Macs
<1>2. PICK type \in {"discover", "request", "release"}, a \in Addrs \union {None} :
        (type # "discover" => a # None) /\ net' = net \union {Msg(type, h, "old", a)}
  BY DEF HostSends
<1> DEFINE new == Msg(type, h, "old", a)
<1>3. /\ new \in Message /\ new.type = type /\ new.mac = h /\ new.addr = a
  BY <1>1 DEF Msg, Message
<1> HIDE DEF new
<1>4. /\ UNCHANGED <<removed, offered, leases, client>> /\ net' = net \union {new}
  BY <1>2 DEF HostSends, serverVars, new
<1>5. \A m : Held(m)' = Held(m)
  BY <1>4 DEF Held
<1>6. Accounted'
  <2>1. InUse' = InUse
    BY <1>5 DEF InUse
  <2>2. QED
    BY <1>4, <2>1 DEF LeaseInv, Accounted
<1>7. ServerType'
  BY <1>3, <1>4 DEF LeaseInv, ServerType, Message
<1>8. ClientMessages'
  BY <1>1, <1>3, <1>4, <1>5 DEF LeaseInv, ClientMessages
<1>9. ClientsTold' /\ DOMAIN client' = Clients
  BY <1>4, <1>5 DEF LeaseInv, ClientsTold, Told
<1>10. HostsAsk'
  BY <1>2, <1>3, <1>4 DEF LeaseInv, HostsAsk, Wants
<1>11. QED
  BY <1>6, <1>7, <1>8, <1>9, <1>10 DEF LeaseInv

(* ------------------------------ the theorem ------------------------------ *)
\* Nothing is held at first.
LEMMA LeaseInit ==
  ASSUME DHCPShape, DHCPInit
  PROVE  LeaseInv
<1>1. None \notin Addrs /\ (Own # None => Own \in Addrs)
  BY DEF None, Addrs, DHCPShape
<1>4. Accounted
  BY DEF Accounted, DHCPInit
<1>5. ServerType
  BY <1>1 DEF ServerType, DHCPInit
<1>6. HostsAsk
  BY DEF HostsAsk, DHCPInit, Wants
<1>7. ClientMessages
  BY DEF ClientMessages, DHCPInit
<1>8. \A c \in Clients : Told(New, Held(c)) /\ New.sends = "nothing"
  BY EmptySeq DEF Told, New
<1>9. ClientsTold /\ DOMAIN client = Clients
  BY <1>8 DEF ClientsTold, DHCPInit
<1>10. QED
  BY <1>4, <1>5, <1>6, <1>7, <1>9 DEF LeaseInv

\* The invariant is kept by every step.
LEMMA LeaseStep ==
  ASSUME DHCPShape, LeaseInv, [DHCPNext]_dhcpVars
  PROVE  LeaseInv'
<1>1. ASSUME NEW c \in Clients, Connect(c) PROVE LeaseInv'
  BY <1>1, ClientKeeps DEF Connect, LeaseInv, ClientsTold
<1>2. ASSUME NEW c \in Clients, Lose(c) PROVE LeaseInv'
  <2>1. /\ client' = [client EXCEPT ![c].lost = TRUE] /\ UNCHANGED serverVars /\ net' = net
        /\ DOMAIN client = Clients
    BY <1>2 DEF Lose, LeaseInv
  <2>2. \A d \in Clients : Told(client'[d], Held(d)) /\ client'[d].sends = "nothing"
    BY <2>1 DEF LeaseInv, ClientsTold, Told, New
  <2>3. QED
    BY <2>1, <2>2, ClientKeeps
<1>3. CASE Tick
  BY <1>3, TimePasses DEF Tick
<1>4. CASE UNCHANGED dhcpVars
  <2>1. /\ UNCHANGED <<removed, offered, leases, client, net>>
    BY <1>4 DEF dhcpVars, serverVars
  <2>2. \A m : Held(m)' = Held(m)
    BY <2>1 DEF Held
  <2>3. InUse' = InUse
    BY <2>2 DEF InUse
  <2>4. Accounted'
    BY <2>1, <2>3 DEF LeaseInv, Accounted
  <2>5. ServerType' /\ HostsAsk'
    BY <2>1 DEF LeaseInv, ServerType, HostsAsk, Wants
  <2>6. ClientMessages' /\ ClientsTold'
    BY <2>1, <2>2 DEF LeaseInv, ClientMessages, ClientsTold, Told
  <2>7. QED
    BY <2>1, <2>4, <2>5, <2>6 DEF LeaseInv
<1>5. QED
  BY <1>1, <1>2, <1>3, <1>4, ServeKeeps, HearKeeps, StartKeeps, FireKeeps, RestartKeeps, HostKeeps
  DEF DHCPNext, Progress

\* The invariant says what is to be shown.
LEMMA LeaseKept ==
  ASSUME LeaseInv
  PROVE  AddressesKept
<1>1. \A m \in Macs : Cardinality(Held(m)) <= 1
  BY OneAddress DEF LeaseInv, Accounted
<1>2. ASSUME NEW c \in Bound PROVE Held(c) = {client[c].bound}
  <2>1. client[c].bound \in Held(c) /\ c \in Macs
    BY <1>2 DEF LeaseInv, ClientsTold, Told, Bound, Macs
  <2>2. None \in {offered[c], leases[c]} \/ offered[c] = leases[c]
    BY <2>1 DEF LeaseInv, Accounted
  <2>3. QED
    BY <2>1, <2>2 DEF Held
<1>3. QED
  BY <1>1, <1>2 DEF AddressesKept, LeaseInv, Accounted

\* A host's offer and lease are of one address, no address leaves the pool for good, and a client
\* that is bound has the address that the server keeps for it: whatever is lost, late or doubled,
\* whatever times out, whichever switch goes away and whichever client starts anew, and whatever
\* the other hosts ask for, release and ask for again.
THEOREM AddressesAreKept ==
  ASSUME DHCPShape
  PROVE  DHCPSpec => []AddressesKept
<1>1. DHCPInit => LeaseInv
  BY LeaseInit
<1>2. LeaseInv /\ [DHCPNext]_dhcpVars => LeaseInv'
  BY LeaseStep
<1>3. LeaseInv => AddressesKept
  BY LeaseKept
<1>4. QED
  BY <1>1, <1>2, <1>3, PTL DEF DHCPSpec

==============================================================================
