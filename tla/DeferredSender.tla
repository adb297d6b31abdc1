--------------------------- MODULE DeferredSender ---------------------------
(***************************************************************************)
(* Writing to switches, pox/pox/openflow/of_01.py: Connection.send, called *)
(* on the scheduler thread, and the DeferredSender, a thread that writes   *)
(* what a socket did not take at once.  The two share a lock; a component  *)
(* has a lock of its own, held while it handles a LinkEvent (the           *)
(* _mutex_link_state of ext/dcell_controller.py).                          *)
(*                                                                         *)
(* A message is two pieces, numbered per connection in the order they are  *)
(* sent, so that a socket may take the first and not the second.            *)
(***************************************************************************)
EXTENDS Naturals, Sequences, FiniteSets

CONSTANTS Conns,      \* connections whose handshake is complete
          NoConn,     \* no connection
          Room,       \* pieces a socket takes before the switch reads
          MaxSent,    \* bound: pieces sent on each connection
          MaxDead,    \* bound: connections that break
          LinkEvents  \* whether the loss of a switch is a LinkEvent

Bounds ==
  /\ NoConn \notin Conns
  /\ {Room, MaxSent, MaxDead} \subseteq Nat
  /\ LinkEvents \in BOOLEAN

VARIABLES dead,          \* connections whose other end has gone
          closed,        \* sockets that have been closed
          disconnected,  \* connections with disconnected set
          raised,        \* disconnection_raised
          room,          \* room in each socket
          written,       \* pieces each socket has taken
          begun,         \* number of pieces of messages begun or deferred
          queue,         \* _dataForConnection
          keys,          \* its keys (a connection may be there without data)
          sending,       \* whether sends must be deferred
          lock,          \* holder of the sender's lock
          mutex,         \* holder of the component's lock
          main,          \* what the scheduler thread is doing ...
          at,            \* ... on which connection ...
          rest,          \* ... with the piece left of a message begun
          sender,        \* what the sender's thread is doing
          waiting,       \* connections it gives to select
          ready          \* connections it still has to write to
socket_vars == <<dead, closed, disconnected, raised, room, written, begun>>
queue_vars == <<queue, keys, sending>>
main_vars == <<main, at, rest>>
sender_vars == <<sender, waiting, ready>>
deferredVars == <<socket_vars, queue_vars, lock, mutex, main_vars, sender_vars>>

Threads == {"main", "sender"}
Pieces == Seq(Nat)

Least(m, n) == IF m <= n THEN m ELSE n

\* The next message on a connection.
NextMessage(c) == <<begun[c] + 1, begun[c] + 2>>
Sendable(c) == c \notin disconnected /\ begun[c] + 2 <= MaxSent

TypeOK ==
  /\ raised \subseteq disconnected /\ closed \subseteq raised
  /\ dead \subseteq Conns /\ disconnected \subseteq dead
  /\ room \in [Conns -> 0..Room]
  /\ written \in [Conns -> Pieces] /\ queue \in [Conns -> Pieces]
  /\ begun \in [Conns -> 0..MaxSent]
  /\ \A c \in Conns : queue[c] # <<>> => c \in keys
  /\ sending \in BOOLEAN /\ (keys # {} => sending)
  /\ lock \in {"none", "sender"} /\ mutex \in Threads \cup {"none"}
  /\ main \in {"idle", "writing", "deferring", "entering"}
  /\ IF main \in {"writing", "deferring"} THEN at \in Conns ELSE at = NoConn /\ rest = <<>>
  /\ rest \in Pieces
  /\ sender \in {"listing", "selecting", "locking", "writing", "entering", "ended"}
  /\ lock = "sender" <=> sender \in {"writing", "entering"}
  /\ keys \cup waiting \cup ready \subseteq Conns

DeferredInit ==
  /\ dead = {} /\ closed = {} /\ disconnected = {} /\ raised = {}
  /\ room = [c \in Conns |-> Room]
  /\ written = [c \in Conns |-> <<>>]
  /\ begun = [c \in Conns |-> 0]
  /\ queue = [c \in Conns |-> <<>>]
  /\ keys = {}
  /\ sending = FALSE
  /\ lock = "none"
  /\ mutex = "none"
  /\ main = "idle" /\ at = NoConn /\ rest = <<>>
  /\ sender = "listing" /\ waiting = {} /\ ready = {}

-----------------------------------------------------------------------------
\* The switches.

\* A switch reads what its socket holds.
ReadSocket(c) ==
  /\ c \notin dead
  /\ room[c] < Room
  /\ room' = [room EXCEPT ![c] = Room]
  /\ UNCHANGED <<dead, closed, disconnected, raised, written, begun, queue_vars, lock, mutex,
                 main_vars, sender_vars>>

Die(c) ==
  /\ Cardinality(dead) < MaxDead
  /\ dead' = dead \cup {c}
  /\ UNCHANGED <<closed, disconnected, raised, room, written, begun, queue_vars, lock, mutex,
                 main_vars, sender_vars>>

-----------------------------------------------------------------------------
\* The scheduler thread.

\* A handler holds the component's lock for as long as it runs.
EnterHandler ==
  /\ \/ main = "idle" /\ LinkEvents
     \/ main = "entering"
  /\ mutex = "none"
  /\ mutex' = "main"
  /\ main' = "idle"
  /\ UNCHANGED <<socket_vars, queue_vars, lock, at, rest, sender_vars>>

LeaveHandler ==
  /\ main = "idle"
  /\ mutex = "main"
  /\ mutex' = "none"
  /\ UNCHANGED <<socket_vars, queue_vars, lock, main_vars, sender_vars>>

\* Variant: the flag is not looked at.
BeginSendAtOnce(c) ==
  /\ main = "idle" /\ Sendable(c)
  /\ at' = c
  /\ main' = "writing"
  /\ UNCHANGED <<socket_vars, queue_vars, lock, mutex, rest, sender_vars>>

\* Connection.send: a message is written, or deferred while others are.
BeginSend(c) ==
  /\ main = "idle" /\ Sendable(c)
  /\ at' = c
  /\ main' = IF sending THEN "deferring" ELSE "writing"
  /\ UNCHANGED <<socket_vars, queue_vars, lock, mutex, rest, sender_vars>>

\* The socket takes some of the message and what is left is deferred; an error
\* disconnects without an event.
Write ==
  /\ main = "writing"
  /\ LET n == Least(2, room[at])
         taken == SubSeq(NextMessage(at), 1, n)
     IN  IF at \in dead
           THEN /\ disconnected' = disconnected \cup {at}
                /\ main' = "idle" /\ at' = NoConn
                /\ UNCHANGED <<written, room, begun, rest>>
           ELSE /\ written' = [written EXCEPT ![at] = @ \o taken]
                /\ room' = [room EXCEPT ![at] = @ - n]
                /\ begun' = [begun EXCEPT ![at] = IF n = 0 THEN @ ELSE @ + 2]
                /\ rest' = IF n = 1 THEN <<begun[at] + 2>> ELSE <<>>
                /\ main' = IF n = 2 THEN "idle" ELSE "deferring"
                /\ at' = IF n = 2 THEN NoConn ELSE at
                /\ UNCHANGED disconnected
  /\ UNCHANGED <<dead, closed, raised, queue_vars, lock, mutex, sender_vars>>

\* DeferredSender.send, with its lock.
Defer ==
  /\ main = "deferring"
  /\ lock = "none"
  /\ sending' = TRUE
  /\ queue' = [queue EXCEPT ![at] = @ \o (IF rest = <<>> THEN NextMessage(at) ELSE rest)]
  /\ begun' = [begun EXCEPT ![at] = IF rest = <<>> THEN @ + 2 ELSE @]
  /\ keys' = keys \cup {at}
  /\ main' = "idle" /\ at' = NoConn /\ rest' = <<>>
  /\ UNCHANGED <<dead, closed, disconnected, raised, room, written, lock, mutex, sender_vars>>

\* The task that reads connections closes one: disconnect raises ConnectionDown
\* (unless the sender has), which is a LinkEvent when the switch had links.
Close(c) ==
  /\ main = "idle" /\ mutex # "main"
  /\ c \in dead \ closed
  /\ closed' = closed \cup {c}
  /\ disconnected' = disconnected \cup {c}
  /\ raised' = raised \cup {c}
  /\ main' = IF LinkEvents /\ c \notin raised THEN "entering" ELSE "idle"
  /\ UNCHANGED <<dead, room, written, begun, queue_vars, lock, mutex, at, rest, sender_vars>>

-----------------------------------------------------------------------------
\* The sender's thread.

List ==
  /\ sender = "listing"
  /\ lock = "none"
  /\ waiting' = keys
  /\ sender' = "selecting"
  /\ UNCHANGED <<socket_vars, queue_vars, lock, mutex, main_vars, ready>>

\* select returns the connections that can be written to, maybe none; it
\* raises an exception, which nothing catches, when a socket has been closed.
Select ==
  /\ sender = "selecting"
  /\ IF waiting \cap closed # {}
       THEN sender' = "ended" /\ UNCHANGED ready
       ELSE /\ sender' = "locking"
            /\ ready' = {c \in waiting : room[c] > 0 \/ c \in dead}
  /\ waiting' = {}
  /\ UNCHANGED <<socket_vars, queue_vars, lock, mutex, main_vars>>

Lock ==
  /\ sender = "locking"
  /\ lock = "none"
  /\ lock' = "sender"
  /\ sender' = "writing"
  /\ UNCHANGED <<socket_vars, queue_vars, mutex, main_vars, waiting, ready>>

\* What the socket takes is written.  When nothing is left for any connection
\* the sender is done, and sends are no longer deferred.
Flush(c) ==
  /\ sender = "writing"
  /\ c \in ready \ dead
  /\ LET n == Least(Len(queue[c]), room[c])
     IN  /\ written' = [written EXCEPT ![c] = @ \o SubSeq(queue[c], 1, n)]
         /\ room' = [room EXCEPT ![c] = @ - n]
         /\ queue' = [queue EXCEPT ![c] = SubSeq(@, n + 1, Len(@))]
  /\ keys' = IF queue'[c] = <<>> THEN keys \ {c} ELSE keys
  /\ sending' = (sending /\ keys' # {})
  /\ ready' = IF sending' THEN ready \ {c} ELSE {}
  /\ UNCHANGED <<dead, closed, disconnected, raised, begun, lock, mutex, main_vars, sender, waiting>>

\* An error: disconnect, which raises ConnectionDown on this thread; the data
\* is dropped (and the flag left as it is).
FlushFails(c) ==
  /\ sender = "writing"
  /\ c \in ready \cap dead
  /\ disconnected' = disconnected \cup {c}
  /\ raised' = raised \cup {c}
  /\ queue' = [queue EXCEPT ![c] = <<>>]
  /\ keys' = keys \ {c}
  /\ ready' = ready \ {c}
  /\ sender' = IF LinkEvents /\ c \notin raised THEN "entering" ELSE "writing"
  /\ UNCHANGED <<dead, closed, room, written, begun, sending, lock, mutex, main_vars, waiting>>

\* The component's handler, on this thread: it may send to other switches,
\* which defers (the lock is reentrant).
HandleOnSender ==
  /\ sender = "entering"
  /\ mutex = "none"
  /\ \/ UNCHANGED <<begun, queue, keys>>
     \/ \E c \in Conns :
          /\ Sendable(c)
          /\ c = at => begun[c] + 4 <= MaxSent
          /\ begun' = [begun EXCEPT ![c] = @ + 2]
          /\ queue' = [queue EXCEPT ![c] = @ \o NextMessage(c)]
          /\ keys' = keys \cup {c}
  /\ sender' = "writing"
  /\ UNCHANGED <<dead, closed, disconnected, raised, room, written, sending, lock, mutex,
                 main_vars, waiting, ready>>

\* Variant: the thread ends when nothing is left to write.
UnlockDone ==
  /\ sender = "writing"
  /\ ready = {}
  /\ lock' = "none"
  /\ sender' = IF keys = {} THEN "ended" ELSE "listing"
  /\ UNCHANGED <<socket_vars, queue_vars, mutex, main_vars, waiting, ready>>

Unlock ==
  /\ sender = "writing"
  /\ ready = {}
  /\ lock' = "none"
  /\ sender' = "listing"
  /\ UNCHANGED <<socket_vars, queue_vars, mutex, main_vars, waiting, ready>>

Main == Write \/ Defer \/ LeaveHandler \/ (main = "entering" /\ EnterHandler)
Sender == \/ List \/ Select \/ Lock \/ HandleOnSender \/ Unlock
          \/ \E c \in Conns : Flush(c) \/ FlushFails(c)

DeferredNext ==
  \/ EnterHandler \/ Main \/ Sender
  \/ \E c \in Conns : BeginSend(c) \/ Close(c) \/ ReadSocket(c) \/ Die(c)

\* Both threads run, and live switches read.
DeferredSpec ==
  /\ DeferredInit /\ [][DeferredNext]_deferredVars
  /\ WF_deferredVars(Main) /\ WF_deferredVars(Sender) /\ \A c \in Conns : WF_deferredVars(ReadSocket(c))

-----------------------------------------------------------------------------
\* Connection.send and DeferredSender.run together: every piece of every message
\* to a connected switch is on its way, once and in order: first what its socket
\* took, then what is queued, then what the scheduler thread is about to queue.
NothingLost ==
  /\ TypeOK
  /\ \A c \in Conns \ (dead \cup disconnected) :
       written[c] \o queue[c] \o (IF at = c THEN rest ELSE <<>>) = [i \in 1..begun[c] |-> i]

\* DeferredSender: "Class that handles sending when a socket write didn't
\* complete".  What is deferred for a switch is written in the end, as long as
\* all switches stay.
WrittenIfAllStay == \A c \in Conns : queue[c] # <<>> ~> queue[c] = <<>> \/ dead # {}
=============================================================================
