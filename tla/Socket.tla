------------------------------- MODULE Socket -------------------------------
(***************************************************************************)
(* Socket<T>, the server's end of one connection: the queue of packets to  *)
(* write, which Update drains, and the buffer that is read into.  All its  *)
(* handlers run on one network thread.  The two builds differ: with a      *)
(* reactor Update writes and waits for a socket that would block; with     *)
(* IOCP QueuePacket starts the write and its completion the next one.      *)
(*                                                                         *)
(* A byte is a model value; a MessageBuffer of the queue is the sequence   *)
(* of the bytes it still has to give.  _closing is left out: nothing calls *)
(* DelayedCloseSocket.                                                     *)
(***************************************************************************)
EXTENDS Integers, SequencesExt

CONSTANTS
  ReadBlock,      (* READ_BLOCK_SIZE *)
  MaxStalls,      (* bound: writes of which the system takes only a part, or nothing *)
  MaxWriteErrors  (* bound: writes that fail on an open connection *)

ASSUME SocketAssumption ==
  /\ ReadBlock \in Nat \ {0, 1}
  /\ MaxStalls \in Nat /\ MaxWriteErrors \in Nat

VARIABLES
  build,          (* "reactor" or "iocp" (TC_SOCKET_USE_IOCP) *)
  closed,         (* _closed *)
  writeQueue,     (* _writeQueue *)
  isWritingAsync, (* _isWritingAsync *)
  readBuffer,     (* _readBuffer: the active bytes, _rpos and the size of _storage *)
  reading,        (* an async_read_some is outstanding *)
  queued,         (* every byte QueuePacket was given *)
  written,        (* every byte the system took *)
  lost,           (* a write failed *)
  stalls, errors  (* how much of the bounds is used *)

socketVars == <<build, closed, writeQueue, isWritingAsync, readBuffer, reading,
                queued, written, lost, stalls, errors>>

-----------------------------------------------------------------------------
(* MessageBuffer *)

EmptyBuffer == [active |-> <<>>, rpos |-> 0, size |-> ReadBlock]

GetRemainingSpace(b) == b.size - b.rpos - Len(b.active)

(* Mutant: what was consumed stays at the front of the buffer. *)
NormalizeNothing(b) == b

Normalize(b) == [b EXCEPT !.rpos = 0]

EnsureFreeSpace(b) ==
  IF GetRemainingSpace(b) = 0 THEN [b EXCEPT !.size = (@ * 3) \div 2] ELSE b

WriteCompleted(b, bytes) == [b EXCEPT !.active = @ \o bytes]

ReadCompleted(b, n) ==
  [b EXCEPT !.active = SubSeq(@, n + 1, Len(@)), !.rpos = @ + n]

Reset(b) == [b EXCEPT !.active = <<>>, !.rpos = 0]

-----------------------------------------------------------------------------
SocketInit ==
  /\ build \in {"reactor", "iocp"}
  /\ closed = TRUE
  /\ writeQueue = <<>> /\ isWritingAsync = FALSE
  /\ readBuffer = EmptyBuffer /\ reading = FALSE
  /\ queued = <<>> /\ written = <<>>
  /\ lost = FALSE /\ stalls = 0 /\ errors = 0

(* The constructor, for a new connection: nothing is read yet. *)
Open ==
  /\ closed' = FALSE
  /\ writeQueue' = <<>> /\ isWritingAsync' = FALSE
  /\ readBuffer' = EmptyBuffer /\ reading' = FALSE
  /\ queued' = <<>> /\ written' = <<>> /\ lost' = FALSE
  /\ UNCHANGED <<build, stalls, errors>>

(* AsyncRead, the last thing a handler does with buffer `b`. *)
AsyncRead(b) ==
  /\ reading' = ~closed
  /\ readBuffer' = IF closed THEN b ELSE EnsureFreeSpace(Normalize(b))

(* QueuePacket, from SendPacket, which tests IsOpen. *)
QueuePacket(bytes) ==
  IF closed THEN UNCHANGED <<writeQueue, queued, isWritingAsync>>
  ELSE /\ writeQueue' = Append(writeQueue, bytes)
       /\ queued' = queued \o bytes
       /\ isWritingAsync' = (isWritingAsync \/ build = "iocp")

-----------------------------------------------------------------------------
(* Writing *)

After(k) == SubSeq(writeQueue, k + 1, Len(writeQueue))
Whole(k) == FlattenSeq(SubSeq(writeQueue, 1, k))
Rest(s, n) == SubSeq(s, n + 1, Len(s))

(* The system takes the first k packets whole. *)
Wrote(k) ==
  /\ ~closed
  /\ writeQueue' = After(k) /\ written' = written \o Whole(k)
  /\ isWritingAsync' = FALSE
  /\ UNCHANGED <<lost, stalls, errors>>

(* Mutant: a packet written in part is written again from its start. *)
StallsAgain(k) ==
  /\ ~closed /\ k < Len(writeQueue) /\ stalls < MaxStalls
  /\ \E n \in 0 .. Len(writeQueue[k + 1]) - 1 :
       /\ written' = written \o Whole(k) \o SubSeq(writeQueue[k + 1], 1, n)
       /\ writeQueue' = After(k)
  /\ isWritingAsync' = TRUE /\ stalls' = stalls + 1
  /\ UNCHANGED <<lost, errors>>

(* ... and n bytes of the next one, or would block: AsyncProcessQueue. *)
Stalls(k) ==
  /\ ~closed /\ k < Len(writeQueue) /\ stalls < MaxStalls
  /\ \E n \in 0 .. Len(writeQueue[k + 1]) - 1 :
       /\ written' = written \o Whole(k) \o SubSeq(writeQueue[k + 1], 1, n)
       /\ writeQueue' = <<Rest(writeQueue[k + 1], n)>> \o After(k + 1)
  /\ isWritingAsync' = TRUE /\ stalls' = stalls + 1
  /\ UNCHANGED <<lost, errors>>

(* ... and the next one fails: it is dropped, the others stay.  On a socket *)
(* that was shut down every write does.                                     *)
Fails(k) ==
  /\ k < Len(writeQueue)
  /\ closed \/ errors < MaxWriteErrors
  /\ closed => k = 0
  /\ written' = written \o Whole(k) /\ writeQueue' = After(k + 1)
  /\ isWritingAsync' = FALSE /\ lost' = TRUE
  /\ errors' = IF closed THEN errors ELSE errors + 1
  /\ UNCHANGED stalls

(* Update calls HandleQueue until it returns false. *)
Update ==
  /\ build = "reactor" /\ ~closed /\ ~isWritingAsync /\ writeQueue # <<>>
  /\ \/ Wrote(Len(writeQueue))
     \/ \E k \in 0 .. Len(writeQueue) - 1 : Stalls(k) \/ Fails(k)
  /\ UNCHANGED <<build, closed, readBuffer, reading, queued>>

(* The socket can be written to: HandleQueue, once. *)
WriteHandlerWrapper ==
  /\ build = "reactor" /\ isWritingAsync
  /\ Wrote(1) \/ Stalls(0) \/ Fails(0)
  /\ UNCHANGED <<build, closed, readBuffer, reading, queued>>

(* Mutant: the completion of a write does not start the next one. *)
WriteHandlerStops ==
  /\ build = "iocp" /\ isWritingAsync
  /\ ~closed
  /\ \E n \in 1 .. Len(Head(writeQueue)) :
       LET rest == Rest(Head(writeQueue), n)
           left == IF rest = <<>> THEN Tail(writeQueue) ELSE <<rest>> \o Tail(writeQueue) IN
       /\ rest # <<>> => stalls < MaxStalls
       /\ stalls' = IF rest = <<>> THEN stalls ELSE stalls + 1
       /\ written' = written \o SubSeq(Head(writeQueue), 1, n)
       /\ writeQueue' = left /\ isWritingAsync' = FALSE
  /\ UNCHANGED <<build, closed, readBuffer, reading, queued, lost, errors>>

(* WriteHandler of the IOCP build: the front packet was written, or a part. *)
WriteHandler ==
  /\ build = "iocp" /\ isWritingAsync
  /\ ~closed
  /\ \E n \in 1 .. Len(Head(writeQueue)) :
       LET rest == Rest(Head(writeQueue), n)
           left == IF rest = <<>> THEN Tail(writeQueue) ELSE <<rest>> \o Tail(writeQueue) IN
       /\ rest # <<>> => stalls < MaxStalls
       /\ stalls' = IF rest = <<>> THEN stalls ELSE stalls + 1
       /\ written' = written \o SubSeq(Head(writeQueue), 1, n)
       /\ writeQueue' = left /\ isWritingAsync' = (left # <<>>)
  /\ UNCHANGED <<build, closed, readBuffer, reading, queued, lost, errors>>

(* ... or failed: CloseSocket. *)
WriteHandlerError ==
  /\ build = "iocp" /\ isWritingAsync
  /\ closed \/ errors < MaxWriteErrors
  /\ closed' = TRUE /\ isWritingAsync' = FALSE /\ lost' = TRUE
  /\ errors' = IF closed THEN errors ELSE errors + 1
  /\ UNCHANGED <<build, writeQueue, readBuffer, reading, queued, written, stalls>>

WriteStep == Update \/ WriteHandlerWrapper \/ WriteHandler \/ WriteHandlerError

-----------------------------------------------------------------------------
(* What was queued reaches the client whole and in order, however the system *)
(* splits the writes and whichever build does them, as long as none fails    *)
(* (Socket.h:220 drops a packet that fails and goes on with the next).       *)
StreamIsIntact == ~lost => written \o FlattenSeq(writeQueue) = queued

(* A read is never started into a full buffer, which would complete at once  *)
(* with no byte and for ever, and a client whose packets fit READ_BLOCK_SIZE *)
(* never makes the server's buffer grow, however many of them it sends and   *)
(* wherever they are cut (MessageBuffer::Normalize, EnsureFreeSpace).        *)
BufferStaysSmall ==
  /\ readBuffer.size = ReadBlock
  /\ reading => GetRemainingSpace(readBuffer) > 0

(* Every packet queued on a connection that stays open is written: no write  *)
(* is forgotten between Update, the wait for a socket that blocks and the    *)
(* completion of the one before.                                             *)
EverythingIsWritten == writeQueue # <<>> ~> (writeQueue = <<>> \/ closed)
=============================================================================
