----------------------------- MODULE TcpClient -----------------------------
(***************************************************************************)
(* NetCoreServer's TcpClient as the game client uses it: ConnectAsync,     *)
(* SendAsync and Disconnect.  The game's main thread and the threads on    *)
(* which the system completes connects, sends and receives share it; only  *)
(* the send buffers have a lock.  A thread can be held up between a test   *)
(* of IsConnected and what follows it, for as long as it takes to lose the *)
(* connection and to make another: `late` tells that this has happened.    *)
(* Of the threads that are late the model follows what they do to the      *)
(* flags and the socket, one of each kind at a time.                       *)
(***************************************************************************)
EXTENDS Integers, Sequences

CONSTANTS
  MaxConnections,  (* bound: connects that are tried *)
  MaxPartialSends  (* bound: sends the system completes in part *)

ASSUME ClientAssumption == MaxConnections \in Nat /\ MaxPartialSends \in Nat

VARIABLES
  isConnected, isConnecting,
  connect,      (* Socket: "closed", "pending" or "open" *)
  opening,      (* the connections whose ProcessConnect has yet to set IsConnected *)
  outgoing,     (* the bytes of a SendAsync that has found the client connected *)
  sending,      (* _sending *)
  main, flush,  (* _sendBufferMain and _sendBufferFlush, past its offset *)
  send,         (* the send of flush: "none", "pending" or "done" *)
  transferred,  (* e.BytesTransferred of a send that is done *)
  receiving,    (* _receiving *)
  receiver,     (* the receive: "none", "waits" for data, "storing" it, "trying" the next *)
  begun,        (* completions that began before Disconnect detached their handlers *)
  leaving,      (* the threads that have passed the test of Disconnect ... *)
  clearing,     (* ... and those that have closed the socket *)
  epoch,        (* the connections tried, whose last is Socket *)
  accepted,     (* the bytes SendAsync took on this connection *)
  sent,         (* the bytes the system sent on it *)
  received,     (* how many bytes of the server's were received on it *)
  partials,     (* how much of MaxPartialSends is used *)
  late          (* a connect began while a thread was in a call about the one before *)

sendVars       == <<outgoing, sending, main, flush, send, transferred, accepted, sent>>
receiveVars    == <<receiving, receiver, received>>
leaveVars      == <<begun, leaving, clearing>>
connectionVars == <<connect, opening, leaveVars, epoch, partials, late>>
clientVars     == <<isConnected, isConnecting, connectionVars, sendVars, receiveVars>>

ClientInit ==
  /\ isConnected = FALSE /\ isConnecting = FALSE /\ connect = "closed" /\ opening = {}
  /\ outgoing = <<>> /\ sending = FALSE /\ main = <<>> /\ flush = <<>>
  /\ send = "none" /\ transferred = 0
  /\ receiving = FALSE /\ receiver = "none"
  /\ begun = {} /\ leaving = {} /\ clearing = {} /\ epoch = 0
  /\ accepted = <<>> /\ sent = <<>> /\ received = 0
  /\ partials = 0 /\ late = FALSE

-----------------------------------------------------------------------------
(* A thread has not left the calls about this connection. *)
Inside == opening # {} \/ begun # {} \/ leaving # {} \/ clearing # {} \/ receiver # "none"

(* ConnectAsync on a client that is neither connected nor connecting.  The   *)
(* buffers are new; _sending and _receiving stay what they are.              *)
ConnectAsync ==
  /\ ~isConnected /\ ~isConnecting /\ outgoing = <<>>
  /\ epoch < MaxConnections
  /\ isConnecting' = TRUE /\ connect' = "pending"
  /\ main' = <<>> /\ flush' = <<>> /\ send' = "none" /\ transferred' = 0
  /\ accepted' = <<>> /\ sent' = <<>> /\ received' = 0
  /\ epoch' = epoch + 1
  /\ late' = (late \/ Inside)
  /\ UNCHANGED <<isConnected, opening, outgoing, sending, receiving, receiver, leaveVars, partials>>

(* Mutant: only a success ends the connecting. *)
ConnectCompletesKeeps(success) ==
  /\ connect = "pending"
  /\ isConnecting' = ~success
  /\ connect' = IF success THEN "open" ELSE "closed"
  /\ opening' = IF success THEN opening \cup {epoch} ELSE opening
  /\ UNCHANGED <<isConnected, sendVars, receiveVars, leaveVars, epoch, partials, late>>

(* ProcessConnect as far as it clears IsConnecting, all of it for a refusal. *)
ConnectCompletes(success) ==
  /\ connect = "pending"
  /\ isConnecting' = FALSE
  /\ connect' = IF success THEN "open" ELSE "closed"
  /\ opening' = IF success THEN opening \cup {epoch} ELSE opening
  /\ UNCHANGED <<isConnected, sendVars, receiveVars, leaveVars, epoch, partials, late>>

(* ProcessConnect of connection e sets IsConnected and calls TryReceive.  *)
ProcessConnect(e) ==
  /\ e \in opening
  /\ opening' = opening \ {e}
  /\ isConnected' = TRUE
  /\ receiver' = IF receiving \/ receiver # "none" THEN receiver ELSE "trying"
  /\ UNCHANGED <<isConnecting, connect, sendVars, receiving, received, leaveVars,
                 epoch, partials, late>>

(* TryReceive past its tests: on a socket that was closed meanwhile nothing *)
(* is received, and _receiving says the opposite.                           *)
TryReceive ==
  /\ receiver = "trying"
  /\ receiving' = TRUE
  /\ receiver' = IF connect = "closed" THEN "none" ELSE "waits"
  /\ UNCHANGED <<isConnected, isConnecting, connectionVars, sendVars, received>>

-----------------------------------------------------------------------------
(* SendAsync, up to its test. *)
SendAsync(bytes) ==
  /\ outgoing' = IF isConnected THEN bytes ELSE outgoing
  /\ UNCHANGED <<sending, main, flush, send, transferred, accepted, sent>>

(* Mutant: a send is started while another one is in progress. *)
SendAtOnce ==
  /\ outgoing # <<>>
  /\ outgoing' = <<>> /\ accepted' = accepted \o outgoing
  /\ sending' = TRUE
  /\ IF isConnected
     THEN main' = <<>> /\ flush' = main \o outgoing /\ send' = "pending" /\ transferred' = 0
     ELSE main' = main \o outgoing /\ UNCHANGED <<flush, send, transferred>>
  /\ UNCHANGED <<isConnected, isConnecting, connectionVars, receiveVars, sent>>

(* ... and under the lock: the bytes wait in the main buffer while a send is *)
(* in progress; otherwise TrySend, if the client still is connected, swaps   *)
(* the buffers and starts one.  _sending is set before TrySend tests.        *)
SendBuffered ==
  /\ outgoing # <<>>
  /\ outgoing' = <<>> /\ accepted' = accepted \o outgoing
  /\ sending' = TRUE
  /\ IF ~sending /\ isConnected /\ flush = <<>>
     THEN main' = <<>> /\ flush' = main \o outgoing /\ send' = "pending" /\ transferred' = 0
     ELSE main' = main \o outgoing /\ UNCHANGED <<flush, send, transferred>>
  /\ UNCHANGED <<isConnected, isConnecting, connectionVars, receiveVars, sent>>

(* The system sends the flush buffer, or the first n bytes of it. *)
SystemSends ==
  /\ send = "pending" /\ connect = "open"
  /\ \E n \in 1 .. Len(flush) :
       /\ n < Len(flush) => partials < MaxPartialSends
       /\ partials' = IF n < Len(flush) THEN partials + 1 ELSE partials
       /\ sent' = sent \o SubSeq(flush, 1, n)
       /\ transferred' = n
  /\ send' = "done"
  /\ UNCHANGED <<isConnected, isConnecting, connect, opening, outgoing, sending, main, flush,
                 accepted, receiveVars, leaveVars, epoch, late>>

(* Mutant: the end of a send is the end of the sending. *)
ProcessSendStops ==
  /\ send = "done" /\ isConnected
  /\ transferred' = 0
  /\ flush' = SubSeq(flush, transferred + 1, Len(flush))
  /\ sending' = FALSE /\ send' = "none" /\ UNCHANGED main
  /\ UNCHANGED <<isConnected, isConnecting, connectionVars, receiveVars, outgoing, accepted, sent>>

(* ProcessSend, then TrySend.  What is left of a flush buffer that was sent  *)
(* in part is never sent: TrySend returns, with _sending still set.          *)
ProcessSend ==
  /\ send = "done" /\ isConnected
  /\ transferred' = 0
  /\ IF transferred < Len(flush)
     THEN /\ flush' = SubSeq(flush, transferred + 1, Len(flush))
          /\ send' = "none" /\ UNCHANGED <<main, sending>>
     ELSE /\ flush' = main /\ main' = <<>>
          /\ send' = IF main = <<>> THEN "none" ELSE "pending"
          /\ sending' = (main # <<>>)
  /\ UNCHANGED <<isConnected, isConnecting, connectionVars, receiveVars, outgoing, accepted, sent>>

-----------------------------------------------------------------------------
(* Disconnect, up to its test: a thread that finds the client connected, or  *)
(* connecting, goes on.                                                      *)
DisconnectTests(t) ==
  /\ isConnected \/ isConnecting
  /\ t \notin leaving \cup clearing
  /\ leaving' = leaving \cup {t}
  /\ UNCHANGED <<begun, clearing>>

(* ... the handlers are detached and whatever Socket is by now is closed, or *)
(* its connect cancelled.  Of what was under way some completions may have   *)
(* begun, and test IsConnected later.  IsConnecting is left as it is.        *)
DisconnectCloses(t) ==
  /\ t \in leaving
  /\ leaving' = leaving \ {t} /\ clearing' = clearing \cup {t}
  /\ isConnected' = FALSE /\ connect' = "closed"
  /\ \E b \in SUBSET ((IF receiver = "waits" THEN {"receive"} ELSE {})
                       \cup (IF send = "pending" THEN {"send"} ELSE {})) :
       begun' = begun \cup b \cup (IF send = "done" THEN {"send"} ELSE {})
  /\ send' = "none"
  /\ receiver' = IF receiver = "waits" THEN "none" ELSE receiver
  /\ UNCHANGED <<isConnecting, opening, outgoing, sending, main, flush, transferred, accepted, sent,
                 receiving, received, epoch, partials, late>>

(* ... and the flags and buffers are cleared.  SendAsync and TryReceive may  *)
(* set the flags again, once this is over.                                   *)
DisconnectClears(t) ==
  /\ t \in clearing
  /\ clearing' = clearing \ {t}
  /\ sending' = FALSE /\ receiving' = FALSE
  /\ main' = <<>> /\ flush' = <<>> /\ send' = "none" /\ transferred' = 0
  /\ UNCHANGED <<isConnected, isConnecting, connect, opening, outgoing, accepted, sent,
                 receiver, received, begun, leaving, epoch, partials, late>>

(* A completion that began before the handlers were detached finds the client *)
(* disconnected.  If it is late, it takes the next connection for its own,    *)
(* which it may disconnect.                                                   *)
CompletionReturns(t) ==
  /\ t \in begun
  /\ begun' = begun \ {t}
  /\ leaving' \in {leaving} \cup (IF isConnected THEN {leaving \cup {t}} ELSE {})
  /\ UNCHANGED <<isConnected, isConnecting, connect, opening, sendVars, receiveVars, clearing,
                 epoch, partials, late>>

-----------------------------------------------------------------------------
(* While the client is connected the bytes it was given leave in the order  *)
(* they were given, none skipped and none twice, although the main thread   *)
(* appends while the system's thread completes a send (TrySend's swap), and *)
(* may do so after Disconnect has cleared the buffers.                      *)
SentInOrder ==
  isConnected /\ ~late =>
    accepted = sent \o SubSeq(flush, transferred + 1, Len(flush)) \o main

(* The client is stuck connecting, with no connect under way, only when a   *)
(* thread was held up inside ProcessConnect, Disconnect, or a completion,   *)
(* while the main thread began the next connect: it then disconnects that.  *)
StuckOnlyIfLate == isConnecting /\ connect # "pending" => late
=============================================================================
