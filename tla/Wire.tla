-------------------------------- MODULE Wire --------------------------------
(***************************************************************************)
(* One game client and the sessions it logs in with, over TCP: the byte    *)
(* streams between TcpClient and Socket, which either end may cut anywhere *)
(* and which may be refused or reset, and on top of them the dialogue of   *)
(* NetworkManager with AuthSession.  Of AuthSession only what the dialogue *)
(* needs is here; module AuthSession has the whole of it.                  *)
(***************************************************************************)
EXTENDS Socket, NetworkManager

CONSTANTS
  Registered,  (* the accounts the database knows *)
  MaxResets    (* bound: connections that are reset *)

ASSUME WireAssumption == Registered \subseteq Accounts /\ MaxResets \in Nat

VARIABLES
  status,         (* AuthSession::_status *)
  sessionAccount, (* _accountInfo and _srp6, of which account *)
  checking,       (* Start's query about the client's address is pending *)
  banned,         (* the client was told that its address is banned *)
  callback,       (* the reply the pending query will give, if one is *)
  handling,       (* the network thread is in the loop of ReadHandler *)
  taken,          (* how many of the client's bytes were read *)
  reset,          (* the connection was reset *)
  resets          (* how much of MaxResets is used *)

sessionVars == <<status, sessionAccount, checking, banned, callback, handling, taken>>
linkVars    == <<reset, resets>>
vars == <<socketVars, clientVars, managerVars, sessionVars, linkVars>>

Init ==
  /\ SocketInit /\ ClientInit /\ ManagerInit
  /\ status = "Closed" /\ sessionAccount = NoAccount /\ checking = FALSE /\ banned = FALSE
  /\ callback = <<>> /\ handling = FALSE /\ taken = 0
  /\ reset = FALSE /\ resets = 0

-----------------------------------------------------------------------------
(* The connection *)

(* Start, and Login when not connected: the client's last connection, if it *)
(* had one, can no longer reach it.                                         *)
Connect ==
  /\ BetweenFrames
  /\ ConnectAsync
  /\ closed' = TRUE /\ writeQueue' = <<>> /\ isWritingAsync' = FALSE
  /\ readBuffer' = EmptyBuffer /\ reading' = FALSE
  /\ queued' = <<>> /\ written' = <<>> /\ lost' = FALSE
  /\ status' = "Closed" /\ sessionAccount' = NoAccount /\ checking' = FALSE /\ banned' = FALSE
  /\ callback' = <<>> /\ handling' = FALSE /\ taken' = 0
  /\ reset' = FALSE
  /\ UNCHANGED <<build, stalls, errors, managerVars, resets>>

(* ProcessConnect's beginning for a success, with the server's new session, *)
(* whose Start asks the database about the client's address.                *)
Accept ==
  /\ ConnectCompletes(TRUE)
  /\ Open
  /\ status' = "Challenge" /\ checking' = TRUE
  /\ UNCHANGED <<managerVars, sessionAccount, banned, callback, handling, taken, linkVars>>

Refuse ==
  /\ ConnectCompletes(FALSE)
  /\ ShowMessage
  /\ UNCHANGED <<socketVars, sessionVars, linkVars>>

ConnectionReset ==
  /\ connect = "open" /\ ~reset /\ resets < MaxResets
  /\ reset' = TRUE /\ resets' = resets + 1
  /\ UNCHANGED <<socketVars, clientVars, managerVars, sessionVars>>

-----------------------------------------------------------------------------
(* The server *)

(* The address may be banned: the client is told so, asked or not, and the  *)
(* session then neither reads nor closes.                                   *)
CheckIpCallback ==
  /\ checking /\ ~handling /\ ~closed
  /\ checking' = FALSE
  /\ \/ /\ AsyncRead(readBuffer)
        /\ UNCHANGED <<banned, writeQueue, queued, isWritingAsync>>
     \/ /\ banned' = TRUE
        /\ QueuePacket(Bytes(Reply("LogonChallenge", epoch, NoAccount, FALSE)))
        /\ UNCHANGED <<readBuffer, reading>>
  /\ UNCHANGED <<build, closed, written, lost, stalls, errors, clientVars, managerVars,
                 status, sessionAccount, callback, handling, taken, linkVars>>

(* ReadHandlerInternal: some of the bytes under way, or an error. *)
ServerReceives ==
  /\ reading /\ ~handling
  /\ \E n \in 1 .. GetRemainingSpace(readBuffer) :
       /\ taken + n <= Len(sent)
       /\ readBuffer' = WriteCompleted(readBuffer, SubSeq(sent, taken + 1, taken + n))
       /\ taken' = taken + n
  /\ reading' = FALSE /\ handling' = TRUE
  /\ UNCHANGED <<build, closed, writeQueue, isWritingAsync, queued, written, lost, stalls,
                 errors, clientVars, managerVars, status, sessionAccount, checking, banned,
                 callback, linkVars>>

ServerReadFails ==
  /\ reading /\ ~handling
  /\ reset \/ connect = "closed"
  /\ closed' = TRUE /\ reading' = FALSE
  /\ UNCHANGED <<build, writeQueue, isWritingAsync, readBuffer, queued, written, lost,
                 stalls, errors, clientVars, managerVars, sessionVars, linkVars>>

(* The status each command is accepted in. *)
Accepts == [LogonChallenge |-> "Challenge", LogonProof |-> "LogonProof", RealmList |-> "Authed"]

CloseSocket ==
  /\ closed' = TRUE /\ handling' = FALSE
  /\ UNCHANGED <<writeQueue, isWritingAsync, queued, reading, readBuffer, status,
                 sessionAccount, callback>>

Leave(b) ==
  /\ AsyncRead(b) /\ handling' = FALSE
  /\ UNCHANGED <<closed, writeQueue, isWritingAsync, queued, status, sessionAccount, callback>>

(* The handlers: a challenge and a realm list ask the database, a proof is  *)
(* answered at once.                                                        *)
Handle(request, intact) ==
  \/ /\ request.cmd = "LogonChallenge"
     /\ status' = "Closed" /\ sessionAccount' = request.account
     /\ callback' = <<Reply("LogonChallenge", epoch, request.account, request.account \in Registered)>>
     /\ UNCHANGED <<writeQueue, queued, isWritingAsync>>
  \/ LET right == intact /\ request.tag = epoch /\ request.account = sessionAccount IN
     /\ request.cmd = "LogonProof"
     /\ status' = IF right THEN "Authed" ELSE "Closed"
     /\ QueuePacket(Bytes(Reply("LogonProof", epoch, sessionAccount, right)))
     /\ UNCHANGED <<sessionAccount, callback>>
  \/ /\ request.cmd = "RealmList"
     /\ status' = "WaitingForRealmList"
     /\ callback' = <<Reply("RealmList", epoch, sessionAccount, TRUE)>>
     /\ UNCHANGED <<sessionAccount, writeQueue, queued, isWritingAsync>>

(* One turn of ReadHandler's loop.  The first byte may belong to the inside *)
(* of a request, after one that came short: any command, or none.           *)
ReadHandler ==
  /\ handling
  /\ LET bytes == readBuffer.active IN
     \/ bytes = <<>> /\ Leave(readBuffer)
     \/ bytes # <<>> /\ bytes[1].part = 2 /\ (Leave(Reset(readBuffer)) \/ CloseSocket)
     \/ bytes # <<>> /\ bytes[1].part = 1 /\ Accepts[bytes[1].msg.cmd] # status /\ CloseSocket
     \/ /\ bytes # <<>> /\ bytes[1].part = 1 /\ Accepts[bytes[1].msg.cmd] = status
        /\ \/ Len(bytes) < 2 /\ Leave(readBuffer)
           \/ /\ Len(bytes) >= 2
              /\ Handle(bytes[1].msg, bytes[2] = [bytes[1] EXCEPT !.part = 2])
              /\ readBuffer' = ReadCompleted(readBuffer, 2)
              /\ UNCHANGED <<closed, reading, handling>>
  /\ UNCHANGED <<build, written, lost, stalls, errors, clientVars, managerVars, checking, banned,
                 taken, linkVars>>

(* Mutant: an answered challenge may be asked again. *)
QueryReturnsAgain ==
  /\ ~handling /\ ~closed /\ callback # <<>>
  /\ callback' = <<>>
  /\ QueuePacket(Bytes(Head(callback)))
  /\ status' = IF Head(callback).cmd = "RealmList" THEN "Authed" ELSE "Challenge"
  /\ UNCHANGED <<build, closed, readBuffer, reading, written, lost, stalls, errors,
                 clientVars, managerVars, sessionAccount, checking, banned, handling, taken,
                 linkVars>>

(* The callback of a query: ProcessReadyCallbacks. *)
QueryReturns ==
  /\ ~handling /\ ~closed /\ callback # <<>>
  /\ callback' = <<>>
  /\ QueuePacket(Bytes(Head(callback)))
  /\ status' = CASE Head(callback).cmd = "RealmList" -> "Authed"
                 [] Head(callback).cmd # "RealmList" /\ Head(callback).ok -> "LogonProof"
                 [] OTHER -> status
  /\ UNCHANGED <<build, closed, readBuffer, reading, written, lost, stalls, errors,
                 clientVars, managerVars, sessionAccount, checking, banned, handling, taken,
                 linkVars>>

ServerWrites ==
  /\ ~handling
  /\ WriteStep
  /\ UNCHANGED <<clientVars, managerVars, sessionVars, linkVars>>

Server ==
  CheckIpCallback \/ ServerReceives \/ ServerReadFails \/ ReadHandler \/ QueryReturns \/ ServerWrites

-----------------------------------------------------------------------------
(* The client *)

Elsewhere == <<socketVars, sessionVars, linkVars>>

Opens(e) == ProcessConnect(e) /\ UNCHANGED <<managerVars, Elsewhere>>

Receives == TryReceive /\ UNCHANGED <<managerVars, Elsewhere>>

Send ==
  /\ SystemSends \/ ProcessSend
  /\ UNCHANGED <<managerVars, Elsewhere>>

(* A send fails after a reset, or on a socket that is not connected yet. *)
SendFails ==
  /\ send = "pending" /\ isConnected
  /\ reset \/ connect = "pending"
  /\ send' = "none"
  /\ DisconnectTests("send")
  /\ UNCHANGED <<isConnected, isConnecting, connect, opening, outgoing, sending, main, flush,
                 transferred, accepted, sent, receiveVars, epoch, partials, late, managerVars,
                 Elsewhere>>

(* ProcessReceive with data: OnReceived ... *)
Receive ==
  /\ receiver = "waits" /\ isConnected /\ connect = "open"
  /\ \E n \in 1 .. Len(written) - received :
       /\ OnClientDataReceived(SubSeq(written, received + 1, received + n))
       /\ received' = received + n
  /\ receiver' = "storing"
  /\ UNCHANGED <<isConnected, isConnecting, connectionVars, sendVars, receiving, Elsewhere>>

(* ... and, if TryReceive finds the client connected still, the next one. *)
Stored ==
  /\ receiver = "storing"
  /\ Enqueued
  /\ receiver' = IF isConnected THEN "trying" ELSE "none"
  /\ receiving' = FALSE
  /\ UNCHANGED <<isConnected, isConnecting, connectionVars, sendVars, received, Elsewhere>>

(* ... or without, at the end of the stream, after a reset or on a socket   *)
(* that is not connected yet.                                               *)
ReceiveEnds ==
  /\ receiver = "waits" /\ isConnected
  /\ reset \/ (closed /\ received = Len(written)) \/ connect = "pending"
  /\ receiver' = "none" /\ receiving' = FALSE
  /\ DisconnectTests("receive")
  /\ UNCHANGED <<isConnected, isConnecting, connect, opening, sendVars, epoch, received,
                 partials, late, managerVars, Elsewhere>>

Returns(t) == CompletionReturns(t) /\ UNCHANGED <<managerVars, Elsewhere>>

Disconnects(t) == DisconnectCloses(t) /\ UNCHANGED <<managerVars, Elsewhere>>

Disconnected(t) ==
  /\ DisconnectClears(t)
  /\ ShowMessage
  /\ UNCHANGED Elsewhere

UserLogsIn(a) ==
  /\ Login(a)
  /\ UNCHANGED <<isConnected, isConnecting, connectionVars, receiveVars, Elsewhere>>

(* The main thread: the frame, and the second half of a SendAsync. *)
Frame ==
  \/ /\ FrameTakes \/ FrameStores \/ Dispatch
     /\ UNCHANGED <<isConnected, isConnecting, connectionVars, receiveVars, Elsewhere>>
  \/ SendBuffered /\ UNCHANGED <<managerVars, Elsewhere>>

Completions == {"send", "receive"}

ClientThreads ==
  \/ \E e \in 1 .. MaxConnections : Opens(e)
  \/ Receives \/ Send \/ SendFails \/ Receive \/ Stored \/ ReceiveEnds
  \/ \E t \in Completions : Returns(t) \/ Disconnects(t) \/ Disconnected(t)

Next ==
  \/ Connect \/ Accept \/ Refuse \/ ConnectionReset
  \/ Server
  \/ ClientThreads
  \/ \E a \in Accounts : UserLogsIn(a)
  \/ Frame

(* The server's network thread and the database answer, each of the client's *)
(* threads goes on and the game draws frames; the user and the network owe   *)
(* nothing but the outcome of a connect.                                     *)
Fairness ==
  /\ WF_vars(Accept \/ Refuse)
  /\ WF_vars(ServerReceives \/ ServerReadFails \/ ReadHandler)
  /\ WF_vars(CheckIpCallback \/ QueryReturns)
  /\ WF_vars(ServerWrites)
  /\ \A e \in 1 .. MaxConnections : WF_vars(Opens(e))
  /\ WF_vars(Receives \/ Receive \/ Stored \/ ReceiveEnds)
  /\ WF_vars(Send \/ SendFails)
  /\ \A t \in Completions : WF_vars(Returns(t) \/ Disconnects(t) \/ Disconnected(t))
  /\ WF_vars(Frame)

Spec == Init /\ [][Next]_vars /\ Fairness

-----------------------------------------------------------------------------
Names   == Accounts \cup {NoAccount}
Message == [cmd : Commands, tag : 0 .. MaxConnections, account : Names, ok : BOOLEAN]
Byte    == [msg : Message, part : 1 .. 2]
Buffer  == [active : Seq(Byte), rpos : Nat, size : Nat]
Chunk   == Seq(Byte) \ {<<>>}

SocketTypes ==
  /\ build \in {"reactor", "iocp"} /\ closed \in BOOLEAN /\ lost \in BOOLEAN
  /\ writeQueue \in Seq(Seq(Byte)) /\ isWritingAsync \in BOOLEAN
  /\ readBuffer \in Buffer /\ reading \in BOOLEAN
  /\ queued \in Seq(Byte) /\ written \in Seq(Byte)
  /\ stalls \in 0 .. MaxStalls /\ errors \in 0 .. MaxWriteErrors
ClientTypes ==
  /\ isConnected \in BOOLEAN /\ isConnecting \in BOOLEAN
  /\ connect \in {"closed", "pending", "open"} /\ opening \subseteq 0 .. MaxConnections
  /\ outgoing \in Seq(Byte) /\ sending \in BOOLEAN /\ main \in Seq(Byte) /\ flush \in Seq(Byte)
  /\ send \in {"none", "pending", "done"} /\ transferred \in 0 .. Len(flush)
  /\ receiving \in BOOLEAN /\ receiver \in {"none", "waits", "storing", "trying"}
  /\ begun \subseteq Completions /\ leaving \subseteq Completions /\ clearing \subseteq Completions
  /\ epoch \in 0 .. MaxConnections /\ late \in BOOLEAN
  /\ accepted \in Seq(Byte) /\ sent \in Seq(Byte) /\ received \in Nat
  /\ partials \in 0 .. MaxPartialSends
ManagerTypes ==
  /\ account \in Names /\ m2 \in [tag : 0 .. MaxConnections, account : Names]
  /\ messages \in Seq(Chunk) /\ tempMessages \in Seq(Chunk \cup {<<>>})
  /\ size \in Nat /\ enqueued \in Nat /\ dequeued \in Nat
  /\ frame \in {"idle", "take", "store", "handle"} /\ torn \in BOOLEAN
  /\ dispatching \in BOOLEAN /\ waiting \in BOOLEAN /\ logins \in 0 .. MaxLogins
  /\ split \in BOOLEAN /\ stale \in BOOLEAN /\ short \in BOOLEAN
SessionTypes ==
  /\ status \in {"Challenge", "LogonProof", "Authed", "WaitingForRealmList", "Closed"}
  /\ sessionAccount \in Names /\ checking \in BOOLEAN /\ banned \in BOOLEAN
  /\ callback \in Seq(Message) /\ handling \in BOOLEAN /\ taken \in Nat
  /\ reset \in BOOLEAN /\ resets \in 0 .. MaxResets

(* Every variable keeps its type, and neither end has read more bytes than   *)
(* the other has written.                                                    *)
TypeOK ==
  /\ SocketTypes /\ ClientTypes /\ ManagerTypes /\ SessionTypes
  /\ taken <= Len(sent) /\ received <= Len(written)

(* The client takes what one receive returns for one message, and loses what *)
(* follows (OnClientDataReceived).  No receive ever returns bytes of two     *)
(* replies: the statuses make the server answer a client that asks nothing   *)
(* before it was answered, or ask twice and be closed.  The exceptions are a *)
(* client that answers, on one connection, a challenge of the last one, and  *)
(* a thread that confuses the two.                                           *)
OneReplyPerChunk ==
  ~stale /\ ~late => \A q \in {messages, tempMessages} : \A i \in DOMAIN q :
    Len(q[i]) <= 2 /\ \A j \in DOMAIN q[i] : q[i][j].msg = q[i][1].msg

(* TcpClient believes that it sends, or receives, and nothing will end that: *)
(* what the user asks for from then on stays in the main buffer, or what the *)
(* server says is not read.                                                  *)
Mute == clearing = {} /\ sending /\ send = "none"
Deaf == clearing = {} /\ receiving /\ receiver = "none"

(* Whoever asked to be logged in is told the outcome, be it the realm list,  *)
(* an error or the loss of the connection, but for the cases this client     *)
(* cannot recover from: the stream cut a reply or a write of the server's    *)
(* failed, a request came short, the address is banned, a thread was late,   *)
(* the two ends of the message queue met, or TcpClient is mute or deaf.      *)
LoginIsAnswered ==
  waiting ~> \/ ~waiting
             \/ split \/ short \/ errors > 0 \/ banned
             \/ late \/ torn \/ Mute \/ Deaf
=============================================================================
