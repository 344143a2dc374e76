--------------------------- MODULE NetworkManager ---------------------------
(***************************************************************************)
(* The game client's login: NetworkManager, on the main thread, sends a    *)
(* request for each reply and shows the outcome; OnClientDataReceived, on  *)
(* the thread that received, hands it what arrived.  Whatever one receive  *)
(* returned is taken for one message.                                      *)
(*                                                                         *)
(* The two share a Queue<T>, `messages`, and the lock that the one takes   *)
(* the other does not know.  Enqueue and Dequeue are two steps each: the   *)
(* element with the reading of _size, and the writing of _size.            *)
(*                                                                         *)
(* A message is two bytes long, and a byte knows its message and which of  *)
(* the two it is; what it carries is its command, the connection and       *)
(* account it is about and, of a reply, whether it is a success.           *)
(***************************************************************************)
EXTENDS TcpClient

CONSTANTS
  Accounts,   (* the names a user may log in with *)
  NoAccount,
  MaxLogins   (* bound: logins that are tried *)

ASSUME ManagerAssumption == NoAccount \notin Accounts /\ MaxLogins \in Nat

VARIABLES
  account,      (* the account, whose password hash is computed with it *)
  m2,           (* the proof awaited: of which account on which connection *)
  messages,     (* messages: what each receive returned, from _head to _tail *)
  size,         (* its _size *)
  enqueued, dequeued, (* _size as Enqueue and Dequeue have read it *)
  frame,        (* DispatchMessage: "idle", about to "take" a message, "store" _size, "handle" one *)
  tempMessages, (* tempMessages: those of the frame that is under way *)
  dispatching,  (* the DispatchMessage coroutine runs *)
  waiting,      (* the user awaits the outcome of a login *)
  logins,       (* how much of MaxLogins is used *)
  split,        (* a receive returned other than one whole message *)
  stale,        (* a message of an earlier connection was handled *)
  short,        (* a request left with fewer bytes than the server awaits *)
  torn          (* Enqueue and Dequeue were under way at once *)

queueVars   == <<messages, size, enqueued, dequeued, frame, tempMessages, torn>>
managerVars == <<account, m2, queueVars, dispatching, waiting, logins, split, stale, short>>

Commands == {"LogonChallenge", "LogonProof", "RealmList"}
Request(cmd, tag, a) == [cmd |-> cmd, tag |-> tag, account |-> a, ok |-> TRUE]
Reply(cmd, tag, a, success) == [cmd |-> cmd, tag |-> tag, account |-> a, ok |-> success]
Bytes(m) == <<[msg |-> m, part |-> 1], [msg |-> m, part |-> 2]>>

ManagerInit ==
  /\ account = NoAccount /\ m2 = [tag |-> 0, account |-> NoAccount]
  /\ messages = <<>> /\ size = 0 /\ enqueued = 0 /\ dequeued = 0
  /\ frame = "idle" /\ tempMessages = <<>> /\ torn = FALSE
  /\ dispatching = TRUE /\ waiting = FALSE /\ logins = 0
  /\ split = FALSE /\ stale = FALSE /\ short = FALSE

-----------------------------------------------------------------------------
(* The main thread handles the user between two frames. *)
BetweenFrames == frame = "idle" /\ outgoing = <<>>

(* Login on a connected client: the challenge is sent.  (On another one it  *)
(* connects, and the user has to ask again.)                                *)
Login(a) ==
  /\ BetweenFrames /\ isConnected /\ logins < MaxLogins
  /\ account' = a /\ waiting' = TRUE /\ logins' = logins + 1
  /\ SendAsync(Bytes(Request("LogonChallenge", epoch, a)))
  /\ UNCHANGED <<m2, queueVars, dispatching, split, stale, short>>

IsWhole(chunk) == Len(chunk) = 2 /\ chunk[1].part = 1

(* OnClientDataReceived, up to the reading of _size ... *)
OnClientDataReceived(chunk) ==
  /\ messages' = Append(messages, chunk) /\ enqueued' = size
  /\ split' = (split \/ ~IsWhole(chunk))
  /\ torn' = (torn \/ frame = "store")
  /\ UNCHANGED <<account, m2, size, dequeued, frame, tempMessages, dispatching, waiting,
                 logins, stale, short>>

(* ... and the rest. *)
Enqueued ==
  /\ size' = enqueued + 1 /\ enqueued' = 0
  /\ UNCHANGED <<account, m2, messages, dequeued, frame, tempMessages, torn, dispatching, waiting,
                 logins, split, stale, short>>

(* OnClientDisconnected, and OnClientError for a refused connection. *)
ShowMessage ==
  /\ waiting' = FALSE
  /\ UNCHANGED <<account, m2, queueVars, dispatching, logins, split, stale, short>>

(* DispatchMessage, at the end of a frame: the messages are taken over one  *)
(* by one, as long as _size is not zero.  Where there is none, Dequeue      *)
(* returns null, here <<>>.                                                 *)
FrameTakes ==
  /\ dispatching /\ outgoing = <<>>
  /\ frame \in {"idle", "take"} /\ size # 0
  /\ tempMessages' = Append(tempMessages, IF messages = <<>> THEN <<>> ELSE Head(messages))
  /\ messages' = SubSeq(messages, 2, Len(messages))
  /\ dequeued' = size /\ frame' = "store"
  /\ torn' = (torn \/ receiver = "storing")
  /\ UNCHANGED <<account, m2, size, enqueued, dispatching, waiting, logins, split, stale, short,
                 sendVars>>

FrameStores ==
  /\ frame = "store"
  /\ size' = dequeued - 1 /\ dequeued' = 0 /\ frame' = "take"
  /\ UNCHANGED <<account, m2, messages, enqueued, tempMessages, torn, dispatching, waiting, logins,
                 split, stale, short, sendVars>>

-----------------------------------------------------------------------------
(* ... and handled one by one, those of an earlier connection too: nothing  *)
(* empties the queues when the connection is lost.                          *)

(* An exception of a handler ends the coroutine. *)
Raises ==
  /\ dispatching' = FALSE
  /\ UNCHANGED <<m2, waiting, short, sendVars>>

Answered ==
  /\ waiting' = FALSE
  /\ UNCHANGED <<m2, dispatching, short, sendVars>>

Ignored == UNCHANGED <<m2, dispatching, waiting, short, sendVars>>

(* OnLoginResponse.  The public value A is written without its leading zero *)
(* bytes, and the proof then is shorter than the server's packet.           *)
OnLoginResponse(reply) ==
  \/ ~reply.ok /\ Answered
  \/ LET proof == Bytes(Request("LogonProof", reply.tag, account)) IN
     /\ reply.ok
     /\ m2' = [tag |-> reply.tag, account |-> account]
     /\ \/ SendAsync(proof) /\ UNCHANGED short
        \/ ~short /\ SendAsync(<<proof[1]>>) /\ short' = TRUE
     /\ UNCHANGED <<dispatching, waiting>>

(* OnLogonProofResponse: the server has to know the key too. *)
OnLogonProofResponse(reply) ==
  IF reply.ok /\ m2 = [tag |-> reply.tag, account |-> reply.account]
  THEN /\ SendAsync(Bytes(Request("RealmList", epoch, account)))
       /\ UNCHANGED <<m2, dispatching, waiting, short>>
  ELSE Answered

(* OnRealmListResponse shows the list, or that there is none. *)
OnMessage(reply) ==
  \/ reply.cmd = "LogonChallenge" /\ OnLoginResponse(reply)
  \/ reply.cmd = "LogonProof" /\ OnLogonProofResponse(reply)
  \/ reply.cmd = "RealmList" /\ Answered

(* A chunk that starts inside a message has any command; one that ends in  *)
(* its first message can be read where the handler needs no more of it;    *)
(* what follows the first message is lost.                                 *)
Dispatch ==
  /\ dispatching /\ outgoing = <<>> /\ tempMessages # <<>>
  /\ frame = "handle" \/ (frame = "take" /\ size = 0)
  /\ LET chunk == Head(tempMessages)
         reply == chunk[1].msg IN
     \/ chunk = <<>> /\ Raises
     \/ chunk # <<>> /\ chunk[1].part = 2 /\ (Ignored \/ Raises \/ Answered)
     \/ Len(chunk) = 1 /\ chunk[1].part = 1 /\ Raises
     \/ /\ Len(chunk) = 1 /\ chunk[1].part = 1 /\ (~reply.ok \/ reply.cmd = "RealmList")
        /\ Answered
     \/ Len(chunk) > 1 /\ chunk[1].part = 1 /\ OnMessage(reply)
  /\ tempMessages' = Tail(tempMessages)
  /\ frame' = IF dispatching' /\ Len(tempMessages) > 1 THEN "handle" ELSE "idle"
  /\ stale' = (stale \/ (Head(tempMessages) # <<>> /\ Head(tempMessages)[1].msg.tag # epoch))
  /\ UNCHANGED <<account, messages, size, enqueued, dequeued, torn, logins, split>>
=============================================================================
