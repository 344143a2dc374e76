---------------------------- MODULE AuthSession ----------------------------
(***************************************************************************)
(* The login sessions of the authentication server.  One network thread    *)
(* runs every session's ReadHandler and Update; their queries and updates  *)
(* go through the FIFO of the login database and are executed by its       *)
(* worker threads, so a session acts on rows read some time ago.           *)
(*                                                                         *)
(* All sessions come from one address and log in to one account, the case  *)
(* in which they interact.  What a packet contains (name, password, token, *)
(* version) is a choice of outcome; a read may end inside a packet and may *)
(* carry several.                                                          *)
(***************************************************************************)
EXTENDS Naturals, FiniteSets, SequencesExt

CONSTANTS
  Sessions,          (* the AuthSession objects a run may create            *)
  NoSession,         (* the network thread is in no ReadHandler             *)
  MaxCommands,       (* bound: commands a client sends in one session       *)
  MaxBatch,          (* bound: packets that arrive with one read            *)
  MaxActive,         (* bound: sessions alive at the same time              *)
  WorkerThreads,     (* LoginDatabase.WorkerThreads                         *)
  MaxWrongPassCount, (* WrongPass.MaxCount, 0 for no limit                  *)
  BanAccount,        (* WrongPass.BanType                                   *)
  PermanentBans      (* WrongPass.BanTime = 0                               *)

ASSUME AuthAssumption ==
  /\ NoSession \notin Sessions
  /\ MaxCommands \in Nat /\ MaxBatch \in Nat /\ MaxActive \in Nat
  /\ WorkerThreads \in Nat \ {0} /\ MaxWrongPassCount \in Nat
  /\ BanAccount \in BOOLEAN /\ PermanentBans \in BOOLEAN

VARIABLES
  link,      (* none, open, closed (CloseSocket was called), gone           *)
  reading,   (* an async_read_some is outstanding                           *)
  buffer,    (* _readBuffer: the packets received, the last maybe in part   *)
  reader,    (* the session whose ReadHandler loop is running               *)
  status,    (* AuthSession::_status                                        *)
  expansion, (* _expversion is not NO_VALID_EXP_FLAG                        *)
  callbacks, (* _queryProcessor: the queries whose answer is awaited        *)
  info,      (* _accountInfo, the row the last challenge read               *)
  srp,       (* _srp6: none, fresh, used                                    *)
  dbQueue,   (* operations enqueued to the login database's workers         *)
  account,   (* the row of the account, and whether it is banned            *)
  ipBanned,  (* ip_banned has a row in force for the address                *)
  asked,     (* the commands each session accepted                          *)
  replies,   (* the packets each session queued for its client              *)
  wrong      (* wrong passwords since the last successful login             *)

socketVars  == <<link, reading, buffer, reader>>
sessionVars == <<status, expansion, callbacks, info, srp>>
dbVars      == <<dbQueue, account, ipBanned>>
history     == <<asked, replies, wrong>>
vars        == <<socketVars, sessionVars, dbVars, history>>

Queries    == {"IpInfo", "LogonChallenge", "ReconnectChallenge", "CharacterCounts"}
Statements == {"FailedLogins", "BanAccount", "BanIp"}
Statuses   == {"Challenge", "LogonProof", "ReconnectProof", "Authed",
               "WaitingForRealmList", "Closed"}

(* The status in which each command is accepted. *)
Handlers == [LogonChallenge     |-> "Challenge",
             LogonProof         |-> "LogonProof",
             ReconnectChallenge |-> "Challenge",
             ReconnectProof     |-> "ReconnectProof",
             RealmList          |-> "Authed"]
Commands == DOMAIN Handlers

Packets  == [cmd : Commands \cup {"Unknown"}, whole : BOOLEAN]
NoInfo   == [loaded |-> FALSE, failed |-> 0]
Callback(q) == [query |-> q, ready |-> FALSE, found |-> FALSE, failed |-> 0, banned |-> FALSE]

IsOpen(s) == link[s] = "open"
Alive(s)  == link[s] \in {"open", "closed"} \/ reading[s]

Init ==
  /\ link = [s \in Sessions |-> "none"]
  /\ reading = [s \in Sessions |-> FALSE]
  /\ buffer = [s \in Sessions |-> <<>>]
  /\ reader = NoSession
  /\ status = [s \in Sessions |-> "Challenge"]
  /\ expansion = [s \in Sessions |-> FALSE]
  /\ callbacks = [s \in Sessions |-> <<>>]
  /\ info = [s \in Sessions |-> NoInfo]
  /\ srp = [s \in Sessions |-> "none"]
  /\ dbQueue = <<>>
  /\ account \in [failed : {0}, banned : {FALSE}, key : BOOLEAN]
  /\ ipBanned \in BOOLEAN
  /\ asked = [s \in Sessions |-> <<>>]
  /\ replies = [s \in Sessions |-> <<>>]
  /\ wrong = 0

-----------------------------------------------------------------------------
(* Socket and NetworkThread, as a session sees them *)

Operation(q, s) == [query |-> q, session |-> s]

(* LoginDatabase.AsyncQuery and _queryProcessor.AddCallback. *)
AsyncQuery(s, q) ==
  /\ dbQueue' = Append(dbQueue, Operation(q, s))
  /\ callbacks' = [callbacks EXCEPT ![s] = Append(@, Callback(q))]

(* Mutant: the packet is queued whatever the state of the socket. *)
SendAlways(s, cmd, ok) ==
  replies' = [replies EXCEPT ![s] = Append(@, [cmd |-> cmd, ok |-> ok])]

(* SendPacket: nothing is queued on a socket that is no longer open. *)
SendPacket(s, cmd, ok) ==
  replies' = IF IsOpen(s)
             THEN [replies EXCEPT ![s] = Append(@, [cmd |-> cmd, ok |-> ok])]
             ELSE replies

CloseSocket(s) == link' = [link EXCEPT ![s] = IF @ = "gone" THEN @ ELSE "closed"]

(* The loop is left through its last statement, AsyncRead(). *)
AsyncRead(s) ==
  /\ reading' = [reading EXCEPT ![s] = IsOpen(s)]
  /\ reader' = NoSession

(* OnSocketOpen: the session starts by looking its address up. *)
Start(s) ==
  /\ link[s] = "none"
  /\ Cardinality({t \in Sessions : Alive(t)}) < MaxActive
  /\ link' = [link EXCEPT ![s] = "open"]
  /\ AsyncQuery(s, "IpInfo")
  /\ UNCHANGED <<reading, buffer, reader, status, expansion, info, srp,
                 account, ipBanned, history>>

(* ReadHandlerInternal with data: the rest of a packet that was received in *)
(* part, the packets of `batch`, or both; the last one may be incomplete.    *)
(* A read that was outstanding when the socket was closed still completes.   *)
Batches == {b \in BoundedSeq(Packets, MaxBatch) : \A i \in 1 .. Len(b) - 1 : b[i].whole}

Receive(s, batch) ==
  /\ reader = NoSession /\ reading[s]
  /\ batch = <<>> => buffer[s] # <<>>
  /\ Len(asked[s]) + Len(buffer[s]) + Len(batch) <= MaxCommands
  /\ buffer' = [buffer EXCEPT ![s] = [i \in DOMAIN @ |-> [@[i] EXCEPT !.whole = TRUE]] \o batch]
  /\ reading' = [reading EXCEPT ![s] = FALSE]
  /\ reader' = s
  /\ UNCHANGED <<link, sessionVars, dbVars, history>>

(* ReadHandlerInternal with an error: the client is gone. *)
ReadFails(s) ==
  /\ reader = NoSession /\ reading[s]
  /\ CloseSocket(s)
  /\ reading' = [reading EXCEPT ![s] = FALSE]
  /\ UNCHANGED <<buffer, reader, sessionVars, dbVars, history>>

(* WriteHandler with an error (TC_SOCKET_USE_IOCP): a read stays outstanding. *)
WriteFails(s) ==
  /\ reader = NoSession /\ IsOpen(s) /\ replies[s] # <<>>
  /\ CloseSocket(s)
  /\ UNCHANGED <<reading, buffer, reader, sessionVars, dbVars, history>>

(* Mutant: a session is kept while one of its queries is out. *)
DropWhenIdle(s) ==
  /\ reader = NoSession /\ link[s] = "closed" /\ callbacks[s] = <<>>
  /\ link' = [link EXCEPT ![s] = "gone"]
  /\ UNCHANGED <<reading, buffer, reader, sessionVars, dbVars, history>>

(* NetworkThread::Update drops a session whose Update returns false.  Unless *)
(* an outstanding read still holds a shared_ptr to it, it is destroyed: the  *)
(* answers to its queries will go nowhere, and its history ends.             *)
DropSocket(s) ==
  /\ reader = NoSession /\ link[s] = "closed"
  /\ link' = [link EXCEPT ![s] = "gone"]
  /\ IF reading[s] THEN UNCHANGED <<buffer, sessionVars, asked, replies>>
     ELSE /\ buffer' = [buffer EXCEPT ![s] = <<>>]
          /\ status' = [status EXCEPT ![s] = "Closed"]
          /\ expansion' = [expansion EXCEPT ![s] = FALSE]
          /\ callbacks' = [callbacks EXCEPT ![s] = <<>>]
          /\ info' = [info EXCEPT ![s] = NoInfo]
          /\ srp' = [srp EXCEPT ![s] = "none"]
          /\ asked' = [asked EXCEPT ![s] = <<>>]
          /\ replies' = [replies EXCEPT ![s] = <<>>]
  /\ UNCHANGED <<reading, reader, dbVars, wrong>>

-----------------------------------------------------------------------------
(* AuthSession::ReadHandler, one iteration of its loop at a time *)

Packet(s) == Head(buffer[s])

(* No bytes left, an unknown command (the whole buffer is dropped), or the  *)
(* rest of this packet has not arrived.                                     *)
ReadMore(s) ==
  /\ reader = s
  /\ \/ buffer[s] = <<>> /\ UNCHANGED buffer
     \/ /\ buffer[s] # <<>> /\ Packet(s).cmd = "Unknown"
        /\ buffer' = [buffer EXCEPT ![s] = <<>>]
     \/ /\ buffer[s] # <<>> /\ Packet(s).cmd \in Commands /\ ~Packet(s).whole
        /\ status[s] = Handlers[Packet(s).cmd]
        /\ UNCHANGED buffer
  /\ AsyncRead(s)
  /\ UNCHANGED <<link, sessionVars, dbVars, history>>

(* A command that the status does not allow, seen at its first byte, or a   *)
(* challenge whose header announces too many bytes.                         *)
Rejected(s) ==
  /\ reader = s
  /\ buffer[s] # <<>> /\ Packet(s).cmd \in Commands
  /\ \/ status[s] # Handlers[Packet(s).cmd]
     \/ Packet(s).cmd \in {"LogonChallenge", "ReconnectChallenge"}
  /\ CloseSocket(s)
  /\ reader' = NoSession
  /\ UNCHANGED <<reading, buffer, sessionVars, dbVars, history>>

(* The handler of `cmd` is called; every one sets _status first. *)
Handle(s, cmd) ==
  /\ reader = s
  /\ buffer[s] # <<>> /\ Packet(s) = [cmd |-> cmd, whole |-> TRUE]
  /\ status[s] = Handlers[cmd]
  /\ asked' = [asked EXCEPT ![s] = Append(@, cmd)]
  /\ UNCHANGED reading

(* It returns true, and the loop goes on with the next packet ... *)
Handled(s, next) ==
  /\ status' = [status EXCEPT ![s] = next]
  /\ buffer' = [buffer EXCEPT ![s] = Tail(@)]
  /\ UNCHANGED <<link, reader>>

(* ... or false, and ReadHandler closes the socket. *)
Failed(s) ==
  /\ status' = [status EXCEPT ![s] = "Closed"]
  /\ CloseSocket(s)
  /\ reader' = NoSession
  /\ UNCHANGED <<buffer, replies>>

(* Mutant: the status is left as it was while the query is out. *)
ChallengeKeepsStatus(s, cmd, valid) ==
  /\ Handle(s, cmd)
  /\ Handled(s, "Challenge")
  /\ expansion' = [expansion EXCEPT ![s] = valid]
  /\ AsyncQuery(s, cmd)
  /\ UNCHANGED <<info, srp, account, ipBanned, replies, wrong>>

(* HandleLogonChallenge and HandleReconnectChallenge: the name must have    *)
(* the announced length; `valid` is what _build says of the expansion.      *)
HandleChallenge(s, cmd, valid) ==
  /\ Handle(s, cmd)
  /\ Handled(s, "Closed")
  /\ expansion' = [expansion EXCEPT ![s] = valid]
  /\ AsyncQuery(s, cmd)
  /\ UNCHANGED <<info, srp, account, ipBanned, replies, wrong>>

HandleBadChallenge(s, cmd) ==
  /\ Handle(s, cmd)
  /\ Failed(s)
  /\ UNCHANGED <<expansion, callbacks, info, srp, dbVars, wrong>>

(* A proof is turned down without an answer: a logon proof when the build   *)
(* is not one the server speaks to, a reconnect proof when no challenge was  *)
(* answered or the digest does not match.                                    *)
ProofFails(s, cmd) ==
  /\ Handle(s, cmd)
  /\ cmd = "LogonProof" => ~expansion[s]
  /\ Failed(s)
  /\ UNCHANGED <<expansion, callbacks, info, srp, dbVars, wrong>>

(* HandleLogonProof otherwise.  VerifyChallengeResponse consumes the SRP6   *)
(* object.                                                                  *)
VerifyChallengeResponse(s) ==
  /\ Handle(s, "LogonProof") /\ expansion[s]
  /\ srp' = [srp EXCEPT ![s] = "used"]

(* Mutant: a success forgives no failed login. *)
ProofForgivesNone(s) ==
  /\ VerifyChallengeResponse(s)
  /\ Handled(s, "Authed")
  /\ account' = [account EXCEPT !.key = TRUE]
  /\ SendPacket(s, "LogonProof", TRUE)
  /\ wrong' = 0
  /\ UNCHANGED <<expansion, callbacks, info, dbQueue, ipBanned>>

(* The password is right, the token and the version are too: the key is     *)
(* stored and failed_logins reset by a synchronous DirectExecute.           *)
LogonProofOk(s) ==
  /\ VerifyChallengeResponse(s)
  /\ Handled(s, "Authed")
  /\ account' = [account EXCEPT !.failed = 0, !.key = TRUE]
  /\ SendPacket(s, "LogonProof", TRUE)
  /\ wrong' = 0
  /\ UNCHANGED <<expansion, callbacks, info, dbQueue, ipBanned>>

(* The password is right, the token or the version is not. *)
LogonProofRefused(s) ==
  /\ VerifyChallengeResponse(s)
  /\ Handled(s, "Closed")
  /\ SendPacket(s, "LogonProof", FALSE)
  /\ UNCHANGED <<expansion, callbacks, info, dbVars, wrong>>

(* Mutant: the limit is compared with `>`. *)
LimitExceeded(s) == info[s].failed + 1 > MaxWrongPassCount

(* The password is wrong: count it in the database and in the copy the      *)
(* challenge read, and ban when the copy says that the limit is reached.    *)
LimitReached(s) == info[s].failed + 1 >= MaxWrongPassCount
BanOperation(s) == Operation(IF BanAccount THEN "BanAccount" ELSE "BanIp", s)

LogonProofWrong(s) ==
  /\ VerifyChallengeResponse(s)
  /\ Handled(s, "Closed")
  /\ SendPacket(s, "LogonProof", FALSE)
  /\ wrong' = wrong + 1
  /\ IF MaxWrongPassCount = 0
     THEN UNCHANGED <<info, dbQueue>>
     ELSE /\ info' = [info EXCEPT ![s].failed = @ + 1]
          /\ dbQueue' = dbQueue \o <<Operation("FailedLogins", s)>>
                          \o (IF LimitReached(s) THEN <<BanOperation(s)>> ELSE <<>>)
  /\ UNCHANGED <<expansion, callbacks, account, ipBanned>>

(* HandleReconnectProof: the digest matches and so does the version ... *)
ReconnectProofOk(s) ==
  /\ Handle(s, "ReconnectProof") /\ info[s].loaded
  /\ Handled(s, "Authed")
  /\ SendPacket(s, "ReconnectProof", TRUE)
  /\ UNCHANGED <<expansion, callbacks, info, srp, dbVars, wrong>>

(* ... or the digest matches and the version does not. *)
ReconnectProofRefused(s) ==
  /\ Handle(s, "ReconnectProof") /\ info[s].loaded
  /\ Handled(s, "Closed")
  /\ SendPacket(s, "ReconnectProof", FALSE)
  /\ UNCHANGED <<expansion, callbacks, info, srp, dbVars, wrong>>

HandleRealmList(s) ==
  /\ Handle(s, "RealmList")
  /\ Handled(s, "WaitingForRealmList")
  /\ AsyncQuery(s, "CharacterCounts")
  /\ UNCHANGED <<expansion, info, srp, account, ipBanned, replies, wrong>>

ReadHandler(s) ==
  \/ ReadMore(s) \/ Rejected(s)
  \/ \E cmd \in {"LogonChallenge", "ReconnectChallenge"} :
       HandleBadChallenge(s, cmd) \/ \E valid \in BOOLEAN : HandleChallenge(s, cmd, valid)
  \/ LogonProofOk(s) \/ LogonProofRefused(s) \/ LogonProofWrong(s)
  \/ ReconnectProofOk(s) \/ ReconnectProofRefused(s)
  \/ \E cmd \in {"LogonProof", "ReconnectProof"} : ProofFails(s, cmd)
  \/ HandleRealmList(s)

-----------------------------------------------------------------------------
(* The workers of the login database *)

IsQuery(op) == op.query \in Queries

(* What a query reads.  A query that fails reads as an empty result, the    *)
(* client may have named an unknown account, and a reconnect only finds an   *)
(* account that has a session key.                                           *)
Rows(op) ==
  LET c   == [Callback(op.query) EXCEPT !.ready = TRUE]
      row == [c EXCEPT !.found = TRUE, !.failed = account.failed, !.banned = account.banned]
  IN {c} \cup CASE op.query = "IpInfo" -> {[c EXCEPT !.banned = ipBanned]}
                [] op.query = "CharacterCounts" -> {}
                [] op.query = "LogonChallenge" -> {row}
                [] op.query = "ReconnectChallenge" -> IF account.key THEN {row} ELSE {}

(* Mutant: the query is executed and its promise never fulfilled. *)
ExecuteUnanswered(i) == IsQuery(dbQueue[i]) /\ UNCHANGED <<callbacks, account, ipBanned>>

(* Operations start in FIFO order, but as many run at once as there are     *)
(* worker threads, and they may finish in any order.                        *)
ExecuteQuery(i) ==
  /\ IsQuery(dbQueue[i])
  /\ \E row \in Rows(dbQueue[i]) :
       callbacks' = [callbacks EXCEPT ![dbQueue[i].session] =
         [j \in DOMAIN @ |-> IF @[j] = Callback(row.query) THEN row ELSE @[j]]]
  /\ UNCHANGED <<account, ipBanned>>

ExecuteStatement(i) ==
  /\ \/ /\ dbQueue[i].query = "FailedLogins"
        /\ account' = [account EXCEPT !.failed = @ + 1]
        /\ UNCHANGED ipBanned
     \/ /\ dbQueue[i].query = "BanAccount"
        /\ account' = [account EXCEPT !.banned = TRUE]
        /\ UNCHANGED ipBanned
     \/ /\ dbQueue[i].query = "BanIp"
        /\ ipBanned' = TRUE
        /\ UNCHANGED account
  /\ UNCHANGED callbacks

Execute(i) ==
  /\ i \in DOMAIN dbQueue
  /\ ExecuteQuery(i) \/ ExecuteStatement(i)
  /\ dbQueue' = RemoveAt(dbQueue, i)
  /\ UNCHANGED <<socketVars, status, expansion, info, srp, history>>

(* unbandate <= UNIX_TIMESTAMP(): a ban is in force no longer. *)
BanExpires ==
  /\ ~PermanentBans
  /\ account.banned \/ ipBanned
  /\ account' = [account EXCEPT !.banned = FALSE]
  /\ ipBanned' = FALSE
  /\ UNCHANGED <<socketVars, sessionVars, dbQueue, history>>

-----------------------------------------------------------------------------
(* Update: the callbacks whose query has been executed *)

(* ProcessReadyCallbacks runs the callback of the i-th query and drops it. *)
RunCallback(s, i, q) ==
  /\ reader = NoSession /\ IsOpen(s)
  /\ i \in DOMAIN callbacks[s]
  /\ callbacks[s][i].ready /\ callbacks[s][i].query = q
  /\ \A j \in 1 .. i - 1 : ~callbacks[s][j].ready
  /\ callbacks' = [callbacks EXCEPT ![s] = RemoveAt(@, i)]
  /\ UNCHANGED <<link, buffer, reader, expansion, dbVars, asked, wrong>>

(* A banned address is told so and never read from; its socket stays open. *)
CheckIpCallback(s, i) ==
  /\ RunCallback(s, i, "IpInfo")
  /\ IF callbacks[s][i].banned
     THEN /\ SendPacket(s, "LogonChallenge", FALSE)
          /\ UNCHANGED reading
     ELSE /\ reading' = [reading EXCEPT ![s] = TRUE]
          /\ UNCHANGED replies
  /\ UNCHANGED <<status, info, srp>>

LoadResult(s, row) == info' = [info EXCEPT ![s] = [loaded |-> TRUE, failed |-> row.failed]]

(* Mutant: an unknown account is not told so. *)
UnknownIsIgnored(s, i, cmd) ==
  /\ RunCallback(s, i, cmd)
  /\ ~callbacks[s][i].found
  /\ UNCHANGED <<replies, reading, status, info, srp>>

(* No such account. *)
UnknownAccount(s, i, cmd) ==
  /\ RunCallback(s, i, cmd)
  /\ ~callbacks[s][i].found
  /\ SendPacket(s, cmd, FALSE)
  /\ UNCHANGED <<reading, status, info, srp>>

(* A ban, the lock to an address or a country, or an unreadable TOTP secret. *)
LogonRefused(s, i) ==
  /\ RunCallback(s, i, "LogonChallenge")
  /\ callbacks[s][i].found
  /\ LoadResult(s, callbacks[s][i])
  /\ SendPacket(s, "LogonChallenge", FALSE)
  /\ UNCHANGED <<reading, status, srp>>

(* Mutant: a proof is awaited from any build. *)
AcceptAnyBuild(s, i) ==
  /\ RunCallback(s, i, "LogonChallenge")
  /\ callbacks[s][i].found /\ ~callbacks[s][i].banned
  /\ LoadResult(s, callbacks[s][i])
  /\ srp' = [srp EXCEPT ![s] = "fresh"]
  /\ status' = [status EXCEPT ![s] = "LogonProof"]
  /\ SendPacket(s, "LogonChallenge", expansion[s])
  /\ UNCHANGED reading

(* The challenge is set up; it is sent only to an accepted build. *)
LogonAccepted(s, i) ==
  /\ RunCallback(s, i, "LogonChallenge")
  /\ callbacks[s][i].found /\ ~callbacks[s][i].banned
  /\ LoadResult(s, callbacks[s][i])
  /\ srp' = [srp EXCEPT ![s] = "fresh"]
  /\ status' = [status EXCEPT ![s] = IF expansion[s] THEN "LogonProof" ELSE @]
  /\ SendPacket(s, "LogonChallenge", expansion[s])
  /\ UNCHANGED reading

ReconnectChallengeCallback(s, i) ==
  /\ RunCallback(s, i, "ReconnectChallenge")
  /\ callbacks[s][i].found
  /\ LoadResult(s, callbacks[s][i])
  /\ status' = [status EXCEPT ![s] = "ReconnectProof"]
  /\ SendPacket(s, "ReconnectChallenge", TRUE)
  /\ UNCHANGED <<reading, srp>>

RealmListCallback(s, i) ==
  /\ RunCallback(s, i, "CharacterCounts")
  /\ status' = [status EXCEPT ![s] = "Authed"]
  /\ SendPacket(s, "RealmList", TRUE)
  /\ UNCHANGED <<reading, info, srp>>

Update(s) ==
  \/ DropSocket(s)
  \/ \E i \in DOMAIN callbacks[s] :
       \/ CheckIpCallback(s, i)
       \/ \E cmd \in {"LogonChallenge", "ReconnectChallenge"} : UnknownAccount(s, i, cmd)
       \/ LogonRefused(s, i) \/ LogonAccepted(s, i)
       \/ ReconnectChallengeCallback(s, i) \/ RealmListCallback(s, i)

Workers == \E i \in 1 .. WorkerThreads : Execute(i)
Client(s) == Start(s) \/ ReadFails(s) \/ WriteFails(s) \/ \E b \in Batches : Receive(s, b)

Next ==
  \/ \E s \in Sessions : Client(s) \/ ReadHandler(s) \/ Update(s)
  \/ Workers \/ BanExpires

Spec == Init /\ [][Next]_vars

(* The timer of the network thread has Update called on every session each   *)
(* millisecond, and the io_context runs the handlers that are ready in turn: *)
(* reads, however many, cannot keep Update from running.  ReadHandler never  *)
(* blocks, and the workers drain the queue.  Nothing is assumed of clients.  *)
FairSpec ==
  /\ Spec
  /\ \A s \in Sessions : WF_vars(ReadHandler(s)) /\ SF_vars(Update(s))
  /\ WF_vars(Workers)

-----------------------------------------------------------------------------
(* Properties *)

(* Every variable keeps its type. *)
TypeOK ==
  /\ link \in [Sessions -> {"none", "open", "closed", "gone"}]
  /\ reading \in [Sessions -> BOOLEAN]
  /\ buffer \in [Sessions -> Seq(Packets)]
  /\ reader \in Sessions \cup {NoSession}
  /\ status \in [Sessions -> Statuses]
  /\ expansion \in [Sessions -> BOOLEAN]
  /\ callbacks \in [Sessions -> Seq([query : Queries, ready : BOOLEAN, found : BOOLEAN,
                                     failed : Nat, banned : BOOLEAN])]
  /\ info \in [Sessions -> [loaded : BOOLEAN, failed : Nat]]
  /\ srp \in [Sessions -> {"none", "fresh", "used"}]
  /\ dbQueue \in Seq([query : Queries \cup Statements, session : Sessions])
  /\ account \in [failed : Nat, banned : BOOLEAN, key : BOOLEAN]
  /\ ipBanned \in BOOLEAN
  /\ asked \in [Sessions -> Seq(Commands)]
  /\ replies \in [Sessions -> Seq([cmd : Commands, ok : BOOLEAN])]
  /\ wrong \in Nat

(* A session awaits at most one query, and its status says which: a packet   *)
(* that arrives while a query is out can neither start another nor be        *)
(* answered from the wrong row, whatever the client sends ahead.             *)
Awaiting(q) == CASE q = "IpInfo" -> "Challenge"
                 [] q = "CharacterCounts" -> "WaitingForRealmList"
                 [] OTHER -> "Closed"
OneQueryAtATime ==
  \A s \in Sessions :
    /\ Len(callbacks[s]) <= 1
    /\ callbacks[s] # <<>> =>
         /\ status[s] = Awaiting(callbacks[s][1].query)
         /\ callbacks[s][1].query = "IpInfo" => ~reading[s] /\ reader # s

(* When a logon proof is accepted for processing the SRP6 challenge it       *)
(* answers exists and has not been used (the ASSERT of                       *)
(* VerifyChallengeResponse), for a build the server speaks to; either proof  *)
(* is judged against an account row that a challenge has loaded.             *)
ProofHasChallenge ==
  \A s \in Sessions :
    /\ status[s] = "LogonProof" => srp[s] = "fresh" /\ expansion[s]
    /\ status[s] \in {"LogonProof", "ReconnectProof"} => info[s].loaded

(* Every accepted command of an open session is answered once and in order:  *)
(* only the last can still be without an answer, and it is then the one      *)
(* whose query is awaited.                                                   *)
AnsweredInOrder ==
  \A s \in Sessions : IsOpen(s) /\ asked[s] # <<>> =>
    /\ Len(asked[s]) = Len(replies[s]) + Len(callbacks[s])
    /\ \A i \in DOMAIN replies[s] : replies[s][i].cmd = asked[s][i]

(* The sessions implement LoginProtocol. *)
Phase(s) ==
  CASE link[s] = "none" -> "absent"
    [] link[s] \in {"closed", "gone"} -> "closed"
    [] IsOpen(s) /\ status[s] = "Challenge" ->
         IF callbacks[s] # <<>> THEN "greeting"
         ELSE IF reading[s] \/ reader = s THEN "admitted" ELSE "refused"
    [] IsOpen(s) /\ status[s] = "Closed" ->
         IF callbacks[s] # <<>> THEN "identified" ELSE "refused"
    [] IsOpen(s) /\ status[s] \in {"LogonProof", "ReconnectProof"} -> "proving"
    [] IsOpen(s) /\ status[s] = "Authed" -> "authed"
    [] IsOpen(s) /\ status[s] = "WaitingForRealmList" -> "listing"
Kind(s) == IF asked[s] = <<>> THEN "none"
           ELSE IF asked[s][1] = "LogonChallenge" THEN "logon" ELSE "reconnect"
Protocol == INSTANCE LoginProtocol
  WITH phase <- [s \in Sessions |-> Phase(s)], kind <- [s \in Sessions |-> Kind(s)],
       answers <- replies
ImplementsLoginProtocol == Protocol!Spec

NoStatementPending == \A i \in DOMAIN dbQueue : IsQuery(dbQueue[i])

(* Once the updates have reached the database, an account with               *)
(* WrongPass.MaxCount wrong passwords, or the address they came from, is     *)
(* banned.                                                                   *)
LimitEnforced ==
  MaxWrongPassCount > 0 /\ NoStatementPending /\ account.failed >= MaxWrongPassCount =>
    account.banned \/ ipBanned

(* failed_logins counts the wrong passwords since the last successful login. *)
CountIsExact == MaxWrongPassCount > 0 /\ NoStatementPending => account.failed = wrong

(* A query that is awaited is answered, unless the socket closes. *)
QueriesAnswered ==
  \A s \in Sessions : callbacks[s] # <<>> ~> callbacks[s] = <<>> \/ ~IsOpen(s)

(* A session whose socket has been closed leaves the network thread's list.  *)
ClosedIsDropped == \A s \in Sessions : link[s] = "closed" ~> link[s] = "gone"
=============================================================================
