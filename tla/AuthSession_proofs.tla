------------------------- MODULE AuthSession_proofs -------------------------
(***************************************************************************)
(* Proofs about AuthSession, for every set of sessions, any number of      *)
(* packets per read and commands per session, and every setting of the     *)
(* WrongPass options and of the number of workers.                         *)
(*                                                                         *)
(* OneQueryAtATime is not inductive: a session must also start pristine    *)
(* (Pristine).  AnsweredInOrder needs in addition what the awaited query   *)
(* says of the last command (Answering).  That AuthSession implements      *)
(* LoginProtocol is proved from both and from Identified.                  *)
(***************************************************************************)
EXTENDS AuthSession, TLAPS, SequenceTheorems, FiniteSetTheorems

USE AuthAssumption DEF AuthAssumption

AwaitedRows == [query : Queries, ready : BOOLEAN, found : BOOLEAN,
                failed : Nat, banned : BOOLEAN]
Operations  == [query : Queries \cup Statements, session : Sessions]
Answers     == [cmd : Commands, ok : BOOLEAN]

(* A session that does not exist yet is as its constructor will leave it. *)
Pristine(s) ==
  link[s] = "none" =>
    /\ callbacks[s] = <<>> /\ status[s] = "Challenge"
    /\ ~reading[s] /\ reader # s
    /\ asked[s] = <<>> /\ replies[s] = <<>>

(* The parts of OneQueryAtATime, ProofHasChallenge and AnsweredInOrder that  *)
(* speak of one session.                                                     *)
OneQuery(s) ==
  /\ Len(callbacks[s]) <= 1
  /\ callbacks[s] # <<>> =>
       /\ status[s] = Awaiting(callbacks[s][1].query)
       /\ callbacks[s][1].query = "IpInfo" => ~reading[s] /\ reader # s

Challenged(s) ==
  /\ status[s] = "LogonProof" => srp[s] = "fresh" /\ expansion[s]
  /\ status[s] \in {"LogonProof", "ReconnectProof"} => info[s].loaded

Matched(a, r) == \A i \in DOMAIN r : r[i].cmd = a[i]
Answered(s) ==
  IsOpen(s) /\ asked[s] # <<>> =>
    /\ Len(asked[s]) = Len(replies[s]) + Len(callbacks[s])
    /\ Matched(asked[s], replies[s])

(* Nothing was sent to a session that may still ask its first command, and   *)
(* the query that is awaited is the one its last command started.            *)
CommandOf(q) == IF q = "CharacterCounts" THEN "RealmList" ELSE q
Answering(s) ==
  IsOpen(s) =>
    /\ asked[s] = <<>> /\ (reading[s] \/ reader = s \/ callbacks[s] # <<>>) => replies[s] = <<>>
    /\ callbacks[s] # <<>> =>
         /\ asked[s] = <<>> <=> callbacks[s][1].query = "IpInfo"
         /\ asked[s] # <<>> => asked[s][Len(asked[s])] = CommandOf(callbacks[s][1].query)

Sound(s) == Pristine(s) /\ OneQuery(s) /\ Challenged(s) /\ Answered(s) /\ Answering(s)
IInv == \A s \in Sessions : Sound(s)

-----------------------------------------------------------------------------
(* Sequences *)

(* Removing one element keeps the type of a sequence ... *)
LEMMA RemoveAtType ==
  ASSUME NEW S, NEW q \in Seq(S), NEW i \in DOMAIN q
  PROVE  RemoveAt(q, i) \in Seq(S)
<1>1. i \in 1 .. Len(q) /\ Len(q) \in Nat
  BY LenProperties
<1>2. SubSeq(q, 1, i - 1) \in Seq(S)
  <2>1. CASE i = 1
    <3>1. SubSeq(q, 1, i - 1) = <<>>
      BY <2>1, <1>1, SubSeqEmpty
    <3> QED
      BY <3>1, EmptySeq
  <2>2. CASE i # 1
    BY <2>2, <1>1, SubSeqProperties
  <2> QED
    BY <2>1, <2>2
<1>3. SubSeq(q, i + 1, Len(q)) \in Seq(S)
  <2>1. CASE i = Len(q)
    <3>1. SubSeq(q, i + 1, Len(q)) = <<>>
      BY <2>1, <1>1, SubSeqEmpty
    <3> QED
      BY <3>1, EmptySeq
  <2>2. CASE i # Len(q)
    BY <2>2, <1>1, SubSeqProperties
  <2> QED
    BY <2>1, <2>2
<1> QED
  BY <1>2, <1>3, ConcatProperties DEF RemoveAt

(* ... and removing the only element leaves none. *)
LEMMA RemoveOnly ==
  ASSUME NEW S, NEW q \in Seq(S), Len(q) <= 1, NEW i \in DOMAIN q
  PROVE  i = 1 /\ q # <<>> /\ RemoveAt(q, i) = <<>>
<1>1. i \in 1 .. Len(q) /\ Len(q) \in Nat
  BY LenProperties
<1>2. i = 1 /\ Len(q) = 1
  <2> DEFINE n == Len(q)
  <2>1. n \in Nat /\ n <= 1 /\ i \in 1 .. n
    BY <1>1
  <2> HIDE DEF n
  <2>2. i = 1 /\ n = 1
    BY <2>1
  <2> QED
    BY <2>2 DEF n
<1>3. SubSeq(q, 1, i - 1) = <<>> /\ SubSeq(q, i + 1, Len(q)) = <<>>
  BY <1>2, SubSeqEmpty
<1>4. <<>> \o <<>> = <<>>
  <2>1. <<>> \in Seq(S)
    BY EmptySeq
  <2> QED
    BY <2>1, ConcatEmptySeq
<1> QED
  BY <1>2, <1>3, <1>4, EmptySeq DEF RemoveAt

(* A sequence of one element. *)
LEMMA OnlyElement ==
  ASSUME NEW S, NEW e \in S
  PROVE  /\ Append(<<>>, e) \in Seq(S) /\ Append(<<>>, e) # <<>>
         /\ Len(Append(<<>>, e)) = 1 /\ Append(<<>>, e)[1] = e
<1>1. <<>> \in Seq(S) /\ Len(<<>>) = 0
  BY EmptySeq
<1> QED
  BY <1>1, AppendProperties

(* A sequence with one more element. *)
LEMMA AppendElement ==
  ASSUME NEW S, NEW q \in Seq(S), NEW e \in S
  PROVE  /\ Append(q, e) \in Seq(S) /\ Append(q, e) # <<>>
         /\ Len(q) \in Nat /\ Len(Append(q, e)) = Len(q) + 1
         /\ DOMAIN q = 1 .. Len(q) /\ DOMAIN Append(q, e) = 1 .. Len(q) + 1
         /\ Append(q, e)[Len(q) + 1] = e
         /\ \A i \in 1 .. Len(q) : Append(q, e)[i] = q[i]
  BY AppendProperties, LenProperties, EmptySeq

-----------------------------------------------------------------------------
(* Type correctness *)

(* What the helpers that several actions share do to the types. *)
LEMMA AsyncQueryType ==
  ASSUME TypeOK, NEW s \in Sessions, NEW q \in Queries, AsyncQuery(s, q)
  PROVE  dbQueue' \in Seq(Operations) /\ callbacks' \in [Sessions -> Seq(AwaitedRows)]
<1>1. Operation(q, s) \in Operations /\ Callback(q) \in AwaitedRows
  BY DEF Operation, Operations, Callback, AwaitedRows
<1>2. dbQueue \in Seq(Operations) /\ callbacks \in [Sessions -> Seq(AwaitedRows)]
  BY DEF TypeOK, Operations, AwaitedRows
<1>3. /\ Append(dbQueue, Operation(q, s)) \in Seq(Operations)
      /\ Append(callbacks[s], Callback(q)) \in Seq(AwaitedRows)
  BY <1>1, <1>2, AppendElement
<1> QED
  BY <1>2, <1>3 DEF AsyncQuery

(* ... SendPacket, ... *)
LEMMA SendPacketType ==
  ASSUME TypeOK, NEW s \in Sessions, NEW cmd \in Commands, NEW ok \in BOOLEAN,
         SendPacket(s, cmd, ok)
  PROVE  replies' \in [Sessions -> Seq(Answers)]
<1>1. [cmd |-> cmd, ok |-> ok] \in Answers
  BY DEF Answers
<1>2. replies \in [Sessions -> Seq(Answers)]
  BY DEF TypeOK, Answers
<1>3. Append(replies[s], [cmd |-> cmd, ok |-> ok]) \in Seq(Answers)
  BY <1>1, <1>2, AppendElement
<1> QED
  BY <1>2, <1>3 DEF SendPacket

(* ... CloseSocket, ... *)
LEMMA CloseSocketType ==
  ASSUME TypeOK, NEW s \in Sessions, CloseSocket(s)
  PROVE  link' \in [Sessions -> {"none", "open", "closed", "gone"}]
  BY DEF TypeOK, CloseSocket

(* ... taking a packet from the buffer, ... *)
LEMMA HandleType ==
  ASSUME TypeOK, NEW s \in Sessions, NEW cmd \in Commands, Handle(s, cmd)
  PROVE  /\ asked' \in [Sessions -> Seq(Commands)]
         /\ Tail(buffer[s]) \in Seq(Packets)
<1>1. asked[s] \in Seq(Commands) /\ buffer[s] \in Seq(Packets) /\ buffer[s] # <<>>
  BY DEF TypeOK, Handle
<1>2. Append(asked[s], cmd) \in Seq(Commands)
  BY <1>1, AppendElement
<1>3. Tail(buffer[s]) \in Seq(Packets)
  BY <1>1, HeadTailProperties
<1> QED
  BY <1>2, <1>3 DEF TypeOK, Handle

(* ... leaving a handler, ... *)
LEMMA HandledType ==
  ASSUME TypeOK, NEW s \in Sessions, NEW next \in Statuses,
         Tail(buffer[s]) \in Seq(Packets), Handled(s, next)
  PROVE  /\ status' \in [Sessions -> Statuses]
         /\ buffer' \in [Sessions -> Seq(Packets)]
  BY DEF TypeOK, Handled

(* ... and taking a callback. *)
LEMMA RunCallbackType ==
  ASSUME TypeOK, NEW s \in Sessions, NEW i, NEW q, RunCallback(s, i, q)
  PROVE  /\ callbacks' \in [Sessions -> Seq(AwaitedRows)]
         /\ callbacks[s] \in Seq(AwaitedRows) /\ i \in DOMAIN callbacks[s]
         /\ callbacks[s][i] \in AwaitedRows
<1>1. callbacks \in [Sessions -> Seq(AwaitedRows)] /\ i \in DOMAIN callbacks[s]
  BY DEF TypeOK, AwaitedRows, RunCallback
<1>2. callbacks[s] \in Seq(AwaitedRows)
  BY <1>1
<1>3. RemoveAt(callbacks[s], i) \in Seq(AwaitedRows)
  BY <1>1, <1>2, RemoveAtType
<1>4. i \in 1 .. Len(callbacks[s])
  BY <1>1, <1>2, LenProperties
<1>5. callbacks[s][i] \in AwaitedRows
  BY <1>2, <1>4, ElementOfSeq
<1>6. callbacks' = [callbacks EXCEPT ![s] = RemoveAt(@, i)]
  BY DEF RunCallback
<1> QED
  BY <1>1, <1>2, <1>3, <1>5, <1>6


(* The types hold initially ... *)
LEMMA InitTypeOK == Init => TypeOK
<1> SUFFICES ASSUME Init PROVE TypeOK
  OBVIOUS
<1>1. /\ <<>> \in Seq(Packets) /\ <<>> \in Seq(AwaitedRows) /\ <<>> \in Seq(Operations)
      /\ <<>> \in Seq(Commands) /\ <<>> \in Seq(Answers)
  BY EmptySeq
<1>2. NoInfo \in [loaded : BOOLEAN, failed : Nat]
  BY DEF NoInfo
<1>3. account \in [failed : Nat, banned : BOOLEAN, key : BOOLEAN]
  <2>1. {0} \subseteq Nat /\ {FALSE} \subseteq BOOLEAN
    OBVIOUS
  <2>2. account \in [failed : {0}, banned : {FALSE}, key : BOOLEAN]
    BY DEF Init
  <2> QED
    BY <2>1, <2>2
<1>4. /\ link \in [Sessions -> {"none", "open", "closed", "gone"}]
      /\ reading \in [Sessions -> BOOLEAN] /\ expansion \in [Sessions -> BOOLEAN]
      /\ reader \in Sessions \cup {NoSession}
      /\ status \in [Sessions -> Statuses]
      /\ srp \in [Sessions -> {"none", "fresh", "used"}]
      /\ ipBanned \in BOOLEAN /\ wrong \in Nat
  BY DEF Init, Statuses
<1>5. /\ buffer \in [Sessions -> Seq(Packets)]
      /\ callbacks \in [Sessions -> Seq(AwaitedRows)]
      /\ info \in [Sessions -> [loaded : BOOLEAN, failed : Nat]]
      /\ dbQueue \in Seq(Operations)
      /\ asked \in [Sessions -> Seq(Commands)]
      /\ replies \in [Sessions -> Seq(Answers)]
  BY <1>1, <1>2 DEF Init
<1> QED
  BY <1>3, <1>4, <1>5 DEF TypeOK, AwaitedRows, Operations, Answers

(* ... and are kept by what a client and the network do to the socket, ... *)
LEMMA ClientTypeOK ==
  ASSUME TypeOK, NEW s \in Sessions, Client(s)
  PROVE  TypeOK'
<1>1. CASE Start(s)
  <2>1. dbQueue' \in Seq(Operations) /\ callbacks' \in [Sessions -> Seq(AwaitedRows)]
    <3>1. "IpInfo" \in Queries /\ AsyncQuery(s, "IpInfo")
      BY <1>1 DEF Queries, Start
    <3> QED
      BY <3>1, AsyncQueryType
  <2>2. link' = [link EXCEPT ![s] = "open"]
    BY <1>1 DEF Start
  <2>3. UNCHANGED <<reading, buffer, reader, status, expansion, info, srp,
                    account, ipBanned, asked, replies, wrong>>
    BY <1>1 DEF Start, history
  <2> QED
    BY <2>1, <2>2, <2>3 DEF TypeOK, AwaitedRows, Operations
<1>2. CASE ReadFails(s)
  <2>1. link' \in [Sessions -> {"none", "open", "closed", "gone"}]
    BY <1>2, CloseSocketType DEF ReadFails
  <2>2. reading' \in [Sessions -> BOOLEAN]
    BY <1>2 DEF TypeOK, ReadFails
  <2>3. UNCHANGED <<buffer, reader, status, expansion, callbacks, info, srp,
                    dbQueue, account, ipBanned, asked, replies, wrong>>
    BY <1>2 DEF ReadFails, sessionVars, dbVars, history
  <2> QED
    BY <2>1, <2>2, <2>3 DEF TypeOK
<1>3. CASE WriteFails(s)
  <2>1. link' \in [Sessions -> {"none", "open", "closed", "gone"}]
    BY <1>3, CloseSocketType DEF WriteFails
  <2>2. UNCHANGED <<reading, buffer, reader, status, expansion, callbacks, info, srp,
                    dbQueue, account, ipBanned, asked, replies, wrong>>
    BY <1>3 DEF WriteFails, sessionVars, dbVars, history
  <2> QED
    BY <2>1, <2>2 DEF TypeOK
<1>4. ASSUME NEW b \in Batches, Receive(s, b) PROVE TypeOK'
  <2> DEFINE rest == [i \in DOMAIN buffer[s] |-> [buffer[s][i] EXCEPT !.whole = TRUE]]
  <2>1. b \in Seq(Packets)
    <3>1. PICK m \in 0 .. MaxBatch : b \in [1 .. m -> Packets]
      BY <1>4 DEF Batches, BoundedSeq, SeqOf
    <3> QED
      BY <3>1, SeqDef
  <2>2. rest \in Seq(Packets)
    <3>1. buffer[s] \in Seq(Packets)
      BY DEF TypeOK
    <3>2. Len(buffer[s]) \in Nat /\ DOMAIN buffer[s] = 1 .. Len(buffer[s])
      BY <3>1, LenProperties
    <3>3. ASSUME NEW i \in 1 .. Len(buffer[s])
          PROVE  [buffer[s][i] EXCEPT !.whole = TRUE] \in Packets
      <4>1. buffer[s][i] \in Packets
        BY <3>1, ElementOfSeq
      <4> QED
        BY <4>1 DEF Packets
    <3>4. rest \in [1 .. Len(buffer[s]) -> Packets]
      BY <3>2, <3>3
    <3> QED
      BY <3>2, <3>4, SeqDef
  <2> HIDE DEF rest
  <2>3. rest \o b \in Seq(Packets)
    BY <2>1, <2>2, ConcatProperties
  <2>4. buffer' = [buffer EXCEPT ![s] = rest \o b]
    BY <1>4 DEF Receive, rest
  <2>5. reading' = [reading EXCEPT ![s] = FALSE] /\ reader' = s
    BY <1>4 DEF Receive
  <2>6. UNCHANGED <<link, status, expansion, callbacks, info, srp, dbQueue, account,
                    ipBanned, asked, replies, wrong>>
    BY <1>4 DEF Receive, sessionVars, dbVars, history
  <2> QED
    BY <2>3, <2>4, <2>5, <2>6 DEF TypeOK
<1> QED
  BY <1>1, <1>2, <1>3, <1>4 DEF Client

(* ... by the operations the workers execute, ... *)
LEMMA WorkersTypeOK ==
  ASSUME TypeOK, Workers \/ BanExpires
  PROVE  TypeOK'
<1>1. ASSUME NEW i \in 1 .. WorkerThreads, Execute(i) PROVE TypeOK'
  <2>1. dbQueue \in Seq(Operations) /\ i \in DOMAIN dbQueue
    BY <1>1 DEF TypeOK, Operations, Execute
  <2>2. dbQueue' \in Seq(Operations)
    BY <1>1, <2>1, RemoveAtType DEF Execute
  <2>3. dbQueue[i] \in Operations
    <3>1. i \in 1 .. Len(dbQueue)
      BY <2>1, LenProperties
    <3> QED
      BY <2>1, <3>1, ElementOfSeq
  <2>4. callbacks' \in [Sessions -> Seq(AwaitedRows)]
    <3>1. callbacks \in [Sessions -> Seq(AwaitedRows)]
      BY DEF TypeOK, AwaitedRows
    <3>2. CASE ExecuteStatement(i)
      BY <3>1, <3>2 DEF ExecuteStatement
    <3>3. CASE ExecuteQuery(i)
      <4> DEFINE s == dbQueue[i].session
                 q == callbacks[s]
                 New(row) == [j \in DOMAIN q |-> IF q[j] = Callback(row.query) THEN row ELSE q[j]]
      <4>1. PICK row \in Rows(dbQueue[i]) : callbacks' = [callbacks EXCEPT ![s] = New(row)]
        BY <3>3 DEF ExecuteQuery
      <4>2. s \in Sessions /\ dbQueue[i].query \in Queries
        BY <2>3, <3>3 DEF Operations, ExecuteQuery, IsQuery
      <4>3. row \in AwaitedRows
        <5>1. Callback(dbQueue[i].query) \in AwaitedRows
          BY <4>2 DEF Callback, AwaitedRows
        <5>2. ipBanned \in BOOLEAN /\ account.failed \in Nat /\ account.banned \in BOOLEAN
          BY DEF TypeOK
        <5> QED
          BY <4>2, <5>1, <5>2 DEF Rows, AwaitedRows, Queries
      <4>4. q \in Seq(AwaitedRows)
        BY <3>1, <4>2
      <4> HIDE DEF q, s
      <4>5. Len(q) \in Nat /\ DOMAIN q = 1 .. Len(q)
        BY <4>4, LenProperties
      <4>6. \A j \in 1 .. Len(q) : q[j] \in AwaitedRows
        BY <4>4, ElementOfSeq
      <4>7. New(row) \in [1 .. Len(q) -> AwaitedRows]
        BY <4>3, <4>5, <4>6
      <4>8. New(row) \in Seq(AwaitedRows)
        BY <4>5, <4>7, SeqDef
      <4> QED
        BY <3>1, <4>1, <4>2, <4>8
    <3> QED
      BY <1>1, <3>2, <3>3 DEF Execute
  <2>5. /\ account' \in [failed : Nat, banned : BOOLEAN, key : BOOLEAN]
        /\ ipBanned' \in BOOLEAN
    <3>1. /\ account \in [failed : Nat, banned : BOOLEAN, key : BOOLEAN]
          /\ ipBanned \in BOOLEAN
      BY DEF TypeOK
    <3>2. CASE ExecuteQuery(i)
      BY <3>1, <3>2 DEF ExecuteQuery
    <3>3. CASE ExecuteStatement(i)
      <4>1. CASE account' = [account EXCEPT !.failed = @ + 1] /\ UNCHANGED ipBanned
        BY <3>1, <4>1
      <4>2. CASE account' = [account EXCEPT !.banned = TRUE] /\ UNCHANGED ipBanned
        BY <3>1, <4>2
      <4>3. CASE ipBanned' = TRUE /\ UNCHANGED account
        BY <3>1, <4>3
      <4> QED
        BY <3>3, <4>1, <4>2, <4>3 DEF ExecuteStatement
    <3> QED
      BY <1>1, <3>2, <3>3 DEF Execute
  <2>6. UNCHANGED <<link, reading, buffer, reader, status, expansion, info, srp,
                    asked, replies, wrong>>
    BY <1>1 DEF Execute, socketVars, history
  <2> QED
    BY <2>2, <2>4, <2>5, <2>6 DEF TypeOK, AwaitedRows, Operations
<1>2. CASE BanExpires
  <2>1. /\ account' \in [failed : Nat, banned : BOOLEAN, key : BOOLEAN]
        /\ ipBanned' \in BOOLEAN
    BY <1>2 DEF TypeOK, BanExpires
  <2>2. UNCHANGED <<link, reading, buffer, reader, status, expansion, callbacks, info, srp,
                    dbQueue, asked, replies, wrong>>
    BY <1>2 DEF BanExpires, socketVars, sessionVars, history
  <2> QED
    BY <2>1, <2>2 DEF TypeOK
<1> QED
  BY <1>1, <1>2 DEF Workers


(* ... by the handlers of the packets, ... *)
LEMMA ReadHandlerTypeOK ==
  ASSUME TypeOK, NEW s \in Sessions, ReadHandler(s)
  PROVE  TypeOK'
<1>0. {"LogonChallenge", "LogonProof", "ReconnectChallenge", "ReconnectProof", "RealmList"}
        \subseteq Commands
  BY DEF Commands, Handlers
<1>1. CASE ReadMore(s)
  <2>1. buffer' \in [Sessions -> Seq(Packets)]
    <3>1. buffer' = buffer \/ buffer' = [buffer EXCEPT ![s] = <<>>]
      BY <1>1 DEF ReadMore
    <3>2. <<>> \in Seq(Packets)
      BY EmptySeq
    <3> QED
      BY <3>1, <3>2 DEF TypeOK
  <2>2. reading' \in [Sessions -> BOOLEAN] /\ reader' = NoSession
    BY <1>1 DEF TypeOK, ReadMore, AsyncRead, IsOpen
  <2>3. UNCHANGED <<link, status, expansion, callbacks, info, srp, dbQueue, account,
                    ipBanned, asked, replies, wrong>>
    BY <1>1 DEF ReadMore, sessionVars, dbVars, history
  <2> QED
    BY <2>1, <2>2, <2>3 DEF TypeOK
<1>2. CASE Rejected(s)
  <2>1. link' \in [Sessions -> {"none", "open", "closed", "gone"}]
    BY <1>2, CloseSocketType DEF Rejected
  <2>2. reader' = NoSession
    BY <1>2 DEF Rejected
  <2>3. UNCHANGED <<reading, buffer, status, expansion, callbacks, info, srp, dbQueue,
                    account, ipBanned, asked, replies, wrong>>
    BY <1>2 DEF Rejected, sessionVars, dbVars, history
  <2> QED
    BY <2>1, <2>2, <2>3 DEF TypeOK
<1>3. ASSUME NEW cmd \in {"LogonChallenge", "ReconnectChallenge"}, NEW valid \in BOOLEAN,
             HandleChallenge(s, cmd, valid)
      PROVE  TypeOK'
  <2>1. asked' \in [Sessions -> Seq(Commands)] /\ Tail(buffer[s]) \in Seq(Packets)
    BY <1>0, <1>3, HandleType DEF HandleChallenge
  <2>2. status' \in [Sessions -> Statuses] /\ buffer' \in [Sessions -> Seq(Packets)]
    BY <1>3, <2>1, HandledType DEF HandleChallenge, Statuses
  <2>3. dbQueue' \in Seq(Operations) /\ callbacks' \in [Sessions -> Seq(AwaitedRows)]
    BY <1>0, <1>3, AsyncQueryType DEF HandleChallenge, Queries
  <2>4. expansion' \in [Sessions -> BOOLEAN]
    BY <1>3 DEF TypeOK, HandleChallenge
  <2>5. UNCHANGED <<link, reading, reader, info, srp, account, ipBanned, replies, wrong>>
    BY <1>3 DEF HandleChallenge, Handle, Handled
  <2> QED
    BY <2>1, <2>2, <2>3, <2>4, <2>5 DEF TypeOK, AwaitedRows, Operations
<1>4. ASSUME NEW cmd \in Commands, Handle(s, cmd), Failed(s),
             UNCHANGED <<expansion, callbacks, info, srp, dbVars, wrong>>
      PROVE  TypeOK'
  <2>1. asked' \in [Sessions -> Seq(Commands)]
    BY <1>4, HandleType
  <2>2. status' \in [Sessions -> Statuses]
    BY <1>4 DEF TypeOK, Failed, Statuses
  <2>3. link' \in [Sessions -> {"none", "open", "closed", "gone"}]
    BY <1>4, CloseSocketType DEF Failed
  <2>4. reader' = NoSession
    BY <1>4 DEF Failed
  <2>5. UNCHANGED <<reading, buffer, expansion, callbacks, info, srp, dbQueue, account,
                    ipBanned, replies, wrong>>
    BY <1>4 DEF Handle, Failed, dbVars
  <2> QED
    BY <2>1, <2>2, <2>3, <2>4, <2>5 DEF TypeOK
<1>5. ASSUME NEW cmd \in Commands, NEW next \in Statuses, NEW ok \in BOOLEAN,
             Handle(s, cmd), Handled(s, next), SendPacket(s, cmd, ok),
             srp' \in [Sessions -> {"none", "fresh", "used"}],
             info' \in [Sessions -> [loaded : BOOLEAN, failed : Nat]],
             dbQueue' \in Seq(Operations),
             account' \in [failed : Nat, banned : BOOLEAN, key : BOOLEAN],
             wrong' \in Nat,
             UNCHANGED <<expansion, callbacks, ipBanned>>
      PROVE  TypeOK'
  <2>1. asked' \in [Sessions -> Seq(Commands)] /\ Tail(buffer[s]) \in Seq(Packets)
    BY <1>5, HandleType
  <2>2. status' \in [Sessions -> Statuses] /\ buffer' \in [Sessions -> Seq(Packets)]
    BY <1>5, <2>1, HandledType
  <2>3. replies' \in [Sessions -> Seq(Answers)]
    BY <1>5, SendPacketType
  <2>4. UNCHANGED <<link, reading, reader>>
    BY <1>5 DEF Handle, Handled
  <2> QED
    BY <1>5, <2>1, <2>2, <2>3, <2>4 DEF TypeOK, Answers, Operations
<1>6. ASSUME VerifyChallengeResponse(s)
      PROVE  Handle(s, "LogonProof") /\ srp' \in [Sessions -> {"none", "fresh", "used"}]
  BY <1>6 DEF TypeOK, VerifyChallengeResponse
<1> DEFINE Unchanged == /\ info \in [Sessions -> [loaded : BOOLEAN, failed : Nat]]
                        /\ dbQueue \in Seq(Operations)
                        /\ account \in [failed : Nat, banned : BOOLEAN, key : BOOLEAN]
                        /\ wrong \in Nat
<1>7. Unchanged
  BY DEF TypeOK, Operations
<1>8. CASE LogonProofOk(s)
  <2>1. /\ "LogonProof" \in Commands /\ "Authed" \in Statuses /\ TRUE \in BOOLEAN
        /\ Handle(s, "LogonProof") /\ Handled(s, "Authed") /\ SendPacket(s, "LogonProof", TRUE)
        /\ srp' \in [Sessions -> {"none", "fresh", "used"}]
    BY <1>0, <1>6, <1>8 DEF LogonProofOk, Statuses
  <2>2. /\ UNCHANGED <<info, dbQueue>> /\ UNCHANGED <<expansion, callbacks, ipBanned>>
        /\ wrong' = 0 /\ account' = [account EXCEPT !.failed = 0, !.key = TRUE]
    BY <1>8 DEF LogonProofOk
  <2>3. account' \in [failed : Nat, banned : BOOLEAN, key : BOOLEAN]
    BY <1>7, <2>2
  <2> QED
    BY <1>5, <1>7, <2>1, <2>2, <2>3
<1>9. CASE LogonProofRefused(s)
  <2>1. /\ "LogonProof" \in Commands /\ "Closed" \in Statuses /\ FALSE \in BOOLEAN
        /\ Handle(s, "LogonProof") /\ Handled(s, "Closed") /\ SendPacket(s, "LogonProof", FALSE)
        /\ srp' \in [Sessions -> {"none", "fresh", "used"}]
    BY <1>0, <1>6, <1>9 DEF LogonProofRefused, Statuses
  <2>2. UNCHANGED <<info, dbQueue, account, wrong>> /\ UNCHANGED <<expansion, callbacks, ipBanned>>
    BY <1>9 DEF LogonProofRefused, dbVars
  <2> QED
    BY <1>5, <1>7, <2>1, <2>2
<1>10. CASE LogonProofWrong(s)
  <2>1. /\ "LogonProof" \in Commands /\ "Closed" \in Statuses /\ FALSE \in BOOLEAN
        /\ Handle(s, "LogonProof") /\ Handled(s, "Closed") /\ SendPacket(s, "LogonProof", FALSE)
        /\ srp' \in [Sessions -> {"none", "fresh", "used"}]
    BY <1>0, <1>6, <1>10 DEF LogonProofWrong, Statuses
  <2>2. UNCHANGED account /\ UNCHANGED <<expansion, callbacks, ipBanned>> /\ wrong' = wrong + 1
    BY <1>10 DEF LogonProofWrong
  <2>3. dbQueue' \in Seq(Operations)
    <3>1. Operation("FailedLogins", s) \in Operations /\ BanOperation(s) \in Operations
      BY DEF Operation, BanOperation, Operations, Statements
    <3>2. /\ <<Operation("FailedLogins", s)>> \in Seq(Operations)
          /\ <<BanOperation(s)>> \in Seq(Operations) /\ <<>> \in Seq(Operations)
      BY <3>1
    <3> DEFINE ban == IF LimitReached(s) THEN <<BanOperation(s)>> ELSE <<>>
    <3>3. ban \in Seq(Operations)
      BY <3>2
    <3> HIDE DEF ban
    <3>4. dbQueue \o <<Operation("FailedLogins", s)>> \in Seq(Operations)
      BY <1>7, <3>2, ConcatProperties
    <3>5. dbQueue \o <<Operation("FailedLogins", s)>> \o ban \in Seq(Operations)
      BY <3>3, <3>4, ConcatProperties
    <3> QED
      BY <1>7, <1>10, <3>5 DEF LogonProofWrong, ban
  <2>4. info' \in [Sessions -> [loaded : BOOLEAN, failed : Nat]]
    <3>1. info' = info \/ info' = [info EXCEPT ![s].failed = @ + 1]
      BY <1>10 DEF LogonProofWrong
    <3> QED
      BY <1>7, <3>1, SMTT(40)
  <2>5. wrong' \in Nat
    BY <1>7, <2>2
  <2> QED
    BY <1>5, <1>7, <2>1, <2>2, <2>3, <2>4, <2>5
<1>11. CASE ReconnectProofOk(s)
  <2>1. /\ "ReconnectProof" \in Commands /\ "Authed" \in Statuses /\ TRUE \in BOOLEAN
        /\ Handle(s, "ReconnectProof") /\ Handled(s, "Authed")
        /\ SendPacket(s, "ReconnectProof", TRUE)
    BY <1>0, <1>11 DEF ReconnectProofOk, Statuses
  <2>2. UNCHANGED <<info, dbQueue, account, wrong, srp>> /\ UNCHANGED <<expansion, callbacks, ipBanned>>
    BY <1>11 DEF ReconnectProofOk, dbVars
  <2>3. srp' \in [Sessions -> {"none", "fresh", "used"}]
    BY <2>2 DEF TypeOK
  <2> QED
    BY <1>5, <1>7, <2>1, <2>2, <2>3
<1>12. CASE ReconnectProofRefused(s)
  <2>1. /\ "ReconnectProof" \in Commands /\ "Closed" \in Statuses /\ FALSE \in BOOLEAN
        /\ Handle(s, "ReconnectProof") /\ Handled(s, "Closed")
        /\ SendPacket(s, "ReconnectProof", FALSE)
    BY <1>0, <1>12 DEF ReconnectProofRefused, Statuses
  <2>2. UNCHANGED <<info, dbQueue, account, wrong, srp>> /\ UNCHANGED <<expansion, callbacks, ipBanned>>
    BY <1>12 DEF ReconnectProofRefused, dbVars
  <2>3. srp' \in [Sessions -> {"none", "fresh", "used"}]
    BY <2>2 DEF TypeOK
  <2> QED
    BY <1>5, <1>7, <2>1, <2>2, <2>3
<1>13. CASE HandleRealmList(s)
  <2>1. asked' \in [Sessions -> Seq(Commands)] /\ Tail(buffer[s]) \in Seq(Packets)
    BY <1>0, <1>13, HandleType DEF HandleRealmList
  <2>2. status' \in [Sessions -> Statuses] /\ buffer' \in [Sessions -> Seq(Packets)]
    BY <1>13, <2>1, HandledType DEF HandleRealmList, Statuses
  <2>3. dbQueue' \in Seq(Operations) /\ callbacks' \in [Sessions -> Seq(AwaitedRows)]
    BY <1>13, AsyncQueryType DEF HandleRealmList, Queries
  <2>4. UNCHANGED <<link, reading, reader, expansion, info, srp, account, ipBanned, replies, wrong>>
    BY <1>13 DEF HandleRealmList, Handle, Handled
  <2> QED
    BY <2>1, <2>2, <2>3, <2>4 DEF TypeOK, AwaitedRows, Operations
<1>14. ASSUME NEW cmd \in {"LogonChallenge", "ReconnectChallenge"}, HandleBadChallenge(s, cmd)
       PROVE  TypeOK'
  BY <1>0, <1>4, <1>14 DEF HandleBadChallenge
<1>15. ASSUME NEW cmd \in {"LogonProof", "ReconnectProof"}, ProofFails(s, cmd)
       PROVE  TypeOK'
  BY <1>0, <1>4, <1>15 DEF ProofFails
<1> QED
  BY <1>1, <1>2, <1>3, <1>8, <1>9, <1>10, <1>11, <1>12, <1>13, <1>14, <1>15 DEF ReadHandler

(* ... and by the callbacks of Update. *)
LEMMA UpdateTypeOK ==
  ASSUME TypeOK, NEW s \in Sessions, Update(s)
  PROVE  TypeOK'
<1>1. CASE DropSocket(s)
  <2>1. link' \in [Sessions -> {"none", "open", "closed", "gone"}]
    BY <1>1 DEF TypeOK, DropSocket
  <2>2. UNCHANGED <<reading, reader, dbQueue, account, ipBanned, wrong>>
    BY <1>1 DEF DropSocket, dbVars
  <2>3. CASE UNCHANGED <<buffer, sessionVars, asked, replies>>
    BY <2>1, <2>2, <2>3 DEF TypeOK, sessionVars
  <2>4. CASE ~reading[s]
    <3>1. /\ <<>> \in Seq(Packets) /\ <<>> \in Seq(AwaitedRows)
          /\ <<>> \in Seq(Commands) /\ <<>> \in Seq(Answers)
      BY EmptySeq
    <3>2. NoInfo \in [loaded : BOOLEAN, failed : Nat]
      BY DEF NoInfo
    <3>3. /\ buffer' = [buffer EXCEPT ![s] = <<>>]
          /\ status' = [status EXCEPT ![s] = "Closed"]
          /\ expansion' = [expansion EXCEPT ![s] = FALSE]
          /\ callbacks' = [callbacks EXCEPT ![s] = <<>>]
          /\ info' = [info EXCEPT ![s] = NoInfo]
          /\ srp' = [srp EXCEPT ![s] = "none"]
          /\ asked' = [asked EXCEPT ![s] = <<>>]
          /\ replies' = [replies EXCEPT ![s] = <<>>]
      BY <1>1, <2>4 DEF DropSocket
    <3>4. /\ buffer' \in [Sessions -> Seq(Packets)]
          /\ callbacks' \in [Sessions -> Seq(AwaitedRows)]
          /\ asked' \in [Sessions -> Seq(Commands)]
          /\ replies' \in [Sessions -> Seq(Answers)]
      BY <3>1, <3>3 DEF TypeOK, AwaitedRows, Answers
    <3>5. status' \in [Sessions -> Statuses] /\ srp' \in [Sessions -> {"none", "fresh", "used"}]
      BY <3>3 DEF TypeOK, Statuses
    <3>6. expansion' \in [Sessions -> BOOLEAN] /\ info' \in [Sessions -> [loaded : BOOLEAN, failed : Nat]]
      BY <3>2, <3>3 DEF TypeOK
    <3> QED
      BY <2>1, <2>2, <3>4, <3>5, <3>6 DEF TypeOK, AwaitedRows, Answers
  <2> QED
    BY <1>1, <2>3, <2>4 DEF DropSocket
<1>2. ASSUME NEW i, NEW q, RunCallback(s, i, q),
             replies' \in [Sessions -> Seq(Answers)],
             reading' \in [Sessions -> BOOLEAN],
             status' \in [Sessions -> Statuses],
             info' \in [Sessions -> [loaded : BOOLEAN, failed : Nat]],
             srp' \in [Sessions -> {"none", "fresh", "used"}]
      PROVE  TypeOK'
  <2>1. callbacks' \in [Sessions -> Seq(AwaitedRows)]
    BY <1>2, RunCallbackType
  <2>2. UNCHANGED <<link, buffer, reader, expansion, dbQueue, account, ipBanned, asked, wrong>>
    BY <1>2 DEF RunCallback, dbVars
  <2> QED
    BY <1>2, <2>1, <2>2 DEF TypeOK, AwaitedRows, Answers
<1>3. /\ replies \in [Sessions -> Seq(Answers)]
      /\ reading \in [Sessions -> BOOLEAN]
      /\ status \in [Sessions -> Statuses]
      /\ info \in [Sessions -> [loaded : BOOLEAN, failed : Nat]]
      /\ srp \in [Sessions -> {"none", "fresh", "used"}]
  BY DEF TypeOK, Answers
<1>4. ASSUME NEW cmd \in {"LogonChallenge", "ReconnectChallenge", "RealmList"},
             NEW ok \in BOOLEAN, SendPacket(s, cmd, ok)
      PROVE  replies' \in [Sessions -> Seq(Answers)]
  <2>1. cmd \in Commands
    BY DEF Commands, Handlers
  <2> QED
    BY <1>4, <2>1, SendPacketType
<1>5. ASSUME NEW i, NEW q, RunCallback(s, i, q), LoadResult(s, callbacks[s][i])
      PROVE  info' \in [Sessions -> [loaded : BOOLEAN, failed : Nat]]
  <2>1. callbacks[s][i] \in AwaitedRows
    BY <1>5, RunCallbackType
  <2>2. callbacks[s][i].failed \in Nat
    BY <2>1 DEF AwaitedRows
  <2> QED
    BY <1>3, <1>5, <2>2 DEF LoadResult
<1>6. ASSUME NEW i, CheckIpCallback(s, i) PROVE TypeOK'
  <2>1. replies' \in [Sessions -> Seq(Answers)]
    BY <1>3, <1>4, <1>6 DEF CheckIpCallback
  <2>2. reading' \in [Sessions -> BOOLEAN]
    BY <1>3, <1>6 DEF CheckIpCallback
  <2>3. RunCallback(s, i, "IpInfo") /\ UNCHANGED <<status, info, srp>>
    BY <1>6 DEF CheckIpCallback
  <2> QED
    BY <1>2, <1>3, <2>1, <2>2, <2>3
<1>7. ASSUME NEW i, NEW cmd \in {"LogonChallenge", "ReconnectChallenge"}, UnknownAccount(s, i, cmd)
      PROVE  TypeOK'
  <2>1. replies' \in [Sessions -> Seq(Answers)]
    BY <1>4, <1>7 DEF UnknownAccount
  <2>2. RunCallback(s, i, cmd) /\ UNCHANGED <<reading, status, info, srp>>
    BY <1>7 DEF UnknownAccount
  <2> QED
    BY <1>2, <1>3, <2>1, <2>2
<1>8. ASSUME NEW i, LogonRefused(s, i) PROVE TypeOK'
  <2>1. replies' \in [Sessions -> Seq(Answers)]
    BY <1>4, <1>8 DEF LogonRefused
  <2>2. RunCallback(s, i, "LogonChallenge") /\ UNCHANGED <<reading, status, srp>>
    BY <1>8 DEF LogonRefused
  <2>3. info' \in [Sessions -> [loaded : BOOLEAN, failed : Nat]]
    BY <1>5, <1>8 DEF LogonRefused
  <2> QED
    BY <1>2, <1>3, <2>1, <2>2, <2>3
<1>9. ASSUME NEW i, LogonAccepted(s, i) PROVE TypeOK'
  <2>1. expansion[s] \in BOOLEAN /\ SendPacket(s, "LogonChallenge", expansion[s])
    BY <1>9 DEF TypeOK, LogonAccepted
  <2>2. replies' \in [Sessions -> Seq(Answers)]
    BY <1>4, <2>1
  <2>3. RunCallback(s, i, "LogonChallenge") /\ UNCHANGED reading
    BY <1>9 DEF LogonAccepted
  <2>4. info' \in [Sessions -> [loaded : BOOLEAN, failed : Nat]]
    BY <1>5, <1>9 DEF LogonAccepted
  <2>5. status' \in [Sessions -> Statuses]
    BY <1>3, <1>9 DEF LogonAccepted, Statuses
  <2>6. srp' \in [Sessions -> {"none", "fresh", "used"}]
    BY <1>3, <1>9 DEF LogonAccepted
  <2> QED
    BY <1>2, <1>3, <2>2, <2>3, <2>4, <2>5, <2>6
<1>10. ASSUME NEW i, ReconnectChallengeCallback(s, i) PROVE TypeOK'
  <2>1. replies' \in [Sessions -> Seq(Answers)]
    BY <1>4, <1>10 DEF ReconnectChallengeCallback
  <2>2. RunCallback(s, i, "ReconnectChallenge") /\ UNCHANGED <<reading, srp>>
    BY <1>10 DEF ReconnectChallengeCallback
  <2>3. info' \in [Sessions -> [loaded : BOOLEAN, failed : Nat]]
    BY <1>5, <1>10 DEF ReconnectChallengeCallback
  <2>4. status' \in [Sessions -> Statuses]
    BY <1>3, <1>10 DEF ReconnectChallengeCallback, Statuses
  <2> QED
    BY <1>2, <1>3, <2>1, <2>2, <2>3, <2>4
<1>11. ASSUME NEW i, RealmListCallback(s, i) PROVE TypeOK'
  <2>1. replies' \in [Sessions -> Seq(Answers)]
    BY <1>4, <1>11 DEF RealmListCallback
  <2>2. RunCallback(s, i, "CharacterCounts") /\ UNCHANGED <<reading, info, srp>>
    BY <1>11 DEF RealmListCallback
  <2>3. status' \in [Sessions -> Statuses]
    BY <1>3, <1>11 DEF RealmListCallback, Statuses
  <2> QED
    BY <1>2, <1>3, <2>1, <2>2, <2>3
<1> QED
  BY <1>1, <1>6, <1>7, <1>8, <1>9, <1>10, <1>11 DEF Update

(* So every step keeps the types. *)
LEMMA NextTypeOK == TypeOK /\ [Next]_vars => TypeOK'
<1> SUFFICES ASSUME TypeOK, [Next]_vars PROVE TypeOK'
  OBVIOUS
<1>1. CASE UNCHANGED vars
  BY <1>1 DEF TypeOK, vars, socketVars, sessionVars, dbVars, history
<1>2. CASE Next
  BY <1>2, ClientTypeOK, ReadHandlerTypeOK, UpdateTypeOK, WorkersTypeOK DEF Next
<1> QED
  BY <1>1, <1>2

(* The variables keep their types, for any clients, packets and options. *)
THEOREM TypeCorrect == Spec => []TypeOK
<1>1. Init => TypeOK
  BY InitTypeOK
<1>2. TypeOK /\ [Next]_vars => TypeOK'
  BY NextTypeOK
<1> QED
  BY <1>1, <1>2, PTL DEF Spec

-----------------------------------------------------------------------------
(* The invariant *)

(* A command is accepted when those before it have been answered, and is     *)
(* answered at once or by the callback of its query.                         *)
LEMMA CommandAsked ==
  ASSUME NEW a \in Seq(Commands), NEW r \in Seq(Answers), NEW cmd \in Commands, NEW ok \in BOOLEAN,
         Len(a) = Len(r), Matched(a, r)
  PROVE  /\ Append(a, cmd) # <<>> /\ Len(Append(a, cmd)) = Len(r) + 1
         /\ Append(a, cmd)[Len(Append(a, cmd))] = cmd
         /\ Matched(Append(a, cmd), r)
         /\ Len(Append(a, cmd)) = Len(Append(r, [cmd |-> cmd, ok |-> ok]))
         /\ Matched(Append(a, cmd), Append(r, [cmd |-> cmd, ok |-> ok]))
<1> DEFINE e == [cmd |-> cmd, ok |-> ok]
           b == Append(a, cmd)
           u == Append(r, e)
<1>1. e \in Answers /\ e.cmd = cmd
  BY DEF Answers
<1>2. /\ b # <<>> /\ Len(a) \in Nat /\ Len(b) = Len(a) + 1 /\ b[Len(a) + 1] = cmd
      /\ \A i \in 1 .. Len(a) : b[i] = a[i]
  BY AppendElement
<1>3. /\ Len(r) \in Nat /\ Len(u) = Len(r) + 1 /\ u[Len(r) + 1] = e
      /\ DOMAIN r = 1 .. Len(r) /\ DOMAIN u = 1 .. Len(r) + 1
      /\ \A i \in 1 .. Len(r) : u[i] = r[i]
  BY <1>1, AppendElement
<1> HIDE DEF e, b, u
<1>4. Matched(b, r) /\ Matched(b, u)
  BY <1>1, <1>2, <1>3 DEF Matched
<1> QED
  BY <1>2, <1>3, <1>4 DEF e, b, u

(* ... and its answer completes the match. *)
LEMMA CommandAnswered ==
  ASSUME NEW a \in Seq(Commands), NEW r \in Seq(Answers), NEW cmd \in Commands, NEW ok \in BOOLEAN,
         Len(a) = Len(r) + 1, Matched(a, r), a[Len(a)] = cmd
  PROVE  /\ Len(a) = Len(Append(r, [cmd |-> cmd, ok |-> ok]))
         /\ Matched(a, Append(r, [cmd |-> cmd, ok |-> ok]))
<1> DEFINE e == [cmd |-> cmd, ok |-> ok]
           u == Append(r, e)
<1>1. e \in Answers /\ e.cmd = cmd
  BY DEF Answers
<1>2. /\ Len(r) \in Nat /\ Len(u) = Len(r) + 1 /\ u[Len(r) + 1] = e
      /\ DOMAIN r = 1 .. Len(r) /\ DOMAIN u = 1 .. Len(r) + 1
      /\ \A i \in 1 .. Len(r) : u[i] = r[i]
  BY <1>1, AppendElement
<1> HIDE DEF e, u
<1>3. Matched(a, u)
  BY <1>1, <1>2 DEF Matched
<1> QED
  BY <1>2, <1>3 DEF e, u

(* A step in which nothing of the session changes, but for the thread        *)
(* leaving its ReadHandler.                                                  *)
LEMMA SoundFrame ==
  ASSUME NEW s \in Sessions, Sound(s),
         link'[s] = link[s], reading'[s] = reading[s], reader' = s => reader = s,
         status'[s] = status[s], expansion'[s] = expansion[s],
         callbacks'[s] = callbacks[s], info'[s] = info[s], srp'[s] = srp[s],
         asked'[s] = asked[s], replies'[s] = replies[s]
  PROVE  Sound(s)'
<1>1. Pristine(s)'
  BY DEF Sound, Pristine
<1>2. OneQuery(s)'
  BY DEF Sound, OneQuery, Awaiting
<1>3. Challenged(s)'
  BY DEF Sound, Challenged
<1>4. Answered(s)' /\ Answering(s)'
  BY DEF Sound, Answered, Answering, Matched, CommandOf, IsOpen
<1> QED
  BY <1>1, <1>2, <1>3, <1>4 DEF Sound

(* A step that closes the socket of the session or drops the session, and    *)
(* leaves it with the status Closed or with the status it had.               *)
LEMMA SoundClosed ==
  ASSUME NEW s \in Sessions, Sound(s), link'[s] \notin {"none", "open"},
         callbacks'[s] = callbacks[s], reader' = s => reader = s,
         \/ status'[s] = status[s] /\ expansion'[s] = expansion[s]
            /\ info'[s] = info[s] /\ srp'[s] = srp[s]
         \/ status'[s] = "Closed" /\ callbacks[s] = <<>>,
         reading'[s] => reading[s]
  PROVE  Sound(s)'
<1>1. Pristine(s)'
  BY DEF Pristine
<1>2. OneQuery(s)'
  BY DEF Sound, OneQuery, Awaiting
<1>3. Challenged(s)'
  BY DEF Sound, Challenged
<1>4. Answered(s)' /\ Answering(s)'
  BY DEF Answered, Answering, IsOpen
<1> QED
  BY <1>1, <1>2, <1>3, <1>4 DEF Sound

(* The variables of a session that a step of another session may not touch. *)
SameSession(s) ==
  /\ link'[s] = link[s] /\ reading'[s] = reading[s] /\ (reader' = s <=> reader = s)
  /\ status'[s] = status[s] /\ expansion'[s] = expansion[s]
  /\ callbacks'[s] = callbacks[s] /\ info'[s] = info[s] /\ srp'[s] = srp[s]
  /\ asked'[s] = asked[s] /\ replies'[s] = replies[s]

(* What happens to one session does not touch another. *)
LEMMA OtherSession ==
  ASSUME TypeOK, NEW s \in Sessions, NEW t \in Sessions, t # s,
         Client(s) \/ ReadHandler(s) \/ Update(s)
  PROVE  SameSession(t)
<1>0. NoSession # t /\ NoSession # s
  OBVIOUS
<1>1. ASSUME Start(s) PROVE SameSession(t)
  BY <1>1 DEF TypeOK, Start, AsyncQuery, SameSession, history
<1>2. ASSUME ReadFails(s) PROVE SameSession(t)
  BY <1>2 DEF TypeOK, ReadFails, CloseSocket, SameSession, sessionVars, history
<1>3. ASSUME WriteFails(s) PROVE SameSession(t)
  BY <1>3 DEF TypeOK, WriteFails, CloseSocket, SameSession, sessionVars, history
<1>4. ASSUME NEW b, Receive(s, b) PROVE SameSession(t)
  BY <1>0, <1>4 DEF TypeOK, Receive, SameSession, sessionVars, history
<1>5. CASE Client(s)
  BY <1>1, <1>2, <1>3, <1>4, <1>5 DEF Client
<1>6. CASE ReadHandler(s)
  <2> USE DEF Handle, Handled, Failed, SendPacket, CloseSocket, AsyncQuery, AsyncRead
  <2>1. ASSUME ReadMore(s) \/ Rejected(s) PROVE SameSession(t)
    BY <1>0, <2>1 DEF TypeOK, SameSession, ReadMore, Rejected, sessionVars, history
  <2>2. ASSUME NEW cmd, HandleBadChallenge(s, cmd) \/ ProofFails(s, cmd) PROVE SameSession(t)
    BY <1>0, <2>2 DEF TypeOK, SameSession, HandleBadChallenge, ProofFails
  <2>3. ASSUME NEW cmd, NEW valid, HandleChallenge(s, cmd, valid) PROVE SameSession(t)
    BY <2>3 DEF TypeOK, SameSession, HandleChallenge
  <2>4. ASSUME LogonProofOk(s) \/ LogonProofRefused(s) PROVE SameSession(t)
    BY <2>4, SMTT(40) DEF TypeOK, SameSession, LogonProofOk, LogonProofRefused, VerifyChallengeResponse
  <2>5. ASSUME LogonProofWrong(s) PROVE SameSession(t)
    BY <2>5 DEF TypeOK, SameSession, LogonProofWrong, VerifyChallengeResponse
  <2>6. ASSUME ReconnectProofOk(s) \/ ReconnectProofRefused(s) PROVE SameSession(t)
    BY <2>6 DEF TypeOK, SameSession, ReconnectProofOk, ReconnectProofRefused
  <2>7. ASSUME HandleRealmList(s) PROVE SameSession(t)
    BY <2>7 DEF TypeOK, SameSession, HandleRealmList
  <2> QED
    BY <1>6, <2>1, <2>2, <2>3, <2>4, <2>5, <2>6, <2>7 DEF ReadHandler
<1>7. CASE Update(s)
  <2> USE DEF SendPacket, RunCallback, LoadResult
  <2>1. ASSUME DropSocket(s) PROVE SameSession(t)
    BY <2>1 DEF TypeOK, SameSession, DropSocket, sessionVars
  <2>2. ASSUME NEW i, CheckIpCallback(s, i) PROVE SameSession(t)
    BY <2>2 DEF TypeOK, SameSession, CheckIpCallback
  <2>3. ASSUME NEW i, NEW cmd, UnknownAccount(s, i, cmd) PROVE SameSession(t)
    BY <2>3 DEF TypeOK, SameSession, UnknownAccount
  <2>4. ASSUME NEW i, LogonRefused(s, i) PROVE SameSession(t)
    BY <2>4 DEF TypeOK, SameSession, LogonRefused
  <2>5. ASSUME NEW i, LogonAccepted(s, i) PROVE SameSession(t)
    BY <2>5 DEF TypeOK, SameSession, LogonAccepted
  <2>6. ASSUME NEW i, ReconnectChallengeCallback(s, i) PROVE SameSession(t)
    BY <2>6 DEF TypeOK, SameSession, ReconnectChallengeCallback
  <2>7. ASSUME NEW i, RealmListCallback(s, i) PROVE SameSession(t)
    BY <2>7 DEF TypeOK, SameSession, RealmListCallback
  <2> QED
    BY <1>7, <2>1, <2>2, <2>3, <2>4, <2>5, <2>6, <2>7 DEF Update
<1> QED
  BY <1>5, <1>6, <1>7

(* The workers only fill in the rows that a session awaits. *)
LEMMA WorkersShape ==
  ASSUME TypeOK, Workers \/ BanExpires, NEW t \in Sessions
  PROVE  /\ link' = link /\ reading' = reading /\ reader' = reader /\ status' = status
         /\ expansion' = expansion /\ info' = info /\ srp' = srp
         /\ asked' = asked /\ replies' = replies
         /\ Len(callbacks'[t]) = Len(callbacks[t]) /\ (callbacks'[t] = <<>> <=> callbacks[t] = <<>>)
         /\ callbacks[t] # <<>> => callbacks'[t][1].query = callbacks[t][1].query
<1>1. ASSUME UNCHANGED <<socketVars, sessionVars, history>>
      PROVE  /\ link' = link /\ reading' = reading /\ reader' = reader /\ status' = status
             /\ expansion' = expansion /\ info' = info /\ srp' = srp
             /\ asked' = asked /\ replies' = replies /\ callbacks' = callbacks
  BY <1>1 DEF socketVars, sessionVars, history
<1>2. ASSUME NEW i \in 1 .. WorkerThreads, Execute(i), ExecuteQuery(i)
      PROVE  /\ link' = link /\ reading' = reading /\ reader' = reader /\ status' = status
             /\ expansion' = expansion /\ info' = info /\ srp' = srp
             /\ asked' = asked /\ replies' = replies
             /\ Len(callbacks'[t]) = Len(callbacks[t]) /\ (callbacks'[t] = <<>> <=> callbacks[t] = <<>>)
             /\ callbacks[t] # <<>> => callbacks'[t][1].query = callbacks[t][1].query
  <2>1. /\ link' = link /\ reading' = reading /\ reader' = reader /\ status' = status
        /\ expansion' = expansion /\ info' = info /\ srp' = srp
        /\ asked' = asked /\ replies' = replies
    BY <1>2 DEF Execute, socketVars, history
  <2> DEFINE q == callbacks[t]
             p == callbacks'[t]
  <2>2. q \in Seq(AwaitedRows)
    BY DEF TypeOK, AwaitedRows
  <2>3. /\ DOMAIN p = DOMAIN q
        /\ \A j \in DOMAIN q : p[j].query = q[j].query
    <3>1. CASE t # dbQueue[i].session
      BY <1>2, <3>1 DEF TypeOK, ExecuteQuery
    <3>2. CASE t = dbQueue[i].session
      <4>1. PICK row \in Rows(dbQueue[i]) :
              p = [j \in DOMAIN q |-> IF q[j] = Callback(row.query) THEN row ELSE q[j]]
        <5>1. PICK row \in Rows(dbQueue[i]) :
                callbacks' = [callbacks EXCEPT ![dbQueue[i].session] =
                  [j \in DOMAIN @ |-> IF @[j] = Callback(row.query) THEN row ELSE @[j]]]
          BY <1>2 DEF ExecuteQuery
        <5>2. callbacks \in [Sessions -> Seq(AwaitedRows)]
          BY DEF TypeOK, AwaitedRows
        <5> QED
          BY <3>2, <5>1, <5>2
      <4>2. Callback(row.query).query = row.query
        BY DEF Callback
      <4> HIDE DEF p, q
      <4> QED
        BY <4>1, <4>2
    <3> QED
      BY <3>1, <3>2
  <2>4. p \in Seq(AwaitedRows)
    BY <1>2, WorkersTypeOK DEF TypeOK, AwaitedRows
  <2> HIDE DEF p, q
  <2>5. Len(p) = Len(q) /\ (p = <<>> <=> q = <<>>) /\ (q # <<>> => p[1].query = q[1].query)
    <3>1. /\ Len(p) \in Nat /\ Len(q) \in Nat
          /\ DOMAIN p = 1 .. Len(p) /\ DOMAIN q = 1 .. Len(q)
      BY <2>2, <2>4, LenProperties
    <3>2. Len(p) = Len(q)
      <4> DEFINE m == Len(p)
                 n == Len(q)
      <4>1. m \in Nat /\ n \in Nat /\ 1 .. m = 1 .. n
        BY <2>3, <3>1
      <4> HIDE DEF m, n
      <4>2. (m > 0 => m \in 1 .. n) /\ (n > 0 => n \in 1 .. m)
        BY <4>1
      <4>3. m = n
        BY <4>1, <4>2
      <4> QED
        BY <4>3 DEF m, n
    <3>3. p = <<>> <=> q = <<>>
      BY <2>2, <2>4, <3>2, EmptySeq
    <3>4. q # <<>> => 1 \in DOMAIN q
      BY <2>2, <3>1, EmptySeq
    <3> QED
      BY <2>3, <3>2, <3>3, <3>4
  <2> QED
    BY <2>1, <2>5 DEF p, q
<1>3. ASSUME NEW i \in 1 .. WorkerThreads, Execute(i), ExecuteStatement(i)
      PROVE  UNCHANGED <<socketVars, sessionVars, history>>
  BY <1>3 DEF Execute, ExecuteStatement, socketVars, sessionVars, history
<1>4. ASSUME BanExpires
      PROVE  UNCHANGED <<socketVars, sessionVars, history>>
  BY <1>4 DEF BanExpires
<1> QED
  BY <1>1, <1>2, <1>3, <1>4 DEF Workers, Execute

(* The invariant holds initially ... *)
LEMMA InitSound == Init => IInv
<1> SUFFICES ASSUME Init, NEW s \in Sessions PROVE Sound(s)
  BY DEF IInv
<1>1. /\ callbacks[s] = <<>> /\ status[s] = "Challenge" /\ ~reading[s] /\ reader # s
      /\ asked[s] = <<>> /\ replies[s] = <<>> /\ link[s] = "none"
  BY DEF Init
<1>2. Len(<<>>) = 0
  BY EmptySeq
<1>3. Pristine(s)
  BY <1>1 DEF Pristine
<1>4. OneQuery(s)
  BY <1>1, <1>2 DEF OneQuery
<1>5. Challenged(s)
  BY <1>1 DEF Challenged
<1>6. Answered(s) /\ Answering(s)
  BY <1>1 DEF Answered, Answering, IsOpen
<1> QED
  BY <1>3, <1>4, <1>5, <1>6 DEF Sound

(* ... and is kept by what a client and the network do to the socket, ... *)
LEMMA ClientSound ==
  ASSUME TypeOK, IInv, NEW s \in Sessions, Client(s)
  PROVE  IInv'
<1> SUFFICES ASSUME NEW t \in Sessions PROVE Sound(t)'
  BY DEF IInv
<1>0. Sound(t) /\ Sound(s)
  BY DEF IInv
<1>1. CASE t # s
  BY <1>0, <1>1, OtherSession, SoundFrame DEF SameSession
<1>2. CASE t = s /\ Start(s)
  <2>1. /\ link'[s] = "open" /\ status'[s] = "Challenge" /\ ~reading'[s] /\ reader' # s
        /\ asked'[s] = <<>> /\ replies'[s] = <<>>
        /\ callbacks'[s] = Append(<<>>, Callback("IpInfo"))
    BY <1>0, <1>2 DEF TypeOK, Start, AsyncQuery, Sound, Pristine, history
  <2>2. /\ callbacks'[s] # <<>> /\ Len(callbacks'[s]) = 1 /\ callbacks'[s][1].query = "IpInfo"
    <3>1. Callback("IpInfo") \in AwaitedRows /\ Callback("IpInfo").query = "IpInfo"
      BY DEF Callback, AwaitedRows, Queries
    <3> QED
      BY <2>1, <3>1, OnlyElement
  <2>3. OneQuery(s)'
    BY <2>1, <2>2 DEF OneQuery, Awaiting
  <2>4. Answered(s)' /\ Answering(s)'
    BY <2>1, <2>2 DEF Answered, Answering
  <2>5. Pristine(s)' /\ Challenged(s)'
    BY <2>1 DEF Pristine, Challenged
  <2> QED
    BY <1>2, <2>3, <2>4, <2>5 DEF Sound
<1>3. CASE t = s /\ ReadFails(s)
  <2>1. link[s] # "none"
    BY <1>0, <1>3 DEF Sound, Pristine, ReadFails
  <2>2. link'[s] \notin {"none", "open"}
    BY <1>3, <2>1 DEF TypeOK, ReadFails, CloseSocket
  <2>3. /\ callbacks' = callbacks /\ reader' = reader /\ status' = status
        /\ expansion' = expansion /\ info' = info /\ srp' = srp /\ ~reading'[s]
    BY <1>3 DEF TypeOK, ReadFails, sessionVars
  <2> QED
    BY <1>0, <1>3, <2>2, <2>3, SoundClosed
<1>4. CASE t = s /\ WriteFails(s)
  <2>1. link'[s] \notin {"none", "open"}
    BY <1>4 DEF TypeOK, WriteFails, CloseSocket, IsOpen
  <2>2. /\ callbacks' = callbacks /\ reader' = reader /\ status' = status
        /\ expansion' = expansion /\ info' = info /\ srp' = srp /\ reading' = reading
    BY <1>4 DEF WriteFails, sessionVars
  <2> QED
    BY <1>0, <1>4, <2>1, <2>2, SoundClosed
<1>5. ASSUME t = s, NEW b, Receive(s, b) PROVE Sound(s)'
  <2>1. /\ reading[s] /\ link' = link /\ ~reading'[s] /\ reader' = s
        /\ status' = status /\ expansion' = expansion /\ callbacks' = callbacks
        /\ info' = info /\ srp' = srp /\ asked' = asked /\ replies' = replies
    BY <1>5 DEF TypeOK, Receive, sessionVars, history
  <2>2. Pristine(s)'
    BY <1>0, <2>1 DEF Sound, Pristine
  <2>3. OneQuery(s)'
    BY <1>0, <2>1 DEF Sound, OneQuery, Awaiting
  <2>4. Challenged(s)'
    BY <1>0, <2>1 DEF Sound, Challenged
  <2>5. Answered(s)' /\ Answering(s)'
    BY <1>0, <2>1 DEF Sound, Answered, Answering, Matched, CommandOf, IsOpen
  <2> QED
    BY <2>2, <2>3, <2>4, <2>5 DEF Sound
<1> QED
  BY <1>1, <1>2, <1>3, <1>4, <1>5 DEF Client

(* ... by the operations the workers execute, ... *)
LEMMA WorkersSound ==
  ASSUME TypeOK, IInv, Workers \/ BanExpires
  PROVE  IInv'
<1> SUFFICES ASSUME NEW t \in Sessions PROVE Sound(t)'
  BY DEF IInv
<1>0. Sound(t)
  BY DEF IInv
<1>1. /\ link' = link /\ reading' = reading /\ reader' = reader /\ status' = status
      /\ expansion' = expansion /\ info' = info /\ srp' = srp
      /\ asked' = asked /\ replies' = replies
      /\ Len(callbacks'[t]) = Len(callbacks[t]) /\ (callbacks'[t] = <<>> <=> callbacks[t] = <<>>)
      /\ callbacks[t] # <<>> => callbacks'[t][1].query = callbacks[t][1].query
  BY WorkersShape
<1>2. Pristine(t)'
  BY <1>0, <1>1 DEF Sound, Pristine
<1>3. OneQuery(t)'
  BY <1>0, <1>1 DEF Sound, OneQuery, Awaiting
<1>4. Challenged(t)'
  BY <1>0, <1>1 DEF Sound, Challenged
<1>5. Answered(t)' /\ Answering(t)'
  BY <1>0, <1>1 DEF Sound, Answered, Answering, Matched, CommandOf, IsOpen
<1> QED
  BY <1>2, <1>3, <1>4, <1>5 DEF Sound

(* The session whose packet is handled awaits no query, and has answered all *)
(* the commands it accepted before.                                          *)
LEMMA HandleIdle ==
  ASSUME TypeOK, NEW s \in Sessions, Sound(s), NEW cmd \in Commands, Handle(s, cmd)
  PROVE  /\ callbacks[s] = <<>> /\ link[s] # "none" /\ reader = s
         /\ IsOpen(s) => Len(asked[s]) = Len(replies[s]) /\ Matched(asked[s], replies[s])
<1>1. reader = s /\ link[s] # "none"
  BY DEF Handle, Sound, Pristine
<1>2. callbacks[s] = <<>>
  <2>1. status[s] \in {"Challenge", "LogonProof", "ReconnectProof", "Authed"}
    BY DEF Handle, Commands, Handlers
  <2>2. SUFFICES ASSUME callbacks[s] # <<>> PROVE FALSE
    OBVIOUS
  <2>3. Awaiting(callbacks[s][1].query) \in {"Challenge", "WaitingForRealmList", "Closed"}
    BY DEF Awaiting
  <2>4. status[s] = Awaiting(callbacks[s][1].query) /\ callbacks[s][1].query # "IpInfo"
    BY <1>1, <2>2 DEF Sound, OneQuery
  <2>5. status[s] \in {"WaitingForRealmList", "Closed"}
    BY <2>4 DEF Awaiting
  <2> QED
    BY <2>1, <2>5
<1>3. ASSUME IsOpen(s) PROVE Len(asked[s]) = Len(replies[s]) /\ Matched(asked[s], replies[s])
  <2>1. Len(<<>>) = 0 /\ DOMAIN <<>> = {}
    <3>1. <<>> \in Seq({}) /\ Len(<<>>) = 0
      BY EmptySeq
    <3>2. DOMAIN <<>> = 1 .. 0
      BY <3>1, LenProperties
    <3> QED
      BY <3>1, <3>2
  <2>2. CASE asked[s] = <<>>
    <3>1. replies[s] = <<>>
      BY <1>1, <1>3, <2>2 DEF Sound, Answering
    <3> QED
      BY <2>1, <2>2, <3>1 DEF Matched
  <2>3. CASE asked[s] # <<>>
    <3>1. Len(asked[s]) = Len(replies[s]) + Len(callbacks[s]) /\ Matched(asked[s], replies[s])
      BY <1>3, <2>3 DEF Sound, Answered
    <3>2. Len(replies[s]) \in Nat
      <4>1. replies[s] \in Seq(Answers)
        BY DEF TypeOK, Answers
      <4> QED
        BY <4>1, LenProperties
    <3> QED
      BY <1>2, <2>1, <3>1, <3>2
  <2> QED
    BY <2>2, <2>3
<1> QED
  BY <1>1, <1>2, <1>3

(* A command that starts a query. *)
LEMMA QueryStarted ==
  ASSUME TypeOK, NEW s \in Sessions, Sound(s),
         NEW cmd \in Commands, NEW q \in Queries \ {"IpInfo"}, cmd = CommandOf(q),
         Handle(s, cmd), Handled(s, Awaiting(q)), AsyncQuery(s, q),
         UNCHANGED <<info, srp, replies>>
  PROVE  Sound(s)'
<1>1. /\ callbacks[s] = <<>> /\ link[s] # "none" /\ reader = s
      /\ IsOpen(s) => Len(asked[s]) = Len(replies[s]) /\ Matched(asked[s], replies[s])
  BY HandleIdle
<1>2. /\ link' = link /\ reader' = reader /\ status'[s] = Awaiting(q)
      /\ callbacks'[s] = Append(<<>>, Callback(q)) /\ replies' = replies
      /\ asked'[s] = Append(asked[s], cmd)
  BY <1>1 DEF TypeOK, Handle, Handled, AsyncQuery
<1>3. /\ callbacks'[s] # <<>> /\ Len(callbacks'[s]) = 1 /\ callbacks'[s][1].query = q
  <2>1. Callback(q) \in AwaitedRows /\ Callback(q).query = q
    BY DEF Callback, AwaitedRows
  <2> QED
    BY <1>2, <2>1, OnlyElement
<1>4. OneQuery(s)'
  BY <1>2, <1>3 DEF OneQuery, Awaiting
<1>5. Pristine(s)' /\ Challenged(s)'
  BY <1>1, <1>2 DEF Pristine, Challenged, Awaiting
<1>6. ASSUME IsOpen(s)
      PROVE  /\ asked'[s] # <<>> /\ Len(asked'[s]) = Len(replies[s]) + 1
             /\ asked'[s][Len(asked'[s])] = cmd
             /\ Matched(asked'[s], replies[s])
  <2> DEFINE a == asked[s]
             r == replies[s]
  <2>1. a \in Seq(Commands) /\ r \in Seq(Answers) /\ TRUE \in BOOLEAN
    BY DEF TypeOK, Answers
  <2>2. Len(a) = Len(r) /\ Matched(a, r)
    BY <1>1, <1>6
  <2> HIDE DEF a, r
  <2>3. /\ Append(a, cmd) # <<>> /\ Len(Append(a, cmd)) = Len(r) + 1
        /\ Append(a, cmd)[Len(Append(a, cmd))] = cmd /\ Matched(Append(a, cmd), r)
    BY <2>1, <2>2, CommandAsked
  <2> QED
    BY <1>2, <2>3 DEF a, r
<1>7. Answered(s)' /\ Answering(s)'
  BY <1>2, <1>3, <1>6 DEF Answered, Answering, IsOpen, Matched, CommandOf
<1> QED
  BY <1>4, <1>5, <1>7 DEF Sound

(* A command that is answered at once. *)
LEMMA AnsweredAtOnce ==
  ASSUME TypeOK, NEW s \in Sessions, Sound(s), NEW cmd \in Commands, NEW ok \in BOOLEAN,
         NEW next \in {"Authed", "Closed"},
         Handle(s, cmd), Handled(s, next), SendPacket(s, cmd, ok), UNCHANGED callbacks
  PROVE  Sound(s)'
<1>1. /\ callbacks[s] = <<>> /\ link[s] # "none"
      /\ IsOpen(s) => Len(asked[s]) = Len(replies[s]) /\ Matched(asked[s], replies[s])
  BY HandleIdle
<1>2. /\ link' = link /\ status'[s] = next /\ callbacks'[s] = <<>>
      /\ asked'[s] = Append(asked[s], cmd)
      /\ IsOpen(s) => replies'[s] = Append(replies[s], [cmd |-> cmd, ok |-> ok])
  BY <1>1 DEF TypeOK, Handle, Handled, SendPacket
<1>3. Len(<<>>) = 0
  BY EmptySeq
<1>4. OneQuery(s)'
  BY <1>2, <1>3 DEF OneQuery
<1>5. Pristine(s)' /\ Challenged(s)'
  BY <1>1, <1>2 DEF Pristine, Challenged
<1>6. ASSUME IsOpen(s)
      PROVE  /\ asked'[s] # <<>> /\ Len(asked'[s]) = Len(replies'[s]) /\ Len(replies'[s]) \in Nat
             /\ Matched(asked'[s], replies'[s])
  <2> DEFINE a == asked[s]
             r == replies[s]
             u == Append(r, [cmd |-> cmd, ok |-> ok])
  <2>1. a \in Seq(Commands) /\ r \in Seq(Answers)
    BY DEF TypeOK, Answers
  <2>2. Len(a) = Len(r) /\ Matched(a, r)
    BY <1>1, <1>6
  <2>3. [cmd |-> cmd, ok |-> ok] \in Answers
    BY DEF Answers
  <2> HIDE DEF a, r
  <2>4. Len(u) \in Nat
    BY <2>1, <2>3, AppendElement
  <2>5. Append(a, cmd) # <<>> /\ Len(Append(a, cmd)) = Len(u) /\ Matched(Append(a, cmd), u)
    BY <2>1, <2>2, CommandAsked
  <2> QED
    BY <1>2, <1>6, <2>4, <2>5 DEF a, r
<1>7. Answered(s)' /\ Answering(s)'
  BY <1>2, <1>3, <1>6 DEF Answered, Answering, IsOpen, Matched
<1> QED
  BY <1>4, <1>5, <1>7 DEF Sound

(* A command whose handler fails. *)
LEMMA HandlerFailed ==
  ASSUME TypeOK, NEW s \in Sessions, Sound(s), NEW cmd \in Commands,
         Handle(s, cmd), Failed(s), UNCHANGED callbacks
  PROVE  Sound(s)'
<1>1. callbacks[s] = <<>> /\ link[s] # "none"
  BY HandleIdle
<1>2. /\ link'[s] \notin {"none", "open"} /\ status'[s] = "Closed" /\ reader' = NoSession
      /\ callbacks' = callbacks /\ reading' = reading
  BY <1>1 DEF TypeOK, Handle, Failed, CloseSocket
<1>3. reader' # s
  BY <1>2
<1> QED
  BY <1>1, <1>2, <1>3, SoundClosed

(* ... by the handlers of the packets, ... *)
LEMMA ReadHandlerSound ==
  ASSUME TypeOK, IInv, NEW s \in Sessions, ReadHandler(s)
  PROVE  IInv'
<1> SUFFICES ASSUME NEW t \in Sessions PROVE Sound(t)'
  BY DEF IInv
<1>0. Sound(t) /\ Sound(s)
  BY DEF IInv
<1>1. {"LogonChallenge", "LogonProof", "ReconnectChallenge", "ReconnectProof", "RealmList"}
        \subseteq Commands
  BY DEF Commands, Handlers
<1>2. CASE t # s
  BY <1>0, <1>2, OtherSession, SoundFrame DEF SameSession
<1>3. CASE ReadMore(s)
  <2>1. /\ reader = s /\ reader' # s /\ link' = link /\ reading'[s] = IsOpen(s)
        /\ status' = status /\ expansion' = expansion /\ callbacks' = callbacks
        /\ info' = info /\ srp' = srp /\ asked' = asked /\ replies' = replies
    BY <1>3 DEF TypeOK, ReadMore, AsyncRead, sessionVars, history
  <2>2. Pristine(s)'
    BY <1>0, <2>1 DEF Sound, Pristine, IsOpen
  <2>3. OneQuery(s)'
    BY <1>0, <2>1 DEF Sound, OneQuery, Awaiting
  <2>4. Challenged(s)'
    BY <1>0, <2>1 DEF Sound, Challenged
  <2>5. Answered(s)' /\ Answering(s)'
    BY <1>0, <2>1 DEF Sound, Answered, Answering, Matched, CommandOf, IsOpen
  <2>6. Sound(s)'
    BY <2>2, <2>3, <2>4, <2>5 DEF Sound
  <2> QED
    BY <1>2, <2>6
<1>4. CASE Rejected(s)
  <2>1. reader = s /\ link[s] # "none"
    BY <1>0, <1>4 DEF Rejected, Sound, Pristine
  <2>2. /\ link'[s] \notin {"none", "open"} /\ reader' # s /\ reading' = reading
        /\ status' = status /\ expansion' = expansion /\ callbacks' = callbacks
        /\ info' = info /\ srp' = srp
    BY <1>4, <2>1 DEF TypeOK, Rejected, CloseSocket, sessionVars
  <2>3. Sound(s)'
    BY <1>0, <2>2, SoundClosed
  <2> QED
    BY <1>2, <2>3
<1>5. ASSUME NEW cmd \in {"LogonChallenge", "ReconnectChallenge"}, NEW valid \in BOOLEAN,
             HandleChallenge(s, cmd, valid)
      PROVE  Sound(s)'
  <2>1. /\ cmd \in Queries \ {"IpInfo"} /\ cmd \in Commands /\ cmd = CommandOf(cmd)
        /\ Awaiting(cmd) = "Closed"
    BY <1>1 DEF Queries, CommandOf, Awaiting
  <2>2. /\ Handle(s, cmd) /\ Handled(s, "Closed") /\ AsyncQuery(s, cmd)
        /\ UNCHANGED <<info, srp, replies>>
    BY <1>5 DEF HandleChallenge
  <2> QED
    BY <1>0, <2>1, <2>2, QueryStarted
<1>6. CASE HandleRealmList(s)
  <2>1. /\ "CharacterCounts" \in Queries \ {"IpInfo"} /\ "RealmList" \in Commands
        /\ "RealmList" = CommandOf("CharacterCounts")
        /\ Awaiting("CharacterCounts") = "WaitingForRealmList"
    BY <1>1 DEF Queries, CommandOf, Awaiting
  <2>2. /\ Handle(s, "RealmList") /\ Handled(s, "WaitingForRealmList")
        /\ AsyncQuery(s, "CharacterCounts") /\ UNCHANGED <<info, srp, replies>>
    BY <1>6 DEF HandleRealmList
  <2>3. Sound(s)'
    BY <1>0, <2>1, <2>2, QueryStarted
  <2> QED
    BY <1>2, <2>3
<1>7. ASSUME NEW cmd \in {"LogonChallenge", "ReconnectChallenge"}, HandleBadChallenge(s, cmd)
      PROVE  Sound(s)'
  BY <1>0, <1>1, <1>7, HandlerFailed DEF HandleBadChallenge
<1>8. ASSUME NEW cmd \in {"LogonProof", "ReconnectProof"}, ProofFails(s, cmd)
      PROVE  Sound(s)'
  BY <1>0, <1>1, <1>8, HandlerFailed DEF ProofFails
<1>9. ASSUME LogonProofOk(s) PROVE Sound(s)'
  BY <1>0, <1>1, <1>9, AnsweredAtOnce DEF LogonProofOk, VerifyChallengeResponse
<1>10. ASSUME LogonProofRefused(s) PROVE Sound(s)'
  BY <1>0, <1>1, <1>10, AnsweredAtOnce DEF LogonProofRefused, VerifyChallengeResponse
<1>11. ASSUME LogonProofWrong(s) PROVE Sound(s)'
  BY <1>0, <1>1, <1>11, AnsweredAtOnce DEF LogonProofWrong, VerifyChallengeResponse
<1>12. ASSUME ReconnectProofOk(s) PROVE Sound(s)'
  BY <1>0, <1>1, <1>12, AnsweredAtOnce DEF ReconnectProofOk
<1>13. ASSUME ReconnectProofRefused(s) PROVE Sound(s)'
  BY <1>0, <1>1, <1>13, AnsweredAtOnce DEF ReconnectProofRefused
<1> QED
  BY <1>2, <1>3, <1>4, <1>5, <1>6, <1>7, <1>8, <1>9, <1>10, <1>11, <1>12, <1>13 DEF ReadHandler

(* The callback that Update runs is that of the only query awaited. *)
LEMMA CallbackRuns ==
  ASSUME TypeOK, NEW s \in Sessions, Sound(s), NEW i, NEW q, RunCallback(s, i, q)
  PROVE  /\ callbacks'[s] = <<>> /\ reader' # s /\ link[s] = "open" /\ link' = link
         /\ status[s] = Awaiting(q) /\ expansion' = expansion /\ asked' = asked
         /\ asked[s] = <<>> <=> q = "IpInfo"
         /\ q = "IpInfo" => replies[s] = <<>>
         /\ q # "IpInfo" => /\ Len(asked[s]) = Len(replies[s]) + 1
                            /\ Matched(asked[s], replies[s])
                            /\ asked[s][Len(asked[s])] = CommandOf(q)
<1>1. /\ callbacks[s] \in Seq(AwaitedRows) /\ i \in DOMAIN callbacks[s]
  BY RunCallbackType
<1>2. Len(callbacks[s]) <= 1
  BY DEF Sound, OneQuery
<1>3. i = 1 /\ callbacks[s] # <<>> /\ RemoveAt(callbacks[s], i) = <<>>
  BY <1>1, <1>2, RemoveOnly
<1>4. Len(callbacks[s]) = 1
  <2>1. Len(callbacks[s]) \in Nat \ {0}
    BY <1>1, <1>3, EmptySeq
  <2> DEFINE n == Len(callbacks[s])
  <2>2. n \in Nat \ {0} /\ n <= 1
    BY <1>2, <2>1
  <2> HIDE DEF n
  <2>3. n = 1
    BY <2>2
  <2> QED
    BY <2>3 DEF n
<1>5. callbacks[s][1].query = q
  BY <1>3 DEF RunCallback
<1>6. /\ callbacks'[s] = <<>> /\ reader' # s /\ link[s] = "open" /\ link' = link
      /\ expansion' = expansion /\ asked' = asked
  BY <1>3 DEF TypeOK, RunCallback, IsOpen
<1>7. status[s] = Awaiting(q)
  BY <1>3, <1>5 DEF Sound, OneQuery
<1>8. /\ asked[s] = <<>> <=> q = "IpInfo"
      /\ q = "IpInfo" => replies[s] = <<>>
      /\ q # "IpInfo" => asked[s][Len(asked[s])] = CommandOf(q)
  BY <1>3, <1>5, <1>6 DEF Sound, Answering, IsOpen
<1>9. q # "IpInfo" => /\ Len(asked[s]) = Len(replies[s]) + 1
                      /\ Matched(asked[s], replies[s])
  BY <1>4, <1>6, <1>8 DEF Sound, Answered, IsOpen
<1> QED
  BY <1>6, <1>7, <1>8, <1>9

(* A callback that answers the command that started its query. *)
LEMMA CallbackAnswers ==
  ASSUME TypeOK, NEW s \in Sessions, Sound(s), NEW i, NEW q \in Queries \ {"IpInfo"},
         NEW ok \in BOOLEAN, CommandOf(q) \in Commands,
         RunCallback(s, i, q), SendPacket(s, CommandOf(q), ok),
         Challenged(s)'
  PROVE  Sound(s)'
<1>1. /\ callbacks'[s] = <<>> /\ link'[s] = "open" /\ link[s] = "open" /\ asked' = asked
      /\ asked[s] # <<>> /\ Len(asked[s]) = Len(replies[s]) + 1
      /\ Matched(asked[s], replies[s]) /\ asked[s][Len(asked[s])] = CommandOf(q)
  BY CallbackRuns
<1>2. Len(<<>>) = 0
  BY EmptySeq
<1>3. Len(asked'[s]) = Len(replies'[s]) /\ Len(replies'[s]) \in Nat /\ Matched(asked'[s], replies'[s])
  <2> DEFINE a == asked[s]
             r == replies[s]
             e == [cmd |-> CommandOf(q), ok |-> ok]
             u == Append(r, e)
  <2>1. a \in Seq(Commands) /\ r \in Seq(Answers) /\ e \in Answers
    BY DEF TypeOK, Answers
  <2>2. Len(a) = Len(r) + 1 /\ Matched(a, r) /\ a[Len(a)] = CommandOf(q)
    BY <1>1
  <2>3. replies'[s] = u
    BY <1>1 DEF TypeOK, SendPacket, IsOpen
  <2> HIDE DEF a, r
  <2>4. Len(u) \in Nat
    BY <2>1, AppendElement
  <2>5. Len(a) = Len(u) /\ Matched(a, u)
    BY <2>1, <2>2, CommandAnswered
  <2> QED
    BY <1>1, <2>3, <2>4, <2>5 DEF a
<1>4. Pristine(s)' /\ OneQuery(s)'
  BY <1>1, <1>2 DEF Pristine, OneQuery
<1>5. Answered(s)' /\ Answering(s)'
  BY <1>1, <1>2, <1>3 DEF Answered, Answering, Matched
<1> QED
  BY <1>4, <1>5 DEF Sound

(* ... and by the callbacks of Update. *)
LEMMA UpdateSound ==
  ASSUME TypeOK, IInv, NEW s \in Sessions, Update(s)
  PROVE  IInv'
<1> SUFFICES ASSUME NEW t \in Sessions PROVE Sound(t)'
  BY DEF IInv
<1>0. Sound(t) /\ Sound(s)
  BY DEF IInv
<1>1. {"LogonChallenge", "LogonProof", "ReconnectChallenge", "ReconnectProof", "RealmList"}
        \subseteq Commands
  BY DEF Commands, Handlers
<1>2. CASE t # s
  BY <1>0, <1>2, OtherSession, SoundFrame DEF SameSession
<1>3. CASE DropSocket(s)
  <2>1. link'[s] \notin {"none", "open"} /\ reader' = reader /\ reading' = reading
    BY <1>3 DEF TypeOK, DropSocket
  <2>2. CASE reading[s]
    <3>1. UNCHANGED sessionVars
      BY <1>3, <2>2 DEF DropSocket
    <3>2. Sound(s)'
      BY <1>0, <2>1, <3>1, SoundClosed DEF sessionVars
    <3> QED
      BY <1>2, <3>2
  <2>3. CASE ~reading[s]
    <3>1. callbacks'[s] = <<>> /\ status'[s] = "Closed" /\ Len(<<>>) = 0
      BY <1>3, <2>3, EmptySeq DEF TypeOK, DropSocket
    <3>2. Sound(s)'
      BY <2>1, <3>1 DEF Sound, Pristine, OneQuery, Challenged, Answered, Answering, IsOpen
    <3> QED
      BY <1>2, <3>2
  <2> QED
    BY <2>2, <2>3
<1>4. ASSUME NEW i, CheckIpCallback(s, i) PROVE Sound(s)'
  <2>1. RunCallback(s, i, "IpInfo") /\ UNCHANGED <<status, info, srp>>
    BY <1>4 DEF CheckIpCallback
  <2>2. /\ callbacks'[s] = <<>> /\ reader' # s /\ link'[s] = "open" /\ expansion' = expansion
        /\ asked'[s] = <<>> /\ replies[s] = <<>> /\ ~reading[s]
    <3>1. ~reading[s]
      <4>1. Awaiting("IpInfo") = "Challenge" /\ callbacks[s] # <<>> /\ callbacks[s][1].query = "IpInfo"
        <5>1. callbacks[s] \in Seq(AwaitedRows) /\ i \in DOMAIN callbacks[s]
          BY <2>1, RunCallbackType
        <5>2. Len(callbacks[s]) <= 1
          BY <1>0 DEF Sound, OneQuery
        <5>3. i = 1 /\ callbacks[s] # <<>>
          BY <5>1, <5>2, RemoveOnly
        <5> QED
          BY <2>1, <5>3 DEF RunCallback, Awaiting
      <4> QED
        BY <1>0, <4>1 DEF Sound, OneQuery
    <3> QED
      BY <1>0, <2>1, <3>1, CallbackRuns
  <2>3. ~reading'[s] \/ replies'[s] = <<>>
    BY <1>4, <2>2 DEF CheckIpCallback
  <2>4. Len(<<>>) = 0
    BY EmptySeq
  <2>5. Pristine(s)' /\ OneQuery(s)'
    BY <2>2, <2>4 DEF Pristine, OneQuery
  <2>6. Challenged(s)'
    BY <1>0, <2>1, <2>2 DEF Sound, Challenged
  <2>7. Answered(s)' /\ Answering(s)'
    BY <2>2, <2>3 DEF Answered, Answering
  <2> QED
    BY <2>5, <2>6, <2>7 DEF Sound
<1>5. ASSUME NEW i, NEW cmd \in {"LogonChallenge", "ReconnectChallenge"}, UnknownAccount(s, i, cmd)
      PROVE  Sound(s)'
  <2>1. RunCallback(s, i, cmd) /\ SendPacket(s, cmd, FALSE) /\ UNCHANGED <<status, info, srp>>
    BY <1>5 DEF UnknownAccount
  <2>2. cmd \in Queries \ {"IpInfo"} /\ cmd = CommandOf(cmd) /\ cmd \in Commands
    BY <1>1 DEF Queries, CommandOf
  <2>3. Challenged(s)'
    BY <1>0, <2>1, CallbackRuns DEF Sound, Challenged
  <2> QED
    BY <1>0, <2>1, <2>2, <2>3, CallbackAnswers
<1>6. "LogonChallenge" \in Queries \ {"IpInfo"} /\ "LogonChallenge" = CommandOf("LogonChallenge")
  BY DEF Queries, CommandOf
<1>7. ASSUME NEW i, LogonRefused(s, i) PROVE Sound(s)'
  <2>1. /\ RunCallback(s, i, "LogonChallenge") /\ SendPacket(s, "LogonChallenge", FALSE)
        /\ UNCHANGED <<status, srp>>
    BY <1>7 DEF LogonRefused
  <2>2. status'[s] = "Closed"
    BY <1>0, <2>1, CallbackRuns DEF Awaiting
  <2>3. Challenged(s)'
    BY <2>2 DEF Challenged
  <2> QED
    BY <1>0, <1>1, <1>6, <2>1, <2>3, CallbackAnswers
<1>8. ASSUME NEW i, LogonAccepted(s, i) PROVE Sound(s)'
  <2>1. /\ RunCallback(s, i, "LogonChallenge") /\ expansion[s] \in BOOLEAN
        /\ SendPacket(s, "LogonChallenge", expansion[s])
    BY <1>8 DEF LogonAccepted, TypeOK
  <2>2. status[s] = "Closed" /\ expansion' = expansion
    BY <1>0, <2>1, CallbackRuns DEF Awaiting
  <2>3. /\ srp'[s] = "fresh" /\ info'[s].loaded
        /\ status'[s] = IF expansion[s] THEN "LogonProof" ELSE status[s]
    BY <1>8 DEF LogonAccepted, LoadResult, TypeOK
  <2>4. Challenged(s)'
    BY <2>2, <2>3 DEF Challenged
  <2> QED
    BY <1>0, <1>1, <1>6, <2>1, <2>4, CallbackAnswers
<1>9. ASSUME NEW i, ReconnectChallengeCallback(s, i) PROVE Sound(s)'
  <2>1. /\ RunCallback(s, i, "ReconnectChallenge") /\ SendPacket(s, "ReconnectChallenge", TRUE)
    BY <1>9 DEF ReconnectChallengeCallback
  <2>2. status'[s] = "ReconnectProof" /\ info'[s].loaded
    BY <1>9 DEF ReconnectChallengeCallback, LoadResult, TypeOK
  <2>3. Challenged(s)'
    BY <2>2 DEF Challenged
  <2>4. /\ "ReconnectChallenge" \in Queries \ {"IpInfo"}
        /\ "ReconnectChallenge" = CommandOf("ReconnectChallenge")
    BY DEF Queries, CommandOf
  <2> QED
    BY <1>0, <1>1, <2>1, <2>3, <2>4, CallbackAnswers
<1>10. ASSUME NEW i, RealmListCallback(s, i) PROVE Sound(s)'
  <2>1. /\ RunCallback(s, i, "CharacterCounts") /\ SendPacket(s, "RealmList", TRUE)
    BY <1>10 DEF RealmListCallback
  <2>2. status'[s] = "Authed"
    BY <1>10 DEF RealmListCallback, TypeOK
  <2>3. Challenged(s)'
    BY <2>2 DEF Challenged
  <2>4. "CharacterCounts" \in Queries \ {"IpInfo"} /\ "RealmList" = CommandOf("CharacterCounts")
    BY DEF Queries, CommandOf
  <2> QED
    BY <1>0, <1>1, <2>1, <2>3, <2>4, CallbackAnswers
<1> QED
  BY <1>2, <1>3, <1>4, <1>5, <1>7, <1>8, <1>9, <1>10 DEF Update

(* So every step keeps the invariant. *)
LEMMA NextSound == TypeOK /\ IInv /\ [Next]_vars => IInv'
<1> SUFFICES ASSUME TypeOK, IInv, [Next]_vars PROVE IInv'
  OBVIOUS
<1>1. CASE UNCHANGED vars
  <2> SUFFICES ASSUME NEW s \in Sessions PROVE Sound(s)'
    BY DEF IInv
  <2>1. Sound(s) /\ SameSession(s)
    BY <1>1 DEF IInv, SameSession, vars, socketVars, sessionVars, history
  <2> QED
    BY <2>1, SoundFrame DEF SameSession
<1>2. CASE Next
  BY <1>2, ClientSound, ReadHandlerSound, UpdateSound, WorkersSound DEF Next
<1> QED
  BY <1>1, <1>2

(* The strengthening holds of every session at all times. *)
THEOREM SessionsSound == Spec => []IInv
<1>1. Init => TypeOK /\ IInv
  BY InitTypeOK, InitSound
<1>2. TypeOK /\ IInv /\ [Next]_vars => TypeOK' /\ IInv'
  BY NextTypeOK, NextSound
<1> QED
  BY <1>1, <1>2, PTL DEF Spec

(* However a client sends its packets ahead, a session awaits one query at a *)
(* time, in the status that belongs to it.                                   *)
THEOREM OneQueryHolds == Spec => []OneQueryAtATime
<1>1. IInv => OneQueryAtATime
  BY DEF IInv, Sound, OneQuery, OneQueryAtATime
<1> QED
  BY <1>1, SessionsSound, PTL

(* No proof is accepted without the challenge and the account it answers:    *)
(* the ASSERT in VerifyChallengeResponse never fires.                        *)
THEOREM ProofHasChallengeHolds == Spec => []ProofHasChallenge
<1>1. IInv => ProofHasChallenge
  BY DEF IInv, Sound, Challenged, ProofHasChallenge
<1> QED
  BY <1>1, SessionsSound, PTL

(* Every command accepted on an open socket is answered once, in order.      *)
THEOREM AnsweredInOrderHolds == Spec => []AnsweredInOrder
<1>1. IInv => AnsweredInOrder
  BY DEF IInv, Sound, Answered, Matched, AnsweredInOrder
<1> QED
  BY <1>1, SessionsSound, PTL
-----------------------------------------------------------------------------
(* The sessions implement LoginProtocol                                      *)

(* What a session has asked first tells what its status and the query it     *)
(* awaits are about.                                                         *)
Identified(s) ==
  IsOpen(s) =>
    /\ status[s] = "Challenge" => asked[s] = <<>>
    /\ status[s] \in {"LogonProof", "ReconnectProof", "Authed", "WaitingForRealmList"} => asked[s] # <<>>
    /\ status[s] = "LogonProof" => asked[s][1] = "LogonChallenge"
    /\ status[s] = "ReconnectProof" => asked[s][1] = "ReconnectChallenge"
    /\ callbacks[s] # <<>> /\ callbacks[s][1].query \in {"LogonChallenge", "ReconnectChallenge"} =>
         asked[s] # <<>> /\ asked[s][1] = callbacks[s][1].query
AllIdentified == \A s \in Sessions : Identified(s)

(* A step of AuthSession is one of LoginProtocol or a stutter; the sessions but s stay where they are. *)
Refines   == [Protocol!Next]_(Protocol!vars)
Others(s) == \A t \in Sessions \ {s} : Phase(t)' = Phase(t) /\ Kind(t)' = Kind(t)

(* The cases of Phase. *)
Phases(s) ==
  /\ link[s] = "none" => Phase(s) = "absent"
  /\ link[s] \in {"closed", "gone"} => Phase(s) = "closed"
  /\ link[s] = "open" =>
       /\ status[s] = "Challenge" =>
            Phase(s) = IF callbacks[s] # <<>> THEN "greeting"
                       ELSE IF reading[s] \/ reader = s THEN "admitted" ELSE "refused"
       /\ status[s] = "Closed" => Phase(s) = IF callbacks[s] # <<>> THEN "identified" ELSE "refused"
       /\ status[s] \in {"LogonProof", "ReconnectProof"} => Phase(s) = "proving"
       /\ status[s] = "Authed" => Phase(s) = "authed"
       /\ status[s] = "WaitingForRealmList" => Phase(s) = "listing"
       /\ status[s] \in Statuses => Phase(s) \notin {"absent", "closed"}

(* Phases is true of every state, by the definition of Phase. *)
LEMMA PhaseCases ==
  ASSUME NEW s \in Sessions
  PROVE  Phases(s) /\ Phases(s)'
<1>1. Phases(s)
  BY DEF Phases, Phase, IsOpen, Statuses
<1>2. Phases(s)'
  BY DEF Phases, Phase, IsOpen, Statuses
<1> QED
  BY <1>1, <1>2

(* A step of a session moves no other in LoginProtocol. *)
LEMMA OthersStay ==
  ASSUME TypeOK, NEW s \in Sessions, Client(s) \/ ReadHandler(s) \/ Update(s)
  PROVE  Others(s)
<1> SUFFICES ASSUME NEW t \in Sessions, t # s PROVE Phase(t)' = Phase(t) /\ Kind(t)' = Kind(t)
  BY DEF Others
<1>1. SameSession(t)
  BY OtherSession
<1>2. Phase(t)' = Phase(t)
  BY <1>1 DEF SameSession, Phase, IsOpen
<1>3. Kind(t)' = Kind(t)
  BY <1>1 DEF SameSession, Kind
<1> QED
  BY <1>2, <1>3

(* Identified of the sessions that do not step. *)
LEMMA IdentifiedStays ==
  ASSUME TypeOK, AllIdentified, NEW s \in Sessions, Client(s) \/ ReadHandler(s) \/ Update(s),
         Identified(s)'
  PROVE  AllIdentified'
<1> SUFFICES ASSUME NEW t \in Sessions, t # s PROVE Identified(t)'
  BY DEF AllIdentified
<1>1. SameSession(t) /\ Identified(t)
  BY OtherSession DEF AllIdentified
<1> QED
  BY <1>1 DEF SameSession, Identified, IsOpen

-----------------------------------------------------------------------------
(* Steps of LoginProtocol *)

(* A change of one session's phase is a Step of LoginProtocol. *)
LEMMA Moved ==
  ASSUME NEW s \in Sessions, Others(s), NEW from, NEW to, Phase(s) = from, Phase(s)' = to
  PROVE  Protocol!Step(s, from, to)
BY DEF Others, Protocol!Step

(* The kind of proof expected, of every session: kept, or set for one. *)
LEMMA KindKept ==
  ASSUME NEW s \in Sessions, Others(s), Kind(s)' = Kind(s)
  PROVE  UNCHANGED [t \in Sessions |-> Kind(t)]
BY DEF Others

LEMMA KindSet ==
  ASSUME NEW s \in Sessions, Others(s), NEW k, Kind(s)' = k
  PROVE  [t \in Sessions |-> Kind(t)]' = [[t \in Sessions |-> Kind(t)] EXCEPT ![s] = k]
BY DEF Others

(* A step that changes nothing LoginProtocol sees is a stutter. *)
LEMMA Quiet ==
  ASSUME NEW s \in Sessions, Others(s), Phase(s)' = Phase(s), Kind(s)' = Kind(s), replies' = replies
  PROVE  Refines
BY DEF Others, Refines, Protocol!vars

(* A packet that is sent on an open socket is an answer. *)
LEMMA IsAnswer ==
  ASSUME NEW s \in Sessions, Others(s), Kind(s)' = Kind(s), NEW cmd, NEW ok,
         IsOpen(s), SendPacket(s, cmd, ok)
  PROVE  Protocol!Answer(s, cmd, ok)
BY KindKept DEF SendPacket, Protocol!Answer

(* A session that is closed by either side. *)
LEMMA Closing ==
  ASSUME TypeOK, NEW s \in Sessions, Others(s), link[s] # "none", link'[s] \in {"closed", "gone"},
         replies' = replies,
         Kind(s)' = Kind(s) \/ (Phase(s) \in {"admitted", "closed"} /\ Kind(s) = "none"),
         Kind(s)' \in Protocol!Kinds
  PROVE  Refines
<1>1. link[s] \in {"none", "open", "closed", "gone"} /\ status[s] \in Statuses
  BY DEF TypeOK
<1>2. Phase(s)' = "closed"
  BY PhaseCases DEF Phases
<1>3. CASE link[s] = "open"
  <2>1. Phase(s) \notin {"absent", "closed"}
    BY <1>1, <1>3, PhaseCases DEF Phases
  <2>2. [t \in Sessions |-> Phase(t)]' = [[t \in Sessions |-> Phase(t)] EXCEPT ![s] = "closed"]
    BY <1>2 DEF Others
  <2>3. Protocol!Close(s)
    <3>1. CASE Kind(s)' = Kind(s)
      BY <2>1, <2>2, <3>1, KindKept DEF Protocol!Close
    <3>2. CASE Kind(s)' # Kind(s)
      <4>1. PICK k \in Protocol!Kinds : Kind(s)' = k
        OBVIOUS
      <4>2. [t \in Sessions |-> Kind(t)]' = [[t \in Sessions |-> Kind(t)] EXCEPT ![s] = k]
        BY <4>1, KindSet
      <4> QED
        BY <2>1, <2>2, <3>2, <4>2 DEF Protocol!Close
    <3> QED
      BY <3>1, <3>2
  <2> QED
    BY <2>3 DEF Refines, Protocol!Next
<1>4. CASE link[s] # "open"
  <2>1. Phase(s) = "closed"
    BY <1>1, <1>4, PhaseCases DEF Phases
  <2>2. CASE Kind(s)' = Kind(s)
    BY <1>2, <2>1, <2>2, Quiet
  <2>3. CASE Kind(s)' # Kind(s)
    <3>1. PICK k \in Protocol!Kinds : Kind(s)' = k
      OBVIOUS
    <3>2. [t \in Sessions |-> Kind(t)]' = [[t \in Sessions |-> Kind(t)] EXCEPT ![s] = k]
      BY <3>1, KindSet
    <3>3. UNCHANGED [t \in Sessions |-> Phase(t)]
      BY <1>2, <2>1 DEF Others
    <3>4. Protocol!ReadAfterClose(s)
      BY <2>1, <2>3, <3>2, <3>3 DEF Protocol!ReadAfterClose
    <3> QED
      BY <3>4 DEF Refines, Protocol!Next
  <2> QED
    BY <2>2, <2>3
<1> QED
  BY <1>3, <1>4
-----------------------------------------------------------------------------
(* Every step is one of LoginProtocol                                        *)

(* A session is known by its first command. *)
LEMMA HandleAsks ==
  ASSUME TypeOK, NEW s \in Sessions, NEW cmd \in Commands, Handle(s, cmd)
  PROVE  /\ asked'[s] # <<>> /\ asked'[s][1] \in Commands
         /\ asked[s] = <<>> => asked'[s][1] = cmd /\ Kind(s) = "none"
         /\ asked[s] # <<>> => asked'[s][1] = asked[s][1] /\ Kind(s)' = Kind(s)
         /\ Kind(s)' \in {"logon", "reconnect"}
<1> DEFINE a == asked[s]
<1>1. a \in Seq(Commands) /\ asked'[s] = Append(a, cmd)
  BY DEF TypeOK, Handle
<1>2. /\ Append(a, cmd) \in Seq(Commands) /\ Append(a, cmd) # <<>>
      /\ Len(a) \in Nat /\ Append(a, cmd)[Len(a) + 1] = cmd
      /\ \A i \in 1 .. Len(a) : Append(a, cmd)[i] = a[i]
  BY <1>1, AppendElement
<1>3. a = <<>> => Len(a) + 1 = 1
  BY EmptySeq
<1>4. a # <<>> => 1 \in 1 .. Len(a)
  <2>1. a # <<>> => Len(a) # 0
    BY <1>1, EmptySeq
  <2> QED
    BY <1>2, <2>1
<1>5. Append(a, cmd)[1] \in Commands
  BY <1>1, <1>2, <1>3, <1>4, ElementOfSeq
<1>6. /\ asked'[s] # <<>> /\ asked'[s][1] \in Commands
      /\ asked[s] = <<>> => asked'[s][1] = cmd
      /\ asked[s] # <<>> => asked'[s][1] = asked[s][1]
  <2>1. a = <<>> => Append(a, cmd)[1] = cmd
    BY <1>2, <1>3
  <2> QED
    BY <1>1, <1>2, <1>4, <1>5, <2>1
<1> QED
  BY <1>6 DEF Kind

(* What the client does: connect, send, disconnect. *)
LEMMA ClientRefines ==
  ASSUME TypeOK, IInv, AllIdentified, NEW s \in Sessions, Client(s)
  PROVE  Refines /\ AllIdentified'
<1>0. Others(s) /\ Sound(s) /\ Identified(s)
  BY OthersStay DEF IInv, AllIdentified
<1> SUFFICES Refines /\ Identified(s)'
  BY IdentifiedStays
<1>1. CASE Start(s)
  <2>1. /\ link[s] = "none" /\ link'[s] = "open" /\ status'[s] = "Challenge" /\ ~reading'[s]
        /\ asked' = asked /\ asked[s] = <<>> /\ replies' = replies
        /\ callbacks'[s] = Append(<<>>, Callback("IpInfo"))
    BY <1>0, <1>1 DEF TypeOK, Start, AsyncQuery, Sound, Pristine, history
  <2>2. callbacks'[s] # <<>> /\ callbacks'[s][1].query = "IpInfo"
    <3>1. Callback("IpInfo") \in AwaitedRows /\ Callback("IpInfo").query = "IpInfo"
      BY DEF Callback, AwaitedRows, Queries
    <3> QED
      BY <2>1, <3>1, OnlyElement
  <2>3. Phase(s) = "absent" /\ Phase(s)' = "greeting" /\ Kind(s)' = Kind(s)
    BY <2>1, <2>2, PhaseCases DEF Phases, Kind
  <2>4. Protocol!Connect(s)
    BY <1>0, <2>1, <2>3, Moved, KindKept DEF Protocol!Connect, Protocol!Silently
  <2>5. Identified(s)'
    BY <2>1, <2>2 DEF Identified
  <2> QED
    BY <2>4, <2>5 DEF Refines, Protocol!Next
<1>2. CASE ReadFails(s) \/ WriteFails(s)
  <2>1. link[s] # "none"
    BY <1>0, <1>2 DEF Sound, Pristine, ReadFails, WriteFails, IsOpen
  <2>2. link'[s] \in {"closed", "gone"} /\ asked' = asked /\ replies' = replies
    BY <1>2, <2>1 DEF TypeOK, ReadFails, WriteFails, CloseSocket, history
  <2>3. Kind(s)' = Kind(s) /\ Kind(s)' \in Protocol!Kinds
    BY <2>2 DEF Kind, Protocol!Kinds
  <2>4. Identified(s)'
    BY <2>2 DEF Identified, IsOpen
  <2> QED
    BY <1>0, <2>1, <2>2, <2>3, <2>4, Closing
<1>3. ASSUME NEW b, Receive(s, b) PROVE Refines /\ Identified(s)'
  <2>1. /\ reading[s] /\ reader' = s
        /\ link' = link /\ status' = status /\ callbacks' = callbacks /\ asked' = asked /\ replies' = replies
    BY <1>3 DEF Receive, sessionVars, history
  <2>2. Phase(s)' = Phase(s)
    BY <2>1 DEF Phase, IsOpen
  <2>3. Kind(s)' = Kind(s)
    BY <2>1 DEF Kind
  <2>4. Identified(s)'
    BY <1>0, <2>1 DEF Identified, IsOpen
  <2> QED
    BY <1>0, <2>1, <2>2, <2>3, <2>4, Quiet
<1> QED
  BY <1>1, <1>2, <1>3 DEF Client

(* ReadHandler: each packet it handles is an answer, a move or a stutter. *)
LEMMA ReadHandlerRefines ==
  ASSUME TypeOK, IInv, AllIdentified, NEW s \in Sessions, ReadHandler(s)
  PROVE  Refines /\ AllIdentified'
<1>0. Others(s) /\ Sound(s) /\ Identified(s)
  BY OthersStay DEF IInv, AllIdentified
<1> SUFFICES Refines /\ Identified(s)'
  BY IdentifiedStays
<1>1. {"LogonChallenge", "LogonProof", "ReconnectChallenge", "ReconnectProof", "RealmList"}
        \subseteq Commands
  BY DEF Commands, Handlers
<1>2. CASE ReadMore(s)
  <2>1. /\ reader = s /\ reading'[s] = IsOpen(s)
        /\ link' = link /\ status' = status /\ callbacks' = callbacks /\ asked' = asked /\ replies' = replies
    BY <1>2 DEF TypeOK, ReadMore, AsyncRead, sessionVars, history
  <2>2. Phase(s)' = Phase(s)
    BY <2>1 DEF Phase, IsOpen
  <2>3. Kind(s)' = Kind(s)
    BY <2>1 DEF Kind
  <2>4. Identified(s)'
    BY <1>0, <2>1 DEF Identified, IsOpen
  <2> QED
    BY <1>0, <2>1, <2>2, <2>3, <2>4, Quiet
<1>3. CASE Rejected(s)
  <2>1. link[s] # "none"
    BY <1>0, <1>3 DEF Rejected, Sound, Pristine
  <2>2. link'[s] \in {"closed", "gone"} /\ asked' = asked /\ replies' = replies
    BY <1>3, <2>1 DEF TypeOK, Rejected, CloseSocket, history
  <2>3. Kind(s)' = Kind(s) /\ Kind(s)' \in Protocol!Kinds
    BY <2>2 DEF Kind, Protocol!Kinds
  <2>4. Identified(s)'
    BY <2>2 DEF Identified, IsOpen
  <2> QED
    BY <1>0, <2>1, <2>2, <2>3, <2>4, Closing
<1>4. ASSUME NEW cmd \in Commands, Handle(s, cmd), link'[s] \in {"closed", "gone"}, replies' = replies
      PROVE  Refines /\ Identified(s)'
  <2>1. link[s] # "none" /\ callbacks[s] = <<>> /\ reader = s /\ status[s] = Handlers[cmd]
    BY <1>0, <1>4, HandleIdle DEF Handle
  <2>2. Kind(s)' \in Protocol!Kinds /\ (asked[s] # <<>> => Kind(s)' = Kind(s)) /\ (asked[s] = <<>> => Kind(s) = "none")
    BY <1>4, HandleAsks DEF Protocol!Kinds
  <2>3. asked[s] = <<>> => Phase(s) \in {"admitted", "closed"}
    <3>1. CASE link[s] = "open"
      <4>1. asked[s] = <<>> => status[s] = "Challenge"
        BY <1>0, <2>1, <3>1 DEF Identified, IsOpen, Commands, Handlers
      <4> QED
        BY <2>1, <3>1, <4>1, PhaseCases DEF Phases
    <3>2. CASE link[s] # "open"
      BY <2>1, <3>2, PhaseCases DEF TypeOK, Phases
    <3> QED
      BY <3>1, <3>2
  <2>4. Identified(s)'
    BY <1>4 DEF Identified, IsOpen
  <2> QED
    BY <1>0, <1>4, <2>1, <2>2, <2>3, <2>4, Closing
<1>5. ASSUME NEW cmd \in Commands, Handle(s, cmd), Failed(s) PROVE Refines /\ Identified(s)'
  <2>1. link'[s] \in {"closed", "gone"} /\ replies' = replies
    BY <1>0, <1>5, HandleIdle DEF TypeOK, Failed, CloseSocket
  <2> QED
    BY <1>4, <1>5, <2>1
<1>6. ASSUME NEW cmd \in Commands, NEW next, Handle(s, cmd), Handled(s, next), ~IsOpen(s), replies' = replies
      PROVE  Refines /\ Identified(s)'
  <2>1. link'[s] \in {"closed", "gone"}
    <3>1. link' = link /\ link[s] # "none" /\ link[s] # "open" /\ link[s] \in {"none", "open", "closed", "gone"}
      BY <1>0, <1>6, HandleIdle DEF TypeOK, Handled, IsOpen
    <3> QED
      BY <3>1
  <2> QED
    BY <1>4, <1>6, <2>1
<1>7. ASSUME NEW cmd \in Commands, NEW q \in Queries, NEW next, Handle(s, cmd), Handled(s, next),
             AsyncQuery(s, q), IsOpen(s)
      PROVE  /\ link[s] = "open" /\ link'[s] = "open" /\ status[s] = Handlers[cmd] /\ status'[s] = next
             /\ callbacks[s] = <<>> /\ reader = s
             /\ callbacks'[s] # <<>> /\ callbacks'[s][1].query = q
  <2>1. /\ callbacks[s] = <<>> /\ reader = s /\ link[s] = "open" /\ link' = link /\ status'[s] = next
        /\ status[s] = Handlers[cmd]
    BY <1>0, <1>7, HandleIdle DEF TypeOK, Handle, Handled, IsOpen
  <2>2. Callback(q) \in AwaitedRows /\ Callback(q).query = q
    BY DEF Callback, AwaitedRows
  <2>3. callbacks'[s] = Append(<<>>, Callback(q))
    BY <1>7, <2>1 DEF TypeOK, AsyncQuery
  <2> QED
    BY <2>1, <2>2, <2>3, OnlyElement
<1>8. ASSUME NEW cmd \in {"LogonChallenge", "ReconnectChallenge"}, NEW valid \in BOOLEAN,
             HandleChallenge(s, cmd, valid)
      PROVE  Refines /\ Identified(s)'
  <2>1. /\ cmd \in Commands /\ cmd \in Queries /\ Handle(s, cmd) /\ Handled(s, "Closed")
        /\ AsyncQuery(s, cmd) /\ replies' = replies /\ Handlers[cmd] = "Challenge"
    BY <1>1, <1>8 DEF HandleChallenge, Queries, Handlers
  <2>2. CASE IsOpen(s)
    <3>1. /\ link[s] = "open" /\ link'[s] = "open" /\ status[s] = "Challenge" /\ status'[s] = "Closed"
          /\ callbacks[s] = <<>> /\ reader = s /\ callbacks'[s] # <<>> /\ callbacks'[s][1].query = cmd
      BY <1>7, <2>1, <2>2
    <3>2. asked[s] = <<>>
      BY <1>0, <2>2, <3>1 DEF Identified
    <3>3. asked'[s] # <<>> /\ asked'[s][1] = cmd /\ Kind(s)' \in {"logon", "reconnect"}
      BY <2>1, <3>2, HandleAsks
    <3>4. Phase(s) = "admitted" /\ Phase(s)' = "identified"
      BY <3>1, PhaseCases DEF Phases
    <3>5. PICK k \in {"logon", "reconnect"} : Kind(s)' = k
      BY <3>3
    <3>6. Protocol!Identify(s, k)
      BY <1>0, <2>1, <3>4, <3>5, Moved, KindSet DEF Protocol!Identify
    <3>7. Identified(s)'
      BY <3>1, <3>3 DEF Identified
    <3>8. k \in Protocol!Kinds \ {"none"}
      BY DEF Protocol!Kinds
    <3> QED
      BY <3>6, <3>7, <3>8 DEF Refines, Protocol!Next
  <2> QED
    BY <1>6, <2>1, <2>2
<1>9. CASE HandleRealmList(s)
  <2>1. /\ "RealmList" \in Commands /\ "CharacterCounts" \in Queries /\ Handle(s, "RealmList")
        /\ Handled(s, "WaitingForRealmList")
        /\ AsyncQuery(s, "CharacterCounts") /\ replies' = replies /\ Handlers["RealmList"] = "Authed"
    BY <1>1, <1>9 DEF HandleRealmList, Queries, Handlers
  <2>2. CASE IsOpen(s)
    <3>1. /\ link[s] = "open" /\ link'[s] = "open" /\ status[s] = "Authed" /\ status'[s] = "WaitingForRealmList"
          /\ callbacks'[s] # <<>> /\ callbacks'[s][1].query = "CharacterCounts"
      BY <1>7, <2>1, <2>2
    <3>2. asked[s] # <<>>
      BY <1>0, <2>2, <3>1 DEF Identified
    <3>3. asked'[s] # <<>> /\ Kind(s)' = Kind(s)
      BY <2>1, <3>2, HandleAsks
    <3>4. Phase(s) = "authed" /\ Phase(s)' = "listing"
      BY <3>1, PhaseCases DEF Phases
    <3>5. Protocol!AskRealms(s)
      BY <1>0, <2>1, <3>3, <3>4, Moved, KindKept DEF Protocol!AskRealms, Protocol!Silently
    <3>6. Identified(s)'
      BY <3>1, <3>3 DEF Identified
    <3> QED
      BY <3>5, <3>6 DEF Refines, Protocol!Next
  <2> QED
    BY <1>6, <2>1, <2>2
<1>10. ASSUME NEW cmd \in {"LogonProof", "ReconnectProof"}, NEW ok \in BOOLEAN,
              Handle(s, cmd), Handled(s, IF ok THEN "Authed" ELSE "Closed"), SendPacket(s, cmd, ok),
              UNCHANGED callbacks
       PROVE  Refines /\ Identified(s)'
  <2>1. cmd \in Commands /\ Handlers[cmd] = cmd
    BY <1>1 DEF Handlers
  <2>2. CASE IsOpen(s)
    <3>1. /\ link[s] = "open" /\ link' = link /\ status[s] = cmd
          /\ status'[s] = IF ok THEN "Authed" ELSE "Closed"
          /\ callbacks[s] = <<>> /\ callbacks'[s] = <<>>
      BY <1>0, <1>10, <2>1, <2>2, HandleIdle DEF TypeOK, Handle, Handled, IsOpen
    <3>2. asked[s] # <<>> /\ cmd = Protocol!Proof(Kind(s))
      BY <1>0, <2>2, <3>1 DEF Identified, Kind, Protocol!Proof
    <3>3. asked'[s] # <<>> /\ Kind(s)' = Kind(s)
      BY <1>10, <2>1, <3>2, HandleAsks
    <3>4. Phase(s) = "proving" /\ Phase(s)' = IF ok THEN "authed" ELSE "refused"
      BY <3>1, PhaseCases DEF Phases
    <3>5. Protocol!Answer(s, cmd, ok)
      BY <1>0, <1>10, <2>2, <3>3, IsAnswer
    <3>6. CASE ok
      <4>1. Protocol!Proved(s)
        BY <1>0, <3>2, <3>4, <3>5, <3>6, Moved DEF Protocol!Proved
      <4> QED
        BY <3>1, <3>3, <3>6, <4>1 DEF Refines, Protocol!Next, Identified
    <3>7. CASE ~ok
      <4>1. Protocol!Disproved(s)
        BY <1>0, <3>2, <3>4, <3>5, <3>7, Moved DEF Protocol!Disproved
      <4> QED
        BY <3>1, <3>3, <3>7, <4>1 DEF Refines, Protocol!Next, Identified
    <3> QED
      BY <3>6, <3>7
  <2>3. CASE ~IsOpen(s)
    BY <1>6, <1>10, <2>1, <2>3 DEF SendPacket
  <2> QED
    BY <2>2, <2>3
<1>11. ASSUME NEW cmd \in {"LogonChallenge", "ReconnectChallenge"}, HandleBadChallenge(s, cmd)
       PROVE  Refines /\ Identified(s)'
  BY <1>1, <1>5, <1>11 DEF HandleBadChallenge
<1>12. ASSUME NEW cmd \in {"LogonProof", "ReconnectProof"}, ProofFails(s, cmd)
       PROVE  Refines /\ Identified(s)'
  BY <1>1, <1>5, <1>12 DEF ProofFails
<1>13. CASE LogonProofOk(s)
  BY <1>10, <1>13 DEF LogonProofOk, VerifyChallengeResponse
<1>14. CASE LogonProofRefused(s)
  BY <1>10, <1>14 DEF LogonProofRefused, VerifyChallengeResponse
<1>15. CASE LogonProofWrong(s)
  BY <1>10, <1>15 DEF LogonProofWrong, VerifyChallengeResponse
<1>16. CASE ReconnectProofOk(s)
  BY <1>10, <1>16 DEF ReconnectProofOk
<1>17. CASE ReconnectProofRefused(s)
  BY <1>10, <1>17 DEF ReconnectProofRefused
<1> QED
  BY <1>2, <1>3, <1>8, <1>9, <1>11, <1>12, <1>13, <1>14, <1>15, <1>16, <1>17 DEF ReadHandler
(* The answer of a callback goes to the session that asked. *)
LEMMA CallbackAsked ==
  ASSUME TypeOK, NEW s \in Sessions, Sound(s), Identified(s), Others(s),
         NEW i, NEW q \in Queries, RunCallback(s, i, q)
  PROVE  /\ link[s] = "open" /\ link'[s] = "open" /\ IsOpen(s) /\ status[s] = Awaiting(q)
         /\ callbacks[s] # <<>> /\ callbacks'[s] = <<>> /\ asked' = asked /\ Kind(s)' = Kind(s)
         /\ q \in {"LogonChallenge", "ReconnectChallenge"} =>
              asked[s] # <<>> /\ asked[s][1] = q /\ q = Protocol!Challenge(Kind(s))
<1>1. /\ callbacks'[s] = <<>> /\ link[s] = "open" /\ link' = link /\ status[s] = Awaiting(q) /\ asked' = asked
  BY CallbackRuns
<1>2. callbacks[s] # <<>> /\ callbacks[s][1].query = q
  <2>1. callbacks[s] \in Seq(AwaitedRows) /\ i \in DOMAIN callbacks[s]
    BY RunCallbackType
  <2>2. Len(callbacks[s]) <= 1
    BY DEF Sound, OneQuery
  <2>3. i = 1 /\ callbacks[s] # <<>>
    BY <2>1, <2>2, RemoveOnly
  <2> QED
    BY <2>3 DEF RunCallback
<1>3. q \in {"LogonChallenge", "ReconnectChallenge"} => asked[s] # <<>> /\ asked[s][1] = q
  BY <1>1, <1>2 DEF Identified, IsOpen
<1> QED
  BY <1>1, <1>2, <1>3 DEF IsOpen, Kind, Protocol!Challenge

(* AuthSession::Update: a ready query's callback, or the end of a closed session. *)
LEMMA UpdateRefines ==
  ASSUME TypeOK, IInv, AllIdentified, NEW s \in Sessions, Update(s)
  PROVE  Refines /\ AllIdentified'
<1>0. Others(s) /\ Sound(s) /\ Identified(s)
  BY OthersStay DEF IInv, AllIdentified
<1> SUFFICES Refines /\ Identified(s)'
  BY IdentifiedStays
<1>1. CASE DropSocket(s)
  <2>1. link[s] = "closed" /\ link'[s] = "gone"
    BY <1>1 DEF TypeOK, DropSocket
  <2>2. Phase(s) = "closed" /\ Phase(s)' = "closed"
    BY <2>1, PhaseCases DEF Phases
  <2>3. Identified(s)'
    BY <2>1 DEF Identified, IsOpen
  <2>4. CASE asked' = asked /\ replies' = replies
    BY <1>0, <2>2, <2>3, <2>4, Quiet DEF Kind
  <2>5. CASE asked' = [asked EXCEPT ![s] = <<>>] /\ replies' = [replies EXCEPT ![s] = <<>>]
    <3>1. Kind(s)' = "none"
      BY <2>5 DEF Kind, TypeOK
    <3>2. UNCHANGED [t \in Sessions |-> Phase(t)]
      BY <1>0, <2>2 DEF Others
    <3>3. Protocol!Forget(s)
      BY <1>0, <2>2, <2>5, <3>1, <3>2, KindSet DEF Protocol!Forget
    <3> QED
      BY <2>3, <3>3 DEF Refines, Protocol!Next
  <2> QED
    BY <1>1, <2>4, <2>5 DEF DropSocket
<1>2. ASSUME NEW i, CheckIpCallback(s, i) PROVE Refines /\ Identified(s)'
  <2>1. /\ link[s] = "open" /\ link'[s] = "open" /\ IsOpen(s) /\ status[s] = "Challenge" /\ status' = status
        /\ callbacks[s] # <<>> /\ callbacks'[s] = <<>> /\ asked' = asked /\ Kind(s)' = Kind(s)
        /\ reader' = NoSession /\ reader = NoSession
    <3>1. RunCallback(s, i, "IpInfo") /\ "IpInfo" \in Queries /\ status' = status
      BY <1>2 DEF CheckIpCallback, Queries
    <3> QED
      BY <1>0, <3>1, CallbackAsked DEF Awaiting, RunCallback
  <2>2. ~reading[s]
    <3>1. callbacks[s][1].query = "IpInfo"
      <4>1. RunCallback(s, i, "IpInfo")
        BY <1>2 DEF CheckIpCallback
      <4>2. callbacks[s] \in Seq(AwaitedRows) /\ i \in DOMAIN callbacks[s]
        BY <4>1, RunCallbackType
      <4>3. Len(callbacks[s]) <= 1
        BY <1>0 DEF Sound, OneQuery
      <4>4. i = 1
        BY <4>2, <4>3, RemoveOnly
      <4> QED
        BY <4>1, <4>4 DEF RunCallback
    <3> QED
      BY <1>0, <2>1, <3>1 DEF Sound, OneQuery
  <2>3. Identified(s)'
    BY <1>0, <2>1 DEF Identified, IsOpen
  <2>4. Phase(s) = "greeting" /\ Phase(s)' = IF reading'[s] THEN "admitted" ELSE "refused"
    BY <2>1, PhaseCases DEF Phases
  <2>5. CASE callbacks[s][i].banned
    <3>1. SendPacket(s, "LogonChallenge", FALSE) /\ reading' = reading
      BY <1>2, <2>5 DEF CheckIpCallback
    <3>2. Protocol!TurnAway(s)
      BY <1>0, <2>1, <2>2, <2>4, <3>1, Moved, IsAnswer DEF Protocol!TurnAway
    <3> QED
      BY <2>3, <3>2 DEF Refines, Protocol!Next
  <2>6. CASE ~callbacks[s][i].banned
    <3>1. reading'[s] /\ replies' = replies
      BY <1>2, <2>6 DEF CheckIpCallback, TypeOK
    <3>2. Protocol!Admit(s)
      BY <1>0, <2>1, <2>4, <3>1, Moved, KindKept DEF Protocol!Admit, Protocol!Silently
    <3> QED
      BY <2>3, <3>2 DEF Refines, Protocol!Next
  <2> QED
    BY <2>5, <2>6
<1>3. ASSUME NEW i, NEW cmd \in {"LogonChallenge", "ReconnectChallenge"}, RunCallback(s, i, cmd),
             NEW ok \in BOOLEAN, SendPacket(s, cmd, ok),
             status'[s] = IF ~ok THEN "Closed"
                          ELSE IF cmd = "LogonChallenge" THEN "LogonProof" ELSE "ReconnectProof"
      PROVE  Refines /\ Identified(s)'
  <2>1. cmd \in Queries /\ Awaiting(cmd) = "Closed"
    BY DEF Queries, Awaiting
  <2>2. /\ link[s] = "open" /\ link'[s] = "open" /\ IsOpen(s) /\ status[s] = "Closed"
        /\ callbacks[s] # <<>> /\ callbacks'[s] = <<>> /\ asked' = asked /\ Kind(s)' = Kind(s)
        /\ asked[s] # <<>> /\ asked[s][1] = cmd /\ cmd = Protocol!Challenge(Kind(s))
    BY <1>0, <1>3, <2>1, CallbackAsked
  <2>3. Identified(s)'
    BY <1>3, <2>2 DEF Identified
  <2>4. Phase(s) = "identified" /\ Phase(s)' = IF ok THEN "proving" ELSE "refused"
    BY <1>3, <2>2, PhaseCases DEF Phases
  <2>5. Protocol!Answer(s, cmd, ok)
    BY <1>0, <1>3, <2>2, IsAnswer
  <2>6. CASE ok
    <3>1. Protocol!Challenged(s)
      BY <1>0, <2>2, <2>4, <2>5, <2>6, Moved DEF Protocol!Challenged
    <3> QED
      BY <2>3, <3>1 DEF Refines, Protocol!Next
  <2>7. CASE ~ok
    <3>1. Protocol!Unknown(s)
      BY <1>0, <2>2, <2>4, <2>5, <2>7, Moved DEF Protocol!Unknown
    <3> QED
      BY <2>3, <3>1 DEF Refines, Protocol!Next
  <2> QED
    BY <2>6, <2>7
<1>4. ASSUME NEW i, NEW cmd \in {"LogonChallenge", "ReconnectChallenge"}, RunCallback(s, i, cmd)
      PROVE  status[s] = "Closed" /\ status \in [Sessions -> Statuses]
  <2>1. cmd \in Queries /\ Awaiting(cmd) = "Closed"
    BY DEF Queries, Awaiting
  <2> QED
    BY <1>0, <1>4, <2>1, CallbackAsked DEF TypeOK
<1>5. ASSUME NEW i, NEW cmd \in {"LogonChallenge", "ReconnectChallenge"}, UnknownAccount(s, i, cmd)
      PROVE  Refines /\ Identified(s)'
  BY <1>3, <1>4, <1>5 DEF UnknownAccount
<1>6. ASSUME NEW i, LogonRefused(s, i) PROVE Refines /\ Identified(s)'
  BY <1>3, <1>4, <1>6 DEF LogonRefused
<1>7. ASSUME NEW i, LogonAccepted(s, i) PROVE Refines /\ Identified(s)'
  <2>1. /\ RunCallback(s, i, "LogonChallenge") /\ expansion[s] \in BOOLEAN
        /\ SendPacket(s, "LogonChallenge", expansion[s])
        /\ status' = [status EXCEPT ![s] = IF expansion[s] THEN "LogonProof" ELSE @]
    BY <1>7 DEF LogonAccepted, TypeOK
  <2>2. status'[s] = IF ~expansion[s] THEN "Closed" ELSE "LogonProof"
    BY <1>4, <2>1
  <2> QED
    BY <1>3, <2>1, <2>2
<1>8. ASSUME NEW i, ReconnectChallengeCallback(s, i) PROVE Refines /\ Identified(s)'
  <2>1. /\ RunCallback(s, i, "ReconnectChallenge") /\ SendPacket(s, "ReconnectChallenge", TRUE)
        /\ status' = [status EXCEPT ![s] = "ReconnectProof"]
    BY <1>8 DEF ReconnectChallengeCallback
  <2>2. status'[s] = "ReconnectProof"
    BY <1>4, <2>1
  <2> QED
    BY <1>3, <2>1, <2>2
<1>9. ASSUME NEW i, RealmListCallback(s, i) PROVE Refines /\ Identified(s)'
  <2>1. /\ RunCallback(s, i, "CharacterCounts") /\ SendPacket(s, "RealmList", TRUE)
        /\ status'[s] = "Authed" /\ "CharacterCounts" \in Queries
    BY <1>9 DEF RealmListCallback, TypeOK, Queries
  <2>2. /\ link[s] = "open" /\ link'[s] = "open" /\ IsOpen(s) /\ status[s] = "WaitingForRealmList"
        /\ callbacks[s] # <<>> /\ callbacks'[s] = <<>> /\ asked' = asked /\ Kind(s)' = Kind(s)
    BY <1>0, <2>1, CallbackAsked DEF Awaiting
  <2>3. Phase(s) = "listing" /\ Phase(s)' = "authed"
    BY <2>1, <2>2, PhaseCases DEF Phases
  <2>4. Protocol!ListRealms(s)
    BY <1>0, <2>1, <2>2, <2>3, Moved, IsAnswer DEF Protocol!ListRealms
  <2>5. Identified(s)'
    BY <1>0, <2>1, <2>2 DEF Identified
  <2> QED
    BY <2>4, <2>5 DEF Refines, Protocol!Next
<1> QED
  BY <1>1, <1>2, <1>5, <1>6, <1>7, <1>8, <1>9 DEF Update

(* The database does its work unseen. *)
LEMMA WorkersRefine ==
  ASSUME TypeOK, AllIdentified, Workers \/ BanExpires
  PROVE  Refines /\ AllIdentified'
<1>1. ASSUME NEW t \in Sessions
      PROVE  Phase(t)' = Phase(t) /\ Kind(t)' = Kind(t) /\ Identified(t)' /\ replies' = replies
  <2>1. /\ link' = link /\ reading' = reading /\ reader' = reader /\ status' = status
        /\ asked' = asked /\ replies' = replies /\ (callbacks'[t] = <<>> <=> callbacks[t] = <<>>)
        /\ callbacks[t] # <<>> => callbacks'[t][1].query = callbacks[t][1].query
    BY WorkersShape
  <2> QED
    BY <2>1 DEF Phase, Kind, Identified, AllIdentified, IsOpen
<1>2. replies' = replies
  BY DEF Workers, Execute, BanExpires, history
<1> QED
  BY <1>1, <1>2 DEF Refines, Protocol!vars, AllIdentified

(* The first state is one of LoginProtocol. *)
LEMMA InitRefines == Init => Protocol!Init /\ AllIdentified
<1> SUFFICES ASSUME Init PROVE Protocol!Init /\ AllIdentified
  OBVIOUS
<1>1. ASSUME NEW s \in Sessions
      PROVE  Phase(s) = "absent" /\ Kind(s) = "none" /\ Identified(s)
  <2>1. link[s] = "none" /\ asked[s] = <<>>
    BY DEF Init
  <2> QED
    BY <2>1, PhaseCases DEF Phases, Kind, Identified, IsOpen
<1>2. replies = [s \in Sessions |-> <<>>]
  BY DEF Init
<1> QED
  BY <1>1, <1>2 DEF Protocol!Init, AllIdentified

(* ImplementsLoginProtocol: whatever a client sends and whenever the socket   *)
(* fails, each session walks through LoginProtocol: it is challenged only     *)
(* after its address was admitted, proves the challenge it was sent, and gets *)
(* one answer of the right kind to each request.                             *)
THEOREM LoginRefinement == Spec => ImplementsLoginProtocol
<1>1. Init => TypeOK /\ IInv /\ AllIdentified /\ Protocol!Init
  BY InitTypeOK, InitSound, InitRefines
<1>2. TypeOK /\ IInv /\ AllIdentified /\ [Next]_vars => TypeOK' /\ IInv'
  BY NextTypeOK, NextSound
<1>3. TypeOK /\ IInv /\ AllIdentified /\ [Next]_vars => AllIdentified' /\ [Protocol!Next]_(Protocol!vars)
  <2> SUFFICES ASSUME TypeOK, IInv, AllIdentified, [Next]_vars PROVE Refines /\ AllIdentified'
    BY DEF Refines
  <2>1. CASE UNCHANGED vars
    <3>1. /\ link' = link /\ reading' = reading /\ reader' = reader /\ status' = status
          /\ callbacks' = callbacks /\ asked' = asked /\ replies' = replies
      BY <2>1 DEF vars, socketVars, sessionVars, history
    <3> QED
      BY <3>1 DEF Refines, Protocol!vars, AllIdentified, Identified, Phase, Kind, IsOpen
  <2>2. CASE Next
    BY <2>2, ClientRefines, ReadHandlerRefines, UpdateRefines, WorkersRefine DEF Next
  <2> QED
    BY <2>1, <2>2
<1> QED
  BY <1>1, <1>2, <1>3, PTL DEF Spec, ImplementsLoginProtocol, Protocol!Spec

-----------------------------------------------------------------------------
(* One session at a time and one worker: the count of wrong passwords is     *)
(* exact and the limit holds.  (With more of either both can fail.)          *)

(* A session that lives, or whose last read is being handled. *)
Active(s) == Alive(s) \/ reader = s

(* While the read of a dropped session is handled, the session after it may  *)
(* be there already, but has received nothing.                               *)
New(s) == IsOpen(s) /\ status[s] = "Challenge" /\ ~reading[s]
OneAtATime ==
  /\ \A s, t \in Sessions : Alive(s) /\ Alive(t) => s = t
  /\ \A s, t \in Sessions : s # t /\ reader = s /\ Alive(t) => New(t)

(* A session has looked its account up only if it has left its first status. *)
LogonQuery(s) == Operation("LogonChallenge", s)
AsksOnce(s) == \A i \in DOMAIN dbQueue : dbQueue[i] = LogonQuery(s) => status[s] # "Challenge"

(* What earlier sessions have to write is executed before the row is read,   *)
(* and nothing is written between the read and the proof.                    *)
WritesAreAhead(s) ==
  \A i, j \in DOMAIN dbQueue : dbQueue[j] = LogonQuery(s) /\ ~IsQuery(dbQueue[i]) => i < j
RowIsCurrent(s) ==
  Active(s) =>
    /\ status[s] = "LogonProof" => NoStatementPending /\ info[s].failed = account.failed
    /\ callbacks[s] # <<>> /\ callbacks[s][1].query = "LogonChallenge" =>
         IF callbacks[s][1].ready
         THEN NoStatementPending /\ (callbacks[s][1].found => callbacks[s][1].failed = account.failed)
         ELSE WritesAreAhead(s)

(* At most one wrong password is on its way to the count ... *)
Failing == {i \in DOMAIN dbQueue : dbQueue[i].query = "FailedLogins"}
Counted ==
  /\ \A i, j \in Failing : i = j
  /\ MaxWrongPassCount > 0 => wrong = account.failed + (IF Failing = {} THEN 0 ELSE 1)

(* ... and the ban goes with the one that reaches the limit. *)
BanPending == \E i \in DOMAIN dbQueue : dbQueue[i].query \in {"BanAccount", "BanIp"}
Limited ==
  PermanentBans /\ MaxWrongPassCount > 0 /\ wrong >= MaxWrongPassCount =>
    account.banned \/ ipBanned \/ BanPending

Sequential ==
  /\ OneAtATime
  /\ \A s \in Sessions : AsksOnce(s) /\ RowIsCurrent(s)
  /\ Counted /\ Limited

(* A queue without its first operation. *)
LEMMA RemoveHead ==
  ASSUME NEW S, NEW q \in Seq(S), 1 \in DOMAIN q
  PROVE  /\ Len(q) \in Nat \ {0} /\ DOMAIN q = 1 .. Len(q)
         /\ DOMAIN RemoveAt(q, 1) = 1 .. Len(q) - 1
         /\ \A i \in 1 .. Len(q) - 1 : RemoveAt(q, 1)[i] = q[i + 1]
<1>0. Len(q) \in Nat /\ DOMAIN q = 1 .. Len(q)
  BY LenProperties
<1>1. Len(q) \in Nat \ {0}
  BY <1>0
<1>2. SubSeq(q, 1, 1 - 1) = <<>>
  BY SubSeqEmpty
<1> DEFINE r == SubSeq(q, 2, Len(q))
<1>3. r \in Seq(S) /\ Len(r) = Len(q) - 1 /\ \A i \in 1 .. Len(q) - 1 : r[i] = q[i + 1]
  <2>1. \A i \in 2 .. Len(q) : q[i] \in S
    BY <1>0, ElementOfSeq
  <2>2. 2 \in Int /\ Len(q) \in Int
    BY <1>0
  <2>3. /\ r \in Seq(S) /\ Len(r) = IF 2 <= Len(q) THEN Len(q) - 2 + 1 ELSE 0
        /\ \A i \in 1 .. Len(q) - 2 + 1 : r[i] = q[2 + i - 1]
    BY <2>1, <2>2, SubSeqProperties
  <2>4. \A n \in Nat \ {0} : (IF 2 <= n THEN n - 2 + 1 ELSE 0) = n - 1 /\ n - 2 + 1 = n - 1
    OBVIOUS
  <2>5. \A i \in 1 .. Len(q) - 1 : 2 + i - 1 = i + 1
    BY <1>0
  <2> QED
    BY <1>1, <2>3, <2>4, <2>5
<1> HIDE DEF r
<1>4. RemoveAt(q, 1) = r
  <2>1. RemoveAt(q, 1) = <<>> \o r
    <3>1. RemoveAt(q, 1) = SubSeq(q, 1, 1 - 1) \o SubSeq(q, 1 + 1, Len(q)) /\ 1 + 1 = 2
      BY DEF RemoveAt
    <3> QED
      BY <1>2, <3>1 DEF r
  <2> QED
    BY <1>3, <2>1, ConcatEmptySeq
<1>5. DOMAIN r = 1 .. Len(r)
  BY <1>3, LenProperties
<1> QED
  BY <1>0, <1>1, <1>3, <1>4, <1>5

(* The elements of a queue with one operation more. *)
LEMMA QueuedElements ==
  ASSUME TypeOK, NEW op \in Operations, dbQueue' = Append(dbQueue, op)
  PROVE  /\ Len(dbQueue) \in Nat /\ DOMAIN dbQueue = 1 .. Len(dbQueue)
         /\ DOMAIN dbQueue' = 1 .. Len(dbQueue) + 1 /\ dbQueue'[Len(dbQueue) + 1] = op
         /\ \A i \in DOMAIN dbQueue : dbQueue'[i] = dbQueue[i]
         /\ \A i \in DOMAIN dbQueue' : \/ i \in DOMAIN dbQueue /\ dbQueue'[i] = dbQueue[i]
                                       \/ i = Len(dbQueue) + 1 /\ dbQueue'[i] = op
<1>1. dbQueue \in Seq(Operations)
  BY DEF TypeOK, Operations
<1> DEFINE n == Len(dbQueue)
<1>2. /\ n \in Nat /\ DOMAIN dbQueue = 1 .. n /\ DOMAIN dbQueue' = 1 .. n + 1
      /\ dbQueue'[n + 1] = op /\ \A i \in 1 .. n : dbQueue'[i] = dbQueue[i]
  BY <1>1, AppendElement
<1> HIDE DEF n
<1>3. \A i \in DOMAIN dbQueue' : \/ i \in DOMAIN dbQueue /\ dbQueue'[i] = dbQueue[i]
                                 \/ i = n + 1 /\ dbQueue'[i] = op
  BY <1>2
<1> QED
  BY <1>2, <1>3 DEF n

(* A query joins the queue: no statement does. *)
LEMMA QueryQueued ==
  ASSUME TypeOK, NEW s \in Sessions, NEW q \in Queries,
         dbQueue' = Append(dbQueue, Operation(q, s)), UNCHANGED <<account, ipBanned, wrong>>
  PROVE  /\ Counted => Counted'
         /\ Limited => Limited'
         /\ NoStatementPending => NoStatementPending'
         /\ \A t \in Sessions :
              LogonQuery(t) # Operation(q, s) /\ WritesAreAhead(t) => WritesAreAhead(t)'
         /\ (\A i \in DOMAIN dbQueue : dbQueue[i] # Operation(q, s)) =>
              \A i, j \in DOMAIN dbQueue' :
                dbQueue'[j] = Operation(q, s) /\ ~IsQuery(dbQueue'[i]) => i < j
<1> DEFINE op == Operation(q, s)
           n  == Len(dbQueue)
<1>1. op \in Operations /\ op.query = q /\ IsQuery(op) /\ q \notin Statements
  BY DEF Operation, Operations, IsQuery, Queries, Statements
<1>3. /\ n \in Nat /\ DOMAIN dbQueue = 1 .. n /\ DOMAIN dbQueue' = 1 .. n + 1
      /\ dbQueue'[n + 1] = op /\ \A i \in 1 .. n : dbQueue'[i] = dbQueue[i]
  BY <1>1, QueuedElements
<1>4. \A i \in DOMAIN dbQueue' : \/ i \in DOMAIN dbQueue /\ dbQueue'[i] = dbQueue[i]
                                 \/ i = n + 1 /\ dbQueue'[i] = op
  BY <1>1, QueuedElements
<1> HIDE DEF n, op
<1>5. Failing' = Failing
  BY <1>1, <1>3, <1>4 DEF Failing, Statements
<1>6. Counted => Counted'
  BY <1>5 DEF Counted
<1>7. Limited => Limited'
  <2>1. BanPending => BanPending'
    BY <1>3 DEF BanPending
  <2> QED
    BY <2>1 DEF Limited
<1>8. NoStatementPending => NoStatementPending'
  BY <1>1, <1>4 DEF NoStatementPending
<1>9. ASSUME NEW t \in Sessions, LogonQuery(t) # op, WritesAreAhead(t) PROVE WritesAreAhead(t)'
  <2>1. LogonQuery(t)' = LogonQuery(t)
    BY DEF LogonQuery, Operation
  <2> SUFFICES ASSUME NEW i \in DOMAIN dbQueue', NEW j \in DOMAIN dbQueue',
                      dbQueue'[j] = LogonQuery(t), ~IsQuery(dbQueue'[i])
               PROVE  i < j
    BY <2>1 DEF WritesAreAhead, IsQuery
  <2> QED
    BY <1>1, <1>4, <1>9 DEF WritesAreAhead
<1>10. ASSUME \A i \in DOMAIN dbQueue : dbQueue[i] # op,
              NEW i \in DOMAIN dbQueue', NEW j \in DOMAIN dbQueue',
              dbQueue'[j] = op, ~IsQuery(dbQueue'[i])
       PROVE  i < j
  <2>1. j = n + 1 /\ i \in 1 .. n
    BY <1>1, <1>3, <1>4, <1>10
  <2> QED
    BY <1>3, <2>1
<1> QED
  BY <1>6, <1>7, <1>8, <1>9, <1>10 DEF op

(* A step that touches neither the database nor the count keeps what is said *)
(* of both.                                                                  *)
LEMMA DatabaseKept ==
  ASSUME UNCHANGED <<dbQueue, account, ipBanned, wrong>>
  PROVE  /\ Counted => Counted'
         /\ Limited => Limited'
         /\ NoStatementPending' = NoStatementPending
         /\ \A t \in Sessions : WritesAreAhead(t)' = WritesAreAhead(t)
<1>1. Failing' = Failing /\ BanPending' = BanPending /\ NoStatementPending' = NoStatementPending
  BY DEF Failing, BanPending, NoStatementPending, IsQuery
<1>2. \A t \in Sessions : WritesAreAhead(t)' = WritesAreAhead(t)
  BY DEF WritesAreAhead, IsQuery, LogonQuery, Operation
<1> QED
  BY <1>1, <1>2 DEF Counted, Limited

(* A session that has asked nothing acts on no row. *)
LEMMA NothingAsked ==
  ASSUME NEW s \in Sessions, Sound(s), status[s] = "Challenge"
  PROVE  callbacks[s] = <<>> \/ callbacks[s][1].query # "LogonChallenge"
  BY DEF Sound, OneQuery, Awaiting

(* The sessions other than the one that steps, and the thread, keep apart. *)
LEMMA StaysOneAtATime ==
  ASSUME TypeOK, OneAtATime, NEW s \in Sessions,
         reader \in {NoSession, s}, reader' \in {NoSession, s},
         \A t \in Sessions \ {s} : SameSession(t),
         Alive(s)' => Alive(s), reader' = s => reader = s \/ Alive(s)
  PROVE  OneAtATime'
<1>1. \A t \in Sessions : Alive(t)' => Alive(t)
  BY DEF SameSession, Alive
<1>2. ASSUME NEW t \in Sessions, NEW u \in Sessions, t # u, reader' = t, Alive(u)' PROVE New(u)'
  <2>1. t = s /\ u # s /\ Alive(u) /\ SameSession(u)
    BY <1>1, <1>2
  <2>2. reader = s
    BY <1>2, <2>1 DEF OneAtATime
  <2>3. New(u)
    BY <2>1, <2>2 DEF OneAtATime
  <2> QED
    BY <2>1, <2>3 DEF New, SameSession, IsOpen
<1> QED
  BY <1>1, <1>2 DEF OneAtATime

(* What is said of a session a step does not touch, when the step leaves the *)
(* database as it is ...                                                     *)
LEMMA OtherKept ==
  ASSUME NEW t \in Sessions, SameSession(t), UNCHANGED <<dbQueue, account, ipBanned, wrong>>,
         AsksOnce(t), RowIsCurrent(t)
  PROVE  AsksOnce(t)' /\ RowIsCurrent(t)'
<1>1. Active(t)' = Active(t)
  BY DEF SameSession, Active, Alive
<1>2. NoStatementPending' = NoStatementPending /\ WritesAreAhead(t)' = WritesAreAhead(t)
  BY DatabaseKept
<1>3. RowIsCurrent(t)'
  BY <1>1, <1>2 DEF SameSession, RowIsCurrent
<1>4. AsksOnce(t)'
  BY DEF SameSession, AsksOnce, LogonQuery, Operation
<1> QED
  BY <1>3, <1>4

(* ... and when it only enqueues a query of another session. *)
LEMMA OtherQueued ==
  ASSUME TypeOK, NEW s \in Sessions, NEW t \in Sessions, t # s, SameSession(t), NEW q \in Queries,
         dbQueue' = Append(dbQueue, Operation(q, s)), UNCHANGED <<account, ipBanned, wrong>>,
         AsksOnce(t), RowIsCurrent(t)
  PROVE  AsksOnce(t)' /\ RowIsCurrent(t)'
<1>1. Active(t)' = Active(t)
  BY DEF SameSession, Active, Alive
<1>2. LogonQuery(t) # Operation(q, s)
  BY DEF LogonQuery, Operation
<1>3. /\ NoStatementPending => NoStatementPending'
      /\ WritesAreAhead(t) => WritesAreAhead(t)'
  BY <1>2, QueryQueued
<1>4. RowIsCurrent(t)'
  BY <1>1, <1>3 DEF SameSession, RowIsCurrent
<1>5. Operation(q, s) \in Operations
  BY DEF Operation, Operations
<1>6. AsksOnce(t)'
  BY <1>2, <1>5, QueuedElements DEF SameSession, AsksOnce, LogonQuery
<1> QED
  BY <1>4, <1>6

(* A step of a session that leaves the database as it is. *)
LEMMA QuietStep ==
  ASSUME TypeOK, Sequential, OneAtATime', NEW s \in Sessions,
         \A t \in Sessions \ {s} : SameSession(t),
         UNCHANGED <<dbQueue, account, ipBanned, wrong>>,
         Active(s)' => Active(s),
         status'[s] = "Challenge" => status[s] = "Challenge",
         callbacks'[s] # <<>> => callbacks'[s] = callbacks[s],
         status'[s] = "LogonProof" /\ Active(s) =>
           NoStatementPending /\ info'[s].failed = account.failed
  PROVE  Sequential'
<1>1. Counted' /\ Limited'
  BY DatabaseKept DEF Sequential
<1>2. ASSUME NEW t \in Sessions, t # s PROVE AsksOnce(t)' /\ RowIsCurrent(t)'
  BY <1>2, OtherKept DEF Sequential
<1>3. AsksOnce(s)'
  BY DEF Sequential, AsksOnce, LogonQuery, Operation
<1>4. RowIsCurrent(s)'
  <2>1. NoStatementPending' = NoStatementPending /\ WritesAreAhead(s)' = WritesAreAhead(s)
    BY DatabaseKept
  <2>2. RowIsCurrent(s)
    BY DEF Sequential
  <2> QED
    BY <2>1, <2>2 DEF RowIsCurrent
<1> QED
  BY <1>1, <1>2, <1>3, <1>4 DEF Sequential

(* A step of a session that starts a query. *)
LEMMA QueryStep ==
  ASSUME TypeOK, Sequential, OneAtATime', NEW s \in Sessions, NEW q \in Queries,
         \A t \in Sessions \ {s} : SameSession(t),
         callbacks[s] = <<>>, AsyncQuery(s, q), UNCHANGED <<account, ipBanned, wrong>>,
         status'[s] # "LogonProof",
         status'[s] = "Challenge" => status[s] = "Challenge",
         q = "LogonChallenge" => status[s] = "Challenge" /\ status'[s] # "Challenge"
  PROVE  Sequential'
<1>1. dbQueue' = Append(dbQueue, Operation(q, s))
  BY DEF AsyncQuery
<1>2. Counted' /\ Limited'
  BY <1>1, QueryQueued DEF Sequential
<1>3. ASSUME NEW t \in Sessions, t # s PROVE AsksOnce(t)' /\ RowIsCurrent(t)'
  BY <1>1, <1>3, OtherQueued DEF Sequential
<1>4. AsksOnce(s)'
  <2>1. AsksOnce(s) /\ LogonQuery(s)' = LogonQuery(s)
    BY DEF Sequential, LogonQuery, Operation
  <2>2. CASE q = "LogonChallenge"
    BY <2>2 DEF AsksOnce
  <2>3. CASE q # "LogonChallenge"
    <3>1. Operation(q, s) # LogonQuery(s) /\ Operation(q, s) \in Operations
      BY <2>3 DEF LogonQuery, Operation, Operations
    <3>2. \A i \in DOMAIN dbQueue' : dbQueue'[i] = LogonQuery(s) =>
            i \in DOMAIN dbQueue /\ dbQueue[i] = LogonQuery(s)
      BY <1>1, <3>1, QueuedElements
    <3> QED
      BY <2>1, <3>2 DEF AsksOnce
  <2> QED
    BY <2>2, <2>3
<1>5. /\ callbacks'[s] # <<>> /\ callbacks'[s][1].query = q /\ ~callbacks'[s][1].ready
  <2>1. Callback(q) \in AwaitedRows /\ Callback(q).query = q /\ ~Callback(q).ready
    BY DEF Callback, AwaitedRows
  <2>2. callbacks'[s] = Append(<<>>, Callback(q))
    BY DEF AsyncQuery, TypeOK
  <2> QED
    BY <2>1, <2>2, OnlyElement
<1>6. q = "LogonChallenge" => WritesAreAhead(s)'
  <2>1. SUFFICES ASSUME q = "LogonChallenge" PROVE WritesAreAhead(s)'
    OBVIOUS
  <2>2. Operation(q, s) = LogonQuery(s) /\ LogonQuery(s)' = LogonQuery(s)
    BY <2>1 DEF LogonQuery, Operation
  <2>3. \A i \in DOMAIN dbQueue : dbQueue[i] # Operation(q, s)
    BY <2>1, <2>2 DEF Sequential, AsksOnce
  <2>4. \A i, j \in DOMAIN dbQueue' :
          dbQueue'[j] = Operation(q, s) /\ ~IsQuery(dbQueue'[i]) => i < j
    BY <1>1, <2>3, QueryQueued
  <2> QED
    BY <2>2, <2>4 DEF WritesAreAhead, IsQuery
<1>7. RowIsCurrent(s)'
  BY <1>5, <1>6 DEF RowIsCurrent
<1> QED
  BY <1>2, <1>3, <1>4, <1>7 DEF Sequential

(* The first and only living session begins, once the one before is gone. *)
LEMMA StartIsSequential ==
  ASSUME MaxActive = 1, TypeOK, IInv, Sequential, NEW s \in Sessions, Start(s)
  PROVE  Sequential'
<1>1. \A t \in Sessions \ {s} : SameSession(t)
  BY OtherSession DEF Client
<1>2. ASSUME NEW t \in Sessions PROVE ~Alive(t)
  <2>1. SUFFICES ASSUME Alive(t) PROVE FALSE
    OBVIOUS
  <2>2. {u \in Sessions : Alive(u)} = {t}
    BY <2>1 DEF Sequential, OneAtATime
  <2>3. Cardinality({u \in Sessions : Alive(u)}) = 1
    BY <2>2, FS_Singleton
  <2>4. Cardinality({u \in Sessions : Alive(u)}) < 1
    BY DEF Start
  <2> QED
    BY <2>3, <2>4
<1>3. /\ callbacks[s] = <<>> /\ status[s] = "Challenge" /\ ~reading[s] /\ reader # s
  BY DEF IInv, Sound, Pristine, Start
<1>4. /\ link'[s] = "open" /\ status' = status /\ reading' = reading /\ reader' = reader
      /\ AsyncQuery(s, "IpInfo") /\ UNCHANGED <<account, ipBanned, wrong>>
  BY DEF TypeOK, Start, history
<1>5. \A t \in Sessions : Alive(t)' => t = s
  BY <1>1, <1>2 DEF SameSession, Alive
<1>6. New(s)'
  BY <1>3, <1>4 DEF New, IsOpen
<1>7. OneAtATime'
  BY <1>5, <1>6 DEF OneAtATime
<1>8. "IpInfo" \in Queries
  BY DEF Queries
<1> QED
  BY <1>1, <1>3, <1>4, <1>7, <1>8, QueryStep

(* What the network does to the socket of a session. *)
LEMMA ClientIsSequential ==
  ASSUME MaxActive = 1, TypeOK, IInv, Sequential, NEW s \in Sessions, Client(s)
  PROVE  Sequential'
<1>1. OneAtATime /\ RowIsCurrent(s)
  BY DEF Sequential
<1>2. \A t \in Sessions \ {s} : SameSession(t)
  BY OtherSession
<1>3. NoSession # s
  OBVIOUS
<1>4. CASE ReadFails(s)
  <2>1. /\ reader = NoSession /\ reader' = reader /\ reading[s] /\ ~reading'[s]
        /\ status' = status /\ callbacks' = callbacks /\ info' = info
        /\ UNCHANGED <<dbQueue, account, ipBanned, wrong>>
    BY <1>4 DEF TypeOK, ReadFails, sessionVars, dbVars, history
  <2>2. Alive(s) /\ Active(s)
    BY <2>1 DEF Alive, Active
  <2>3. OneAtATime'
    BY <1>1, <1>2, <1>3, <2>1, <2>2, StaysOneAtATime
  <2> QED
    BY <1>1, <1>2, <2>1, <2>2, <2>3, QuietStep DEF RowIsCurrent
<1>5. CASE WriteFails(s)
  <2>1. /\ reader = NoSession /\ reader' = reader /\ IsOpen(s)
        /\ status' = status /\ callbacks' = callbacks /\ info' = info
        /\ UNCHANGED <<dbQueue, account, ipBanned, wrong>>
    BY <1>5 DEF WriteFails, sessionVars, dbVars, history
  <2>2. Alive(s) /\ Active(s)
    BY <2>1 DEF Alive, Active, IsOpen
  <2>3. OneAtATime'
    BY <1>1, <1>2, <1>3, <2>1, <2>2, StaysOneAtATime
  <2> QED
    BY <1>1, <1>2, <2>1, <2>2, <2>3, QuietStep DEF RowIsCurrent
<1>6. ASSUME NEW b, Receive(s, b) PROVE Sequential'
  <2>1. /\ reader = NoSession /\ reader' = s /\ reading[s]
        /\ status' = status /\ callbacks' = callbacks /\ info' = info
        /\ UNCHANGED <<dbQueue, account, ipBanned, wrong>>
    BY <1>6 DEF Receive, sessionVars, dbVars, history
  <2>2. Alive(s) /\ Active(s)
    BY <2>1 DEF Alive, Active
  <2>3. OneAtATime'
    BY <1>1, <1>2, <1>3, <2>1, <2>2, StaysOneAtATime
  <2> QED
    BY <1>1, <1>2, <2>1, <2>2, <2>3, QuietStep DEF RowIsCurrent
<1> QED
  BY <1>4, <1>5, <1>6, StartIsSequential DEF Client

(* The handler of a command runs in a session that is active, and others     *)
(* that live have asked nothing.                                             *)
LEMMA HandlerAlone ==
  ASSUME TypeOK, IInv, Sequential, NEW s \in Sessions, reader = s,
         NEW t \in Sessions \ {s}, SameSession(t)
  PROVE  RowIsCurrent(t)'
<1>1. CASE Alive(t)
  <2>1. status[t] = "Challenge"
    BY <1>1 DEF Sequential, OneAtATime, New
  <2>2. status'[t] = "Challenge" /\ callbacks'[t] = callbacks[t]
    BY <2>1 DEF SameSession
  <2>3. callbacks[t] = <<>> \/ callbacks[t][1].query # "LogonChallenge"
    BY <2>1, NothingAsked DEF IInv
  <2> QED
    BY <2>2, <2>3 DEF RowIsCurrent
<1>2. CASE ~Alive(t)
  <2>1. ~Active(t)'
    BY <1>2 DEF SameSession, Active, Alive
  <2> QED
    BY <2>1 DEF RowIsCurrent
<1> QED
  BY <1>1, <1>2

(* The right password: the count starts again, in the row and in truth. *)
LEMMA ForgivenIsSequential ==
  ASSUME TypeOK, IInv, Sequential, OneAtATime', NEW s \in Sessions, LogonProofOk(s),
         \A t \in Sessions \ {s} : SameSession(t)
  PROVE  Sequential'
<1>1. /\ reader = s /\ status[s] = "LogonProof" /\ callbacks' = callbacks
      /\ dbQueue' = dbQueue /\ wrong' = 0 /\ account'.failed = 0
      /\ status'[s] = "Authed" /\ ipBanned' = ipBanned
  <2>1. account' = [account EXCEPT !.failed = 0, !.key = TRUE]
    BY DEF LogonProofOk
  <2>2. account \in [failed : Nat, banned : BOOLEAN, key : BOOLEAN]
    BY DEF TypeOK
  <2>3. account'.failed = 0
    BY <2>1, <2>2
  <2>4. Handlers["LogonProof"] = "LogonProof"
    BY DEF Handlers
  <2> QED
    BY <2>3, <2>4 DEF TypeOK, LogonProofOk, VerifyChallengeResponse, Handle, Handled
<1>2. NoStatementPending
  BY <1>1 DEF Sequential, RowIsCurrent, Active
<1>3. Failing = {} /\ Failing' = {}
  BY <1>1, <1>2 DEF NoStatementPending, Failing, IsQuery, Queries
<1>4. Counted'
  BY <1>1, <1>3 DEF Counted
<1>5. Limited'
  BY <1>1 DEF Limited
<1>6. ASSUME NEW t \in Sessions, t # s PROVE AsksOnce(t)' /\ RowIsCurrent(t)'
  <2>1. AsksOnce(t)'
    BY <1>1, <1>6 DEF Sequential, AsksOnce, LogonQuery, Operation, SameSession
  <2> QED
    BY <1>1, <1>6, <2>1, HandlerAlone
<1>7. AsksOnce(s)'
  BY <1>1 DEF AsksOnce
<1>8. callbacks[s] = <<>>
  <2>1. "LogonProof" \in Commands
    BY DEF Commands, Handlers
  <2> QED
    BY <2>1, HandleIdle DEF IInv, LogonProofOk, VerifyChallengeResponse
<1>9. RowIsCurrent(s)'
  BY <1>1, <1>8 DEF RowIsCurrent
<1> QED
  BY <1>4, <1>5, <1>6, <1>7, <1>9 DEF Sequential

(* What a wrong password puts into the queue. *)
LEMMA WrongQueued ==
  ASSUME TypeOK, NEW s \in Sessions, LogonProofWrong(s), MaxWrongPassCount # 0
  PROVE  /\ \A i \in DOMAIN dbQueue' :
              \/ i \in DOMAIN dbQueue /\ dbQueue'[i] = dbQueue[i]
              \/ i = Len(dbQueue) + 1 /\ dbQueue'[i] = Operation("FailedLogins", s)
              \/ i = Len(dbQueue) + 2 /\ dbQueue'[i] = BanOperation(s)
         /\ Len(dbQueue) + 1 \in DOMAIN dbQueue'
         /\ dbQueue'[Len(dbQueue) + 1] = Operation("FailedLogins", s)
         /\ LimitReached(s) => /\ Len(dbQueue) + 2 \in DOMAIN dbQueue'
                               /\ dbQueue'[Len(dbQueue) + 2] = BanOperation(s)
<1> DEFINE q == dbQueue
           f == Operation("FailedLogins", s)
           b == BanOperation(s)
           n == Len(dbQueue)
<1>1. q \in Seq(Operations) /\ f \in Operations /\ b \in Operations
  BY DEF TypeOK, Operations, Operation, BanOperation, Statements
<1>2. n \in Nat /\ DOMAIN q = 1 .. n
  BY <1>1, LenProperties
<1>3. dbQueue' = q \o <<f>> \o (IF LimitReached(s) THEN <<b>> ELSE <<>>)
  BY DEF LogonProofWrong
<1> HIDE DEF q, f, b, n
<1> DEFINE p == q \o <<f>>
<1>4. /\ p \in Seq(Operations) /\ Len(p) = n + 1 /\ p[n + 1] = f
      /\ \A i \in 1 .. n : p[i] = q[i]
  <2>1. <<f>> \in Seq(Operations) /\ Len(<<f>>) = 1 /\ <<f>>[1] = f
    BY <1>1
  <2>2. /\ p \in Seq(Operations) /\ Len(p) = Len(q) + 1
        /\ \A i \in 1 .. Len(q) + 1 : p[i] = IF i <= Len(q) THEN q[i] ELSE <<f>>[i - Len(q)]
    BY <1>1, <2>1, ConcatProperties
  <2>3. Len(q) = n
    BY DEF q, n
  <2> QED
    BY <1>2, <2>1, <2>2, <2>3
<1> HIDE DEF p
<1>5. CASE ~LimitReached(s)
  <2>1. dbQueue' = p
    <3>1. dbQueue' = p \o <<>>
      BY <1>3, <1>5 DEF p
    <3> QED
      BY <1>4, <3>1, ConcatEmptySeq
  <2>2. DOMAIN dbQueue' = 1 .. n + 1
    BY <1>4, <2>1, LenProperties
  <2>3. \A i \in 1 .. n + 1 : i \in 1 .. n \/ i = n + 1
    BY <1>2
  <2>4. n + 1 \in 1 .. n + 1
    BY <1>2
  <2>5. /\ \A i \in DOMAIN dbQueue' : \/ i \in DOMAIN q /\ dbQueue'[i] = q[i]
                                      \/ i = n + 1 /\ dbQueue'[i] = f
        /\ n + 1 \in DOMAIN dbQueue' /\ dbQueue'[n + 1] = f
    BY <1>2, <1>4, <2>1, <2>2, <2>3, <2>4
  <2> QED
    BY <1>5, <2>5 DEF q, f, b, n
<1>6. CASE LimitReached(s)
  <2>1. dbQueue' = p \o <<b>>
    BY <1>3, <1>6 DEF p
  <2>2. <<b>> \in Seq(Operations) /\ Len(<<b>>) = 1 /\ <<b>>[1] = b
    BY <1>1
  <2>3. /\ dbQueue' \in Seq(Operations) /\ Len(dbQueue') = n + 1 + 1
        /\ \A i \in 1 .. n + 1 + 1 : dbQueue'[i] = IF i <= n + 1 THEN p[i] ELSE <<b>>[i - (n + 1)]
    BY <1>4, <2>1, <2>2, ConcatProperties
  <2>4. DOMAIN dbQueue' = 1 .. n + 2
    <3>1. DOMAIN dbQueue' = 1 .. n + 1 + 1
      BY <2>3, LenProperties
    <3> QED
      BY <1>2, <3>1
  <2>5. /\ \A i \in 1 .. n : dbQueue'[i] = q[i]
        /\ dbQueue'[n + 1] = f /\ dbQueue'[n + 2] = b
    BY <1>2, <1>4, <2>2, <2>3
  <2>6. /\ \A i \in 1 .. n + 2 : i \in 1 .. n \/ i = n + 1 \/ i = n + 2
        /\ n + 1 \in 1 .. n + 2 /\ n + 2 \in 1 .. n + 2
    BY <1>2
  <2>7. \A i \in DOMAIN dbQueue' : \/ i \in DOMAIN q /\ dbQueue'[i] = q[i]
                                   \/ i = n + 1 /\ dbQueue'[i] = f
                                   \/ i = n + 2 /\ dbQueue'[i] = b
    BY <1>2, <2>4, <2>5, <2>6
  <2> QED
    BY <2>4, <2>5, <2>6, <2>7 DEF q, f, b, n
<1> QED
  BY <1>5, <1>6

(* A wrong password: one more to come, and the ban with the last.            *)
LEMMA WrongIsSequential ==
  ASSUME TypeOK, IInv, Sequential, OneAtATime', NEW s \in Sessions, LogonProofWrong(s),
         \A t \in Sessions \ {s} : SameSession(t)
  PROVE  Sequential'
<1>1. /\ reader = s /\ status[s] = "LogonProof" /\ callbacks' = callbacks
      /\ wrong' = wrong + 1 /\ account' = account
      /\ status'[s] = "Closed" /\ ipBanned' = ipBanned
  <2>1. Handlers["LogonProof"] = "LogonProof"
    BY DEF Handlers
  <2> QED
    BY <2>1 DEF TypeOK, LogonProofWrong, VerifyChallengeResponse, Handle, Handled
<1>2. NoStatementPending /\ info[s].failed = account.failed
  BY <1>1 DEF Sequential, RowIsCurrent, Active
<1>3. Failing = {}
  BY <1>2 DEF NoStatementPending, Failing, IsQuery, Queries
<1>4. wrong \in Nat /\ account.failed \in Nat
  BY DEF TypeOK
<1>5. callbacks[s] = <<>>
  <2>1. "LogonProof" \in Commands
    BY DEF Commands, Handlers
  <2> QED
    BY <2>1, HandleIdle DEF IInv, LogonProofWrong, VerifyChallengeResponse
<1>6. RowIsCurrent(s)' /\ AsksOnce(s)'
  BY <1>1, <1>5 DEF RowIsCurrent, AsksOnce
<1>7. ASSUME NEW t \in Sessions, t # s PROVE RowIsCurrent(t)'
  BY <1>1, <1>7, HandlerAlone
<1>8. CASE MaxWrongPassCount = 0
  <2>1. dbQueue' = dbQueue
    BY <1>8 DEF LogonProofWrong
  <2>2. Failing' = {}
    BY <1>3, <2>1 DEF Failing
  <2>3. Counted' /\ Limited'
    BY <1>8, <2>2 DEF Counted, Limited
  <2>4. ASSUME NEW t \in Sessions, t # s PROVE AsksOnce(t)'
    BY <2>1, <2>4 DEF Sequential, AsksOnce, LogonQuery, Operation, SameSession
  <2> QED
    BY <1>6, <1>7, <2>3, <2>4 DEF Sequential
<1>9. CASE MaxWrongPassCount # 0
  <2> DEFINE n == Len(dbQueue)
             f == Operation("FailedLogins", s)
             b == BanOperation(s)
  <2>1. /\ \A i \in DOMAIN dbQueue' : \/ i \in DOMAIN dbQueue /\ dbQueue'[i] = dbQueue[i]
                                      \/ i = n + 1 /\ dbQueue'[i] = f
                                      \/ i = n + 2 /\ dbQueue'[i] = b
        /\ n + 1 \in DOMAIN dbQueue' /\ dbQueue'[n + 1] = f
        /\ LimitReached(s) => n + 2 \in DOMAIN dbQueue' /\ dbQueue'[n + 2] = b
    BY <1>9, WrongQueued
  <2>2. f.query = "FailedLogins" /\ b.query \in {"BanAccount", "BanIp"}
    BY DEF Operation, BanOperation
  <2>3. \A t \in Sessions : f # LogonQuery(t) /\ b # LogonQuery(t)
    BY <2>2 DEF LogonQuery, Operation
  <2> HIDE DEF n, f, b
  <2>4. Failing' = {n + 1}
    <3>1. \A i \in DOMAIN dbQueue : dbQueue[i].query # "FailedLogins"
      BY <1>3 DEF Failing
    <3>2. \A i \in DOMAIN dbQueue' : dbQueue'[i].query = "FailedLogins" <=> i = n + 1
      BY <2>1, <2>2, <3>1
    <3> QED
      BY <2>1, <3>2 DEF Failing
  <2>5. Counted'
    <3>1. MaxWrongPassCount > 0 => wrong = account.failed
      <4>1. MaxWrongPassCount > 0 => wrong = account.failed + 0
        BY <1>3 DEF Sequential, Counted
      <4> QED
        BY <1>4, <4>1
    <3> QED
      BY <1>1, <1>4, <2>4, <3>1 DEF Counted
  <2>6. Limited'
    <3>1. SUFFICES ASSUME MaxWrongPassCount > 0, wrong + 1 >= MaxWrongPassCount PROVE BanPending'
      BY <1>1 DEF Limited
    <3>2. wrong = account.failed + 0
      BY <1>3, <3>1 DEF Sequential, Counted
    <3>3. LimitReached(s)
      BY <1>2, <1>4, <3>1, <3>2 DEF LimitReached
    <3> QED
      BY <2>1, <2>2, <3>3 DEF BanPending
  <2>7. ASSUME NEW t \in Sessions, t # s PROVE AsksOnce(t)'
    <3>1. LogonQuery(t)' = LogonQuery(t) /\ status'[t] = status[t]
      BY <2>7 DEF LogonQuery, Operation, SameSession
    <3> QED
      BY <2>1, <2>3, <3>1 DEF Sequential, AsksOnce
  <2> QED
    BY <1>6, <1>7, <2>5, <2>6, <2>7 DEF Sequential
<1> QED
  BY <1>8, <1>9

(* What a handler of packets does.                                           *)
LEMMA ReadHandlerIsSequential ==
  ASSUME TypeOK, IInv, Sequential, NEW s \in Sessions, ReadHandler(s)
  PROVE  Sequential'
<1>1. OneAtATime /\ RowIsCurrent(s) /\ Sound(s) /\ NoSession # s
  BY DEF Sequential, IInv
<1>2. \A t \in Sessions \ {s} : SameSession(t)
  BY OtherSession
<1>3. {"LogonChallenge", "LogonProof", "ReconnectChallenge", "ReconnectProof", "RealmList"}
        \subseteq Commands
  BY DEF Commands, Handlers
<1>4. /\ Handlers["LogonChallenge"] = "Challenge" /\ Handlers["ReconnectChallenge"] = "Challenge"
      /\ Handlers["RealmList"] = "Authed"
  BY DEF Handlers
<1>5. ASSUME reader = s, link' = link, reader' = reader, reading' = reading PROVE OneAtATime'
  <2>1. Alive(s)' => Alive(s)
    BY <1>5 DEF Alive
  <2> QED
    BY <1>1, <1>2, <1>5, <2>1, StaysOneAtATime
<1>6. ASSUME reader = s, link[s] # "none", CloseSocket(s), reader' = NoSession, reading' = reading
      PROVE  OneAtATime'
  <2>1. Alive(s)' => Alive(s)
    BY <1>6 DEF TypeOK, Alive, CloseSocket
  <2> QED
    BY <1>1, <1>2, <1>6, <2>1, StaysOneAtATime
<1>7. CASE ReadMore(s)
  <2>1. /\ reader = s /\ reader' = NoSession /\ link' = link /\ reading'[s] = IsOpen(s)
        /\ status' = status /\ callbacks' = callbacks /\ info' = info
        /\ UNCHANGED <<dbQueue, account, ipBanned, wrong>>
    BY <1>7 DEF TypeOK, ReadMore, AsyncRead, sessionVars, dbVars, history
  <2>2. (Alive(s)' => Alive(s)) /\ Active(s)
    BY <2>1 DEF Alive, IsOpen, Active
  <2>3. OneAtATime'
    BY <1>1, <1>2, <2>1, <2>2, StaysOneAtATime
  <2> QED
    BY <1>1, <1>2, <2>1, <2>2, <2>3, QuietStep DEF RowIsCurrent
<1>8. CASE Rejected(s)
  <2>1. /\ reader = s /\ reader' = NoSession /\ CloseSocket(s) /\ reading' = reading
        /\ status' = status /\ callbacks' = callbacks /\ info' = info
        /\ UNCHANGED <<dbQueue, account, ipBanned, wrong>>
    BY <1>8 DEF Rejected, sessionVars, dbVars, history
  <2>2. link[s] # "none" /\ Active(s)
    BY <1>1, <2>1 DEF Sound, Pristine, Active
  <2>3. OneAtATime'
    BY <1>6, <2>1, <2>2
  <2> QED
    BY <1>1, <1>2, <2>1, <2>2, <2>3, QuietStep DEF RowIsCurrent
<1>9. ASSUME NEW cmd \in Commands, HandleBadChallenge(s, cmd) \/ ProofFails(s, cmd)
      PROVE  Sequential'
  <2>1. /\ Handle(s, cmd) /\ Failed(s) /\ UNCHANGED <<callbacks, dbQueue, account, ipBanned, wrong>>
    BY <1>9 DEF HandleBadChallenge, ProofFails, dbVars
  <2>2. /\ reader = s /\ reader' = NoSession /\ CloseSocket(s) /\ reading' = reading
        /\ status'[s] = "Closed"
    BY <2>1 DEF TypeOK, Handle, Failed
  <2>3. link[s] # "none" /\ Active(s)
    BY <1>1, <2>2 DEF Sound, Pristine, Active
  <2>4. OneAtATime'
    BY <1>6, <2>2, <2>3
  <2> QED
    BY <1>1, <1>2, <2>1, <2>2, <2>3, <2>4, QuietStep
<1>10. ASSUME NEW cmd \in Commands, NEW next \in {"Authed", "Closed"},
              Handle(s, cmd), Handled(s, next),
              UNCHANGED <<callbacks, dbQueue, account, ipBanned, wrong>>
       PROVE  Sequential'
  <2>1. /\ reader = s /\ reader' = reader /\ link' = link /\ reading' = reading
        /\ status'[s] = next
    BY <1>10 DEF TypeOK, Handle, Handled
  <2>2. OneAtATime' /\ Active(s)
    BY <1>5, <2>1 DEF Active
  <2> QED
    BY <1>1, <1>2, <1>10, <2>1, <2>2, QuietStep
<1>11. ASSUME LogonProofRefused(s) PROVE Sequential'
  BY <1>3, <1>10, <1>11 DEF LogonProofRefused, VerifyChallengeResponse, dbVars
<1>12. ASSUME ReconnectProofOk(s) \/ ReconnectProofRefused(s) PROVE Sequential'
  BY <1>3, <1>10, <1>12 DEF ReconnectProofOk, ReconnectProofRefused, dbVars
<1>13. ASSUME LogonProofOk(s) \/ LogonProofWrong(s) PROVE Sequential'
  <2>1. reader = s /\ reader' = reader /\ link' = link /\ reading' = reading
    BY <1>13 DEF LogonProofOk, LogonProofWrong, VerifyChallengeResponse, Handle, Handled
  <2>2. OneAtATime'
    BY <1>5, <2>1
  <2> QED
    BY <1>2, <1>13, <2>2, ForgivenIsSequential, WrongIsSequential
<1>14. ASSUME NEW cmd \in Commands, NEW q \in Queries, NEW next \in {"Closed", "WaitingForRealmList"},
              Handle(s, cmd), Handled(s, next), AsyncQuery(s, q),
              UNCHANGED <<account, ipBanned, wrong>>,
              q = "LogonChallenge" => cmd = "LogonChallenge"
       PROVE  Sequential'
  <2>1. /\ reader = s /\ reader' = reader /\ link' = link /\ reading' = reading
        /\ status'[s] = next /\ status[s] = Handlers[cmd]
    BY <1>14 DEF TypeOK, Handle, Handled
  <2>2. OneAtATime'
    BY <1>5, <2>1
  <2>3. callbacks[s] = <<>>
    BY <1>1, <1>14, HandleIdle
  <2> QED
    BY <1>1, <1>2, <1>4, <1>14, <2>1, <2>2, <2>3, QueryStep
<1>15. ASSUME NEW cmd \in {"LogonChallenge", "ReconnectChallenge"}, NEW valid \in BOOLEAN,
              HandleChallenge(s, cmd, valid)
       PROVE  Sequential'
  <2>1. cmd \in Commands /\ cmd \in Queries
    BY <1>3 DEF Queries
  <2> QED
    BY <1>14, <1>15, <2>1 DEF HandleChallenge
<1>16. CASE HandleRealmList(s)
  <2>1. "CharacterCounts" \in Queries /\ "CharacterCounts" # "LogonChallenge"
    BY DEF Queries
  <2> QED
    BY <1>3, <1>14, <1>16, <2>1 DEF HandleRealmList
<1> QED
  BY <1>3, <1>7, <1>8, <1>9, <1>11, <1>12, <1>13, <1>15, <1>16 DEF ReadHandler

(* What the visit of a session by Update does: a callback that accepts a     *)
(* challenge takes over the row its query read.                              *)
LEMMA UpdateIsSequential ==
  ASSUME TypeOK, IInv, Sequential, NEW s \in Sessions, Update(s)
  PROVE  Sequential'
<1>1. OneAtATime /\ RowIsCurrent(s) /\ Sound(s) /\ NoSession # s
  BY DEF Sequential, IInv
<1>2. \A t \in Sessions \ {s} : SameSession(t)
  BY OtherSession
<1>3. CASE DropSocket(s)
  <2>1. /\ reader = NoSession /\ reader' = reader /\ reading' = reading /\ link'[s] = "gone"
        /\ UNCHANGED <<dbQueue, account, ipBanned, wrong>>
    BY <1>3 DEF TypeOK, DropSocket, dbVars
  <2>2. \/ status' = status /\ callbacks' = callbacks /\ info' = info
        \/ status'[s] = "Closed" /\ callbacks'[s] = <<>>
    BY <1>3 DEF TypeOK, DropSocket, sessionVars
  <2>3. (Alive(s)' => Alive(s)) /\ (Active(s)' => Active(s))
    BY <2>1 DEF Alive, Active
  <2>4. OneAtATime'
    BY <1>1, <1>2, <2>1, <2>3, StaysOneAtATime
  <2> QED
    BY <1>1, <1>2, <2>1, <2>2, <2>3, <2>4, QuietStep DEF RowIsCurrent
<1>4. ASSUME NEW i, NEW q \in Queries, RunCallback(s, i, q),
             status'[s] = "Challenge" => status[s] = "Challenge",
             status'[s] = "LogonProof" => /\ q = "LogonChallenge" /\ callbacks[s][i].found
                                          /\ info'[s].failed = callbacks[s][i].failed
      PROVE  Sequential'
  <2>1. /\ reader = NoSession /\ reader' = reader /\ link' = link /\ IsOpen(s)
        /\ i \in DOMAIN callbacks[s] /\ callbacks[s][i].ready /\ callbacks[s][i].query = q
        /\ UNCHANGED <<dbQueue, account, ipBanned, wrong>>
    BY <1>4 DEF RunCallback, dbVars
  <2>2. Alive(s) /\ Active(s)
    BY <2>1 DEF Alive, Active, IsOpen
  <2>3. OneAtATime'
    BY <1>1, <1>2, <2>1, <2>2, StaysOneAtATime
  <2>4. callbacks'[s] = <<>>
    BY <1>1, <1>4, CallbackRuns
  <2>5. i = 1 /\ callbacks[s] # <<>>
    <3>1. callbacks[s] \in Seq(AwaitedRows) /\ Len(callbacks[s]) <= 1
      BY <1>1 DEF TypeOK, AwaitedRows, Sound, OneQuery
    <3> QED
      BY <2>1, <3>1, RemoveOnly
  <2>6. status'[s] = "LogonProof" => NoStatementPending /\ info'[s].failed = account.failed
    BY <1>1, <1>4, <2>1, <2>2, <2>5 DEF RowIsCurrent
  <2> QED
    BY <1>2, <1>4, <2>1, <2>2, <2>3, <2>4, <2>6, QuietStep
<1>5. {"IpInfo", "LogonChallenge", "ReconnectChallenge", "CharacterCounts"} \subseteq Queries
  BY DEF Queries
<1>6. ASSUME NEW i, CheckIpCallback(s, i) PROVE Sequential'
  <2>1. RunCallback(s, i, "IpInfo") /\ status' = status
    BY <1>6 DEF CheckIpCallback
  <2>2. status[s] = "Challenge"
    BY <1>1, <2>1, CallbackRuns DEF Awaiting
  <2> QED
    BY <1>4, <1>5, <2>1, <2>2
<1>7. ASSUME NEW i, NEW cmd \in {"LogonChallenge", "ReconnectChallenge"}, UnknownAccount(s, i, cmd)
      PROVE  Sequential'
  <2>1. RunCallback(s, i, cmd) /\ status' = status
    BY <1>7 DEF UnknownAccount
  <2>2. status[s] = "Closed"
    BY <1>1, <2>1, CallbackRuns DEF Awaiting
  <2> QED
    BY <1>4, <1>5, <2>1, <2>2
<1>8. ASSUME NEW i, LogonRefused(s, i) PROVE Sequential'
  <2>1. RunCallback(s, i, "LogonChallenge") /\ status' = status
    BY <1>8 DEF LogonRefused
  <2>2. status[s] = "Closed"
    BY <1>1, <2>1, CallbackRuns DEF Awaiting
  <2> QED
    BY <1>4, <1>5, <2>1, <2>2
<1>9. ASSUME NEW i, LogonAccepted(s, i) PROVE Sequential'
  <2>1. RunCallback(s, i, "LogonChallenge") /\ callbacks[s][i].found
    BY <1>9 DEF LogonAccepted
  <2>2. status[s] = "Closed"
    BY <1>1, <2>1, CallbackRuns DEF Awaiting
  <2>3. status'[s] \in {"LogonProof", "Closed"} /\ info'[s].failed = callbacks[s][i].failed
    BY <1>9, <2>2 DEF TypeOK, LogonAccepted, LoadResult
  <2> QED
    BY <1>4, <1>5, <2>1, <2>2, <2>3
<1>10. ASSUME NEW i, ReconnectChallengeCallback(s, i) PROVE Sequential'
  <2>1. RunCallback(s, i, "ReconnectChallenge") /\ status'[s] = "ReconnectProof"
    BY <1>10 DEF TypeOK, ReconnectChallengeCallback
  <2> QED
    BY <1>4, <1>5, <2>1
<1>11. ASSUME NEW i, RealmListCallback(s, i) PROVE Sequential'
  <2>1. RunCallback(s, i, "CharacterCounts") /\ status'[s] = "Authed"
    BY <1>11 DEF TypeOK, RealmListCallback
  <2> QED
    BY <1>4, <1>5, <2>1
<1> QED
  BY <1>3, <1>6, <1>7, <1>8, <1>9, <1>10, <1>11 DEF Update

(* The worker executes a query: the row it fills in is the account's, and no *)
(* statement is left before it.                                              *)
LEMMA RowFilled ==
  ASSUME TypeOK, 1 \in DOMAIN dbQueue, ExecuteQuery(1), NEW t \in Sessions, callbacks[t] # <<>>
  PROVE  \/ callbacks'[t][1] = callbacks[t][1]
         \/ /\ ~callbacks[t][1].ready /\ dbQueue[1] = Operation(callbacks[t][1].query, t)
            /\ callbacks'[t][1] \in Rows(dbQueue[1])
<1> DEFINE op == dbQueue[1]
           q  == callbacks[t]
<1>1. q \in Seq(AwaitedRows) /\ callbacks \in [Sessions -> Seq(AwaitedRows)]
  BY DEF TypeOK, AwaitedRows
<1>2. 1 \in DOMAIN q
  <2>1. DOMAIN q = 1 .. Len(q) /\ Len(q) \in Nat /\ (q = <<>> <=> Len(q) = 0)
    BY <1>1, LenProperties, EmptySeq
  <2> QED
    BY <2>1
<1>3. op \in Operations
  <2>1. dbQueue \in Seq(Operations)
    BY DEF TypeOK, Operations
  <2>2. 1 \in 1 .. Len(dbQueue)
    BY <2>1, LenProperties
  <2> QED
    BY <2>1, <2>2, ElementOfSeq
<1>4. CASE op.session # t
  BY <1>1, <1>4 DEF ExecuteQuery
<1>5. CASE op.session = t
  <2>1. PICK row \in Rows(op) :
          callbacks'[t] = [j \in DOMAIN q |-> IF q[j] = Callback(row.query) THEN row ELSE q[j]]
    BY <1>1, <1>5 DEF ExecuteQuery
  <2>2. row.query = op.query
    <3>1. op.query \in Queries
      BY DEF ExecuteQuery, IsQuery
    <3> QED
      BY <3>1 DEF Rows, Callback, Queries
  <2>3. callbacks'[t][1] = IF q[1] = Callback(row.query) THEN row ELSE q[1]
    BY <1>2, <2>1
  <2>4. Callback(row.query).query = op.query /\ ~Callback(row.query).ready
    BY <2>2 DEF Callback
  <2>5. q[1] = Callback(row.query) => op = Operation(q[1].query, t)
    BY <1>3, <1>5, <2>4 DEF Operation, Operations
  <2> QED
    BY <2>3, <2>4, <2>5
<1> QED
  BY <1>4, <1>5

(* The queue after its first operation was executed. *)
LEMMA QueueShifted ==
  ASSUME TypeOK, 1 \in DOMAIN dbQueue, dbQueue' = RemoveAt(dbQueue, 1)
  PROVE  /\ \A i \in DOMAIN dbQueue' : i \in Nat \ {0} /\ i + 1 \in DOMAIN dbQueue
                                       /\ dbQueue'[i] = dbQueue[i + 1]
         /\ \A k \in DOMAIN dbQueue : k # 1 => k - 1 \in DOMAIN dbQueue' /\ dbQueue'[k - 1] = dbQueue[k]
         /\ NoStatementPending => NoStatementPending'
         /\ \A t \in Sessions : WritesAreAhead(t) => WritesAreAhead(t)'
         /\ \A t \in Sessions : AsksOnce(t) /\ status'[t] = status[t] => AsksOnce(t)'
<1> DEFINE n == Len(dbQueue)
<1>1. /\ n \in Nat \ {0} /\ DOMAIN dbQueue = 1 .. n /\ DOMAIN dbQueue' = 1 .. n - 1
      /\ \A i \in 1 .. n - 1 : dbQueue'[i] = dbQueue[i + 1]
  <2>1. dbQueue \in Seq(Operations)
    BY DEF TypeOK, Operations
  <2> QED
    BY <2>1, RemoveHead
<1> HIDE DEF n
<1>2. \A i \in DOMAIN dbQueue' : i \in Nat \ {0} /\ i + 1 \in DOMAIN dbQueue
                                 /\ dbQueue'[i] = dbQueue[i + 1]
  BY <1>1
<1>3. \A k \in DOMAIN dbQueue : k # 1 => k - 1 \in DOMAIN dbQueue' /\ dbQueue'[k - 1] = dbQueue[k]
  <2> SUFFICES ASSUME NEW k \in 1 .. n, k # 1
               PROVE  k - 1 \in 1 .. n - 1 /\ dbQueue'[k - 1] = dbQueue[k]
    BY <1>1
  <2>1. k - 1 \in 1 .. n - 1 /\ (k - 1) + 1 = k
    BY <1>1
  <2> QED
    BY <1>1, <2>1
<1>4. NoStatementPending => NoStatementPending'
  BY <1>2 DEF NoStatementPending, IsQuery
<1>5. ASSUME NEW t \in Sessions, WritesAreAhead(t) PROVE WritesAreAhead(t)'
  <2>1. LogonQuery(t)' = LogonQuery(t)
    BY DEF LogonQuery, Operation
  <2> SUFFICES ASSUME NEW i \in DOMAIN dbQueue', NEW j \in DOMAIN dbQueue',
                      dbQueue'[j] = LogonQuery(t), ~IsQuery(dbQueue'[i])
               PROVE  i < j
    BY <2>1 DEF WritesAreAhead, IsQuery
  <2>2. i + 1 < j + 1
    BY <1>2, <1>5 DEF WritesAreAhead
  <2> QED
    BY <1>2, <2>2
<1>6. ASSUME NEW t \in Sessions, AsksOnce(t), status'[t] = status[t] PROVE AsksOnce(t)'
  BY <1>2, <1>6 DEF AsksOnce, LogonQuery, Operation
<1> QED
  BY <1>2, <1>3, <1>4, <1>5, <1>6

(* Executing something else does not change what is still to be counted, nor *)
(* which bans are still to come.                                             *)
LEMMA FailingKept ==
  ASSUME TypeOK, 1 \in DOMAIN dbQueue, dbQueue' = RemoveAt(dbQueue, 1), Counted
  PROVE  /\ dbQueue[1].query # "FailedLogins" =>
              (Failing' = {} <=> Failing = {}) /\ \A i, j \in Failing' : i = j
         /\ dbQueue[1].query = "FailedLogins" => 1 \in Failing /\ Failing' = {}
         /\ dbQueue[1].query \notin {"BanAccount", "BanIp"} /\ BanPending => BanPending'
<1>1. \A i \in DOMAIN dbQueue' : i \in Nat \ {0} /\ i + 1 \in DOMAIN dbQueue
                                 /\ dbQueue'[i] = dbQueue[i + 1]
  BY QueueShifted
<1>2. \A k \in DOMAIN dbQueue : k # 1 => k - 1 \in DOMAIN dbQueue' /\ dbQueue'[k - 1] = dbQueue[k]
  BY QueueShifted
<1>3. \A i \in Failing' : i \in Nat \ {0} /\ i + 1 \in Failing
  BY <1>1 DEF Failing
<1>4. \A k \in Failing : k # 1 => k - 1 \in Failing'
  BY <1>2 DEF Failing
<1>5. \A i, j \in Failing' : i = j
  <2> SUFFICES ASSUME NEW i \in Failing', NEW j \in Failing' PROVE i = j
    OBVIOUS
  <2>1. i + 1 = j + 1
    BY <1>3 DEF Counted
  <2> QED
    BY <1>3, <2>1
<1>6. dbQueue[1].query # "FailedLogins" => (Failing' = {} <=> Failing = {})
  <2>1. dbQueue[1].query # "FailedLogins" => 1 \notin Failing
    BY DEF Failing
  <2> QED
    BY <1>3, <1>4, <2>1
<1>7. ASSUME dbQueue[1].query = "FailedLogins" PROVE 1 \in Failing /\ Failing' = {}
  <2>1. 1 \in Failing
    BY <1>7 DEF Failing
  <2>2. ASSUME NEW i \in Failing' PROVE FALSE
    <3>1. i + 1 = 1 /\ i \in Nat \ {0}
      BY <1>3, <2>1 DEF Counted
    <3> QED
      BY <3>1
  <2> QED
    BY <2>1, <2>2
<1>8. dbQueue[1].query \notin {"BanAccount", "BanIp"} /\ BanPending => BanPending'
  BY <1>2 DEF BanPending
<1> QED
  BY <1>5, <1>6, <1>7, <1>8

(* The only worker executes the operations one after the other, and a ban    *)
(* may run out where it is not permanent.                                    *)
LEMMA WorkersAreSequential ==
  ASSUME WorkerThreads = 1, TypeOK, IInv, Sequential, Workers \/ BanExpires
  PROVE  Sequential'
<1>1. Counted /\ Limited /\ \A t \in Sessions : AsksOnce(t) /\ RowIsCurrent(t)
  BY DEF Sequential
<1>2. \A t \in Sessions :
        /\ link' = link /\ reading' = reading /\ reader' = reader
        /\ status' = status /\ info' = info
        /\ (callbacks'[t] = <<>> <=> callbacks[t] = <<>>)
        /\ callbacks[t] # <<>> => callbacks'[t][1].query = callbacks[t][1].query
  BY WorkersShape
<1>3. OneAtATime'
  <2>1. Sessions # {} => link' = link /\ reading' = reading /\ reader' = reader /\ status' = status
    BY <1>2
  <2> QED
    BY <2>1 DEF Sequential, OneAtATime, Alive, New, IsOpen
<1>4. \A t \in Sessions : Active(t)' = Active(t)
  BY <1>2 DEF Active, Alive
<1>5. CASE BanExpires
  <2>1. account \in [failed : Nat, banned : BOOLEAN, key : BOOLEAN]
    BY DEF TypeOK
  <2>2. /\ ~PermanentBans /\ account'.failed = account.failed
        /\ dbQueue' = dbQueue /\ wrong' = wrong /\ callbacks' = callbacks
    BY <1>5, <2>1 DEF BanExpires, sessionVars, history
  <2>3. Counted' /\ Limited'
    BY <1>1, <2>2 DEF Counted, Limited, Failing
  <2>4. ASSUME NEW t \in Sessions PROVE AsksOnce(t)' /\ RowIsCurrent(t)'
    <3>1. NoStatementPending' = NoStatementPending /\ WritesAreAhead(t)' = WritesAreAhead(t)
      BY <2>2 DEF NoStatementPending, WritesAreAhead, IsQuery, LogonQuery, Operation
    <3>2. RowIsCurrent(t)'
      BY <1>1, <1>2, <1>4, <2>2, <3>1 DEF RowIsCurrent
    <3>3. AsksOnce(t)'
      BY <1>1, <1>2, <2>2 DEF AsksOnce, LogonQuery, Operation
    <3> QED
      BY <3>2, <3>3
  <2> QED
    BY <1>3, <2>3, <2>4 DEF Sequential
<1>6. CASE Workers
  <2>1. 1 \in DOMAIN dbQueue /\ (ExecuteQuery(1) \/ ExecuteStatement(1))
        /\ dbQueue' = RemoveAt(dbQueue, 1) /\ wrong' = wrong
    <3>1. PICK i \in 1 .. WorkerThreads : Execute(i)
      BY <1>6 DEF Workers
    <3>2. i = 1
      BY <3>1
    <3> QED
      BY <3>1, <3>2 DEF Execute, history
  <2>2. /\ NoStatementPending => NoStatementPending'
        /\ \A t \in Sessions : WritesAreAhead(t) => WritesAreAhead(t)'
        /\ \A t \in Sessions : AsksOnce(t) /\ status'[t] = status[t] => AsksOnce(t)'
    BY <2>1, QueueShifted
  <2>3. \A t \in Sessions : AsksOnce(t)'
    BY <1>1, <1>2, <2>2
  <2>4. /\ dbQueue[1].query # "FailedLogins" =>
              (Failing' = {} <=> Failing = {}) /\ \A i, j \in Failing' : i = j
        /\ dbQueue[1].query = "FailedLogins" => 1 \in Failing /\ Failing' = {}
        /\ dbQueue[1].query \notin {"BanAccount", "BanIp"} /\ BanPending => BanPending'
    BY <1>1, <2>1, FailingKept
  <2>5. CASE ExecuteQuery(1)
    <3>1. dbQueue[1].query \notin {"FailedLogins", "BanAccount", "BanIp"} /\ UNCHANGED <<account, ipBanned>>
      BY <2>5 DEF ExecuteQuery, IsQuery, Queries
    <3>2. Counted' /\ Limited'
      BY <1>1, <2>1, <2>4, <3>1 DEF Counted, Limited
    <3>3. ASSUME NEW t \in Sessions PROVE RowIsCurrent(t)'
      <4>1. RowIsCurrent(t)
        BY <1>1
      <4>2. CASE callbacks[t] = <<>> \/ callbacks'[t][1] = callbacks[t][1]
        BY <1>2, <1>4, <2>2, <3>1, <4>1, <4>2 DEF RowIsCurrent
      <4>3. CASE /\ callbacks[t] # <<>> /\ ~callbacks[t][1].ready
                 /\ dbQueue[1] = Operation(callbacks[t][1].query, t)
                 /\ callbacks'[t][1] \in Rows(dbQueue[1])
        <5>1. CASE callbacks[t][1].query # "LogonChallenge"
          BY <1>2, <1>4, <2>2, <3>1, <4>1, <4>3, <5>1 DEF RowIsCurrent
        <5>2. CASE callbacks[t][1].query = "LogonChallenge" /\ Active(t)
          <6>1. dbQueue[1] = LogonQuery(t) /\ dbQueue[1].query = "LogonChallenge"
            BY <4>3, <5>2 DEF LogonQuery, Operation
          <6>2. WritesAreAhead(t)
            BY <4>1, <4>3, <5>2 DEF RowIsCurrent
          <6>3. NoStatementPending
            <7> SUFFICES ASSUME NEW i \in DOMAIN dbQueue, ~IsQuery(dbQueue[i]) PROVE FALSE
              BY DEF NoStatementPending
            <7>1. i < 1
              BY <2>1, <6>1, <6>2 DEF WritesAreAhead
            <7>2. dbQueue \in Seq(Operations)
              BY DEF TypeOK, Operations
            <7>3. i \in 1 .. Len(dbQueue) /\ Len(dbQueue) \in Nat
              BY <7>2, LenProperties
            <7> QED
              BY <7>1, <7>3
          <6>4. /\ callbacks'[t][1].ready
                /\ callbacks'[t][1].found => callbacks'[t][1].failed = account.failed
            BY <4>3, <6>1 DEF Rows, Callback
          <6> QED
            BY <1>2, <1>4, <2>2, <3>1, <4>1, <6>3, <6>4 DEF RowIsCurrent
        <5>3. CASE ~Active(t)
          BY <1>4, <5>3 DEF RowIsCurrent
        <5> QED
          BY <5>1, <5>2, <5>3
      <4> QED
        BY <2>1, <2>5, <4>2, <4>3, RowFilled
    <3> QED
      BY <1>3, <2>3, <3>2, <3>3 DEF Sequential
  <2>6. CASE ExecuteStatement(1)
    <3>1. callbacks' = callbacks /\ ~NoStatementPending
      BY <2>1, <2>6 DEF ExecuteStatement, NoStatementPending, IsQuery, Queries
    <3>2. ASSUME NEW t \in Sessions PROVE RowIsCurrent(t)'
      BY <1>1, <1>2, <1>4, <2>2, <3>1 DEF RowIsCurrent
    <3>3. account \in [failed : Nat, banned : BOOLEAN, key : BOOLEAN]
      BY DEF TypeOK
    <3>4. CASE dbQueue[1].query = "FailedLogins"
      <4>1. account'.failed = account.failed + 1 /\ account'.banned = account.banned /\ ipBanned' = ipBanned
        BY <2>6, <3>3, <3>4 DEF ExecuteStatement
      <4>2. Failing # {} /\ Failing' = {}
        BY <2>4, <3>4
      <4>3. Counted'
        <5>1. MaxWrongPassCount > 0 => wrong = account.failed + 1
          BY <1>1, <4>2 DEF Counted
        <5> QED
          BY <2>1, <3>3, <4>1, <4>2, <5>1 DEF Counted
      <4>4. Limited'
        BY <1>1, <2>1, <2>4, <3>4, <4>1 DEF Limited
      <4> QED
        BY <1>3, <2>3, <3>2, <4>3, <4>4 DEF Sequential
    <3>5. CASE dbQueue[1].query \in {"BanAccount", "BanIp"}
      <4>1. account'.failed = account.failed /\ (account'.banned \/ ipBanned')
        BY <2>6, <3>3, <3>5 DEF ExecuteStatement
      <4>2. Counted'
        BY <1>1, <2>1, <2>4, <3>5, <4>1 DEF Counted
      <4>3. Limited'
        BY <4>1 DEF Limited
      <4> QED
        BY <1>3, <2>3, <3>2, <4>2, <4>3 DEF Sequential
    <3> QED
      BY <2>6, <3>4, <3>5 DEF ExecuteStatement
  <2> QED
    BY <2>1, <2>5, <2>6
<1> QED
  BY <1>5, <1>6

(* The conditions hold initially ... *)
LEMMA InitIsSequential == Init => Sequential
<1> SUFFICES ASSUME Init PROVE Sequential
  OBVIOUS
<1>1. DOMAIN dbQueue = {}
  <2>1. dbQueue = <<>>
    BY DEF Init
  <2>2. <<>> \in Seq(Operations) /\ Len(<<>>) = 0
    BY EmptySeq
  <2>3. DOMAIN <<>> = 1 .. 0
    BY <2>2, LenProperties
  <2> QED
    BY <2>1, <2>3
<1>2. /\ \A s \in Sessions : ~Alive(s) /\ reader # s /\ callbacks[s] = <<>> /\ status[s] = "Challenge"
      /\ wrong = 0 /\ account.failed = 0
  BY DEF Init, Alive
<1>3. OneAtATime
  BY <1>2 DEF OneAtATime
<1>4. \A s \in Sessions : AsksOnce(s) /\ RowIsCurrent(s)
  BY <1>1, <1>2 DEF AsksOnce, RowIsCurrent, Active
<1>5. Failing = {}
  BY <1>1 DEF Failing
<1>6. Counted /\ Limited
  BY <1>2, <1>5 DEF Counted, Limited
<1> QED
  BY <1>3, <1>4, <1>6 DEF Sequential

(* ... and every step keeps them. *)
LEMMA NextIsSequential ==
  ASSUME MaxActive = 1, WorkerThreads = 1, TypeOK, IInv, Sequential, [Next]_vars
  PROVE  Sequential'
<1>1. CASE UNCHANGED vars
  <2>1. UNCHANGED <<link, reading, reader, status, callbacks, info, dbQueue, account, ipBanned, wrong>>
        /\ \A t \in Sessions : SameSession(t)
    BY <1>1 DEF vars, socketVars, sessionVars, dbVars, history, SameSession
  <2>2. OneAtATime'
    BY <2>1 DEF Sequential, OneAtATime, Alive, New, IsOpen
  <2>3. Counted' /\ Limited' /\ \A t \in Sessions : AsksOnce(t)' /\ RowIsCurrent(t)'
    BY <2>1, DatabaseKept, OtherKept DEF Sequential
  <2> QED
    BY <2>2, <2>3 DEF Sequential
<1>2. CASE Next
  BY <1>2, ClientIsSequential, ReadHandlerIsSequential, UpdateIsSequential, WorkersAreSequential
     DEF Next
<1> QED
  BY <1>1, <1>2

(* With one session at a time and one worker what the rows and the queue say *)
(* of the wrong passwords is exact at all times.                             *)
LEMMA SequentialHolds ==
  ASSUME MaxActive = 1, WorkerThreads = 1
  PROVE  Spec => []Sequential
<1>1. Init => Sequential
  BY InitIsSequential
<1>2. TypeOK /\ IInv /\ Sequential /\ [Next]_vars => Sequential'
  BY NextIsSequential
<1> QED
  BY <1>1, <1>2, TypeCorrect, SessionsSound, PTL DEF Spec

(* failed_logins counts the wrong passwords since the last successful login, *)
(* if sessions do not overlap and the login database has one worker          *)
(* (LoginDatabase.WorkerThreads is 1 by default): the reset by DirectExecute *)
(* overtakes no update in the queue.                                         *)
THEOREM SequentialCountIsExact ==
  ASSUME MaxActive = 1, WorkerThreads = 1
  PROVE  Spec => []CountIsExact
<1>1. TypeOK /\ Sequential => CountIsExact
  <2> SUFFICES ASSUME TypeOK, Sequential, MaxWrongPassCount > 0, NoStatementPending
               PROVE  account.failed = wrong
    BY DEF CountIsExact
  <2>1. Failing = {}
    BY DEF Failing, NoStatementPending, IsQuery, Queries
  <2>2. wrong = account.failed + 0 /\ account.failed \in Nat
    BY <2>1 DEF Sequential, Counted, TypeOK
  <2> QED
    BY <2>2
<1> QED
  BY <1>1, SequentialHolds, TypeCorrect, PTL

(* The limit of wrong passwords is enforced under the same conditions,       *)
(* whether accounts or addresses are banned, as long as bans are permanent:  *)
(* an attempt judged by the row its challenge has read is judged by the row  *)
(* as it is.                                                                 *)
THEOREM SequentialLimitEnforced ==
  ASSUME MaxActive = 1, WorkerThreads = 1, PermanentBans
  PROVE  Spec => []LimitEnforced
<1>1. TypeOK /\ Sequential => LimitEnforced
  <2> SUFFICES ASSUME TypeOK, Sequential, MaxWrongPassCount > 0, NoStatementPending,
                      account.failed >= MaxWrongPassCount
               PROVE  account.banned \/ ipBanned
    BY DEF LimitEnforced
  <2>1. Failing = {} /\ ~BanPending
    BY DEF Failing, BanPending, NoStatementPending, IsQuery, Queries
  <2>2. wrong = account.failed + 0 /\ account.failed \in Nat
    BY <2>1 DEF Sequential, Counted, TypeOK
  <2>3. wrong >= MaxWrongPassCount
    BY <2>2
  <2> QED
    BY <2>1, <2>3 DEF Sequential, Limited
<1> QED
  BY <1>1, SequentialHolds, TypeCorrect, PTL
=============================================================================
