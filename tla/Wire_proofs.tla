----------------------------- MODULE Wire_proofs -----------------------------
(***************************************************************************)
(* Proofs about Wire, and through it about Socket, TcpClient and           *)
(* NetworkManager: for every set of accounts, every size of the server's   *)
(* read buffer, and any number of connections, logins, stalls, partial     *)
(* sends, failed writes and resets.                                        *)
(***************************************************************************)
EXTENDS Wire, SequenceLemmas, TLAPS

USE SocketAssumption, ClientAssumption, ManagerAssumption, WireAssumption
    DEF SocketAssumption, ClientAssumption, ManagerAssumption, WireAssumption

-----------------------------------------------------------------------------
(* Messages and bytes *)

(* A message is written as its two bytes. *)
LEMMA TwoBytes ==
  ASSUME NEW m \in Message
  PROVE  /\ Bytes(m) \in Seq(Byte) /\ Len(Bytes(m)) = 2 /\ Bytes(m) \in Chunk
         /\ Bytes(m)[1] = [msg |-> m, part |-> 1] /\ Bytes(m)[2] = [msg |-> m, part |-> 2]
         /\ <<Bytes(m)[1]>> \in Seq(Byte) /\ Len(<<Bytes(m)[1]>>) = 1
         /\ <<Bytes(m)[1]>>[1] = Bytes(m)[1]
<1>1. [msg |-> m, part |-> 1] \in Byte /\ [msg |-> m, part |-> 2] \in Byte
  BY DEF Byte
<1> QED
  BY <1>1 DEF Bytes, Chunk

-----------------------------------------------------------------------------
(* TcpClient *)

(* A connection as it is before IsConnected is set: nothing was asked of it, *)
(* and no thread is in a call about one before it.                           *)
Fresh ==
  /\ ~isConnected /\ receiver = "none" /\ begun = {} /\ leaving = {} /\ clearing = {}
  /\ outgoing = <<>> /\ main = <<>> /\ flush = <<>> /\ send = "none" /\ transferred = 0
  /\ accepted = <<>> /\ sent = <<>> /\ received = 0

(* What the flags, the buffers and the threads have to do with each other as *)
(* long as no thread was late: one connection is dealt with at a time.       *)
OnTime ==
  /\ connect = "pending" => isConnecting
  /\ isConnecting => opening = {}
  /\ opening \subseteq {epoch}
  /\ isConnecting \/ opening # {} => Fresh
  /\ isConnected => /\ opening = {} /\ begun = {} /\ clearing = {}
                    /\ send # "done" => transferred = 0
                    /\ ~sending => main = <<>> /\ flush = <<>>
  /\ ~isConnected => send = "none"

ClientInv == (~late => OnTime) /\ SentInOrder /\ StuckOnlyIfLate

(* What a step does to the client. *)
Sends(bytes) ==
  SendAsync(bytes) /\ UNCHANGED <<isConnected, isConnecting, connectionVars, receiveVars>>
StartsLeaving(t) ==
  /\ isConnected /\ DisconnectTests(t)
  /\ send' = send \/ (send = "pending" /\ send' = "none")
  /\ receiver' \in {receiver, "none"} /\ receiving' \in BOOLEAN
  /\ UNCHANGED <<isConnected, isConnecting, connect, opening, outgoing, sending, main, flush,
                 transferred, accepted, sent, received, epoch, partials, late>>
Reads ==
  /\ receiver # "none" /\ receiver' \in {"storing", "trying", "none"}
  /\ receiving' \in BOOLEAN /\ received' \in Nat /\ (received' = received \/ connect = "open")
  /\ UNCHANGED <<isConnected, isConnecting, connectionVars, sendVars>>
ClientStep ==
  \/ ConnectAsync \/ (\E b \in BOOLEAN : ConnectCompletes(b))
  \/ (\E e \in 1 .. MaxConnections : ProcessConnect(e)) \/ TryReceive
  \/ (\E bytes \in Seq(Byte) : Sends(bytes)) \/ SendBuffered
  \/ SystemSends \/ ProcessSend
  \/ \E t \in Completions :
       StartsLeaving(t) \/ DisconnectCloses(t) \/ DisconnectClears(t) \/ CompletionReturns(t)
  \/ Reads

(* Each keeps the types ... *)
LEMMA ClientStepKeepsTypes ==
  ASSUME ClientTypes, ClientStep
  PROVE  ClientTypes'
<1>1. \A s \in Seq(Byte) : Len(s) \in Nat
  BY LenProperties
<1>2. <<>> \in Seq(Byte) /\ Len(<<>>) = 0
  BY EmptySeq
<1>3. \A s, t \in Seq(Byte) : s \o t \in Seq(Byte)
  BY ConcatProperties
<1>4. ASSUME NEW s \in Seq(Byte), NEW n \in 0 .. Len(s)
      PROVE  SubSeq(s, 1, n) \in Seq(Byte) /\ SubSeq(s, n + 1, Len(s)) \in Seq(Byte)
  BY <1>4, SplitSeq
<1>5. CASE ConnectAsync
  BY <1>2, <1>5 DEF ClientTypes, ConnectAsync, leaveVars
<1>6. ASSUME NEW b \in BOOLEAN, ConnectCompletes(b) PROVE ClientTypes'
  BY <1>6 DEF ClientTypes, ConnectCompletes, sendVars, receiveVars, leaveVars
<1>7. ASSUME NEW e \in 1 .. MaxConnections, ProcessConnect(e) PROVE ClientTypes'
  BY <1>7 DEF ClientTypes, ProcessConnect, sendVars, leaveVars
<1>8. CASE TryReceive
  BY <1>8 DEF ClientTypes, TryReceive, sendVars, connectionVars, leaveVars
<1>9. ASSUME NEW bytes \in Seq(Byte), Sends(bytes) PROVE ClientTypes'
  BY <1>9 DEF ClientTypes, Sends, SendAsync, connectionVars, receiveVars, leaveVars
<1>10. CASE SendBuffered
  <2>1. main \o outgoing \in Seq(Byte) /\ accepted \o outgoing \in Seq(Byte)
    BY <1>3 DEF ClientTypes
  <2> DEFINE both == main \o outgoing
             all == accepted \o outgoing
  <2>2. /\ accepted' = all /\ sending' = TRUE /\ sent' = sent /\ outgoing' = <<>>
        /\ \/ main' = both /\ UNCHANGED <<flush, send, transferred>>
           \/ main' = <<>> /\ flush' = both /\ send' = "pending" /\ transferred' = 0
    BY <1>10 DEF SendBuffered
  <2> HIDE DEF both, all
  <2>3. main' \in Seq(Byte) /\ flush' \in Seq(Byte) /\ accepted' \in Seq(Byte)
    BY <1>2, <2>1, <2>2 DEF ClientTypes, both, all
  <2>4. transferred' \in 0 .. Len(flush')
    BY <1>1, <2>2, <2>3 DEF ClientTypes
  <2> QED
    BY <1>2, <1>10, <2>2, <2>3, <2>4 DEF ClientTypes, SendBuffered, connectionVars, receiveVars, leaveVars
<1>11. CASE SystemSends
  <2>1. PICK n \in 1 .. Len(flush) :
          /\ n < Len(flush) => partials < MaxPartialSends
          /\ partials' = IF n < Len(flush) THEN partials + 1 ELSE partials
          /\ sent' = sent \o SubSeq(flush, 1, n) /\ transferred' = n
    BY <1>11 DEF SystemSends
  <2>2. n \in 0 .. Len(flush) /\ flush \in Seq(Byte) /\ Len(flush) \in Nat
    BY <1>1 DEF ClientTypes
  <2>3. sent' \in Seq(Byte)
    BY <1>3, <1>4, <2>1, <2>2 DEF ClientTypes
  <2>4. partials' \in 0 .. MaxPartialSends
    BY <2>1 DEF ClientTypes
  <2> QED
    BY <1>11, <2>1, <2>2, <2>3, <2>4 DEF ClientTypes, SystemSends, receiveVars, leaveVars
<1>12. CASE ProcessSend
  <2>1. transferred \in 0 .. Len(flush) /\ flush \in Seq(Byte) /\ main \in Seq(Byte)
    BY DEF ClientTypes
  <2>2. SubSeq(flush, transferred + 1, Len(flush)) \in Seq(Byte)
    BY <1>4, <2>1
  <2>3. flush' \in Seq(Byte) /\ main' \in Seq(Byte) /\ transferred' = 0 /\ sending' \in BOOLEAN
        /\ send' \in {"none", "pending", "done"}
    BY <1>2, <1>12, <2>1, <2>2 DEF ProcessSend, ClientTypes
  <2>4. Len(flush') \in Nat
    BY <1>1, <2>3
  <2> QED
    BY <1>12, <2>3, <2>4 DEF ClientTypes, ProcessSend, connectionVars, receiveVars, leaveVars
<1>13. ASSUME NEW t \in Completions, StartsLeaving(t) PROVE ClientTypes'
  BY <1>13 DEF ClientTypes, StartsLeaving, DisconnectTests
<1>14. ASSUME NEW t \in Completions, DisconnectCloses(t) PROVE ClientTypes'
  <2>1. begun' \subseteq Completions /\ leaving' \subseteq Completions /\ clearing' \subseteq Completions
    BY <1>14 DEF ClientTypes, DisconnectCloses, Completions
  <2> QED
    BY <1>14, <2>1 DEF ClientTypes, DisconnectCloses
<1>15. ASSUME NEW t \in Completions, DisconnectClears(t) PROVE ClientTypes'
  <2>1. transferred' = 0 /\ flush' = <<>> /\ main' = <<>> /\ clearing' \subseteq Completions
    BY <1>15 DEF ClientTypes, DisconnectClears
  <2>2. transferred' \in 0 .. Len(flush')
    BY <1>2, <2>1
  <2> QED
    BY <1>2, <1>15, <2>1, <2>2 DEF ClientTypes, DisconnectClears
<1>16. ASSUME NEW t \in Completions, CompletionReturns(t) PROVE ClientTypes'
  BY <1>16 DEF ClientTypes, CompletionReturns, sendVars, receiveVars
<1>17. CASE Reads
  BY <1>17 DEF ClientTypes, Reads, connectionVars, sendVars, leaveVars
<1> QED
  BY <1>5, <1>6, <1>7, <1>8, <1>9, <1>10, <1>11, <1>12, <1>13, <1>14, <1>15, <1>16, <1>17 DEF ClientStep

(* ... and what the flags, the buffers and the threads have to do with each *)
(* other, and with that the order in which the bytes leave.                 *)
LEMMA ClientStepKeepsInv ==
  ASSUME ClientTypes, ClientInv, ClientStep
  PROVE  ClientInv'
<1> USE DEF Fresh
<1> DEFINE Left == SubSeq(flush, transferred + 1, Len(flush))
<1>1. <<>> \in Seq(Byte) /\ Len(<<>>) = 0 /\ \A s \in Seq(Byte) : s \o <<>> = s /\ <<>> \o s = s
  BY EmptySeq, ConcatEmptySeq
<1>2. \A s \in Seq(Byte) : Len(s) \in Nat /\ SubSeq(s, 1, Len(s)) = s /\ SubSeq(s, 0 + 1, Len(s)) = s
  BY SubSeqFull, LenProperties
<1>3. Left \in Seq(Byte)
  BY SplitSeq DEF ClientTypes
<1>4. late => late'
  BY DEF ClientStep, ConnectAsync, ConnectCompletes, ProcessConnect, TryReceive, Sends, SendBuffered,
         SystemSends, ProcessSend, StartsLeaving, DisconnectCloses, DisconnectClears, CompletionReturns,
         Reads, connectionVars
<1> SUFFICES ASSUME ~late' PROVE OnTime' /\ SentInOrder' /\ StuckOnlyIfLate'
  BY DEF ClientInv, SentInOrder, StuckOnlyIfLate
<1>5. /\ OnTime /\ ~late /\ (isConnecting => connect = "pending")
      /\ isConnected => accepted = (sent \o Left) \o main
  BY <1>4 DEF ClientInv, SentInOrder, StuckOnlyIfLate
<1> HIDE DEF Left
<1>6. CASE ConnectAsync
  BY <1>5, <1>6 DEF ConnectAsync, Inside, OnTime, SentInOrder, StuckOnlyIfLate, leaveVars
<1>7. ASSUME NEW b \in BOOLEAN, ConnectCompletes(b) PROVE OnTime' /\ SentInOrder' /\ StuckOnlyIfLate'
  BY <1>5, <1>7 DEF ConnectCompletes, OnTime, SentInOrder, StuckOnlyIfLate, sendVars, receiveVars, leaveVars
<1>8. ASSUME NEW e \in 1 .. MaxConnections, ProcessConnect(e)
      PROVE  OnTime' /\ SentInOrder' /\ StuckOnlyIfLate'
  <2>1. /\ Fresh /\ ~isConnecting /\ opening' = {}
        /\ UNCHANGED <<isConnecting, connect, sendVars, begun, leaving, clearing, epoch>>
    BY <1>5, <1>8 DEF OnTime, ProcessConnect, leaveVars
  <2>2. SubSeq(<<>>, 0 + 1, Len(<<>>)) = <<>> /\ <<>> \o <<>> = <<>>
    BY <1>1, <1>2
  <2>3. SentInOrder'
    BY <2>1, <2>2 DEF SentInOrder, sendVars
  <2> QED
    BY <1>5, <2>1, <2>3 DEF OnTime, StuckOnlyIfLate, sendVars
<1>9. CASE TryReceive
  <2>1. SentInOrder'
    BY <1>5, <1>9 DEF TryReceive, SentInOrder, sendVars, Left
  <2> QED
    BY <1>5, <1>9, <2>1 DEF TryReceive, OnTime, StuckOnlyIfLate, sendVars, connectionVars, leaveVars
<1>10. ASSUME NEW bytes \in Seq(Byte), Sends(bytes) PROVE OnTime' /\ SentInOrder' /\ StuckOnlyIfLate'
  <2>1. SentInOrder'
    BY <1>5, <1>10 DEF Sends, SendAsync, SentInOrder, Left
  <2> QED
    BY <1>5, <1>10, <2>1
    DEF Sends, SendAsync, OnTime, StuckOnlyIfLate, connectionVars, receiveVars, leaveVars
<1>11. CASE SendBuffered
  <2>1. /\ ~isConnecting /\ opening = {} /\ isConnected' = isConnected
        /\ UNCHANGED <<isConnecting, connect, opening, begun, leaving, clearing, epoch, receiver, received>>
    BY <1>5, <1>11 DEF SendBuffered, OnTime, connectionVars, receiveVars, leaveVars
  <2>2. CASE ~isConnected
    <3>1. send' = send
      BY <1>11, <2>2 DEF SendBuffered
    <3> QED
      BY <1>5, <2>1, <2>2, <3>1 DEF OnTime, SentInOrder, StuckOnlyIfLate
  <2>3. CASE isConnected /\ (sending \/ flush # <<>>)
    <3>1. /\ accepted' = accepted \o outgoing /\ sending' /\ sending /\ main' = main \o outgoing
          /\ UNCHANGED <<flush, send, transferred, sent>>
      BY <1>5, <1>11, <2>3 DEF SendBuffered, OnTime
    <3>2. accepted = (sent \o Left) \o main /\ sent \in Seq(Byte) /\ main \in Seq(Byte) /\ outgoing \in Seq(Byte)
      BY <1>5, <2>3 DEF ClientTypes
    <3>3. Left' = Left
      BY <3>1 DEF Left
    <3> DEFINE out == sent \o Left
    <3>4. out \in Seq(Byte)
      BY <1>3, <3>2, ConcatProperties
    <3> HIDE DEF out
    <3>5. (out \o main) \o outgoing = out \o (main \o outgoing)
      <4>1. out \in Seq(Byte) /\ main \in Seq(Byte) /\ outgoing \in Seq(Byte)
        BY <3>2, <3>4
      <4> QED
        BY ONLY <4>1, Assoc
    <3> USE DEF out
    <3>6. SentInOrder'
      BY <3>1, <3>2, <3>3, <3>5, Zenon DEF SentInOrder, Left
    <3> QED
      BY <1>5, <2>1, <2>3, <3>1, <3>6 DEF OnTime, StuckOnlyIfLate
  <2>4. CASE isConnected /\ ~sending /\ flush = <<>>
    <3>1. /\ accepted' = accepted \o outgoing /\ sending' /\ main' = <<>> /\ flush' = main \o outgoing
          /\ send' = "pending" /\ transferred' = 0 /\ sent' = sent
      BY <1>11, <2>4 DEF SendBuffered
    <3>2. /\ accepted = (sent \o Left) \o main /\ sent \in Seq(Byte) /\ outgoing \in Seq(Byte)
          /\ main = <<>> /\ flush = <<>> /\ transferred = 0
      BY <1>1, <1>5, <2>4 DEF OnTime, ClientTypes
    <3>3. Left = <<>> /\ main \o outgoing = outgoing
      BY <1>1, <1>2, <3>2 DEF Left
    <3>4. accepted = sent
      BY <1>1, <3>2, <3>3, Zenon
    <3>5. SubSeq(flush', transferred' + 1, Len(flush')) = outgoing
      BY <1>2, <3>1, <3>2, <3>3
    <3>6. (sent \o outgoing) \o <<>> = sent \o outgoing
      BY <1>1, <3>2, ConcatProperties
    <3>7. SentInOrder'
      BY <3>1, <3>4, <3>5, <3>6, Zenon DEF SentInOrder
    <3> QED
      BY <1>5, <2>1, <2>4, <3>1, <3>7 DEF OnTime, StuckOnlyIfLate
  <2> QED
    BY <2>2, <2>3, <2>4
<1>12. CASE SystemSends
  <2>1. PICK n \in 1 .. Len(flush) : sent' = sent \o SubSeq(flush, 1, n) /\ transferred' = n
    BY <1>12 DEF SystemSends
  <2>2. /\ isConnected /\ send = "pending" /\ send' = "done" /\ transferred = 0 /\ ~isConnecting /\ opening = {}
        /\ UNCHANGED <<isConnected, isConnecting, connect, opening, sending, main, flush, begun, leaving,
                       clearing, accepted, receiver, received, epoch>>
        /\ accepted = (sent \o Left) \o main
    BY <1>5, <1>12 DEF SystemSends, OnTime, receiveVars, leaveVars
  <2> DEFINE a == SubSeq(flush, 1, n)
             b == SubSeq(flush, n + 1, Len(flush))
  <2>3. n \in 0 .. Len(flush) /\ flush \in Seq(Byte) /\ sent \in Seq(Byte) /\ main \in Seq(Byte)
    BY <1>2 DEF ClientTypes
  <2>4. a \in Seq(Byte) /\ b \in Seq(Byte) /\ a \o b = flush
    BY <2>3, SplitSeq
  <2>5. Left = flush
    BY <1>2, <2>2, <2>3 DEF Left
  <2> HIDE DEF a, b
  <2>6. sent \o (a \o b) = (sent \o a) \o b
    <3>1. sent \in Seq(Byte) /\ a \in Seq(Byte) /\ b \in Seq(Byte)
      BY <2>3, <2>4
    <3> QED
      BY ONLY <3>1, Assoc
  <2>7. accepted = ((sent \o a) \o b) \o main
    BY <2>2, <2>4, <2>5, <2>6, Zenon
  <2>8. SentInOrder'
    BY <2>1, <2>2, <2>7, Zenon DEF SentInOrder, a, b
  <2>9. sending \/ flush = <<>>
    BY <1>5, <2>2 DEF OnTime
  <2>10. sending
    BY <1>1, <2>1, <2>9
  <2> QED
    BY <1>5, <2>2, <2>8, <2>10 DEF OnTime, StuckOnlyIfLate
<1>13. CASE ProcessSend
  <2>1. /\ isConnected /\ send = "done" /\ transferred' = 0 /\ ~isConnecting /\ opening = {}
        /\ UNCHANGED <<isConnected, isConnecting, connect, opening, begun, leaving, clearing, epoch,
                       accepted, sent, receiver, received>>
        /\ accepted = (sent \o Left) \o main
    BY <1>5, <1>13 DEF ProcessSend, OnTime, connectionVars, receiveVars, leaveVars
  <2>2. sent \in Seq(Byte) /\ main \in Seq(Byte) /\ flush \in Seq(Byte) /\ transferred \in 0 .. Len(flush)
    BY DEF ClientTypes
  <2>3. CASE transferred < Len(flush)
    <3>1. flush' = Left /\ send' = "none" /\ UNCHANGED <<main, sending>>
      BY <1>13, <2>3 DEF ProcessSend, Left
    <3>2. SubSeq(flush', transferred' + 1, Len(flush')) = Left
      BY <1>2, <1>3, <2>1, <3>1
    <3>3. SentInOrder'
      BY <2>1, <3>1, <3>2, Zenon DEF SentInOrder
    <3>4. sending
      BY <1>1, <1>5, <2>1, <2>2, <2>3 DEF OnTime
    <3> QED
      BY <1>5, <2>1, <3>1, <3>3, <3>4 DEF OnTime, StuckOnlyIfLate
  <2>4. CASE transferred = Len(flush)
    <3>1. /\ flush' = main /\ main' = <<>> /\ send' = IF main = <<>> THEN "none" ELSE "pending"
          /\ sending' = (main # <<>>)
      BY <1>13, <2>4 DEF ProcessSend
    <3>2. Left = <<>>
      BY <1>2, <2>2, <2>4, SubSeqEmpty DEF Left
    <3>3. SubSeq(flush', transferred' + 1, Len(flush')) = main
      BY <1>2, <2>1, <2>2, <3>1
    <3>4. sent \o Left = sent /\ (sent \o main) \o <<>> = sent \o main
      BY <1>1, <2>2, <3>2, ConcatProperties
    <3>5. SentInOrder'
      BY <2>1, <3>1, <3>3, <3>4, Zenon DEF SentInOrder
    <3> QED
      BY <1>5, <2>1, <3>1, <3>5 DEF OnTime, StuckOnlyIfLate
  <2> QED
    BY <1>2, <2>2, <2>3, <2>4
<1>14. ASSUME NEW t \in Completions, StartsLeaving(t) PROVE OnTime' /\ SentInOrder' /\ StuckOnlyIfLate'
  <2>1. SentInOrder'
    BY <1>5, <1>14 DEF StartsLeaving, SentInOrder, Left
  <2> QED
    BY <1>5, <1>14, <2>1 DEF StartsLeaving, DisconnectTests, OnTime, StuckOnlyIfLate
<1>15. ASSUME NEW t \in Completions, DisconnectCloses(t) PROVE OnTime' /\ SentInOrder' /\ StuckOnlyIfLate'
  <2>1. ~isConnecting /\ opening = {} /\ ~isConnected' /\ send' = "none" /\ connect' = "closed"
        /\ UNCHANGED <<isConnecting, opening, epoch>>
    BY <1>5, <1>15 DEF DisconnectCloses, OnTime
  <2> QED
    BY <2>1 DEF OnTime, SentInOrder, StuckOnlyIfLate
<1>16. ASSUME NEW t \in Completions, DisconnectClears(t) PROVE OnTime' /\ SentInOrder' /\ StuckOnlyIfLate'
  <2>1. ~isConnecting /\ opening = {} /\ ~isConnected' /\ send' = "none"
        /\ UNCHANGED <<isConnecting, opening, epoch, connect>>
    BY <1>5, <1>16 DEF DisconnectClears, OnTime
  <2> QED
    BY <1>5, <2>1 DEF OnTime, SentInOrder, StuckOnlyIfLate
<1>17. ASSUME NEW t \in Completions, CompletionReturns(t) PROVE OnTime' /\ SentInOrder' /\ StuckOnlyIfLate'
  <2>1. ~isConnecting /\ opening = {} /\ ~isConnected
        /\ UNCHANGED <<isConnected, isConnecting, opening, epoch, connect, send>>
    BY <1>5, <1>17 DEF CompletionReturns, OnTime, sendVars
  <2> QED
    BY <1>5, <2>1 DEF OnTime, SentInOrder, StuckOnlyIfLate
<1>18. CASE Reads
  <2>1. ~isConnecting /\ opening = {}
        /\ UNCHANGED <<isConnected, isConnecting, opening, epoch, connect, begun, clearing,
                       sending, main, flush, send, transferred, accepted, sent>>
    BY <1>5, <1>18 DEF Reads, OnTime, connectionVars, sendVars, leaveVars
  <2>2. SentInOrder'
    BY <1>5, <2>1 DEF SentInOrder, Left
  <2> QED
    BY <1>5, <2>1, <2>2 DEF OnTime, StuckOnlyIfLate
<1> QED
  BY <1>6, <1>7, <1>8, <1>9, <1>10, <1>11, <1>12, <1>13, <1>14, <1>15, <1>16, <1>17, <1>18 DEF ClientStep

Packets == Seq(Seq(Byte))

(* Every byte that was written or still waits to be. *)
Stream == written \o FlattenSeq(writeQueue)

WriterTypes ==
  /\ build \in {"reactor", "iocp"} /\ closed \in BOOLEAN /\ lost \in BOOLEAN
  /\ writeQueue \in Packets /\ isWritingAsync \in BOOLEAN
  /\ queued \in Seq(Byte) /\ written \in Seq(Byte)
  /\ stalls \in 0 .. MaxStalls /\ errors \in 0 .. MaxWriteErrors

WriterInv == (isWritingAsync => writeQueue # <<>>) /\ StreamIsIntact

(* What a write does to the stream: nothing, or it drops a part of what was *)
(* not written yet.                                                         *)
Kept == Stream' = Stream /\ lost' \in {lost, TRUE}
Dropped ==
  /\ lost'
  /\ \E x, rest \in Seq(Byte) : Stream = written' \o (x \o rest) /\ Stream' = written' \o rest
Advanced ==
  /\ Kept \/ Dropped
  /\ queued' = queued /\ \E s \in Seq(Byte) : written' = written \o s

(* The queue, cut before a packet. *)
LEMMA QueueCut ==
  ASSUME writeQueue \in Packets, written \in Seq(Byte), NEW k \in 0 .. Len(writeQueue)
  PROVE  /\ After(k) \in Packets /\ Whole(k) \in Seq(Byte) /\ FlattenSeq(After(k)) \in Seq(Byte)
         /\ written \o Whole(k) \in Seq(Byte)
         /\ Stream = written \o (Whole(k) \o FlattenSeq(After(k)))
         /\ Stream = (written \o Whole(k)) \o FlattenSeq(After(k))
<1>1. /\ After(k) \in Packets /\ Whole(k) \in Seq(Byte) /\ FlattenSeq(After(k)) \in Seq(Byte)
      /\ Whole(k) \o FlattenSeq(After(k)) = FlattenSeq(writeQueue)
  BY FlattenSplit DEF Packets, After, Whole
<1> DEFINE w == Whole(k)
           f == FlattenSeq(After(k))
<1>2. w \in Seq(Byte) /\ f \in Seq(Byte) /\ w \o f = FlattenSeq(writeQueue)
  BY <1>1
<1> HIDE DEF w, f
<1>3. Stream = written \o (w \o f)
  BY <1>2, Zenon DEF Stream
<1>4. (written \o w) \o f = written \o (w \o f) /\ written \o w \in Seq(Byte)
  <2>1. written \in Seq(Byte) /\ w \in Seq(Byte) /\ f \in Seq(Byte)
    BY <1>2
  <2> QED
    BY ONLY <2>1, Assoc
<1>5. Stream = (written \o w) \o f
  BY <1>3, <1>4, Zenon
<1> QED
  BY <1>1, <1>3, <1>4, <1>5 DEF w, f

(* ... and inside one. *)
LEMMA PacketCut ==
  ASSUME writeQueue \in Packets, written \in Seq(Byte),
         NEW k \in 0 .. Len(writeQueue) - 1, NEW n \in 0 .. Len(writeQueue[k + 1])
  PROVE  /\ k \in 0 .. Len(writeQueue) /\ k + 1 \in 0 .. Len(writeQueue)
         /\ writeQueue[k + 1] \in Seq(Byte)
         /\ SubSeq(writeQueue[k + 1], 1, n) \in Seq(Byte) /\ Rest(writeQueue[k + 1], n) \in Seq(Byte)
         /\ <<Rest(writeQueue[k + 1], n)>> \o After(k + 1) \in Packets
         /\ (written \o Whole(k)) \o SubSeq(writeQueue[k + 1], 1, n) \in Seq(Byte)
         /\ Stream = ((written \o Whole(k)) \o SubSeq(writeQueue[k + 1], 1, n))
                        \o FlattenSeq(<<Rest(writeQueue[k + 1], n)>> \o After(k + 1))
         /\ Stream = (written \o Whole(k)) \o (writeQueue[k + 1] \o FlattenSeq(After(k + 1)))
<1> DEFINE e == writeQueue[k + 1]
           c == SubSeq(e, 1, n)
           d == Rest(e, n)
           w == Whole(k)
           f == FlattenSeq(After(k + 1))
           q == After(k + 1)
<1>1. Len(writeQueue) \in Nat /\ k \in 0 .. Len(writeQueue) /\ k + 1 \in 0 .. Len(writeQueue)
  BY LenProperties DEF Packets
<1>2. e \in Seq(Byte) /\ FlattenSeq(After(k)) = e \o f
  BY FlattenFront DEF Packets, After
<1>3. c \in Seq(Byte) /\ d \in Seq(Byte) /\ c \o d = e
  BY <1>2, SplitSeq DEF Rest
<1>4. w \in Seq(Byte) /\ Stream = (written \o w) \o FlattenSeq(After(k)) /\ written \o w \in Seq(Byte)
      /\ Stream = written \o (w \o FlattenSeq(After(k)))
  BY <1>1, QueueCut
<1>5. q \in Packets /\ f \in Seq(Byte)
  BY <1>1, QueueCut
<1> HIDE DEF e, c, d, w, q, f
<1>6. <<d>> \in Packets /\ <<d>> \o q \in Packets
  <2>1. <<d>> \in Packets
    BY <1>3 DEF Packets
  <2> QED
    BY <1>5, <2>1, ConcatProperties DEF Packets
<1>7. FlattenSeq(<<d>> \o q) = d \o f
  <2>1. FlattenSeq(<<d>> \o q) = FlattenSeq(<<d>>) \o FlattenSeq(q)
    BY <1>5, <1>6, FlattenConcat DEF Packets
  <2>2. FlattenSeq(<<d>>) = d
    BY FlattenOne
  <2>3. FlattenSeq(q) = f
    BY DEF q, f
  <2> QED
    BY <2>1, <2>2, <2>3, Zenon
<1>8. (written \o w) \o c \in Seq(Byte)
  BY <1>3, <1>4, ConcatProperties
<1>9. Stream = ((written \o w) \o c) \o FlattenSeq(<<d>> \o q)
  <2>1. ((written \o w) \o c) \o (d \o f) = written \o (w \o ((c \o d) \o f))
    <3>1. /\ written \in Seq(Byte) /\ w \in Seq(Byte) /\ c \in Seq(Byte) /\ d \in Seq(Byte)
          /\ f \in Seq(Byte)
      BY <1>3, <1>4, <1>5
    <3>2. Cat(Cat(Cat(written, w), c), Cat(d, f)) = Cat(written, Cat(w, Cat(Cat(c, d), f)))
      BY <3>1, CatAssoc
    <3> QED
      BY <3>2, Zenon DEF Cat
  <2> QED
    BY <1>2, <1>3, <1>4, <1>7, <2>1, Zenon
<1>10. Stream = (written \o w) \o (e \o f)
  BY <1>2, <1>4, Zenon
<1>11. k \in 0 .. Len(writeQueue) /\ k + 1 \in 0 .. Len(writeQueue)
  BY <1>1
<1> QED
  BY <1>2, <1>3, <1>6, <1>8, <1>9, <1>10, <1>11, Zenon DEF e, c, d, w, q, f

(* One call of HandleQueue or of the write handler, from packet k on. *)
LEMMA WroteAdvances ==
  ASSUME WriterTypes, NEW k \in 0 .. Len(writeQueue),
         writeQueue' = After(k), written' = written \o Whole(k)
  PROVE  /\ writeQueue' \in Packets /\ written' \in Seq(Byte) /\ Stream' = Stream
         /\ \E s \in Seq(Byte) : written' = written \o s
<1>1. /\ After(k) \in Packets /\ Whole(k) \in Seq(Byte) /\ written \o Whole(k) \in Seq(Byte)
      /\ Stream = (written \o Whole(k)) \o FlattenSeq(After(k))
  BY QueueCut DEF WriterTypes
<1>2. Stream' = (written \o Whole(k)) \o FlattenSeq(After(k))
  BY Zenon DEF Stream
<1> QED
  BY <1>1, <1>2, Zenon

(* ... and stalls inside a packet, ... *)
LEMMA StallsAdvances ==
  ASSUME WriterTypes, NEW k \in 0 .. Len(writeQueue) - 1, NEW n \in 0 .. Len(writeQueue[k + 1]),
         written' = written \o Whole(k) \o SubSeq(writeQueue[k + 1], 1, n),
         writeQueue' = <<Rest(writeQueue[k + 1], n)>> \o After(k + 1)
  PROVE  /\ writeQueue' \in Packets /\ written' \in Seq(Byte) /\ Stream' = Stream
         /\ writeQueue' # <<>>
         /\ \E s \in Seq(Byte) : written' = written \o s
<1> DEFINE c == SubSeq(writeQueue[k + 1], 1, n)
           d == Rest(writeQueue[k + 1], n)
           q == After(k + 1)
           w == Whole(k)
<1>1. /\ c \in Seq(Byte) /\ d \in Seq(Byte) /\ <<d>> \o q \in Packets
      /\ (written \o w) \o c \in Seq(Byte)
      /\ Stream = ((written \o w) \o c) \o FlattenSeq(<<d>> \o q)
  BY PacketCut, Zenon DEF WriterTypes
<1>2. w \in Seq(Byte) /\ q \in Packets
  <2>1. k \in 0 .. Len(writeQueue) /\ k + 1 \in 0 .. Len(writeQueue)
    BY PacketCut DEF WriterTypes
  <2> QED
    BY <2>1, QueueCut DEF WriterTypes
<1>3. written' = (written \o w) \o c /\ writeQueue' = <<d>> \o q
  OBVIOUS
<1> HIDE DEF c, d, q, w
<1>4. Stream' = Stream
  <2>1. Stream' = ((written \o w) \o c) \o FlattenSeq(<<d>> \o q)
    BY <1>3, Zenon DEF Stream
  <2> QED
    BY <1>1, <2>1, Zenon
<1>5. written \in Seq(Byte) /\ w \o c \in Seq(Byte) /\ (written \o w) \o c = written \o (w \o c)
  <2>1. written \in Seq(Byte) /\ w \in Seq(Byte) /\ c \in Seq(Byte)
    BY <1>1, <1>2 DEF WriterTypes
  <2> QED
    BY ONLY <2>1, Assoc
<1>6. writeQueue' # <<>>
  <2>1. <<d>> \in Packets /\ Len(<<d>>) = 1
    BY <1>1 DEF Packets
  <2>2. Len(<<d>> \o q) = 1 + Len(q) /\ Len(q) \in Nat
    BY <1>2, <2>1, ConcatProperties, LenProperties DEF Packets
  <2>3. Len(writeQueue') # 0
    BY <1>3, <2>2
  <2> QED
    BY <2>3
<1> QED
  BY <1>1, <1>3, <1>4, <1>5, <1>6, Zenon

(* ... and drops one that fails. *)
LEMMA FailsAdvances ==
  ASSUME WriterTypes, NEW k \in 0 .. Len(writeQueue) - 1,
         written' = written \o Whole(k), writeQueue' = After(k + 1)
  PROVE  /\ writeQueue' \in Packets /\ written' \in Seq(Byte)
         /\ \E x, rest \in Seq(Byte) : Stream = written' \o (x \o rest) /\ Stream' = written' \o rest
         /\ \E s \in Seq(Byte) : written' = written \o s
<1>1. Len(writeQueue) \in Nat
  BY LenProperties DEF WriterTypes, Packets
<1>2. k \in 0 .. Len(writeQueue) /\ k + 1 \in 0 .. Len(writeQueue)
  BY <1>1
<1>3. Len(writeQueue[k + 1]) \in Nat
  BY <1>2, ElementOfSeq, LenProperties DEF WriterTypes, Packets
<1> DEFINE x == writeQueue[k + 1]
           rest == FlattenSeq(After(k + 1))
<1>4. x \in Seq(Byte) /\ Stream = (written \o Whole(k)) \o (x \o rest)
  <2>1. 0 \in 0 .. Len(writeQueue[k + 1]) /\ writeQueue \in Packets /\ written \in Seq(Byte)
    BY <1>3 DEF WriterTypes
  <2> QED
    BY <2>1, PacketCut, Zenon
<1>5. rest \in Seq(Byte) /\ After(k + 1) \in Packets
  BY <1>2, QueueCut DEF WriterTypes
<1>6. written \o Whole(k) \in Seq(Byte) /\ Whole(k) \in Seq(Byte)
  BY <1>2, QueueCut DEF WriterTypes
<1>7. Stream' = written' \o rest
  BY Zenon DEF Stream
<1> HIDE DEF x, rest
<1>8. Stream = written' \o (x \o rest)
  BY <1>4, Zenon
<1> QED
  BY <1>4, <1>5, <1>6, <1>7, <1>8, Zenon

(* So a write keeps the stream, or drops the middle of it, in either build. *)
LEMMA WriteStepAdvances ==
  ASSUME WriterTypes, WriterInv, WriteStep
  PROVE  WriterTypes' /\ WriterInv' /\ Advanced
<1>1. Len(writeQueue) \in Nat /\ (Len(writeQueue) = 0 => writeQueue = <<>>)
  BY LenProperties, EmptySeq DEF WriterTypes, Packets
<1>2. StreamIsIntact' <=> (~lost' => Stream' = queued')
  BY Zenon DEF StreamIsIntact, Stream
<1>3. ~lost => Stream = queued
  BY Zenon DEF WriterInv, StreamIsIntact, Stream
<1>4. \E s \in Seq(Byte) : written = written \o s
  <2>1. <<>> \in Seq(Byte) /\ written = written \o <<>>
    BY Assoc DEF WriterTypes
  <2> QED
    BY <2>1
<1>5. ASSUME NEW k \in 0 .. Len(writeQueue), Wrote(k),
             UNCHANGED <<build, closed, queued>>
      PROVE  WriterTypes' /\ WriterInv' /\ Advanced
  <2>1. /\ writeQueue' \in Packets /\ written' \in Seq(Byte) /\ Stream' = Stream
        /\ \E s \in Seq(Byte) : written' = written \o s
    BY <1>5, WroteAdvances DEF Wrote
  <2>2. isWritingAsync' = FALSE /\ UNCHANGED <<build, closed, queued, lost, stalls, errors>>
    BY <1>5 DEF Wrote
  <2>3. WriterTypes' /\ WriterInv'
    BY <1>2, <1>3, <2>1, <2>2 DEF WriterTypes, WriterInv
  <2> QED
    BY <2>1, <2>2, <2>3 DEF Advanced, Kept
<1>6. ASSUME NEW k \in 0 .. Len(writeQueue), Stalls(k), UNCHANGED <<build, closed, queued>>
      PROVE  WriterTypes' /\ WriterInv' /\ Advanced
  <2>1. k \in 0 .. Len(writeQueue) - 1
    BY <1>1, <1>6 DEF Stalls
  <2>2. PICK n \in 0 .. Len(writeQueue[k + 1]) - 1 :
          /\ written' = written \o Whole(k) \o SubSeq(writeQueue[k + 1], 1, n)
          /\ writeQueue' = <<Rest(writeQueue[k + 1], n)>> \o After(k + 1)
    BY <1>6, Zenon DEF Stalls
  <2>3. n \in 0 .. Len(writeQueue[k + 1])
    <3>1. k + 1 \in 1 .. Len(writeQueue)
      BY <1>1, <2>1
    <3>2. Len(writeQueue[k + 1]) \in Nat
      BY <3>1, ElementOfSeq, LenProperties DEF WriterTypes, Packets
    <3> QED
      BY <3>2
  <2>4. /\ writeQueue' \in Packets /\ written' \in Seq(Byte) /\ Stream' = Stream
        /\ writeQueue' # <<>>
        /\ \E s \in Seq(Byte) : written' = written \o s
    BY <2>1, <2>2, <2>3, StallsAdvances, Zenon
  <2>5. /\ isWritingAsync' = TRUE /\ UNCHANGED <<build, closed, queued, lost, errors>>
        /\ stalls' \in 0 .. MaxStalls
    BY <1>6 DEF Stalls, WriterTypes
  <2>6. WriterTypes' /\ WriterInv'
    BY <1>2, <1>3, <2>4, <2>5 DEF WriterTypes, WriterInv
  <2> QED
    BY <2>4, <2>5, <2>6 DEF Advanced, Kept
<1>7. ASSUME NEW k \in 0 .. Len(writeQueue), Fails(k), UNCHANGED <<build, closed, queued>>
      PROVE  WriterTypes' /\ WriterInv' /\ Advanced
  <2>1. k \in 0 .. Len(writeQueue) - 1
    BY <1>1, <1>7 DEF Fails
  <2>2. /\ writeQueue' \in Packets /\ written' \in Seq(Byte)
        /\ \E x, rest \in Seq(Byte) : Stream = written' \o (x \o rest) /\ Stream' = written' \o rest
        /\ \E s \in Seq(Byte) : written' = written \o s
    BY <1>7, <2>1, FailsAdvances DEF Fails
  <2>3. /\ isWritingAsync' = FALSE /\ lost' = TRUE /\ UNCHANGED <<build, closed, queued, stalls>>
        /\ errors' \in 0 .. MaxWriteErrors
    BY <1>7 DEF Fails, WriterTypes
  <2>4. WriterTypes' /\ WriterInv'
    BY <1>2, <2>2, <2>3 DEF WriterTypes, WriterInv
  <2> QED
    BY <2>2, <2>3, <2>4 DEF Advanced, Dropped
<1>8. CASE Update
  <2>1. \/ Wrote(Len(writeQueue))
        \/ \E k \in 0 .. Len(writeQueue) - 1 : Stalls(k) \/ Fails(k)
    BY <1>8, Zenon DEF Update
  <2>2. UNCHANGED <<build, closed, queued>>
    BY <1>8 DEF Update
  <2>3. Len(writeQueue) \in 0 .. Len(writeQueue)
        /\ \A k \in 0 .. Len(writeQueue) - 1 : k \in 0 .. Len(writeQueue)
    BY <1>1
  <2> QED
    BY <1>5, <1>6, <1>7, <2>1, <2>2, <2>3, Zenon
<1>9. CASE WriteHandlerWrapper
  <2>1. Wrote(1) \/ Stalls(0) \/ Fails(0)
    BY <1>9, Zenon DEF WriteHandlerWrapper
  <2>2. UNCHANGED <<build, closed, queued>> /\ writeQueue # <<>>
    BY <1>9 DEF WriteHandlerWrapper, WriterInv
  <2>3. 0 \in 0 .. Len(writeQueue) /\ 1 \in 0 .. Len(writeQueue)
    BY <1>1, <2>2
  <2> QED
    BY <1>5, <1>6, <1>7, <2>1, <2>2, <2>3, Zenon
<1>10. CASE WriteHandler
  <2>1. writeQueue # <<>> /\ Len(writeQueue) > 0
    BY <1>1, <1>10 DEF WriteHandler, WriterInv
  <2> DEFINE e == writeQueue[0 + 1]
  <2>2. /\ Head(writeQueue) = e /\ Tail(writeQueue) = After(0 + 1) /\ e \in Seq(Byte) /\ Len(e) \in Nat
        /\ 0 \in 0 .. Len(writeQueue) - 1 /\ 0 + 1 \in 0 .. Len(writeQueue) /\ 0 \in 0 .. Len(writeQueue)
    <3>1. Tail(writeQueue) = SubSeq(writeQueue, 2, Len(writeQueue)) /\ Head(writeQueue) = writeQueue[1]
      BY <2>1, TailIsSubSeq DEF WriterTypes, Packets
    <3>2. writeQueue[1] \in Seq(Byte) /\ Len(writeQueue[1]) \in Nat
      BY <1>1, <2>1, ElementOfSeq, LenProperties DEF WriterTypes, Packets
    <3> QED
      BY <1>1, <2>1, <3>1, <3>2 DEF After
  <2>3. PICK n \in 1 .. Len(e) :
          /\ Rest(e, n) # <<>> => stalls < MaxStalls
          /\ stalls' = IF Rest(e, n) = <<>> THEN stalls ELSE stalls + 1
          /\ written' = written \o SubSeq(e, 1, n)
          /\ writeQueue' = IF Rest(e, n) = <<>> THEN After(0 + 1) ELSE <<Rest(e, n)>> \o After(0 + 1)
          /\ isWritingAsync' = (writeQueue' # <<>>)
    BY <1>10, <2>2, Zenon DEF WriteHandler
  <2>4. n \in 0 .. Len(writeQueue[0 + 1])
    BY <2>2
  <2> DEFINE c == SubSeq(e, 1, n)
             d == Rest(e, n)
             q == After(0 + 1)
             w == Whole(0)
  <2>5. /\ c \in Seq(Byte) /\ d \in Seq(Byte) /\ <<d>> \o q \in Packets
        /\ Stream = ((written \o w) \o c) \o FlattenSeq(<<d>> \o q)
        /\ Stream = (written \o w) \o (e \o FlattenSeq(q))
    BY <2>2, <2>4, PacketCut, Zenon DEF WriterTypes
  <2>6. q \in Packets /\ FlattenSeq(q) \in Seq(Byte) /\ w = <<>>
    <3>1. SubSeq(writeQueue, 1, 0) = <<>>
      BY SubSeqEmpty
    <3>2. w = <<>>
      BY <3>1, FlattenEmpty, Zenon DEF Whole
    <3> QED
      BY <2>2, <3>2, QueueCut DEF WriterTypes
  <2>7. c \o d = e
    BY <2>2, <2>4, SplitSeq DEF Rest
  <2>8. UNCHANGED <<build, closed, queued, lost, errors>> /\ written \in Seq(Byte)
    BY <1>10 DEF WriteHandler, WriterTypes
  <2> HIDE DEF c, d, q, w, e
  <2>9. stalls' \in 0 .. MaxStalls /\ isWritingAsync' = (writeQueue' # <<>>) /\ written' = written \o c
    BY <2>3 DEF WriterTypes, c, d, e
  <2>10. written' \in Seq(Byte)
    BY <2>5, <2>8, <2>9, ConcatProperties
  <2>11. written \o w = written
    BY <2>6, <2>8, Assoc
  <2>12. writeQueue' \in Packets /\ Stream' = Stream
    <3>1. CASE d = <<>>
      <4>1. writeQueue' = q
        BY <2>3, <3>1 DEF d, q, e
      <4>2. Stream' = (written \o c) \o FlattenSeq(q)
        BY <2>9, <4>1, Zenon DEF Stream
      <4>3. c \o <<>> = c
        BY <2>5, Assoc
      <4>4. c = e
        BY <2>7, <3>1, <4>3, Zenon
      <4>5. written \o (c \o FlattenSeq(q)) = (written \o c) \o FlattenSeq(q)
        <5> DEFINE f == FlattenSeq(q)
        <5>1. written \in Seq(Byte) /\ c \in Seq(Byte) /\ f \in Seq(Byte)
          BY <2>5, <2>6, <2>8
        <5> HIDE DEF f
        <5>2. written \o (c \o f) = (written \o c) \o f
          BY ONLY <5>1, Assoc, SMTT(40)
        <5> QED
          BY <5>2 DEF f
      <4> QED
        BY <2>5, <2>6, <2>11, <4>1, <4>2, <4>4, <4>5, Zenon
    <3>2. CASE d # <<>>
      <4>1. writeQueue' = <<d>> \o q
        BY <2>3, <3>2 DEF d, q, e
      <4>2. Stream' = (written \o c) \o FlattenSeq(<<d>> \o q)
        BY <2>9, <4>1, Zenon DEF Stream
      <4> QED
        BY <2>5, <2>11, <4>1, <4>2, Zenon
    <3> QED
      BY <3>1, <3>2
  <2>13. WriterTypes' /\ WriterInv'
    BY <1>2, <1>3, <2>8, <2>9, <2>10, <2>12 DEF WriterTypes, WriterInv
  <2> QED
    BY <2>5, <2>8, <2>9, <2>12, <2>13 DEF Advanced, Kept
<1>11. CASE WriteHandlerError
  <2>1. /\ UNCHANGED <<build, writeQueue, queued, written, stalls>>
        /\ closed' = TRUE /\ isWritingAsync' = FALSE /\ lost' = TRUE /\ errors' \in 0 .. MaxWriteErrors
    BY <1>11 DEF WriteHandlerError, WriterTypes
  <2>2. Stream' = Stream
    BY <2>1, Zenon DEF Stream
  <2>3. WriterTypes' /\ WriterInv'
    BY <1>2, <2>1 DEF WriterTypes, WriterInv
  <2> QED
    BY <1>4, <2>1, <2>2, <2>3 DEF Advanced, Kept
<1> QED
  BY <1>8, <1>9, <1>10, <1>11 DEF WriteStep

(* What any step does to the queue. *)
Cleared ==
  /\ writeQueue' = <<>> /\ isWritingAsync' = FALSE
  /\ queued' = <<>> /\ written' = <<>> /\ lost' = FALSE /\ closed' \in BOOLEAN
  /\ UNCHANGED <<build, stalls, errors>>
Queues(m) == QueuePacket(Bytes(m)) /\ UNCHANGED <<build, closed, written, lost, stalls, errors>>
Rests ==
  /\ closed' \in BOOLEAN
  /\ UNCHANGED <<build, writeQueue, isWritingAsync, queued, written, lost, stalls, errors>>
WriterStep == Cleared \/ Rests \/ (\E m \in Message : Queues(m)) \/ WriteStep

(* QueuePacket appends the two bytes of its message to the stream. *)
LEMMA QueuesStream ==
  ASSUME WriterTypes, NEW m \in Message, Queues(m), ~closed
  PROVE  /\ writeQueue' \in Packets /\ writeQueue' # <<>> /\ queued' \in Seq(Byte)
         /\ Stream' = Stream \o Bytes(m) /\ queued' = queued \o Bytes(m)
         /\ UNCHANGED <<build, closed, written, lost, stalls, errors>>
         /\ isWritingAsync' \in BOOLEAN
<1> DEFINE b == Bytes(m)
           f == FlattenSeq(writeQueue)
<1>1. b \in Seq(Byte)
  BY TwoBytes
<1> HIDE DEF b
<1>2. /\ writeQueue' = Append(writeQueue, b) /\ queued' = queued \o b
      /\ isWritingAsync' = (isWritingAsync \/ build = "iocp")
      /\ UNCHANGED <<build, closed, written, lost, stalls, errors>>
  BY Zenon DEF Queues, QueuePacket, b
<1>3. writeQueue' \in Packets /\ writeQueue' # <<>>
  BY <1>1, <1>2, AppendProperties DEF WriterTypes, Packets
<1>4. queued' \in Seq(Byte)
  BY <1>1, <1>2, ConcatProperties DEF WriterTypes
<1>5. f \in Seq(Byte) /\ FlattenSeq(Append(writeQueue, b)) = f \o b
  <2>1. f \in Seq(Byte)
    BY FlattenConcat DEF WriterTypes, Packets
  <2> QED
    BY <1>1, <2>1, FlattenAppend DEF WriterTypes, Packets
<1> HIDE DEF f
<1>6. written \o (f \o b) = (written \o f) \o b
  <2>1. written \in Seq(Byte) /\ f \in Seq(Byte) /\ b \in Seq(Byte)
    BY <1>1, <1>5 DEF WriterTypes
  <2> QED
    BY ONLY <2>1, Assoc
<1>7. Stream' = Stream \o b
  BY <1>2, <1>5, <1>6, Zenon DEF Stream, f
<1> QED
  BY <1>2, <1>3, <1>4, <1>7 DEF b

(* No step loses a byte or changes the order of two, unless a write fails. *)
LEMMA WriterStepKeeps ==
  ASSUME WriterTypes, WriterInv, WriterStep
  PROVE  WriterTypes' /\ WriterInv'
<1>1. StreamIsIntact' <=> (~lost' => Stream' = queued')
  BY Zenon DEF StreamIsIntact, Stream
<1>2. ~lost => Stream = queued
  BY Zenon DEF WriterInv, StreamIsIntact, Stream
<1>3. CASE Cleared
  <2>1. Stream' = <<>>
    <3>1. Stream' = <<>> \o FlattenSeq(<<>>)
      BY <1>3, Zenon DEF Stream, Cleared
    <3> QED
      BY <3>1, FlattenEmpty
  <2>2. <<>> \in Packets /\ <<>> \in Seq(Byte)
    BY EmptySeq DEF Packets
  <2> QED
    BY <1>1, <1>3, <2>1, <2>2 DEF WriterTypes, WriterInv, Cleared
<1>4. CASE Rests
  <2>1. Stream' = Stream
    BY <1>4, Zenon DEF Rests, Stream
  <2> QED
    BY <1>1, <1>2, <1>4, <2>1 DEF WriterTypes, WriterInv, Rests
<1>5. ASSUME NEW m \in Message, Queues(m)
      PROVE  WriterTypes' /\ WriterInv'
  <2>1. CASE closed
    <3>1. Rests
      BY <1>5, <2>1 DEF Queues, QueuePacket, Rests, WriterTypes
    <3> QED
      BY <1>4, <3>1
  <2>2. CASE ~closed
    <3> DEFINE b == Bytes(m)
    <3>1. /\ writeQueue' \in Packets /\ writeQueue' # <<>> /\ queued' \in Seq(Byte)
          /\ Stream' = Stream \o b /\ queued' = queued \o b
          /\ UNCHANGED <<build, closed, written, lost, stalls, errors>>
          /\ isWritingAsync' \in BOOLEAN
      BY <1>5, <2>2, QueuesStream
    <3> HIDE DEF b
    <3>2. ~lost' => Stream' = queued'
      BY <1>2, <3>1, Zenon
    <3> QED
      BY <1>1, <3>1, <3>2 DEF WriterTypes, WriterInv
  <2> QED
    BY <2>1, <2>2
<1>6. CASE WriteStep
  BY <1>6, WriteStepAdvances
<1> QED
  BY <1>3, <1>4, <1>5, <1>6 DEF WriterStep

-----------------------------------------------------------------------------
(* What the client has not received yet of the stream *)

Unread == SubSeq(Stream, received + 1, Len(Stream))

(* What the client has read is a part of what was written. *)
LEMMA UnreadParts ==
  ASSUME WriterTypes, received \in 0 .. Len(written)
  PROVE  /\ Stream \in Seq(Byte) /\ Unread \in Seq(Byte)
         /\ received \in 0 .. Len(Stream)
         /\ Len(Unread) = Len(Stream) - received
         /\ Len(written) <= Len(Stream) /\ Len(Stream) \in Nat
         /\ \A i \in 1 .. Len(written) : Stream[i] = written[i]
<1> DEFINE f == FlattenSeq(writeQueue)
<1>1. f \in Seq(Byte)
  BY FlattenConcat DEF WriterTypes, Packets
<1>2. Len(written) \in Nat /\ Len(f) \in Nat /\ written \in Seq(Byte)
  BY <1>1, LenProperties DEF WriterTypes
<1> HIDE DEF f
<1>3. /\ written \o f \in Seq(Byte) /\ Len(written \o f) = Len(written) + Len(f)
      /\ \A i \in 1 .. Len(written) + Len(f) :
           (written \o f)[i] = IF i <= Len(written) THEN written[i] ELSE f[i - Len(written)]
  BY <1>1, <1>2, ConcatProperties
<1>4. Stream = written \o f
  BY Zenon DEF Stream, f
<1>5. /\ Stream \in Seq(Byte) /\ Len(Stream) = Len(written) + Len(f)
      /\ \A i \in 1 .. Len(written) : Stream[i] = written[i]
  BY <1>2, <1>3, <1>4
<1>6. received \in 0 .. Len(Stream)
  BY <1>2, <1>5
<1> HIDE DEF Stream
<1>7. Unread \in Seq(Byte) /\ Len(Unread) = Len(Stream) - received
  BY <1>5, <1>6, SplitSeq DEF Unread
<1> QED
  BY <1>2, <1>5, <1>6, <1>7

(* A write only takes bytes away from it, a reply is added to it ... *)
Fewer == Len(Unread') <= Len(Unread) /\ ToSet(Unread') \subseteq ToSet(Unread)

(* Writing leaves what is unread as it is, or less of it, ... *)
LEMMA WriteUnread ==
  ASSUME WriterTypes, WriterInv, received \in 0 .. Len(written), WriteStep, received' = received
  PROVE  received' \in 0 .. Len(written') /\ Fewer
<1>1. WriterTypes' /\ Advanced
  BY WriteStepAdvances
<1>2. received' \in 0 .. Len(written')
  <2>1. PICK s \in Seq(Byte) : written' = written \o s
    BY <1>1 DEF Advanced
  <2>2. Len(written') = Len(written) + Len(s) /\ Len(s) \in Nat /\ Len(written) \in Nat
    BY <2>1, ConcatProperties, LenProperties DEF WriterTypes
  <2> QED
    BY <2>2
<1>3. Stream \in Seq(Byte) /\ Unread \in Seq(Byte) /\ Len(Unread) = Len(Stream) - received /\ Len(Stream) \in Nat
  BY UnreadParts
<1>4. CASE Kept
  <2>1. Unread' = Unread
    BY <1>4 DEF Kept, Unread
  <2> QED
    BY <1>2, <1>3, <2>1 DEF Fewer
<1>5. CASE Dropped
  <2>1. PICK x \in Seq(Byte), rest \in Seq(Byte) :
          Stream = written' \o (x \o rest) /\ Stream' = written' \o rest
    BY <1>5 DEF Dropped
  <2> DEFINE p == SubSeq(written', received + 1, Len(written'))
             both == x \o rest
  <2>2. written' \in Seq(Byte) /\ received \in 0 .. Len(written')
    BY <1>1, <1>2 DEF WriterTypes
  <2>3. /\ both \in Seq(Byte) /\ ToSet(both) = ToSet(x) \cup ToSet(rest)
        /\ Len(both) = Len(x) + Len(rest) /\ Len(x) \in Nat /\ Len(rest) \in Nat
    BY ConcatElements, ConcatProperties, LenProperties
  <2>4. p \in Seq(Byte) /\ Len(p) \in Nat
    BY <2>2, SplitSeq, LenProperties
  <2> HIDE DEF both
  <2>5. Unread' = p \o rest
    <3>1. SubSeq(written' \o rest, received + 1, Len(written' \o rest)) = p \o rest
      BY <2>2, RestConcat
    <3> QED
      BY <2>1, <3>1 DEF Unread
  <2>6. Unread = p \o both
    <3>1. SubSeq(written' \o both, received + 1, Len(written' \o both)) = p \o both
      BY <2>2, <2>3, RestConcat
    <3>2. Stream = written' \o both
      BY <2>1, Zenon DEF both
    <3> QED
      BY <3>1, <3>2, Zenon DEF Unread
  <2> HIDE DEF p
  <2>7. ToSet(p \o rest) = ToSet(p) \cup ToSet(rest) /\ Len(p \o rest) = Len(p) + Len(rest)
    BY <2>4, ConcatElements, ConcatProperties
  <2>8. ToSet(p \o both) = ToSet(p) \cup ToSet(both) /\ Len(p \o both) = Len(p) + Len(both)
    <3>1. p \in Seq(Byte) /\ both \in Seq(Byte)
      BY <2>3, <2>4
    <3> QED
      BY ONLY <3>1, ConcatElements, ConcatProperties
  <2>9. /\ ToSet(Unread') = ToSet(p) \cup ToSet(rest) /\ Len(Unread') = Len(p) + Len(rest)
        /\ ToSet(Unread) = ToSet(p) \cup ToSet(both) /\ Len(Unread) = Len(p) + Len(both)
    BY <2>5, <2>6, <2>7, <2>8, Zenon
  <2> QED
    BY <1>2, <2>3, <2>4, <2>9 DEF Fewer
<1> QED
  BY <1>1, <1>4, <1>5 DEF Advanced

(* ... QueuePacket appends a message to it, ... *)
LEMMA QueueUnread ==
  ASSUME WriterTypes, received \in 0 .. Len(written), received' = received,
         NEW m \in Message, Queues(m), ~closed
  PROVE  received' \in 0 .. Len(written') /\ Unread' = Unread \o Bytes(m)
<1> DEFINE b == Bytes(m)
<1>1. b \in Seq(Byte)
  BY TwoBytes
<1>2. Stream' = Stream \o b /\ written' = written
  BY QueuesStream
<1>3. Stream \in Seq(Byte) /\ received \in 0 .. Len(Stream)
  BY UnreadParts
<1> HIDE DEF b, Stream
<1>4. SubSeq(Stream \o b, received + 1, Len(Stream \o b)) = SubSeq(Stream, received + 1, Len(Stream)) \o b
  BY <1>1, <1>3, RestConcat
<1>5. Unread' = Unread \o b
  BY <1>2, <1>4, Zenon DEF Unread
<1> QED
  BY <1>2, <1>5 DEF b

(* ... and a receive takes its first bytes. *)
LEMMA ReceiveUnread ==
  ASSUME WriterTypes, received \in 0 .. Len(written), NEW n \in 1 .. Len(written) - received,
         UNCHANGED <<writeQueue, written>>, received' = received + n
  PROVE  /\ received' \in 0 .. Len(written') /\ Unread' \in Seq(Byte)
         /\ SubSeq(written, received + 1, received + n) \in Chunk
         /\ Len(SubSeq(written, received + 1, received + n)) = n
         /\ Unread = SubSeq(written, received + 1, received + n) \o Unread'
<1> DEFINE c == SubSeq(written, received + 1, received + n)
<1>1. Len(written) \in Nat /\ written \in Seq(Byte) /\ \A i \in 1 .. Len(written) : written[i] \in Byte
  BY LenProperties, ElementOfSeq DEF WriterTypes
<1>2. /\ c \in Seq(Byte) /\ Len(c) = n /\ \A i \in 1 .. n : c[i] = written[received + i]
  BY <1>1, SubSeqProperties
<1>3. /\ Stream \in Seq(Byte) /\ Unread \in Seq(Byte) /\ received \in 0 .. Len(Stream)
      /\ Len(Unread) = Len(Stream) - received /\ Len(written) <= Len(Stream) /\ Len(Stream) \in Nat
      /\ \A i \in 1 .. Len(written) : Stream[i] = written[i]
  BY UnreadParts
<1>4. Stream' = Stream
  BY Zenon DEF Stream
<1> HIDE DEF Stream, c
<1>5. received + n \in 0 .. Len(Stream) /\ Unread' = SubSeq(Stream, (received + n) + 1, Len(Stream))
  BY <1>1, <1>3, <1>4 DEF Unread
<1>6. /\ Unread' \in Seq(Byte) /\ Len(Unread') = Len(Stream) - (received + n)
      /\ \A i \in 1 .. Len(Stream) - (received + n) : Unread'[i] = Stream[(received + n) + i]
  BY <1>3, <1>5, SplitSeq
<1>7. \A i \in 1 .. Len(Stream) - received : Unread[i] = Stream[received + i]
  BY <1>3, SplitSeq DEF Unread
<1> DEFINE u == Unread'
           v == c \o u
<1>0. c \in Seq(Byte) /\ u \in Seq(Byte)
  BY <1>2, <1>6
<1> HIDE DEF u
<1>8. /\ v \in Seq(Byte) /\ Len(v) = Len(c) + Len(u)
      /\ \A i \in 1 .. Len(c) + Len(u) : v[i] = IF i <= Len(c) THEN c[i] ELSE u[i - Len(c)]
  BY ONLY <1>0, ConcatProperties
<1>9. Len(u) = Len(Stream) - (received + n) /\ \A i \in 1 .. Len(Stream) - (received + n) : u[i] = Stream[(received + n) + i]
  BY <1>6 DEF u
<1> HIDE DEF v
<1>10. Len(v) = Len(Unread)
  BY <1>2, <1>3, <1>8, <1>9
<1>11. ASSUME NEW i \in 1 .. Len(Unread) PROVE Unread[i] = v[i]
  <2>1. CASE i <= n
    <3>1. received + i \in 1 .. Len(written) /\ i \in 1 .. Len(c) + Len(u) /\ i \in 1 .. Len(Stream) - received
      BY <1>1, <1>2, <1>3, <1>8, <1>10, <2>1
    <3>2. Unread[i] = Stream[received + i] /\ v[i] = c[i] /\ c[i] = written[received + i]
          /\ Stream[received + i] = written[received + i]
      BY <1>2, <1>3, <1>7, <1>8, <2>1, <3>1
    <3> QED
      BY <3>2
  <2>2. CASE i > n
    <3>1. /\ i - n \in 1 .. Len(Stream) - (received + n) /\ (received + n) + (i - n) = received + i
          /\ i \in 1 .. Len(c) + Len(u) /\ i \in 1 .. Len(Stream) - received
      BY <1>1, <1>2, <1>3, <1>8, <1>10, <2>2
    <3>2. Unread[i] = Stream[received + i] /\ v[i] = u[i - n] /\ u[i - n] = Stream[(received + n) + (i - n)]
      BY <1>2, <1>7, <1>8, <1>9, <2>2, <3>1
    <3> QED
      BY <3>1, <3>2
  <2> QED
    BY <1>3, <2>1, <2>2
<1>12. Unread = v
  BY <1>3, <1>8, <1>10, <1>11, SeqEqual
<1>13. c \in Chunk
  <2>1. c # <<>>
    BY <1>2
  <2> QED
    BY <1>2, <2>1 DEF Chunk
<1>14. received' \in 0 .. Len(written')
  BY <1>1
<1> QED
  BY <1>2, <1>6, <1>12, <1>13, <1>14 DEF c, u, v
-----------------------------------------------------------------------------
(* The whole system, step by step *)

(* What the two ends say to each other are messages. *)
LEMMA AreMessages ==
  ASSUME NEW c \in Commands, NEW t \in 0 .. MaxConnections, NEW a \in Names, NEW b \in BOOLEAN
  PROVE  Request(c, t, a) \in Message /\ Reply(c, t, a, b) \in Message
BY DEF Request, Reply, Message

(* The chunk that Dispatch handles. *)
LEMMA FirstMessage ==
  ASSUME TypeOK, tempMessages # <<>>
  PROVE  /\ Head(tempMessages) \in Chunk \cup {<<>>} /\ Tail(tempMessages) \in Seq(Chunk \cup {<<>>})
         /\ Head(tempMessages) # <<>> =>
              Head(tempMessages)[1] \in Byte /\ Head(tempMessages)[1].msg \in Message
         /\ Len(Head(tempMessages)) > 1 => Head(tempMessages) # <<>>
<1>1. Head(tempMessages) \in Chunk \cup {<<>>} /\ Tail(tempMessages) \in Seq(Chunk \cup {<<>>})
  BY HeadTailProperties DEF TypeOK, ManagerTypes
<1>2. Head(tempMessages) # <<>> => Head(tempMessages)[1] \in Byte
  BY <1>1, ElementOfSeq, LenProperties, EmptySeq DEF Chunk
<1>3. Head(tempMessages) # <<>> => Head(tempMessages)[1].msg \in Message
  BY <1>2 DEF Byte
<1>4. Len(<<>>) = 0
  OBVIOUS
<1> QED
  BY <1>1, <1>2, <1>3, <1>4

(* What Dispatch sends, if anything. *)
LogonProofs ==
  \E b \in Seq(Byte) :
    LET reply == Head(tempMessages)[1].msg IN
    /\ reply.cmd = "LogonChallenge" /\ reply.ok
    /\ \/ b = Bytes(Request("LogonProof", reply.tag, account))
       \/ b = <<Bytes(Request("LogonProof", reply.tag, account))[1]>>
    /\ SendAsync(b)
RealmLists ==
  LET reply == Head(tempMessages)[1].msg IN
  /\ reply.cmd = "LogonProof"
  /\ SendAsync(Bytes(Request("RealmList", epoch, account)))

(* What handling a message makes the client send. *)
LEMMA DispatchSends ==
  ASSUME TypeOK, Dispatch
  PROVE  /\ \/ UNCHANGED sendVars
            \/ /\ Len(Head(tempMessages)) > 1 /\ Head(tempMessages)[1].part = 1
               /\ LogonProofs \/ RealmLists
         /\ m2' \in [tag : 0 .. MaxConnections, account : Names]
         /\ dispatching' \in BOOLEAN /\ waiting' \in BOOLEAN /\ short' \in BOOLEAN
<1> DEFINE chunk == Head(tempMessages)
           reply == chunk[1].msg
<1>1. (Len(chunk) > 1 => reply \in Message) /\ account \in Names
  BY FirstMessage DEF Dispatch, TypeOK, ManagerTypes
<1>2. \/ Ignored \/ Raises \/ Answered
      \/ chunk[1].part = 1 /\ Len(chunk) > 1 /\ OnMessage(reply)
  BY Zenon DEF Dispatch
<1>3. /\ m2 \in [tag : 0 .. MaxConnections, account : Names]
      /\ dispatching \in BOOLEAN /\ waiting \in BOOLEAN /\ short \in BOOLEAN
  BY DEF TypeOK, ManagerTypes
<1> HIDE DEF chunk
<1>4. CASE Ignored \/ Raises \/ Answered
  BY <1>3, <1>4 DEF Ignored, Raises, Answered
<1>5. CASE chunk[1].part = 1 /\ Len(chunk) > 1 /\ OnMessage(reply)
  <2>1. CASE reply.cmd = "LogonChallenge" /\ OnLoginResponse(reply)
    <3>1. CASE Answered
      BY <1>4, <3>1
    <3>2. CASE ~Answered
      <4> DEFINE proof == Bytes(Request("LogonProof", reply.tag, account))
      <4>1. /\ reply.ok
            /\ m2' = [tag |-> reply.tag, account |-> account]
            /\ \/ SendAsync(proof) /\ UNCHANGED short
               \/ ~short /\ SendAsync(<<proof[1]>>) /\ short' = TRUE
            /\ UNCHANGED <<dispatching, waiting>>
        BY <2>1, <3>2, Zenon DEF OnLoginResponse
      <4>2. m2' \in [tag : 0 .. MaxConnections, account : Names]
        BY <1>1, <1>5, <4>1 DEF Message, Names
      <4>3. Request("LogonProof", reply.tag, account) \in Message
        BY <1>1, <1>5, AreMessages DEF Message, Commands
      <4>4. proof \in Seq(Byte) /\ <<proof[1]>> \in Seq(Byte)
        BY <4>3, TwoBytes
      <4> HIDE DEF proof
      <4>5. \E b \in Seq(Byte) : (b = proof \/ b = <<proof[1]>>) /\ SendAsync(b)
        BY <4>1, <4>4, Zenon
      <4>6. LogonProofs
        BY <2>1, <4>1, <4>5, Zenon DEF LogonProofs, proof, chunk
      <4> QED
        BY <1>3, <1>5, <4>1, <4>2, <4>6 DEF chunk
    <3> QED
      BY <3>1, <3>2
  <2>2. CASE reply.cmd = "LogonProof" /\ OnLogonProofResponse(reply)
    <3>1. CASE Answered
      BY <1>4, <3>1
    <3>2. CASE ~Answered
      <4>1. /\ SendAsync(Bytes(Request("RealmList", epoch, account)))
            /\ UNCHANGED <<m2, dispatching, waiting, short>>
        BY <2>2, <3>2, Zenon DEF OnLogonProofResponse
      <4>2. RealmLists
        BY <2>2, <4>1, Zenon DEF RealmLists, chunk
      <4> QED
        BY <1>3, <1>5, <4>1, <4>2 DEF chunk
    <3> QED
      BY <3>1, <3>2
  <2>3. CASE reply.cmd = "RealmList" /\ Answered
    BY <1>4, <2>3
  <2> QED
    BY <1>5, <2>1, <2>2, <2>3, Zenon DEF OnMessage
<1> QED
  BY <1>2, <1>4, <1>5 DEF chunk

(* Each step is one of the client's, or none. *)
LEMMA NextIsClientStep ==
  ASSUME TypeOK, Next
  PROVE  ClientStep \/ UNCHANGED clientVars
<1>1. CASE Connect
  BY <1>1, Zenon DEF Connect, ClientStep
<1>2. CASE Accept \/ Refuse
  BY <1>2 DEF Accept, Refuse, ClientStep
<1>3. CASE ConnectionReset
  BY <1>3 DEF ConnectionReset
<1>4. CASE Server
  <2>1. CASE CheckIpCallback \/ ServerReceives \/ ServerReadFails \/ QueryReturns \/ ServerWrites
    BY <2>1 DEF CheckIpCallback, ServerReceives, ServerReadFails, QueryReturns, ServerWrites
  <2>2. CASE ReadHandler
    BY <2>2, Zenon DEF ReadHandler
  <2> QED
    BY <1>4, <2>1, <2>2 DEF Server
<1>5. ASSUME NEW e \in 1 .. MaxConnections, Opens(e) PROVE ClientStep
  BY <1>5, Zenon DEF Opens, ClientStep
<1>6. CASE Receives \/ Send
  BY <1>6, Zenon DEF Receives, Send, ClientStep
<1>7. CASE SendFails
  <2>1. StartsLeaving("send")
    BY <1>7 DEF SendFails, StartsLeaving, TypeOK, ClientTypes, receiveVars
  <2> QED
    BY <2>1 DEF ClientStep, Completions
<1>8. CASE Receive \/ Stored
  <2>1. Reads
    <3>1. CASE Receive
      BY <3>1 DEF Receive, Reads, TypeOK, ClientTypes
    <3>2. CASE Stored
      BY <3>2 DEF Stored, Reads, TypeOK, ClientTypes
    <3> QED
      BY <1>8, <3>1, <3>2
  <2> QED
    BY <2>1 DEF ClientStep
<1>9. CASE ReceiveEnds
  <2>1. StartsLeaving("receive")
    BY <1>9 DEF ReceiveEnds, StartsLeaving, sendVars
  <2> QED
    BY <2>1 DEF ClientStep, Completions
<1>10. ASSUME NEW t \in Completions, Returns(t) \/ Disconnects(t) \/ Disconnected(t)
       PROVE  ClientStep
  BY <1>10, Zenon DEF Returns, Disconnects, Disconnected, ClientStep
<1>11. ASSUME NEW a \in Accounts, UserLogsIn(a)
       PROVE  ClientStep
  <2> DEFINE m == Request("LogonChallenge", epoch, a)
  <2>1. m \in Message
    BY AreMessages DEF TypeOK, ClientTypes, Commands, Names
  <2>2. Bytes(m) \in Seq(Byte)
    BY <2>1, TwoBytes
  <2>3. Sends(Bytes(m))
    BY <1>11, Zenon DEF UserLogsIn, Login, Sends
  <2> QED
    BY <2>2, <2>3, Zenon DEF ClientStep
<1>12. CASE Frame
  <2>1. CASE SendBuffered
    BY <2>1 DEF ClientStep
  <2>2. CASE ~SendBuffered
    <3>1. /\ FrameTakes \/ FrameStores \/ Dispatch
          /\ UNCHANGED <<isConnected, isConnecting, connectionVars, receiveVars>>
      BY <1>12, <2>2, Zenon DEF Frame
    <3>2. CASE UNCHANGED sendVars
      BY <3>1, <3>2 DEF clientVars
    <3>3. ASSUME NEW b \in Seq(Byte), SendAsync(b) PROVE ClientStep
      BY <3>1, <3>3, Zenon DEF ClientStep, Sends
    <3>4. CASE FrameTakes \/ FrameStores
      BY <3>2, <3>4, Zenon DEF FrameTakes, FrameStores
    <3>5. CASE Dispatch
      <4>1. UNCHANGED sendVars \/ LogonProofs \/ RealmLists
        BY <3>5, DispatchSends
      <4>2. CASE LogonProofs
        BY <3>3, <4>2, Zenon DEF LogonProofs
      <4>3. CASE RealmLists
        <5>1. Request("RealmList", epoch, account) \in Message
          BY AreMessages DEF TypeOK, ClientTypes, ManagerTypes, Commands
        <5>2. Bytes(Request("RealmList", epoch, account)) \in Seq(Byte)
          BY <5>1, TwoBytes
        <5> QED
          BY <3>3, <4>3, <5>2, Zenon DEF RealmLists
      <4> QED
        BY <3>2, <4>1, <4>2, <4>3
    <3> QED
      BY <3>1, <3>4, <3>5
  <2> QED
    BY <2>1, <2>2
<1> QED
  BY <1>1, <1>2, <1>3, <1>4, <1>5, <1>6, <1>7, <1>8, <1>9, <1>10, <1>11, <1>12, Zenon
  DEF Next, ClientThreads

(* What a turn of ReadHandler does. *)
Leaves == \E b \in Buffer :
  /\ b = readBuffer \/ b = Reset(readBuffer)
  /\ Len(b.active) < 2 /\ Leave(b)
HandlesChallenge(request) ==
  /\ request.cmd = "LogonChallenge" /\ status = "Challenge"
  /\ status' = "Closed" /\ sessionAccount' \in Names
  /\ \E m \in Message : callback' = <<m>> /\ m.cmd = "LogonChallenge" /\ m.tag = epoch
  /\ UNCHANGED <<writeQueue, queued, isWritingAsync>>
HandlesProof(request) ==
  /\ request.cmd = "LogonProof" /\ status = "LogonProof"
  /\ status' \in {"Authed", "Closed"}
  /\ \E m \in Message : QueuePacket(Bytes(m)) /\ m.cmd = "LogonProof" /\ m.tag = epoch
  /\ UNCHANGED <<sessionAccount, callback>>
HandlesRealmList(request) ==
  /\ request.cmd = "RealmList" /\ status = "Authed"
  /\ status' = "WaitingForRealmList"
  /\ \E m \in Message : callback' = <<m>> /\ m.cmd = "RealmList" /\ m.tag = epoch
  /\ UNCHANGED <<sessionAccount, writeQueue, queued, isWritingAsync>>
Handles ==
  /\ Len(readBuffer.active) >= 2 /\ readBuffer.active[1].part = 1
  /\ LET request == readBuffer.active[1].msg IN
     HandlesChallenge(request) \/ HandlesProof(request) \/ HandlesRealmList(request)
  /\ readBuffer' = ReadCompleted(readBuffer, 2)
  /\ UNCHANGED <<closed, reading, handling>>

(* Each of the three handlers takes one of these forms, ... *)
LEMMA HandleForms ==
  ASSUME TypeOK, NEW request \in Message, NEW intact,
         Accepts[request.cmd] = status, Handle(request, intact)
  PROVE  HandlesChallenge(request) \/ HandlesProof(request) \/ HandlesRealmList(request)
<1>1. epoch \in 0 .. MaxConnections /\ sessionAccount \in Names
  BY DEF TypeOK, ClientTypes, SessionTypes
<1>2. CASE request.cmd = "LogonChallenge"
  <2> DEFINE m == Reply("LogonChallenge", epoch, request.account, request.account \in Registered)
  <2>1. m \in Message /\ m.cmd = "LogonChallenge" /\ m.tag = epoch
    BY <1>1 DEF Message, Commands, Reply
  <2>2. /\ status' = "Closed" /\ sessionAccount' = request.account /\ callback' = <<m>>
        /\ UNCHANGED <<writeQueue, queued, isWritingAsync>>
    BY <1>2, Zenon DEF Handle
  <2>3. request.account \in Names /\ status = "Challenge"
    BY <1>2 DEF Message, Accepts
  <2> HIDE DEF m
  <2> QED
    BY <1>2, <2>1, <2>2, <2>3, Zenon DEF HandlesChallenge
<1>3. CASE request.cmd = "LogonProof"
  <2>1. status = "LogonProof"
    BY <1>3 DEF Accepts
  <2> DEFINE right == intact /\ request.tag = epoch /\ request.account = sessionAccount
             m == Reply("LogonProof", epoch, sessionAccount, right)
  <2>2. m \in Message /\ m.cmd = "LogonProof" /\ m.tag = epoch
    BY <1>1 DEF Message, Commands, Reply
  <2>3. /\ status' = IF right THEN "Authed" ELSE "Closed"
        /\ QueuePacket(Bytes(m)) /\ UNCHANGED <<sessionAccount, callback>>
    BY <1>3, Zenon DEF Handle
  <2> HIDE DEF m, right
  <2>4. status' \in {"Authed", "Closed"}
    BY <2>3
  <2> QED
    BY <1>3, <2>1, <2>2, <2>3, <2>4, Zenon DEF HandlesProof
<1>4. CASE request.cmd = "RealmList"
  <2>1. status = "Authed"
    BY <1>4 DEF Accepts
  <2> DEFINE m == Reply("RealmList", epoch, sessionAccount, TRUE)
  <2>2. m \in Message /\ m.cmd = "RealmList" /\ m.tag = epoch
    BY <1>1 DEF Message, Commands, Reply
  <2>3. /\ status' = "WaitingForRealmList" /\ callback' = <<m>>
        /\ UNCHANGED <<sessionAccount, writeQueue, queued, isWritingAsync>>
    BY <1>4, Zenon DEF Handle
  <2> HIDE DEF m
  <2> QED
    BY <1>4, <2>1, <2>2, <2>3, Zenon DEF HandlesRealmList
<1> QED
  BY <1>2, <1>3, <1>4 DEF Message, Commands

(* ... and so does each turn of the loop. *)
LEMMA ReadHandlerForms ==
  ASSUME TypeOK, ReadHandler
  PROVE  /\ handling /\ (Leaves \/ CloseSocket \/ Handles)
         /\ UNCHANGED <<build, written, lost, stalls, errors, clientVars, managerVars, checking, banned, taken, linkVars>>
<1> DEFINE bytes == readBuffer.active
<1>1. /\ handling
      /\ \/ bytes = <<>> /\ Leave(readBuffer)
         \/ bytes # <<>> /\ bytes[1].part = 2 /\ (Leave(Reset(readBuffer)) \/ CloseSocket)
         \/ CloseSocket
         \/ /\ bytes # <<>> /\ bytes[1].part = 1 /\ Accepts[bytes[1].msg.cmd] = status
            /\ \/ Len(bytes) < 2 /\ Leave(readBuffer)
               \/ /\ Len(bytes) >= 2
                  /\ Handle(bytes[1].msg, bytes[2] = [bytes[1] EXCEPT !.part = 2])
                  /\ readBuffer' = ReadCompleted(readBuffer, 2)
                  /\ UNCHANGED <<closed, reading, handling>>
      /\ UNCHANGED <<build, written, lost, stalls, errors, clientVars, managerVars, checking, banned, taken, linkVars>>
  BY Zenon DEF ReadHandler
<1>2. readBuffer \in Buffer /\ bytes \in Seq(Byte) /\ readBuffer.size \in Nat
  BY DEF TypeOK, SocketTypes, Buffer
<1>3. Reset(readBuffer) \in Buffer /\ Reset(readBuffer).active = <<>>
  BY <1>2, EmptySeq DEF Reset, Buffer
<1>4. Len(<<>>) = 0
  OBVIOUS
<1>5. CASE bytes = <<>> /\ Leave(readBuffer)
  BY <1>1, <1>2, <1>4, <1>5 DEF Leaves
<1>6. CASE Len(bytes) < 2 /\ Leave(readBuffer)
  BY <1>1, <1>2, <1>6 DEF Leaves
<1>7. CASE Leave(Reset(readBuffer))
  BY <1>1, <1>3, <1>4, <1>7 DEF Leaves
<1>8. CASE /\ bytes # <<>> /\ bytes[1].part = 1 /\ Accepts[bytes[1].msg.cmd] = status
           /\ Len(bytes) >= 2
           /\ Handle(bytes[1].msg, bytes[2] = [bytes[1] EXCEPT !.part = 2])
           /\ readBuffer' = ReadCompleted(readBuffer, 2)
           /\ UNCHANGED <<closed, reading, handling>>
  <2> DEFINE request == bytes[1].msg
  <2>1. request \in Message
    <3>1. Len(bytes) \in Nat /\ bytes[1] \in Byte
      BY <1>2, <1>8, LenProperties, ElementOfSeq
    <3> QED
      BY <3>1 DEF Byte
  <2>2. HandlesChallenge(request) \/ HandlesProof(request) \/ HandlesRealmList(request)
    BY <1>8, <2>1, HandleForms
  <2> QED
    BY <1>1, <1>8, <2>2, Zenon DEF Handles
<1> QED
  BY <1>1, <1>5, <1>6, <1>7, <1>8, Zenon

(* Each step does to the queue what a WriterStep does. *)
LEMMA NextIsWriterStep ==
  ASSUME TypeOK, Next
  PROVE  WriterStep
<1>0. closed \in BOOLEAN
  BY DEF TypeOK, SocketTypes
<1>1. CASE Connect
  BY <1>1 DEF Connect, WriterStep, Cleared
<1>2. CASE Accept
  BY <1>2 DEF Accept, Open, WriterStep, Cleared
<1>3. CASE UNCHANGED socketVars
  BY <1>0, <1>3 DEF socketVars, WriterStep, Rests
<1>4. CASE ServerReceives \/ ServerReadFails
  BY <1>0, <1>4 DEF ServerReceives, ServerReadFails, WriterStep, Rests
<1>5. CASE ReadHandler
  <2>1. /\ Leaves \/ CloseSocket \/ Handles
        /\ UNCHANGED <<build, written, lost, stalls, errors>>
    BY <1>5, ReadHandlerForms
  <2>2. CASE Leaves \/ CloseSocket
    BY <1>0, <2>1, <2>2 DEF Leaves, Leave, CloseSocket, WriterStep, Rests
  <2>3. CASE Handles
    <3> DEFINE request == readBuffer.active[1].msg
    <3>1. /\ HandlesChallenge(request) \/ HandlesProof(request) \/ HandlesRealmList(request)
          /\ UNCHANGED closed
      BY <2>3, Zenon DEF Handles
    <3>2. CASE UNCHANGED <<writeQueue, queued, isWritingAsync>>
      BY <1>0, <2>1, <3>1, <3>2 DEF WriterStep, Rests
    <3>3. ASSUME NEW m \in Message, QueuePacket(Bytes(m)) PROVE WriterStep
      BY <2>1, <3>1, <3>3, Zenon DEF WriterStep, Queues
    <3> QED
      BY <3>1, <3>2, <3>3, Zenon DEF HandlesChallenge, HandlesProof, HandlesRealmList
  <2> QED
    BY <2>1, <2>2, <2>3
<1>6. CASE QueryReturns
  <2>1. Head(callback) \in Message
    BY <1>6, HeadTailProperties DEF QueryReturns, TypeOK, SessionTypes
  <2>2. Queues(Head(callback))
    BY <1>6, Zenon DEF QueryReturns, Queues
  <2> QED
    BY <2>1, <2>2, Zenon DEF WriterStep
<1>7. CASE ServerWrites
  BY <1>7, Zenon DEF ServerWrites, WriterStep
<1>8. CASE CheckIpCallback
  <2> DEFINE m == Reply("LogonChallenge", epoch, NoAccount, FALSE)
  <2>1. m \in Message
    BY AreMessages DEF TypeOK, ClientTypes, Commands, Names
  <2> HIDE DEF m
  <2>2. CASE AsyncRead(readBuffer) /\ UNCHANGED <<banned, writeQueue, queued, isWritingAsync>>
    BY <1>0, <1>8, <2>2 DEF CheckIpCallback, WriterStep, Rests
  <2>3. CASE QueuePacket(Bytes(m))
    <3>1. Queues(m)
      BY <1>8, <2>3, Zenon DEF CheckIpCallback, Queues
    <3> QED
      BY <2>1, <3>1, Zenon DEF WriterStep
  <2> QED
    BY <1>8, <2>2, <2>3, Zenon DEF CheckIpCallback, m
<1>9. CASE Refuse \/ ConnectionReset \/ Frame \/ ClientThreads
           \/ (\E a \in Accounts : UserLogsIn(a))
  <2>1. UNCHANGED socketVars
    BY <1>9, Zenon DEF Refuse, ConnectionReset, Frame, UserLogsIn, ClientThreads, Opens, Receives, Send,
       SendFails, Receive, Stored, ReceiveEnds, Returns, Disconnects, Disconnected, Elsewhere
  <2> QED
    BY <1>3, <2>1
<1> QED
  BY <1>1, <1>2, <1>4, <1>5, <1>6, <1>7, <1>8, <1>9, Zenon DEF Next, Server

-----------------------------------------------------------------------------
(* The server's read buffer and its session *)

(* How many of the client's bytes the server has handled. *)
Handled == taken - Len(readBuffer.active)

(* What is in the buffer came from the client, in order; the loop of         *)
(* ReadHandler runs while no read is outstanding; and a query is under way  *)
(* only in the status in which its reply is awaited.                         *)
ReaderInv ==
  /\ BufferStaysSmall
  /\ handling => ~reading
  /\ Handled >= 0
  /\ \A i \in DOMAIN readBuffer.active : readBuffer.active[i] = sent[Handled + i]
SessionInv ==
  /\ Len(callback) <= 1
  /\ callback # <<>> =>
       /\ callback[1].tag = epoch
       /\ \/ callback[1].cmd = "LogonChallenge" /\ status = "Closed"
          \/ callback[1].cmd = "RealmList" /\ status = "WaitingForRealmList"

(* Nothing is read before the address was found good, and never if it is not. *)
Gate ==
  /\ checking => ~banned /\ readBuffer = EmptyBuffer
  /\ checking \/ banned => ~reading /\ ~handling /\ callback = <<>> /\ status = "Challenge"

(* Nothing has happened yet on a connection that is not made. *)
Quiet ==
  connect = "pending" =>
    /\ closed /\ ~reading /\ ~handling /\ ~isWritingAsync
    /\ writeQueue = <<>> /\ written = <<>> /\ queued = <<>> /\ ~lost
    /\ status = "Closed" /\ ~checking /\ ~banned /\ callback = <<>>
    /\ taken = 0 /\ readBuffer = EmptyBuffer
    /\ sent = <<>> /\ received = 0

(* What the client sends is appended, except that a new connection starts    *)
(* anew; and it goes to a connection that is made.                           *)
LEMMA ClientSends ==
  ASSUME TypeOK, ClientStep \/ UNCHANGED clientVars
  PROVE  \/ ConnectAsync
         \/ /\ \E s \in Seq(Byte) : sent' = sent \o s
            /\ epoch' = epoch
            /\ connect' = "pending" => connect = "pending" /\ UNCHANGED <<sent, received>>
<1> DEFINE Goal == /\ \E s \in Seq(Byte) : sent' = sent \o s
                   /\ epoch' = epoch
                   /\ connect' = "pending" => connect = "pending" /\ UNCHANGED <<sent, received>>
<1>1. sent \in Seq(Byte) /\ flush \in Seq(Byte)
  BY DEF TypeOK, ClientTypes
<1>2. ASSUME sent' = sent PROVE \E s \in Seq(Byte) : sent' = sent \o s
  <2>1. <<>> \in Seq(Byte) /\ sent \o <<>> = sent
    BY <1>1, Assoc
  <2> QED
    BY <1>2, <2>1
<1>3. CASE SystemSends
  <2>1. PICK n \in 1 .. Len(flush) : sent' = sent \o SubSeq(flush, 1, n)
    BY <1>3 DEF SystemSends
  <2>2. n \in 0 .. Len(flush)
    BY <1>1, LenProperties
  <2>3. SubSeq(flush, 1, n) \in Seq(Byte)
    BY <1>1, <2>2, SplitSeq
  <2>4. connect' = "open" /\ epoch' = epoch
    BY <1>3 DEF SystemSends
  <2> QED
    BY <2>1, <2>3, <2>4
<1>4. /\ sent' = sent /\ received' = received /\ epoch' = epoch
      /\ connect' = "pending" => connect = "pending"
      => Goal
  BY <1>2
<1> HIDE DEF Goal
<1>5. ASSUME NEW b \in BOOLEAN, ConnectCompletes(b) PROVE Goal
  BY <1>4, <1>5 DEF ConnectCompletes, sendVars, receiveVars
<1>6. ASSUME NEW e \in 1 .. MaxConnections, ProcessConnect(e) PROVE Goal
  BY <1>4, <1>6 DEF ProcessConnect, sendVars
<1>7. CASE TryReceive \/ SendBuffered \/ ProcessSend
  <2>1. sent' = sent /\ received' = received /\ epoch' = epoch /\ (connect' = "pending" => connect = "pending")
    BY <1>7 DEF TryReceive, SendBuffered, ProcessSend, connectionVars, receiveVars, sendVars
  <2> QED
    BY <1>4, <2>1 DEF Goal
<1>8. ASSUME NEW b \in Seq(Byte), Sends(b) PROVE Goal
  BY <1>4, <1>8 DEF Sends, SendAsync, connectionVars, receiveVars
<1>9. ASSUME NEW t \in Completions,
             StartsLeaving(t) \/ DisconnectCloses(t) \/ DisconnectClears(t) \/ CompletionReturns(t)
      PROVE  Goal
  <2>1. sent' = sent /\ received' = received /\ epoch' = epoch /\ connect' \in {connect, "closed"}
    BY <1>9 DEF StartsLeaving, DisconnectCloses, DisconnectClears, CompletionReturns, sendVars, receiveVars
  <2>2. connect' = "pending" => connect = "pending"
    BY <2>1
  <2> QED
    BY <1>4, <2>1, <2>2
<1>10. CASE Reads
  <2>1. UNCHANGED <<sent, epoch, connect>> /\ (received' = received \/ connect = "open")
    BY <1>10 DEF Reads, connectionVars, sendVars
  <2> QED
    BY <1>2, <2>1 DEF Goal
<1>11. CASE UNCHANGED clientVars
  <2>1. sent' = sent /\ received' = received /\ epoch' = epoch /\ (connect' = "pending" => connect = "pending")
    BY <1>11 DEF clientVars, connectionVars, sendVars, receiveVars
  <2> QED
    BY <1>4, <2>1 DEF Goal
<1> QED
  BY <1>3, <1>5, <1>6, <1>7, <1>8, <1>9, <1>10, <1>11 DEF ClientStep, Goal

(* Nothing but Connect begins a connection. *)
LEMMA OnlyConnectConnects ==
  ASSUME TypeOK, Next, ConnectAsync
  PROVE  Connect
<1>1. epoch' = epoch + 1 /\ epoch' # epoch
  BY DEF ConnectAsync, TypeOK, ClientTypes
<1>2. CASE Accept \/ Refuse
  BY <1>1, <1>2 DEF Accept, Refuse, ConnectCompletes
<1>3. CASE ConnectionReset \/ Server
  <2>1. UNCHANGED clientVars
    BY <1>3, Zenon DEF ConnectionReset, Server, CheckIpCallback, ServerReceives, ServerReadFails, ReadHandler,
       QueryReturns, ServerWrites
  <2> QED
    BY <1>1, <2>1 DEF clientVars, connectionVars
<1>4. CASE ClientThreads
  BY <1>1, <1>4 DEF ClientThreads, Opens, Receives, Send, SystemSends, ProcessSend, SendFails, Receive, Stored,
     ReceiveEnds, Returns, Disconnects, Disconnected, ProcessConnect, TryReceive, CompletionReturns,
     DisconnectCloses, DisconnectClears, connectionVars
<1>5. CASE (\E a \in Accounts : UserLogsIn(a)) \/ Frame
  BY <1>1, <1>5 DEF UserLogsIn, Frame, SendBuffered, connectionVars
<1> QED
  BY <1>2, <1>3, <1>4, <1>5, Zenon DEF Next

(* What the client's threads and the user do is not the server's. *)
LEMMA ElsewhereRests ==
  ASSUME ClientThreads \/ (\E a \in Accounts : UserLogsIn(a)) \/ Frame
  PROVE  UNCHANGED <<socketVars, sessionVars, linkVars>>
BY Zenon DEF ClientThreads, Opens, Receives, Send, SendFails, Receive, Stored, ReceiveEnds, Returns, Disconnects,
   Disconnected, UserLogsIn, Frame, Elsewhere

(* Nothing happens on a connection that is not made. *)
LEMMA NextKeepsQuiet ==
  ASSUME TypeOK, Quiet, Next
  PROVE  Quiet'
<1>1. CASE Connect
  BY <1>1 DEF Connect, ConnectAsync, Quiet
<1>2. CASE ~Connect
  <2> SUFFICES ASSUME connect' = "pending" PROVE Quiet'
    BY DEF Quiet
  <2>1. connect = "pending" /\ UNCHANGED <<sent, received>>
    BY <1>2, OnlyConnectConnects, NextIsClientStep, ClientSends
  <2>2. /\ closed /\ ~reading /\ ~handling /\ ~isWritingAsync
        /\ writeQueue = <<>> /\ callback = <<>> /\ ~checking
    BY <2>1 DEF Quiet
  <2>3. CASE UNCHANGED <<socketVars, sessionVars>>
    BY <2>1, <2>3 DEF Quiet, socketVars, sessionVars
  <2>4. ~ConnectionReset /\ ~Accept
    BY <2>1 DEF ConnectionReset, Accept, ConnectCompletes
  <2>5. ~CheckIpCallback /\ ~ServerReceives /\ ~ServerReadFails /\ ~ReadHandler /\ ~QueryReturns
    BY <2>2 DEF CheckIpCallback, ServerReceives, ServerReadFails, ReadHandler, QueryReturns
  <2>6. ~ServerWrites
    BY <2>2 DEF ServerWrites, WriteStep, Update, WriteHandlerWrapper, WriteHandler, WriteHandlerError
  <2>7. CASE Refuse
    BY <2>3, <2>7 DEF Refuse
  <2> QED
    BY <1>2, <2>3, <2>4, <2>5, <2>6, <2>7, ElsewhereRests DEF Next, Server
<1> QED
  BY <1>1, <1>2

(* What is in the read buffer stays there while nobody reads or handles. *)
LEMMA SameReader ==
  ASSUME TypeOK, ReaderInv, NEW s \in Seq(Byte), sent' = sent \o s, UNCHANGED <<readBuffer, taken>>
  PROVE  /\ taken' <= Len(sent') /\ (Handled >= 0)'
         /\ (\A i \in DOMAIN readBuffer.active : readBuffer.active[i] = sent[Handled + i])'
<1>1. /\ readBuffer.active \in Seq(Byte) /\ sent \in Seq(Byte) /\ taken \in Nat /\ taken <= Len(sent)
  BY DEF TypeOK, SocketTypes, Buffer, ClientTypes, SessionTypes
<1>2. /\ DOMAIN readBuffer.active = 1 .. Len(readBuffer.active) /\ Len(readBuffer.active) \in Nat
      /\ Len(sent) \in Nat /\ Len(s) \in Nat
  BY <1>1, LenProperties
<1>3. Len(sent') = Len(sent) + Len(s) /\ \A i \in 1 .. Len(sent) : sent'[i] = sent[i]
  BY <1>1, <1>2, ConcatProperties
<1>4. Handled' = Handled /\ Handled >= 0 /\ Handled \in Int
  BY <1>1, <1>2 DEF Handled, ReaderInv
<1>5. ASSUME NEW i \in DOMAIN readBuffer.active PROVE readBuffer'.active[i] = sent'[Handled + i]
  <2>1. Handled + i \in 1 .. Len(sent)
    BY <1>1, <1>2, <1>4 DEF Handled
  <2> QED
    BY <1>3, <2>1 DEF ReaderInv
<1> QED
  <2>1. taken' <= Len(sent')
    BY <1>1, <1>2, <1>3
  <2>2. readBuffer' = readBuffer /\ (Handled >= 0)'
    BY <1>4
  <2>3. (\A i \in DOMAIN readBuffer.active : readBuffer.active[i] = sent[Handled + i])'
    BY <1>4, <1>5, <2>2
  <2> QED
    BY <2>1, <2>2, <2>3

(* The read buffer, through the reads, the loop of ReadHandler and Normalize. *)
LEMMA NextKeepsReader ==
  ASSUME TypeOK, ReaderInv, Gate, Quiet, Next
  PROVE  /\ readBuffer' \in Buffer /\ reading' \in BOOLEAN /\ handling' \in BOOLEAN
         /\ taken' \in Nat /\ taken' <= Len(sent') /\ ReaderInv'
<1> DEFINE Goal == /\ readBuffer' \in Buffer /\ reading' \in BOOLEAN /\ handling' \in BOOLEAN
                   /\ taken' \in Nat /\ taken' <= Len(sent') /\ ReaderInv'
<1>1. /\ readBuffer \in Buffer /\ readBuffer.active \in Seq(Byte) /\ readBuffer.rpos \in Nat
      /\ readBuffer.size = ReadBlock /\ reading \in BOOLEAN /\ handling \in BOOLEAN
      /\ sent \in Seq(Byte) /\ taken \in Nat /\ taken <= Len(sent)
  BY DEF TypeOK, SocketTypes, Buffer, ClientTypes, SessionTypes, ReaderInv, BufferStaysSmall
<1>2. /\ DOMAIN readBuffer.active = 1 .. Len(readBuffer.active) /\ Len(readBuffer.active) \in Nat
      /\ Len(sent) \in Nat /\ Len(<<>>) = 0 /\ <<>> \in Seq(Byte)
  BY <1>1, LenProperties
<1>3. EmptyBuffer \in Buffer /\ EmptyBuffer.active = <<>> /\ EmptyBuffer.size = ReadBlock /\ EmptyBuffer.rpos = 0
  BY <1>2 DEF EmptyBuffer, Buffer
<1>4. CASE Connect
  <2>1. readBuffer' = EmptyBuffer /\ taken' = 0 /\ reading' = FALSE /\ handling' = FALSE /\ sent' = <<>>
    BY <1>4 DEF Connect, ConnectAsync
  <2>2. \A i \in DOMAIN <<>> : FALSE
    OBVIOUS
  <2>3. Handled' = 0 /\ readBuffer'.active = <<>>
    BY <1>2, <1>3, <2>1 DEF Handled
  <2>4. ReaderInv'
    BY <1>3, <2>1, <2>2, <2>3 DEF ReaderInv, BufferStaysSmall
  <2>5. taken' \in Nat /\ taken' <= Len(sent')
    BY <1>2, <2>1
  <2> QED
    BY <1>3, <2>1, <2>4, <2>5
<1>5. CASE Accept
  <2>1. /\ readBuffer' = EmptyBuffer /\ reading' = FALSE /\ UNCHANGED <<taken, handling, sent>>
        /\ taken = 0 /\ ~handling
    BY <1>5 DEF Accept, Open, ConnectCompletes, sendVars, Quiet
  <2>2. Handled' = 0 /\ readBuffer'.active = <<>>
    BY <1>2, <1>3, <2>1 DEF Handled
  <2>3. \A i \in DOMAIN <<>> : FALSE
    OBVIOUS
  <2>4. ReaderInv'
    BY <1>3, <2>1, <2>2, <2>3 DEF ReaderInv, BufferStaysSmall
  <2> QED
    BY <1>1, <1>3, <2>1, <2>4
<1>6. CASE ServerReceives
  <2>1. PICK n \in 1 .. GetRemainingSpace(readBuffer) :
          /\ taken + n <= Len(sent)
          /\ readBuffer' = WriteCompleted(readBuffer, SubSeq(sent, taken + 1, taken + n))
          /\ taken' = taken + n
    BY <1>6, Zenon DEF ServerReceives
  <2> DEFINE c == SubSeq(sent, taken + 1, taken + n)
             a == readBuffer.active
             both == a \o c
  <2>2. reading' = FALSE /\ handling' = TRUE /\ sent' = sent
    BY <1>6 DEF ServerReceives, clientVars, sendVars
  <2>3. n \in Nat /\ n > 0
    BY <1>1, <1>2, <2>1 DEF GetRemainingSpace
  <2>4. \A i \in 1 .. Len(sent) : sent[i] \in Byte
    BY <1>1, ElementOfSeq
  <2>5. c \in Seq(Byte) /\ Len(c) = n /\ \A i \in 1 .. n : c[i] = sent[taken + i]
    <3>1. taken + 1 \in 1 .. Len(sent) + 1 /\ taken + n \in taken .. Len(sent) /\ (taken + n) - (taken + 1) + 1 = n
      BY <1>1, <1>2, <2>1, <2>3
    <3> QED
      BY <1>1, <1>2, <2>1, <2>3, <2>4, <3>1, SubSeqProperties
  <2> HIDE DEF c
  <2>6. /\ both \in Seq(Byte) /\ Len(both) = Len(a) + n /\ DOMAIN both = 1 .. Len(a) + n
        /\ \A i \in 1 .. Len(a) + n : both[i] = IF i <= Len(a) THEN a[i] ELSE c[i - Len(a)]
    <3>1. a \in Seq(Byte) /\ c \in Seq(Byte)
      BY <1>1, <2>5
    <3>2. /\ both \in Seq(Byte) /\ Len(both) = Len(a) + Len(c)
          /\ \A i \in 1 .. Len(a) + Len(c) : both[i] = IF i <= Len(a) THEN a[i] ELSE c[i - Len(a)]
      BY ONLY <3>1, ConcatProperties
    <3>3. DOMAIN both = 1 .. Len(both)
      BY <3>2, LenProperties
    <3> HIDE DEF both
    <3> QED
      BY <2>5, <3>2, <3>3
  <2>7. readBuffer' = [readBuffer EXCEPT !.active = both]
    BY <2>1, Zenon DEF WriteCompleted, c
  <2> HIDE DEF both
  <2>8. readBuffer' \in Buffer /\ readBuffer'.active = both /\ readBuffer'.size = ReadBlock
    BY <1>1, <2>6, <2>7 DEF Buffer
  <2>9. Handled' = Handled /\ Handled >= 0 /\ Handled \in Int
    <3>1. Handled' = (taken + n) - Len(both) /\ Len(both) = Len(a) + n
      BY <2>1, <2>6, <2>8 DEF Handled
    <3>2. Handled = taken - Len(a)
      BY DEF Handled
    <3>3. Handled >= 0
      BY DEF ReaderInv
    <3> QED
      BY <1>1, <1>2, <2>3, <3>1, <3>2, <3>3
  <2>10. ASSUME NEW i \in 1 .. Len(a) + n PROVE both[i] = sent[Handled + i]
    <3>1. CASE i <= Len(a)
      BY <1>2, <2>6, <3>1 DEF ReaderInv
    <3>2. CASE i > Len(a)
      <4>1. i - Len(a) \in 1 .. n /\ taken + (i - Len(a)) = Handled + i
        BY <1>1, <1>2, <2>3, <3>2 DEF Handled
      <4>2. both[i] = c[i - Len(a)] /\ c[i - Len(a)] = sent[taken + (i - Len(a))]
        BY <1>2, <2>5, <2>6, <3>2, <4>1
      <4> QED
        BY <4>1, <4>2
    <3> QED
      BY <1>2, <2>3, <3>1, <3>2
  <2>11. ReaderInv'
    BY <2>2, <2>6, <2>8, <2>9, <2>10 DEF ReaderInv, BufferStaysSmall
  <2>12. taken' \in Nat /\ taken' <= Len(sent')
    BY <1>1, <2>1, <2>2, <2>3
  <2> QED
    BY <2>2, <2>8, <2>11, <2>12
<1>7. CASE ServerReadFails
  <2>1. UNCHANGED <<readBuffer, taken, handling, sent>> /\ reading' = FALSE
    BY <1>7 DEF ServerReadFails, clientVars, sendVars, sessionVars
  <2>2. Handled' = Handled
    BY <2>1 DEF Handled
  <2> QED
    BY <1>1, <2>1, <2>2 DEF ReaderInv, BufferStaysSmall
<1>8. CASE ReadHandler
  <2>1. handling /\ ~reading /\ (Leaves \/ CloseSocket \/ Handles) /\ UNCHANGED <<taken, sent>>
    BY <1>8, ReadHandlerForms DEF clientVars, sendVars, ReaderInv
  <2>2. CASE Leaves
    <3>1. PICK b \in Buffer : (b = readBuffer \/ b = Reset(readBuffer)) /\ Len(b.active) < 2 /\ Leave(b)
      BY <2>2, Zenon DEF Leaves
    <3>2. /\ b.active \in Seq(Byte) /\ b.rpos \in Nat /\ b.size = ReadBlock
          /\ Len(b.active) \in Nat /\ Len(b.active) < 2
      <4>1. b.active \in Seq(Byte) /\ b.rpos \in Nat
        BY DEF Buffer
      <4>2. Len(b.active) \in Nat
        BY <4>1, LenProperties
      <4>3. b.size = ReadBlock
        BY <1>1, <3>1 DEF Reset, Buffer
      <4> QED
        BY <3>1, <4>1, <4>2, <4>3
    <3>3. /\ Normalize(b) \in Buffer /\ Normalize(b).active = b.active /\ Normalize(b).size = ReadBlock
          /\ Normalize(b).rpos = 0
      BY <3>2 DEF Normalize, Buffer
    <3>4. GetRemainingSpace(Normalize(b)) > 0 /\ EnsureFreeSpace(Normalize(b)) = Normalize(b)
      <4>1. ReadBlock \in Nat /\ ReadBlock >= 2
        OBVIOUS
      <4> HIDE DEF SocketAssumption
      <4>2. GetRemainingSpace(Normalize(b)) = ReadBlock - 0 - Len(b.active)
        BY <3>3, Zenon DEF GetRemainingSpace
      <4>3. GetRemainingSpace(Normalize(b)) > 0
        BY <3>2, <4>1, <4>2
      <4> QED
        BY <4>3 DEF EnsureFreeSpace
    <3>5. /\ readBuffer' \in {b, Normalize(b)} /\ (reading' => readBuffer' = Normalize(b))
          /\ reading' \in BOOLEAN /\ handling' = FALSE
      BY <3>1, <3>4 DEF Leave, AsyncRead, TypeOK, SocketTypes
    <3>6. readBuffer' \in Buffer /\ readBuffer'.active = b.active /\ readBuffer'.size = ReadBlock
      BY <3>2, <3>3, <3>5
    <3>7. /\ Handled' >= 0
          /\ \A i \in 1 .. Len(b.active) : b.active[i] = sent'[Handled' + i]
      <4>1. CASE b = readBuffer
        BY <1>2, <2>1, <3>6, <4>1 DEF Handled, ReaderInv
      <4>2. CASE b = Reset(readBuffer)
        <5>1. b.active = <<>>
          BY <1>1, <4>2 DEF Reset, Buffer
        <5> QED
          BY <1>1, <1>2, <2>1, <3>6, <5>1 DEF Handled
      <4> QED
        BY <3>1, <4>1, <4>2
    <3>8. DOMAIN b.active = 1 .. Len(b.active)
      BY <3>2, LenProperties
    <3>9. reading' => GetRemainingSpace(readBuffer') > 0
      BY <3>4, <3>5
    <3> QED
      BY <1>1, <2>1, <3>5, <3>6, <3>7, <3>8, <3>9 DEF ReaderInv, BufferStaysSmall
  <2>3. CASE CloseSocket
    <3>1. UNCHANGED <<readBuffer, reading>> /\ handling' = FALSE
      BY <2>3 DEF CloseSocket
    <3>2. Handled' = Handled
      BY <2>1, <3>1 DEF Handled
    <3> QED
      BY <1>1, <2>1, <3>1, <3>2 DEF ReaderInv, BufferStaysSmall
  <2>4. CASE Handles
    <3>1. /\ Len(readBuffer.active) >= 2 /\ readBuffer' = ReadCompleted(readBuffer, 2)
          /\ UNCHANGED <<reading, handling>>
      BY <2>4 DEF Handles
    <3> DEFINE rest == SubSeq(readBuffer.active, 2 + 1, Len(readBuffer.active))
    <3>2. /\ rest \in Seq(Byte) /\ Len(rest) = Len(readBuffer.active) - 2
          /\ \A i \in 1 .. Len(readBuffer.active) - 2 : rest[i] = readBuffer.active[2 + i]
      <4>1. 2 \in 0 .. Len(readBuffer.active)
        BY <1>2, <3>1
      <4> QED
        BY <1>1, <4>1, SplitSeq
    <3>3. DOMAIN rest = 1 .. Len(rest)
      BY <3>2, LenProperties
    <3>0. readBuffer' = [readBuffer EXCEPT !.active = rest, !.rpos = @ + 2]
      BY <3>1, Zenon DEF ReadCompleted
    <3> HIDE DEF rest
    <3>4. /\ readBuffer' \in Buffer /\ readBuffer'.active = rest /\ readBuffer'.size = ReadBlock
      <4>1. readBuffer' = [active |-> rest, rpos |-> readBuffer.rpos + 2, size |-> readBuffer.size]
        BY <1>1, <3>0 DEF Buffer
      <4>2. readBuffer.rpos + 2 \in Nat /\ readBuffer.size \in Nat
        BY <1>1
      <4> QED
        BY <1>1, <3>2, <4>1, <4>2 DEF Buffer
    <3>5. Handled' = Handled + 2 /\ Handled \in Int /\ Handled >= 0
      <4>1. Handled' = taken - Len(rest) /\ Len(rest) = Len(readBuffer.active) - 2
        BY <2>1, <3>2, <3>4 DEF Handled
      <4>2. Handled = taken - Len(readBuffer.active)
        BY DEF Handled
      <4>3. Handled >= 0
        BY DEF ReaderInv
      <4> QED
        BY <1>1, <1>2, <4>1, <4>2, <4>3
    <3>6. ASSUME NEW i \in 1 .. Len(rest) PROVE rest[i] = sent[(Handled + 2) + i]
      <4>1. 2 + i \in 1 .. Len(readBuffer.active) /\ i \in 1 .. Len(readBuffer.active) - 2
            /\ Handled + (2 + i) = (Handled + 2) + i
        BY <1>2, <3>1, <3>2, <3>5
      <4>2. rest[i] = readBuffer.active[2 + i] /\ readBuffer.active[2 + i] = sent[Handled + (2 + i)]
        BY <1>2, <3>2, <4>1 DEF ReaderInv
      <4> QED
        BY <4>1, <4>2
    <3>7. /\ (readBuffer.size = ReadBlock)' /\ ~reading' /\ Handled' >= 0
          /\ \A i \in 1 .. Len(rest) : rest[i] = sent'[Handled' + i]
      BY <2>1, <3>1, <3>4, <3>5, <3>6
    <3> QED
      BY <1>1, <2>1, <3>1, <3>3, <3>4, <3>7 DEF ReaderInv, BufferStaysSmall
  <2> QED
    BY <2>1, <2>2, <2>3, <2>4
<1>9. CASE UNCHANGED <<readBuffer, reading, handling, taken>> /\ ~Connect
  <2>1. \E s \in Seq(Byte) : sent' = sent \o s
    <3>1. ~ConnectAsync
      BY <1>9, OnlyConnectConnects
    <3> QED
      BY <3>1, NextIsClientStep, ClientSends
  <2>2. /\ taken' <= Len(sent') /\ (Handled >= 0)'
        /\ (\A i \in DOMAIN readBuffer.active : readBuffer.active[i] = sent[Handled + i])'
    BY <1>9, <2>1, SameReader
  <2>3. BufferStaysSmall' /\ (handling' => ~reading')
    BY <1>9 DEF ReaderInv, BufferStaysSmall
  <2> QED
    BY <1>1, <1>9, <2>2, <2>3 DEF ReaderInv
<1>10. CASE QueryReturns \/ ServerWrites
  <2>1. UNCHANGED <<readBuffer, reading, handling, taken>>
    BY <1>10 DEF QueryReturns, ServerWrites, sessionVars, WriteStep, Update, WriteHandlerWrapper, WriteHandler, WriteHandlerError
  <2> QED
    BY <1>4, <1>9, <2>1
<1>11. CASE Refuse \/ ConnectionReset \/ ClientThreads \/ (\E a \in Accounts : UserLogsIn(a)) \/ Frame
  <2>1. UNCHANGED <<socketVars, sessionVars>>
    BY <1>11, ElsewhereRests, Zenon DEF Refuse, ConnectionReset
  <2> QED
    BY <1>4, <1>9, <2>1 DEF socketVars, sessionVars
<1>12. CASE CheckIpCallback /\ ~Connect
  <2>1. UNCHANGED <<handling, taken>> /\ checking /\ ~reading /\ ~handling /\ readBuffer = EmptyBuffer
    BY <1>12 DEF CheckIpCallback, Gate
  <2>2. Normalize(EmptyBuffer) = EmptyBuffer /\ EnsureFreeSpace(EmptyBuffer) = EmptyBuffer
        /\ GetRemainingSpace(EmptyBuffer) > 0
    <3>1. Normalize(EmptyBuffer) = EmptyBuffer
      BY <1>3 DEF Normalize, EmptyBuffer
    <3>2. GetRemainingSpace(EmptyBuffer) > 0
      BY <1>2, <1>3 DEF GetRemainingSpace
    <3> QED
      BY <3>1, <3>2 DEF EnsureFreeSpace
  <2>3. readBuffer' = EmptyBuffer /\ reading' \in BOOLEAN
    BY <1>1, <1>12, <2>1, <2>2 DEF CheckIpCallback, AsyncRead
  <2>4. \E s \in Seq(Byte) : sent' = sent \o s
    <3>1. ~ConnectAsync
      BY <1>12, OnlyConnectConnects
    <3> QED
      BY <3>1, NextIsClientStep, ClientSends
  <2>5. /\ taken' <= Len(sent') /\ (Handled >= 0)'
        /\ (\A i \in DOMAIN readBuffer.active : readBuffer.active[i] = sent[Handled + i])'
    BY <2>1, <2>3, <2>4, SameReader
  <2> QED
    BY <1>1, <1>3, <2>1, <2>2, <2>3, <2>5 DEF ReaderInv, BufferStaysSmall
<1> QED
  BY <1>4, <1>5, <1>6, <1>7, <1>8, <1>10, <1>11, <1>12, Zenon DEF Next, Server

(* The session: its query and its status go together. *)
LEMMA NextKeepsSession ==
  ASSUME TypeOK, SessionInv, Quiet, Next
  PROVE  SessionTypes' /\ SessionInv'
<1>1. /\ status \in {"Challenge", "LogonProof", "Authed", "WaitingForRealmList", "Closed"}
      /\ sessionAccount \in Names /\ callback \in Seq(Message) /\ Accounts \subseteq Names
      /\ handling \in BOOLEAN /\ taken \in Nat /\ reset \in BOOLEAN /\ resets \in 0 .. MaxResets
      /\ checking \in BOOLEAN /\ banned \in BOOLEAN
  BY DEF TypeOK, SessionTypes, Names
<1>2. Len(<<>>) = 0 /\ <<>> \in Seq(Message)
  BY EmptySeq
<1>3. ASSUME NEW m \in Message PROVE <<m>> \in Seq(Message) /\ Len(<<m>>) = 1 /\ <<m>>[1] = m
  OBVIOUS
<1>4. CASE Connect
  <2>1. /\ status' = "Closed" /\ sessionAccount' = NoAccount /\ callback' = <<>> /\ handling' = FALSE
        /\ checking' = FALSE /\ banned' = FALSE /\ taken' = 0 /\ reset' = FALSE /\ resets' = resets
    BY <1>4 DEF Connect
  <2>2. NoAccount \in Names
    BY DEF Names
  <2> QED
    <3>1. SessionTypes'
      BY <1>1, <1>2, <2>1, <2>2 DEF SessionTypes
    <3>2. SessionInv'
      BY <1>2, <2>1 DEF SessionInv
    <3> QED
      BY <3>1, <3>2
<1>5. CASE Accept
  <2>1. /\ status' = "Challenge" /\ checking' = TRUE /\ callback = <<>>
        /\ UNCHANGED <<sessionAccount, banned, callback, handling, taken, reset, resets>>
    BY <1>5 DEF Accept, linkVars, ConnectCompletes, Quiet
  <2> QED
    BY <1>1, <1>2, <2>1 DEF SessionTypes, SessionInv
<1>6. CASE UNCHANGED sessionVars /\ epoch' = epoch /\ reset' \in BOOLEAN /\ resets' \in 0 .. MaxResets
  BY <1>1, <1>6 DEF sessionVars, SessionTypes, SessionInv
<1>7. CASE ServerReceives
  <2>1. /\ taken' \in Nat /\ handling' = TRUE
        /\ UNCHANGED <<status, sessionAccount, checking, banned, callback, reset, resets, epoch>>
    <3>1. PICK n \in 1 .. GetRemainingSpace(readBuffer) : taken' = taken + n
      BY <1>7, Zenon DEF ServerReceives
    <3>2. readBuffer.size \in Nat /\ readBuffer.rpos \in Nat /\ Len(readBuffer.active) \in Nat
      BY LenProperties DEF TypeOK, SocketTypes, Buffer
    <3>3. n \in Nat
      BY <3>2 DEF GetRemainingSpace
    <3> QED
      BY <1>1, <1>7, <3>1, <3>3 DEF ServerReceives, linkVars, clientVars, connectionVars
  <2> QED
    BY <1>1, <2>1 DEF SessionTypes, SessionInv
<1>8. CASE ServerReadFails \/ ServerWrites
  <2>1. UNCHANGED sessionVars /\ UNCHANGED linkVars /\ UNCHANGED clientVars
    BY <1>8, Zenon DEF ServerReadFails, ServerWrites
  <2> QED
    BY <1>1, <1>6, <2>1 DEF linkVars, clientVars, connectionVars
<1>9. CASE ReadHandler
  <2>1. (Leaves \/ CloseSocket \/ Handles) /\ UNCHANGED <<checking, banned, taken, reset, resets, epoch>>
    BY <1>9, ReadHandlerForms DEF clientVars, connectionVars, linkVars
  <2>2. CASE Leaves \/ CloseSocket
    BY <1>1, <2>1, <2>2 DEF Leaves, Leave, CloseSocket, SessionTypes, SessionInv
  <2>3. CASE Handles
    <3> DEFINE request == readBuffer.active[1].msg
    <3>1. /\ HandlesChallenge(request) \/ HandlesProof(request) \/ HandlesRealmList(request)
          /\ handling' = handling
      BY <2>3, Zenon DEF Handles
    <3> HIDE DEF request
    <3>2. CASE HandlesChallenge(request)
      BY <1>1, <1>3, <2>1, <3>1, <3>2 DEF HandlesChallenge, SessionTypes, SessionInv
    <3>3. CASE HandlesProof(request)
      BY <1>1, <1>3, <2>1, <3>1, <3>3 DEF HandlesProof, SessionTypes, SessionInv
    <3>4. CASE HandlesRealmList(request)
      BY <1>1, <1>3, <2>1, <3>1, <3>4 DEF HandlesRealmList, SessionTypes, SessionInv
    <3> QED
      BY <3>1, <3>2, <3>3, <3>4
  <2> QED
    BY <2>1, <2>2, <2>3
<1>10. CASE QueryReturns
  <2>1. /\ callback' = <<>> /\ status' \in {"Authed", "LogonProof", status}
        /\ UNCHANGED <<sessionAccount, checking, banned, handling, taken, reset, resets>>
    BY <1>10 DEF QueryReturns, linkVars
  <2> QED
    BY <1>1, <1>2, <2>1 DEF SessionTypes, SessionInv
<1>11. CASE ~Connect /\ (Refuse \/ ClientThreads \/ (\E a \in Accounts : UserLogsIn(a)) \/ Frame)
  <2>1. UNCHANGED <<sessionVars, linkVars>>
    BY <1>11, ElsewhereRests, Zenon DEF Refuse
  <2>2. epoch' = epoch
    BY <1>11, OnlyConnectConnects, NextIsClientStep, ClientSends
  <2> QED
    BY <1>1, <1>6, <2>1, <2>2 DEF linkVars
<1>12. CASE ConnectionReset
  <2>1. UNCHANGED sessionVars /\ epoch' = epoch /\ reset' \in BOOLEAN /\ resets' \in 0 .. MaxResets
    BY <1>1, <1>12 DEF ConnectionReset, clientVars, connectionVars, sessionVars
  <2> QED
    BY <1>6, <2>1
<1>13. CASE CheckIpCallback
  <2>1. /\ checking' = FALSE /\ banned' \in BOOLEAN
        /\ UNCHANGED <<status, sessionAccount, callback, handling, taken, reset, resets, epoch>>
    BY <1>1, <1>13 DEF CheckIpCallback, linkVars, clientVars, connectionVars
  <2> QED
    BY <1>1, <2>1 DEF SessionTypes, SessionInv
<1> QED
  BY <1>4, <1>5, <1>7, <1>8, <1>9, <1>10, <1>11, <1>12, <1>13, Zenon DEF Next, Server

(* Who is not known to be welcome is not listened to. *)
LEMMA NextKeepsGate ==
  ASSUME TypeOK, Gate, Quiet, Next
  PROVE  Gate'
<1>1. CASE Connect
  BY <1>1 DEF Connect, Gate
<1>2. CASE Accept
  BY <1>2 DEF Accept, Open, ConnectCompletes, Quiet, Gate
<1>3. CASE CheckIpCallback
  <2>1. checking /\ ~banned /\ ~reading /\ ~handling /\ callback = <<>> /\ status = "Challenge"
        /\ ~checking' /\ UNCHANGED <<status, callback, handling>>
    BY <1>3 DEF CheckIpCallback, Gate
  <2>2. banned' = banned \/ reading' = reading
    BY <1>3 DEF CheckIpCallback
  <2> QED
    BY <2>1, <2>2 DEF Gate
<1>4. CASE ServerReceives \/ ServerReadFails \/ ReadHandler \/ QueryReturns
  <2>1. UNCHANGED <<checking, banned>> /\ ~checking /\ ~banned
    BY <1>4 DEF ServerReceives, ServerReadFails, ReadHandler, QueryReturns, Gate, sessionVars
  <2> QED
    BY <2>1 DEF Gate
<1>5. CASE UNCHANGED <<checking, banned, readBuffer, reading, handling, callback, status>>
  BY <1>5 DEF Gate
<1>6. CASE ServerWrites
  <2>1. UNCHANGED <<checking, banned, readBuffer, reading, handling, callback, status>>
    BY <1>6 DEF ServerWrites, sessionVars, WriteStep, Update, WriteHandlerWrapper, WriteHandler, WriteHandlerError
  <2> QED
    BY <1>5, <2>1
<1>7. CASE Refuse \/ ConnectionReset \/ ClientThreads \/ (\E a \in Accounts : UserLogsIn(a)) \/ Frame
  <2>1. UNCHANGED <<socketVars, sessionVars>>
    BY <1>7, ElsewhereRests, Zenon DEF Refuse, ConnectionReset
  <2> QED
    BY <1>5, <2>1 DEF socketVars, sessionVars
<1> QED
  BY <1>1, <1>2, <1>3, <1>4, <1>6, <1>7, Zenon DEF Next, Server

(* What the main thread stores is one less than what it read. *)
QueueInv == frame = "store" => dequeued > 0

(* The types of what the NetworkManager keeps. *)
LEMMA NextKeepsManager ==
  ASSUME TypeOK, QueueInv, Next
  PROVE  ManagerTypes' /\ QueueInv'
<1> DEFINE AnyChunk == Chunk \cup {<<>>}
           Goal == ManagerTypes' /\ QueueInv'
<1>1. /\ account \in Names /\ m2 \in [tag : 0 .. MaxConnections, account : Names]
      /\ messages \in Seq(Chunk) /\ tempMessages \in Seq(AnyChunk)
      /\ size \in Nat /\ enqueued \in Nat /\ dequeued \in Nat
      /\ frame \in {"idle", "take", "store", "handle"} /\ torn \in BOOLEAN
      /\ dispatching \in BOOLEAN /\ waiting \in BOOLEAN /\ logins \in 0 .. MaxLogins
      /\ split \in BOOLEAN /\ stale \in BOOLEAN /\ short \in BOOLEAN /\ Accounts \subseteq Names
  BY DEF TypeOK, ManagerTypes, Names
<1>2. ManagerTypes
  BY DEF TypeOK
<1>3. CASE UNCHANGED managerVars
  BY <1>2, <1>3 DEF managerVars, queueVars, ManagerTypes, QueueInv
<1>4. CASE Connect \/ Accept \/ ConnectionReset \/ Server \/ (\E e \in 1 .. MaxConnections : Opens(e))
           \/ Receives \/ Send \/ SendFails \/ ReceiveEnds
           \/ (\E t \in Completions : Returns(t) \/ Disconnects(t))
  <2>1. UNCHANGED managerVars
    BY <1>4, Zenon DEF Connect, Accept, ConnectionReset, Server, CheckIpCallback, ServerReceives, ServerReadFails,
       ReadHandler, QueryReturns, ServerWrites, Opens, Receives, Send, SendFails, ReceiveEnds, Returns, Disconnects
  <2> QED
    BY <1>3, <2>1
<1>5. CASE Refuse \/ (\E t \in Completions : Disconnected(t))
  <2>1. ShowMessage
    BY <1>5, Zenon DEF Refuse, Disconnected
  <2> QED
    BY <1>1, <2>1 DEF ShowMessage, ManagerTypes, QueueInv, queueVars
<1>6. CASE Receive
  <2>1. PICK n \in 1 .. Len(written) - received : OnClientDataReceived(SubSeq(written, received + 1, received + n))
    BY <1>6, Zenon DEF Receive
  <2> DEFINE c == SubSeq(written, received + 1, received + n)
  <2>2. c \in Chunk
    <3>1. /\ Len(written) \in Nat /\ written \in Seq(Byte) /\ received \in Nat
          /\ \A i \in 1 .. Len(written) : written[i] \in Byte
      BY LenProperties, ElementOfSeq DEF TypeOK, SocketTypes, ClientTypes
    <3>2. c \in Seq(Byte) /\ Len(c) = n
      <4>1. received + 1 \in 1 .. Len(written) + 1 /\ received + n \in received .. Len(written)
            /\ (received + n) - (received + 1) + 1 = n
        BY <3>1
      <4> QED
        BY <3>1, <4>1, SubSeqProperties
    <3>3. Len(c) # 0 /\ Len(<<>>) = 0
      BY <3>1, <3>2
    <3>4. c # <<>>
      BY <3>3
    <3> QED
      BY <3>2, <3>4 DEF Chunk
  <2>3. /\ messages' = Append(messages, c) /\ enqueued' = size /\ split' = (split \/ ~IsWhole(c))
        /\ torn' = (torn \/ frame = "store")
        /\ UNCHANGED <<account, m2, size, dequeued, frame, tempMessages, dispatching, waiting, logins, stale, short>>
    BY <2>1, Zenon DEF OnClientDataReceived
  <2> HIDE DEF c
  <2>4. messages' \in Seq(Chunk) /\ split' \in BOOLEAN /\ torn' \in BOOLEAN
    BY <1>1, <2>2, <2>3, AppendProperties
  <2> QED
    BY <1>1, <2>3, <2>4 DEF ManagerTypes, QueueInv
<1>7. CASE Stored
  <2>1. Enqueued
    BY <1>7 DEF Stored
  <2> QED
    BY <1>1, <2>1 DEF Enqueued, ManagerTypes, QueueInv
<1>8. ASSUME NEW a \in Accounts, UserLogsIn(a) PROVE Goal
  <2>1. /\ account' = a /\ waiting' = TRUE /\ logins' = logins + 1 /\ logins < MaxLogins
        /\ UNCHANGED <<m2, queueVars, dispatching, split, stale, short>>
    BY <1>8 DEF UserLogsIn, Login
  <2> QED
    BY <1>1, <2>1 DEF ManagerTypes, QueueInv, queueVars
<1>9. CASE FrameTakes
  <2> DEFINE first == IF messages = <<>> THEN <<>> ELSE Head(messages)
             rest == SubSeq(messages, 2, Len(messages))
  <2>1. /\ tempMessages' = Append(tempMessages, first) /\ messages' = rest
        /\ dequeued' = size /\ size # 0 /\ frame' = "store" /\ torn' = (torn \/ receiver = "storing")
        /\ UNCHANGED <<account, m2, size, enqueued, dispatching, waiting, logins, split, stale, short>>
    BY <1>9 DEF FrameTakes
  <2>2. first \in AnyChunk
    BY <1>1, HeadTailProperties
  <2>3. rest \in Seq(Chunk)
    <3>1. CASE messages = <<>>
      <4>1. rest = <<>> /\ <<>> \in Seq(Chunk)
        BY <3>1, EmptySeq
      <4> QED
        BY <4>1
    <3>2. CASE messages # <<>>
      <4>1. Len(messages) \in Nat /\ Len(messages) # 0
        BY <1>1, <3>2, LenProperties, EmptySeq
      <4>2. 1 \in 0 .. Len(messages) /\ 1 + 1 = 2
        BY <4>1
      <4> QED
        BY <1>1, <4>2, SplitSeq
    <3> QED
      BY <3>1, <3>2
  <2> HIDE DEF first, rest, AnyChunk
  <2>4. tempMessages' \in Seq(AnyChunk) /\ messages' \in Seq(Chunk)
    BY <1>1, <2>1, <2>2, <2>3, AppendProperties
  <2>5. torn' \in BOOLEAN /\ dequeued' > 0
    BY <1>1, <2>1
  <2> QED
    BY <1>1, <2>1, <2>4, <2>5 DEF ManagerTypes, QueueInv, AnyChunk
<1>10. CASE FrameStores
  <2>1. /\ size' = dequeued - 1 /\ dequeued' = 0 /\ frame' = "take" /\ dequeued > 0
        /\ UNCHANGED <<account, m2, messages, enqueued, tempMessages, torn, dispatching, waiting, logins,
                       split, stale, short>>
    BY <1>10 DEF FrameStores, QueueInv
  <2>2. size' \in Nat
    BY <1>1, <2>1
  <2> QED
    BY <1>1, <2>1, <2>2 DEF ManagerTypes, QueueInv
<1>11. CASE Dispatch
  <2>1. /\ m2' \in [tag : 0 .. MaxConnections, account : Names]
        /\ dispatching' \in BOOLEAN /\ waiting' \in BOOLEAN /\ short' \in BOOLEAN
    BY <1>11, DispatchSends
  <2>2. Tail(tempMessages) \in Seq(AnyChunk)
    BY <1>11, FirstMessage DEF Dispatch
  <2>3. /\ tempMessages' = Tail(tempMessages)
        /\ frame' = IF dispatching' /\ Len(tempMessages) > 1 THEN "handle" ELSE "idle"
        /\ stale' = (stale \/ (Head(tempMessages) # <<>> /\ Head(tempMessages)[1].msg.tag # epoch))
        /\ UNCHANGED <<account, messages, size, enqueued, dequeued, torn, logins, split>>
    BY <1>11, Zenon DEF Dispatch
  <2>4. stale' \in BOOLEAN /\ frame' \in {"idle", "handle"}
    BY <1>1, <2>3
  <2> QED
    BY <1>1, <2>1, <2>2, <2>3, <2>4 DEF ManagerTypes, QueueInv
<1>12. CASE SendBuffered /\ UNCHANGED managerVars
  BY <1>3, <1>12
<1> QED
  BY <1>4, <1>5, <1>6, <1>7, <1>8, <1>9, <1>10, <1>11, <1>12, Zenon DEF Next, ClientThreads, Frame

-----------------------------------------------------------------------------
(* What was sent is the beginning of what was accepted. *)
Prefix ==
  ~late => Len(sent) <= Len(accepted) /\ \A i \in 1 .. Len(sent) : accepted[i] = sent[i]

(* Once a thread was late, that has happened. *)
LEMMA LateStays ==
  ASSUME ClientStep \/ UNCHANGED clientVars
  PROVE  late => late'
<1>1. CASE ConnectAsync
  BY <1>1 DEF ConnectAsync
<1>2. ASSUME NEW b \in BOOLEAN, ConnectCompletes(b) PROVE late' = late
  BY <1>2 DEF ConnectCompletes
<1>3. ASSUME NEW e \in 1 .. MaxConnections, ProcessConnect(e) PROVE late' = late
  BY <1>3 DEF ProcessConnect
<1>4. CASE TryReceive \/ SendBuffered \/ SystemSends \/ ProcessSend
  BY <1>4 DEF TryReceive, SendBuffered, SystemSends, ProcessSend, connectionVars
<1>5. ASSUME NEW b \in Seq(Byte), Sends(b) PROVE late' = late
  BY <1>5 DEF Sends, connectionVars
<1>6. ASSUME NEW t \in Completions,
             StartsLeaving(t) \/ DisconnectCloses(t) \/ DisconnectClears(t) \/ CompletionReturns(t)
      PROVE  late' = late
  BY <1>6 DEF StartsLeaving, DisconnectCloses, DisconnectClears, CompletionReturns
<1>7. CASE Reads \/ UNCHANGED clientVars
  BY <1>7 DEF Reads, clientVars, connectionVars
<1> QED
  BY <1>1, <1>2, <1>3, <1>4, <1>5, <1>6, <1>7 DEF ClientStep

(* No step sends what was not accepted. *)
LEMMA NextKeepsPrefix ==
  ASSUME ClientTypes, ClientTypes', ClientInv, ClientInv', Prefix, ClientStep \/ UNCHANGED clientVars
  PROVE  Prefix'
<1> SUFFICES ASSUME ~late'
             PROVE  Len(sent') <= Len(accepted') /\ \A i \in 1 .. Len(sent') : accepted'[i] = sent'[i]
  BY DEF Prefix
<1>0. ~late /\ OnTime /\ Len(sent) <= Len(accepted) /\ \A i \in 1 .. Len(sent) : accepted[i] = sent[i]
  BY LateStays DEF ClientInv, Prefix
<1>1. CASE isConnected'
  <2> DEFINE t == sent'
             l == SubSeq(flush', transferred' + 1, Len(flush'))
             m == main'
             b == l \o m
  <2>1. t \in Seq(Byte) /\ l \in Seq(Byte) /\ m \in Seq(Byte)
    BY SplitSeq DEF ClientTypes
  <2>2. accepted' = (t \o l) \o m
    BY <1>1, Zenon DEF ClientInv, SentInOrder
  <2> HIDE DEF t, l, m
  <2>3. (t \o l) \o m = t \o b /\ b \in Seq(Byte)
    BY ONLY <2>1, Assoc
  <2> HIDE DEF b
  <2>4. accepted' = t \o b
    BY <2>2, <2>3, Zenon
  <2>5. Len(t \o b) = Len(t) + Len(b) /\ \A i \in 1 .. Len(t) : (t \o b)[i] = t[i]
    BY <2>1, <2>3, ConcatProperties, LenProperties
  <2>6. Len(t) \in Nat /\ Len(b) \in Nat
    BY <2>1, <2>3, LenProperties
  <2> QED
    BY <2>4, <2>5, <2>6 DEF t
<1>2. CASE ~isConnected'
  <2>1. CASE ConnectAsync
    <3>1. accepted' = <<>> /\ sent' = <<>> /\ Len(<<>>) = 0
      BY <2>1 DEF ConnectAsync
    <3> QED
      BY <3>1
  <2>2. CASE SendBuffered
    <3>1. accepted' = accepted \o outgoing /\ sent' = sent
      BY <2>2 DEF SendBuffered
    <3>2. accepted \in Seq(Byte) /\ outgoing \in Seq(Byte) /\ Len(sent) \in Nat
      BY LenProperties DEF ClientTypes
    <3> DEFINE a == accepted \o outgoing
    <3>3. /\ Len(a) = Len(accepted) + Len(outgoing) /\ Len(outgoing) \in Nat /\ Len(accepted) \in Nat
          /\ \A i \in 1 .. Len(accepted) : a[i] = accepted[i]
      BY <3>2, ConcatProperties, LenProperties
    <3> HIDE DEF a
    <3>4. Len(sent) <= Len(a) /\ \A i \in 1 .. Len(sent) : a[i] = sent[i]
      BY <1>0, <3>2, <3>3
    <3> QED
      BY <3>1, <3>4 DEF a
  <2>3. ~SystemSends /\ ~ProcessSend
    BY <1>0, <1>2 DEF OnTime, SystemSends, ProcessSend
  <2>4. ASSUME NEW b \in BOOLEAN, ConnectCompletes(b) PROVE UNCHANGED <<accepted, sent>>
    BY <2>4 DEF ConnectCompletes, sendVars
  <2>5. ASSUME NEW e \in 1 .. MaxConnections, ProcessConnect(e) PROVE UNCHANGED <<accepted, sent>>
    BY <2>5 DEF ProcessConnect, sendVars
  <2>6. ASSUME NEW b \in Seq(Byte), Sends(b) PROVE UNCHANGED <<accepted, sent>>
    BY <2>6 DEF Sends, SendAsync
  <2>7. ASSUME NEW t \in Completions,
               StartsLeaving(t) \/ DisconnectCloses(t) \/ DisconnectClears(t) \/ CompletionReturns(t)
        PROVE  UNCHANGED <<accepted, sent>>
    BY <2>7 DEF StartsLeaving, DisconnectCloses, DisconnectClears, CompletionReturns, sendVars
  <2>8. CASE TryReceive \/ Reads \/ UNCHANGED clientVars
    <3>1. UNCHANGED <<accepted, sent>>
      BY <2>8 DEF TryReceive, Reads, clientVars, sendVars
    <3> QED
      BY <1>0, <3>1
  <2> QED
    BY <1>0, <2>1, <2>2, <2>3, <2>4, <2>5, <2>6, <2>7, <2>8 DEF ClientStep
<1> QED
  BY <1>1, <1>2 DEF ClientTypes

-----------------------------------------------------------------------------
(* The dialogue *)

(* What the client has received and not handled yet, and what it has asked, *)
(* or is about to ask, on this connection.                                  *)
Chunks == tempMessages \o messages
Asking == accepted \o outgoing

Begins(b, c) == b.part = 1 /\ b.msg.cmd = c

(* What a step is to the dialogue: a new connection and its opening, *)
AtConnect ==
  /\ Asking' = <<>> /\ Unread' = <<>> /\ status' = "Closed" /\ callback' = <<>> /\ ~banned'
  /\ Chunks' = Chunks /\ stale' = stale /\ epoch' = epoch + 1
AtAccept ==
  /\ connect = "pending" /\ connect' # "pending" /\ status' = "Challenge" /\ Unread' = <<>>
  /\ ~late => Asking' = <<>>
  /\ callback' = <<>> /\ ~banned'
  /\ Chunks' = Chunks /\ stale' = stale /\ epoch' = epoch
(* a step that at most loses what was not read yet, or takes a message where *)
(* there is none,                                                            *)
Silence ==
  /\ Fewer /\ Handled' >= Handled
  /\ connect' = connect \/ connect' # "pending"
  /\ UNCHANGED <<stale, epoch, Asking, status, callback, banned>>
Calm == Silence /\ Chunks' = Chunks
AtNothing == Silence /\ Chunks' = Append(Chunks, <<>>)
(* a request that the server handles, a reply to a query, *)
AtRequest(c) ==
  /\ ~late => Handled + 1 \in DOMAIN Asking /\ Begins(Asking[Handled + 1], c)
  /\ Handled' = Handled + 2 /\ Handled >= 0 /\ Chunks' = Chunks
  /\ UNCHANGED <<stale, epoch, Asking, connect, banned>>
Asks(c, before, after) ==
  /\ AtRequest(c) /\ status = before /\ ~banned /\ status' = after /\ Unread' = Unread
  /\ \E m \in Message : callback' = <<m>> /\ m.cmd = c
Proves ==
  /\ AtRequest("LogonProof") /\ status = "LogonProof" /\ status' \in {"Authed", "Closed"}
  /\ UNCHANGED callback
  /\ \/ Unread' = Unread
     \/ \E m \in Message : m.cmd = "LogonProof" /\ m.tag = epoch /\ Unread' = Unread \o Bytes(m)
AtReply ==
  \E m \in Message :
    /\ callback[1] = m /\ callback # <<>> /\ m.tag = epoch /\ callback' = <<>>
    /\ Unread' = Unread \o Bytes(m)
    /\ \/ m.cmd = "LogonChallenge" /\ status = "Closed" /\ status' \in {"LogonProof", "Closed"}
       \/ m.cmd = "RealmList" /\ status = "WaitingForRealmList" /\ status' = "Authed"
    /\ Handled' = Handled /\ Chunks' = Chunks /\ UNCHANGED <<stale, epoch, Asking, connect, banned>>
(* the refusal of a banned address, *)
AtBan ==
  /\ status = "Challenge" /\ callback = <<>> /\ ~banned /\ banned'
  /\ \E m \in Message :
       m.cmd = "LogonChallenge" /\ m.tag = epoch /\ Unread' = Unread \o Bytes(m)
  /\ Handled' = Handled /\ Chunks' = Chunks
  /\ UNCHANGED <<stale, epoch, Asking, connect, status, callback>>
(* a receive, a login, and the handling of a message. *)
AtReceive ==
  /\ \E c \in Chunk : Unread = c \o Unread' /\ Chunks' = Append(Chunks, c)
  /\ Unread' \in Seq(Byte) /\ connect # "pending"
  /\ Handled' = Handled /\ UNCHANGED <<stale, epoch, Asking, connect, status, callback, banned>>
AtLogin ==
  /\ \E m \in Message : m.cmd = "LogonChallenge" /\ Asking' = Asking \o Bytes(m)
  /\ Unread' = Unread /\ Handled' = Handled /\ Chunks' = Chunks
  /\ UNCHANGED <<stale, epoch, connect, status, callback, banned>>
Answers(c, d) ==
  /\ Len(Chunks[1]) > 1 /\ Begins(Chunks[1][1], c)
  /\ \E m \in Message : m.cmd = d /\ \/ Asking' = Asking \o Bytes(m)
                                     \/ Asking' = Asking \o <<Bytes(m)[1]>>
AtDispatch ==
  /\ Chunks # <<>> /\ Chunks' = Tail(Chunks)
  /\ stale' = (stale \/ (Chunks[1] # <<>> /\ Chunks[1][1].msg.tag # epoch))
  /\ Asking' = Asking \/ Answers("LogonChallenge", "LogonProof") \/ Answers("LogonProof", "RealmList")
  /\ Unread' = Unread /\ Handled' = Handled
  /\ UNCHANGED <<epoch, connect, status, callback, banned>>

(* How far the server has handled the client's bytes. *)
LEMMA HandledMoves ==
  ASSUME TypeOK, ReaderInv
  PROVE  /\ Handled \in Int /\ Handled >= 0
         /\ ServerReceives => Handled' = Handled
         /\ ReadHandler /\ (Leaves \/ CloseSocket) => Handled' >= Handled
         /\ ReadHandler /\ Handles => Handled' = Handled + 2
<1>1. /\ readBuffer.active \in Seq(Byte) /\ Len(readBuffer.active) \in Nat /\ taken \in Nat
      /\ Len(<<>>) = 0 /\ sent \in Seq(Byte) /\ Len(sent) \in Nat /\ readBuffer \in Buffer
  BY LenProperties DEF TypeOK, SocketTypes, ClientTypes, SessionTypes, Buffer
<1>2. Handled \in Int /\ Handled >= 0
  <2>1. Handled \in Int
    BY <1>1 DEF Handled
  <2> QED
    BY <2>1 DEF ReaderInv
<1>3. ASSUME ServerReceives PROVE Handled' = Handled
  <2>1. PICK n \in 1 .. GetRemainingSpace(readBuffer) :
          /\ taken + n <= Len(sent)
          /\ readBuffer' = WriteCompleted(readBuffer, SubSeq(sent, taken + 1, taken + n))
          /\ taken' = taken + n
    BY <1>3, Zenon DEF ServerReceives
  <2> DEFINE c == SubSeq(sent, taken + 1, taken + n)
             a == readBuffer.active
             both == a \o c
  <2>2. n \in Nat
    <3>1. readBuffer.size \in Nat /\ readBuffer.rpos \in Nat
      BY DEF TypeOK, SocketTypes, Buffer
    <3> QED
      BY <1>1, <3>1 DEF GetRemainingSpace
  <2>3. \A i \in 1 .. Len(sent) : sent[i] \in Byte
    BY <1>1, ElementOfSeq
  <2>4. c \in Seq(Byte) /\ Len(c) = n
    BY <1>1, <2>1, <2>2, <2>3, SubSeqProperties
  <2> HIDE DEF c
  <2>5. Len(both) = Len(a) + Len(c)
    <3>1. a \in Seq(Byte) /\ c \in Seq(Byte)
      BY <1>1, <2>4
    <3> QED
      BY ONLY <3>1, ConcatProperties
  <2>6. readBuffer' = [readBuffer EXCEPT !.active = both]
    BY <2>1, Zenon DEF WriteCompleted, c
  <2> HIDE DEF both
  <2>7. readBuffer'.active = both
    BY <1>1, <2>6 DEF Buffer
  <2> QED
    <3>1. Handled' = (taken + n) - Len(both) /\ Len(both) = Len(a) + n
      BY <2>1, <2>4, <2>5, <2>7 DEF Handled
    <3>2. Handled = taken - Len(a)
      BY DEF Handled
    <3> QED
      BY <1>1, <2>2, <3>1, <3>2
<1>4. ASSUME ReadHandler, Leaves \/ CloseSocket PROVE Handled' >= Handled
  <2>1. taken' = taken
    BY <1>4, ReadHandlerForms
  <2>2. readBuffer'.active \in {readBuffer.active, <<>>}
    <3>1. CASE CloseSocket
      BY <3>1 DEF CloseSocket
    <3>2. CASE Leaves
      <4>1. PICK b \in Buffer : (b = readBuffer \/ b = Reset(readBuffer)) /\ Leave(b)
        BY <3>2, Zenon DEF Leaves
      <4>2. EnsureFreeSpace(Normalize(b)).active = b.active
        BY DEF EnsureFreeSpace, Normalize, Buffer
      <4>3. readBuffer'.active = b.active
        BY <4>1, <4>2 DEF Leave, AsyncRead
      <4>4. b.active \in {readBuffer.active, <<>>}
        BY <1>1, <4>1 DEF Reset, Buffer
      <4> QED
        BY <4>3, <4>4
    <3> QED
      BY <1>4, <3>1, <3>2
  <2> QED
    BY <1>1, <2>1, <2>2 DEF Handled
<1>5. ASSUME ReadHandler, Handles PROVE Handled' = Handled + 2
  <2>1. /\ taken' = taken /\ Len(readBuffer.active) >= 2
        /\ readBuffer' = ReadCompleted(readBuffer, 2)
    BY <1>5, ReadHandlerForms DEF Handles
  <2> DEFINE rest == SubSeq(readBuffer.active, 2 + 1, Len(readBuffer.active))
  <2>2. readBuffer' = [readBuffer EXCEPT !.active = rest, !.rpos = @ + 2]
    BY <2>1, Zenon DEF ReadCompleted
  <2>3. 2 \in 0 .. Len(readBuffer.active)
    BY <1>1, <2>1
  <2>4. Len(rest) = Len(readBuffer.active) - 2
    BY <1>1, <2>3, SplitSeq
  <2> HIDE DEF rest
  <2>5. readBuffer'.active = rest
    BY <1>1, <2>2 DEF Buffer
  <2> QED
    <3>1. Handled' = taken - Len(rest)
      BY <2>1, <2>5 DEF Handled
    <3>2. Handled = taken - Len(readBuffer.active)
      BY DEF Handled
    <3> QED
      BY <1>1, <2>4, <3>1, <3>2
<1> QED
  BY <1>2, <1>3, <1>4, <1>5

(* What is unread stays, while nobody writes or reads, ... *)
LEMMA SameUnread ==
  ASSUME UNCHANGED <<written, writeQueue, received>>, received <= Len(written)
  PROVE  received' <= Len(written') /\ Unread' = Unread
<1>1. Stream' = Stream
  BY Zenon DEF Stream
<1> HIDE DEF Stream
<1> QED
  BY <1>1 DEF Unread

(* ... is nothing on a new connection, ... *)
LEMMA NoUnread ==
  ASSUME written' = <<>>, writeQueue' = <<>>, received' = 0
  PROVE  received' <= Len(written') /\ Unread' = <<>>
<1>1. FlattenSeq(<<>>) = <<>> /\ <<>> \o <<>> = <<>> /\ Len(<<>>) = 0
  BY FlattenEmpty
<1>2. Stream' = <<>>
  BY <1>1, Zenon DEF Stream
<1>3. SubSeq(<<>>, 0 + 1, 0) = <<>>
  BY SubSeqEmpty
<1> HIDE DEF Stream
<1>4. Unread' = <<>>
  BY <1>1, <1>2, <1>3, Zenon DEF Unread
<1> QED
  BY <1>1, <1>4

(* ... and is no more than it was. *)
LEMMA FewerIfSame ==
  ASSUME WriterTypes, received \in 0 .. Len(written), Unread' = Unread
  PROVE  Fewer
<1>1. Unread \in Seq(Byte)
  BY UnreadParts
<1>2. Len(Unread) \in Nat
  BY <1>1, LenProperties
<1> HIDE DEF Unread
<1> QED
  BY <1>2 DEF Fewer

(* Taking the first chunk. *)
LEMMA FirstChunk ==
  ASSUME TypeOK
  PROVE  /\ Chunks \in Seq(Chunk \cup {<<>>})
         /\ tempMessages # <<>> => /\ Chunks # <<>> /\ Chunks[1] = Head(tempMessages)
                                   /\ Tail(Chunks) = Tail(tempMessages) \o messages
         /\ tempMessages = <<>> => Chunks = messages
<1> DEFINE s == tempMessages
           t == messages
           st == s \o t
<1>1. s \in Seq(Chunk \cup {<<>>}) /\ t \in Seq(Chunk \cup {<<>>})
  BY DEF TypeOK, ManagerTypes
<1> HIDE DEF s, t
<1>2. st \in Seq(Chunk \cup {<<>>}) /\ Len(st) = Len(s) + Len(t)
      /\ \A i \in 1 .. Len(s) + Len(t) : st[i] = IF i <= Len(s) THEN s[i] ELSE t[i - Len(s)]
  BY <1>1, ConcatProperties
<1>3. Len(s) \in Nat /\ Len(t) \in Nat
  BY <1>1, LenProperties
<1>4. ASSUME s # <<>>
      PROVE  st # <<>> /\ st[1] = Head(s) /\ Tail(st) = Tail(s) \o t
  <2> HIDE DEF st
  <2>1. Len(s) > 0 /\ Head(s) = s[1]
    BY <1>1, <1>3, <1>4, EmptySeq
  <2>2. st # <<>>
    <3>1. Len(st) # 0 /\ Len(<<>>) = 0
      BY <1>2, <1>3, <2>1
    <3> QED
      BY <3>1
  <2>3. st[1] = s[1]
    BY <1>2, <1>3, <2>1
  <2> DEFINE u == Tail(s)
             v == u \o t
             w == Tail(st)
  <2>4. u \in Seq(Chunk \cup {<<>>}) /\ Len(u) = Len(s) - 1 /\ \A i \in 1 .. Len(s) - 1 : u[i] = s[i + 1]
    BY <1>1, <1>4, HeadTailProperties
  <2>5. w \in Seq(Chunk \cup {<<>>}) /\ Len(w) = Len(st) - 1 /\ \A i \in 1 .. Len(st) - 1 : w[i] = st[i + 1]
    BY <1>2, <2>2, HeadTailProperties
  <2> HIDE DEF u, w
  <2>6. v \in Seq(Chunk \cup {<<>>}) /\ Len(v) = Len(u) + Len(t)
        /\ \A i \in 1 .. Len(u) + Len(t) : v[i] = IF i <= Len(u) THEN u[i] ELSE t[i - Len(u)]
    BY <1>1, <2>4, ConcatProperties
  <2> HIDE DEF v
  <2>7. Len(v) = Len(w)
    BY <1>2, <1>3, <2>4, <2>5, <2>6
  <2>8. ASSUME NEW i \in 1 .. Len(v) PROVE v[i] = w[i]
    <3>1. /\ i \in 1 .. Len(u) + Len(t) /\ i \in 1 .. Len(st) - 1 /\ i + 1 \in 1 .. Len(s) + Len(t)
          /\ (i + 1) - Len(s) = i - Len(u)
      BY <1>2, <1>3, <2>1, <2>4, <2>5, <2>6, <2>7
    <3>2. CASE i <= Len(u)
      <4>1. i \in 1 .. Len(s) - 1 /\ i + 1 <= Len(s)
        BY <1>3, <2>4, <3>1, <3>2
      <4> QED
        BY <1>2, <2>4, <2>5, <2>6, <3>1, <3>2, <4>1
    <3>3. CASE i > Len(u)
      <4>1. ~(i + 1 <= Len(s)) /\ ~(i <= Len(u))
        BY <1>3, <2>4, <3>1, <3>3
      <4>2. v[i] = t[i - Len(u)] /\ w[i] = st[i + 1] /\ st[i + 1] = t[(i + 1) - Len(s)]
        BY <1>2, <2>5, <2>6, <3>1, <4>1
      <4> QED
        BY <3>1, <4>2
    <3> QED
      BY <1>3, <2>4, <3>1, <3>2, <3>3
  <2>9. v = w
    BY <2>5, <2>6, <2>7, <2>8, SeqEqual
  <2> QED
    BY <2>1, <2>2, <2>3, <2>9 DEF u, v, w
<1>5. s = <<>> => st = t
  BY <1>1, ConcatEmptySeq
<1> QED
  BY <1>2, <1>4, <1>5, Zenon DEF Chunks, s, t, st

(* What is being asked: what SendAsync was given is added at once, though it  *)
(* may wait for the lock.                                                    *)
LEMMA AskingMoves ==
  ASSUME TypeOK
  PROVE  /\ Asking \in Seq(Byte)
         /\ outgoing = <<>> => Asking = accepted
         /\ UNCHANGED <<accepted, outgoing>> => Asking' = Asking
         /\ \A b \in Seq(Byte) : SendAsync(b) /\ outgoing = <<>> =>
              Asking' = Asking \/ Asking' = Asking \o b
         /\ SendBuffered => Asking' = Asking
<1>1. accepted \in Seq(Byte) /\ outgoing \in Seq(Byte)
  BY DEF TypeOK, ClientTypes
<1>2. Asking \in Seq(Byte) /\ (outgoing = <<>> => Asking = accepted)
  BY <1>1, Assoc DEF Asking
<1>3. ASSUME NEW b \in Seq(Byte), SendAsync(b), outgoing = <<>>
      PROVE  Asking' = Asking \/ Asking' = Asking \o b
  <2>1. accepted' = accepted /\ outgoing' \in {b, outgoing}
    BY <1>3 DEF SendAsync
  <2>2. CASE outgoing' = outgoing
    BY <2>1, <2>2 DEF Asking
  <2>3. CASE outgoing' = b
    <3>1. Asking' = accepted \o b
      BY <2>1, <2>3, Zenon DEF Asking
    <3> QED
      BY <1>2, <1>3, <3>1, Zenon
  <2> QED
    BY <2>1, <2>2, <2>3
<1>4. ASSUME SendBuffered PROVE Asking' = Asking
  <2> DEFINE a == accepted \o outgoing
  <2>1. accepted' = a /\ outgoing' = <<>>
    BY <1>4 DEF SendBuffered
  <2>2. a \in Seq(Byte)
    BY <1>2 DEF Asking
  <2> HIDE DEF a
  <2>3. a \o <<>> = a
    BY <2>2, Assoc
  <2>4. Asking' = a \o <<>> /\ Asking = a
    BY <2>1, Zenon DEF Asking, a
  <2> QED
    BY <2>3, <2>4, Zenon
<1> QED
  BY <1>2, <1>3, <1>4 DEF Asking

(* A frame takes over the first message, or finds none. *)
LEMMA FrameMoves ==
  ASSUME TypeOK, FrameTakes
  PROVE  Chunks' = Chunks \/ Chunks' = Append(Chunks, <<>>)
<1> DEFINE AnyChunk == Chunk \cup {<<>>}
           s == tempMessages
           t == messages
<1>1. s \in Seq(AnyChunk) /\ t \in Seq(AnyChunk) /\ <<>> \in AnyChunk
  <2>1. messages \in Seq(Chunk) /\ Chunk \subseteq AnyChunk
    BY DEF TypeOK, ManagerTypes
  <2>2. messages \in Seq(AnyChunk)
    BY <2>1
  <2> QED
    BY <2>2 DEF TypeOK, ManagerTypes
<1>2. /\ tempMessages' = Append(s, IF t = <<>> THEN <<>> ELSE Head(t))
      /\ messages' = SubSeq(t, 2, Len(t))
  BY DEF FrameTakes
<1> HIDE DEF AnyChunk, s, t
<1>3. CASE t = <<>>
  <2>1. SubSeq(<<>>, 1 + 1, 0) = <<>> /\ Len(<<>>) = 0
    OBVIOUS
  <2>2. messages' = <<>> /\ tempMessages' = Append(s, <<>>)
    BY <1>2, <1>3, <2>1
  <2>3. Append(s, <<>>) \in Seq(AnyChunk) /\ s \o <<>> = s
    BY <1>1, AppendProperties, Assoc
  <2>4. Append(s, <<>>) \o <<>> = Append(s, <<>>)
    BY <2>3, Assoc
  <2>5. Chunks = s \o t /\ Chunks' = tempMessages' \o messages'
    BY DEF Chunks, s, t
  <2> QED
    BY <1>3, <2>2, <2>3, <2>4, <2>5
<1>4. CASE t # <<>>
  <2> DEFINE h == Head(t)
             one == <<h>>
             rest == SubSeq(t, 2, Len(t))
  <2>1. Len(t) \in Nat /\ Len(t) # 0 /\ h \in AnyChunk
    BY <1>1, <1>4, LenProperties, EmptySeq, HeadTailElements
  <2>2. 1 \in 0 .. Len(t) /\ 1 + 1 = 2
    BY <2>1
  <2>3. /\ SubSeq(t, 1, 1) \o SubSeq(t, 1 + 1, Len(t)) = t
        /\ SubSeq(t, 1, 1) \in Seq(AnyChunk) /\ Len(SubSeq(t, 1, 1)) = 1
        /\ SubSeq(t, 1, 1)[1] = t[1] /\ SubSeq(t, 1 + 1, Len(t)) \in Seq(AnyChunk)
    BY <1>1, <2>2, SplitSeq
  <2>4. one \in Seq(AnyChunk) /\ Len(one) = 1 /\ one[1] = h /\ h = t[1]
    BY <1>1, <1>4, <2>1, HeadTailProperties
  <2>5. SubSeq(t, 1, 1) = one
    <3> DEFINE x == SubSeq(t, 1, 1)
    <3>1. x \in Seq(AnyChunk) /\ Len(x) = 1 /\ x[1] = h
      BY <2>3, <2>4
    <3> HIDE DEF x, one, h
    <3>2. \A i \in 1 .. Len(x) : x[i] = one[i]
      BY <2>4, <3>1
    <3>3. x = one
      BY <2>4, <3>1, <3>2, SeqEqual
    <3> QED
      BY <3>3 DEF x
  <2>6. one \o rest = t /\ rest \in Seq(AnyChunk)
    BY <2>2, <2>3, <2>5
  <2>7. tempMessages' = Append(s, h) /\ messages' = rest
    BY <1>2, <1>4
  <2>8. Append(s, h) = s \o one
    BY <1>1, <2>1, AppendIsConcat
  <2> HIDE DEF h, one, rest
  <2>9. (s \o one) \o rest = s \o (one \o rest)
    <3>1. s \in Seq(AnyChunk) /\ one \in Seq(AnyChunk) /\ rest \in Seq(AnyChunk)
      BY <1>1, <2>4, <2>6
    <3> QED
      BY ONLY <3>1, Assoc
  <2>10. Chunks = s \o t /\ Chunks' = tempMessages' \o messages'
    BY DEF Chunks, s, t
  <2> QED
    BY <2>6, <2>7, <2>8, <2>9, <2>10, Zenon
<1> QED
  BY <1>3, <1>4

Effect ==
  \/ AtConnect \/ AtAccept \/ Calm \/ AtNothing
  \/ Asks("LogonChallenge", "Challenge", "Closed") \/ Proves
  \/ Asks("RealmList", "Authed", "WaitingForRealmList") \/ AtReply \/ AtBan
  \/ AtReceive \/ AtLogin \/ AtDispatch

(* A request that is handled is the next one that was asked. *)
LEMMA FirstRequest ==
  ASSUME TypeOK, ReaderInv, Prefix, ReadHandler, Handles
  PROVE  AtRequest(readBuffer.active[1].msg.cmd)
<1> DEFINE b == readBuffer.active[1]
<1>1. /\ readBuffer.active \in Seq(Byte) /\ sent \in Seq(Byte) /\ accepted \in Seq(Byte) /\ outgoing \in Seq(Byte)
      /\ taken \in Nat /\ taken <= Len(sent) /\ Len(readBuffer.active) >= 2
  BY DEF TypeOK, SocketTypes, Buffer, ClientTypes, SessionTypes, Handles
<1>2. /\ Len(readBuffer.active) \in Nat /\ Len(sent) \in Nat /\ Len(accepted) \in Nat
      /\ Len(outgoing) \in Nat
      /\ DOMAIN readBuffer.active = 1 .. Len(readBuffer.active)
  BY <1>1, LenProperties
<1>3. Handled \in Int /\ Handled >= 0 /\ Handled' = Handled + 2
  BY HandledMoves
<1>4. b = sent[Handled + 1]
  BY <1>1, <1>2 DEF ReaderInv
<1>5. Handled + 1 \in 1 .. Len(sent)
  BY <1>1, <1>2, <1>3 DEF Handled
<1>6. ~late => Handled + 1 \in DOMAIN Asking /\ Asking[Handled + 1] = b
  <2> SUFFICES ASSUME ~late PROVE Handled + 1 \in DOMAIN Asking /\ Asking[Handled + 1] = b
    OBVIOUS
  <2> DEFINE a == accepted \o outgoing
  <2>1. Handled + 1 \in 1 .. Len(accepted) /\ accepted[Handled + 1] = b
    BY <1>2, <1>4, <1>5 DEF Prefix
  <2>2. /\ a \in Seq(Byte) /\ Len(a) = Len(accepted) + Len(outgoing)
        /\ \A i \in 1 .. Len(accepted) : a[i] = accepted[i]
    BY <1>1, <1>2, ConcatProperties
  <2> HIDE DEF a
  <2>3. DOMAIN a = 1 .. Len(a)
    BY <2>2, LenProperties
  <2>4. Handled + 1 \in DOMAIN a /\ a[Handled + 1] = b
    BY <1>2, <2>1, <2>2, <2>3
  <2> QED
    BY <2>4 DEF Asking, a
<1>7. b.part = 1
  BY DEF Handles
<1>8. UNCHANGED <<tempMessages, messages, stale, epoch, accepted, outgoing, connect, banned>>
  BY ReadHandlerForms DEF managerVars, queueVars, clientVars, connectionVars, sendVars
<1>9. Chunks' = Chunks /\ Asking' = Asking
  BY <1>8 DEF Chunks, Asking
<1> HIDE DEF b
<1>10. AtRequest(b.msg.cmd)
  BY <1>3, <1>6, <1>7, <1>8, <1>9 DEF AtRequest, Begins
<1> QED
  BY <1>10 DEF b

(* Every step is one of these to the dialogue. *)
LEMMA NextIsEffect ==
  ASSUME TypeOK, ClientInv, WriterInv, ReaderInv, SessionInv, Gate, Quiet, Prefix, Next
  PROVE  received' <= Len(written') /\ Effect
<1>1. /\ WriterTypes /\ received \in 0 .. Len(written) /\ received <= Len(written)
      /\ received \in Nat /\ Len(written) \in Nat /\ Len(<<>>) = 0
  <2>1. WriterTypes /\ written \in Seq(Byte) /\ received \in Nat /\ received <= Len(written)
    BY DEF TypeOK, SocketTypes, WriterTypes, Packets, ClientTypes
  <2>2. Len(written) \in Nat
    BY <2>1, LenProperties
  <2> QED
    BY <2>1, <2>2
<1>2. ASSUME UNCHANGED <<tempMessages, messages>> PROVE Chunks' = Chunks
  BY <1>2 DEF Chunks
<1>3. Handled \in Int /\ Handled >= 0
  BY HandledMoves
<1>4. ASSUME UNCHANGED <<readBuffer, taken>> PROVE Handled' = Handled
  BY <1>4 DEF Handled
<1>5. ASSUME UNCHANGED <<written, writeQueue, received, accepted, outgoing, stale, epoch, status, callback, banned>>,
             Handled' >= Handled, connect' = connect \/ connect' # "pending"
      PROVE  received' <= Len(written') /\ Unread' = Unread /\ Silence
  <2>1. Asking' = Asking
    BY <1>5 DEF Asking
  <2> QED
    BY <1>1, <1>5, <2>1, SameUnread, FewerIfSame DEF Silence
<1>51. ASSUME UNCHANGED <<written, writeQueue, received, tempMessages, messages, stale, epoch, accepted, outgoing,
                          status, callback, banned>>,
              Handled' >= Handled, connect' = connect \/ connect' # "pending"
       PROVE  received' <= Len(written') /\ Effect
  BY <1>2, <1>5, <1>51 DEF Calm, Effect
<1>52. Handled' = Handled => Handled' >= Handled
  BY <1>3
<1>6. CASE Connect
  <2>1. /\ written' = <<>> /\ writeQueue' = <<>> /\ received' = 0 /\ ~banned'
        /\ accepted' = <<>> /\ outgoing' = <<>> /\ status' = "Closed" /\ callback' = <<>> /\ epoch' = epoch + 1
        /\ UNCHANGED <<tempMessages, messages, stale>>
    BY <1>6 DEF Connect, ConnectAsync, managerVars, queueVars
  <2>2. Asking' = <<>>
    BY <2>1 DEF Asking
  <2> QED
    BY <1>2, <2>1, <2>2, NoUnread DEF AtConnect, Effect
<1>7. CASE Accept
  <2>1. /\ connect = "pending" /\ connect' = "open" /\ status' = "Challenge" /\ written' = <<>> /\ writeQueue' = <<>>
        /\ UNCHANGED <<received, accepted, outgoing, callback, banned, tempMessages, messages, stale, epoch>>
    BY <1>7 DEF Accept, ConnectCompletes, Open, managerVars, queueVars, sendVars, receiveVars
  <2>2. received = 0 /\ callback = <<>> /\ ~banned
    BY <2>1 DEF Quiet
  <2>3. ~late => Asking' = <<>>
    BY <2>1 DEF Asking, ClientInv, OnTime, Fresh
  <2> QED
    BY <1>2, <2>1, <2>2, <2>3, NoUnread DEF AtAccept, Effect
<1>8. CASE Refuse
  <2>1. /\ UNCHANGED <<written, writeQueue, received, tempMessages, messages, stale, epoch, accepted, outgoing, status,
                       callback, banned, readBuffer, taken>>
        /\ connect' = "closed"
    BY <1>8 DEF Refuse, ConnectCompletes, ShowMessage, queueVars, sendVars, receiveVars, socketVars, sessionVars
  <2> QED
    BY <1>4, <1>51, <1>52, <2>1
<1>9. CASE ConnectionReset
  <2>1. UNCHANGED <<written, writeQueue, received, tempMessages, messages, stale, epoch, accepted, outgoing, status,
                    callback, banned, readBuffer, taken, connect>>
    BY <1>9 DEF ConnectionReset, clientVars, connectionVars, sendVars, receiveVars, managerVars, queueVars,
       socketVars, sessionVars
  <2> QED
    BY <1>4, <1>51, <1>52, <2>1
<1>91. CASE CheckIpCallback
  <2>1. /\ checking /\ ~closed
        /\ UNCHANGED <<written, received, tempMessages, messages, stale, epoch, accepted, outgoing, status,
                       callback, taken, connect>>
        /\ UNCHANGED <<build, closed, lost, stalls, errors>>
    BY <1>91 DEF CheckIpCallback, clientVars, connectionVars, sendVars, receiveVars, managerVars, queueVars
  <2>2. CASE AsyncRead(readBuffer) /\ UNCHANGED <<banned, writeQueue, queued, isWritingAsync>>
    <3>1. readBuffer \in Buffer
      BY DEF TypeOK, SocketTypes
    <3>2. EnsureFreeSpace(Normalize(readBuffer)).active = readBuffer.active
      BY <3>1 DEF EnsureFreeSpace, Normalize, Buffer
    <3>3. readBuffer'.active = readBuffer.active
      BY <2>2, <3>2 DEF AsyncRead
    <3>4. Handled' = Handled
      BY <2>1, <3>3 DEF Handled
    <3> QED
      BY <1>51, <1>52, <2>1, <2>2, <3>4
  <2>3. CASE /\ banned' = TRUE /\ UNCHANGED <<readBuffer, reading>>
             /\ QueuePacket(Bytes(Reply("LogonChallenge", epoch, NoAccount, FALSE)))
    <3> DEFINE m == Reply("LogonChallenge", epoch, NoAccount, FALSE)
    <3>1. m \in Message /\ m.cmd = "LogonChallenge" /\ m.tag = epoch
      BY AreMessages DEF TypeOK, ClientTypes, Commands, Names, Reply
    <3>2. QueuePacket(Bytes(m))
      BY <2>3
    <3> HIDE DEF m
    <3>3. Queues(m)
      BY <2>1, <3>2 DEF Queues
    <3>4. received' \in 0 .. Len(written') /\ Unread' = Unread \o Bytes(m)
      BY <1>1, <2>1, <3>1, <3>3, QueueUnread
    <3>5. received' <= Len(written')
      BY <1>1, <2>1
    <3>6. Handled' = Handled /\ Chunks' = Chunks /\ Asking' = Asking
      BY <1>2, <1>4, <2>1, <2>3 DEF Asking
    <3>7. status = "Challenge" /\ callback = <<>> /\ ~banned
      BY <2>1 DEF Gate
    <3>8. AtBan
      BY <2>1, <2>3, <3>1, <3>4, <3>6, <3>7, Zenon DEF AtBan
    <3> QED
      BY <3>5, <3>8, Zenon DEF Effect
  <2> QED
    BY <1>91, <2>2, <2>3, Zenon DEF CheckIpCallback
<1>10. CASE ServerReceives
  <2>1. UNCHANGED <<written, writeQueue, received, tempMessages, messages, stale, epoch, accepted, outgoing, status,
                    callback, banned, connect>>
    BY <1>10 DEF ServerReceives, clientVars, connectionVars, sendVars, receiveVars, managerVars, queueVars
  <2>2. Handled' = Handled
    BY <1>10, HandledMoves
  <2> QED
    BY <1>51, <1>52, <2>1, <2>2
<1>11. CASE ServerReadFails
  <2>1. UNCHANGED <<written, writeQueue, received, tempMessages, messages, stale, epoch, accepted, outgoing, status,
                    callback, banned, readBuffer, taken, connect>>
    BY <1>11 DEF ServerReadFails, clientVars, connectionVars, sendVars, receiveVars, managerVars, queueVars,
       sessionVars
  <2> QED
    BY <1>4, <1>51, <1>52, <2>1
<1>12. CASE ReadHandler
  <2>1. /\ Leaves \/ CloseSocket \/ Handles
        /\ UNCHANGED <<written, received, tempMessages, messages, stale, epoch, accepted, outgoing, connect, banned>>
        /\ UNCHANGED <<build, written, lost, stalls, errors>>
    BY <1>12, ReadHandlerForms DEF clientVars, connectionVars, sendVars, receiveVars, managerVars, queueVars
  <2>0. ~banned
    BY <1>12, ReadHandlerForms DEF Gate
  <2>2. CASE Leaves \/ CloseSocket
    <3>1. UNCHANGED <<writeQueue, status, callback>>
      BY <2>2 DEF Leaves, Leave, CloseSocket
    <3>2. Handled' >= Handled
      BY <1>12, <2>2, HandledMoves
    <3> QED
      BY <1>51, <2>1, <3>1, <3>2
  <2>3. CASE Handles
    <3> DEFINE request == readBuffer.active[1].msg
    <3>1. /\ HandlesChallenge(request) \/ HandlesProof(request) \/ HandlesRealmList(request)
          /\ UNCHANGED closed
      BY <2>3, Zenon DEF Handles
    <3>2. AtRequest(request.cmd)
      BY <1>12, <2>3, FirstRequest
    <3> HIDE DEF request
    <3>3. CASE HandlesChallenge(request)
      <4>1. /\ request.cmd = "LogonChallenge" /\ status = "Challenge" /\ status' = "Closed"
            /\ \E m \in Message : callback' = <<m>> /\ m.cmd = "LogonChallenge"
            /\ UNCHANGED writeQueue
        BY <3>3 DEF HandlesChallenge
      <4>2. received' <= Len(written') /\ Unread' = Unread
        BY <1>1, <2>1, <4>1, SameUnread
      <4>3. Asks("LogonChallenge", "Challenge", "Closed")
        BY <2>0, <3>2, <4>1, <4>2, Zenon DEF Asks
      <4> QED
        BY <4>2, <4>3, Zenon DEF Effect
    <3>4. CASE HandlesProof(request)
      <4>1. /\ request.cmd = "LogonProof" /\ status = "LogonProof" /\ status' \in {"Authed", "Closed"}
            /\ callback' = callback
        BY <3>4 DEF HandlesProof
      <4>2. PICK m \in Message : QueuePacket(Bytes(m)) /\ m.cmd = "LogonProof" /\ m.tag = epoch
        BY <3>4, Zenon DEF HandlesProof
      <4>3. CASE closed
        <5>1. UNCHANGED writeQueue
          BY <4>2, <4>3 DEF QueuePacket
        <5>2. received' <= Len(written') /\ Unread' = Unread
          BY <1>1, <2>1, <5>1, SameUnread
        <5>3. Proves
          BY <3>2, <4>1, <5>2, Zenon DEF Proves
        <5> QED
          BY <5>2, <5>3, Zenon DEF Effect
      <4>4. CASE ~closed
        <5>1. Queues(m) /\ received' = received
          BY <2>1, <3>1, <4>2, Zenon DEF Queues
        <5>2. received' \in 0 .. Len(written') /\ Unread' = Unread \o Bytes(m)
          BY <1>1, <4>4, <5>1, QueueUnread
        <5>3. received' <= Len(written')
          BY <1>1, <2>1
        <5>4. Proves
          BY <3>2, <4>1, <4>2, <5>2, Zenon DEF Proves
        <5> QED
          BY <5>3, <5>4, Zenon DEF Effect
      <4> QED
        BY <4>3, <4>4
    <3>5. CASE HandlesRealmList(request)
      <4>1. /\ request.cmd = "RealmList" /\ status = "Authed" /\ status' = "WaitingForRealmList"
            /\ \E m \in Message : callback' = <<m>> /\ m.cmd = "RealmList"
            /\ UNCHANGED writeQueue
        BY <3>5 DEF HandlesRealmList
      <4>2. received' <= Len(written') /\ Unread' = Unread
        BY <1>1, <2>1, <4>1, SameUnread
      <4>3. Asks("RealmList", "Authed", "WaitingForRealmList")
        BY <2>0, <3>2, <4>1, <4>2, Zenon DEF Asks
      <4> QED
        BY <4>2, <4>3, Zenon DEF Effect
    <3> QED
      BY <3>1, <3>3, <3>4, <3>5
  <2> QED
    BY <2>1, <2>2, <2>3
<1>13. CASE QueryReturns
  <2>1. callback # <<>> /\ callback \in Seq(Message) /\ ~closed
    BY <1>13 DEF QueryReturns, TypeOK, SessionTypes
  <2> DEFINE m == callback[1]
  <2>2. m \in Message /\ Head(callback) = m
    BY <2>1, HeadTailProperties
  <2>3. /\ callback' = <<>> /\ QueuePacket(Bytes(Head(callback)))
        /\ UNCHANGED <<build, closed, written, lost, stalls, errors>>
    BY <1>13, Zenon DEF QueryReturns
  <2>4. UNCHANGED <<received, readBuffer, taken, tempMessages, messages, stale, epoch, accepted, outgoing, connect, banned>>
    BY <1>13 DEF QueryReturns, clientVars, connectionVars, sendVars, receiveVars, managerVars, queueVars
  <2>5. status' = CASE m.cmd = "RealmList" -> "Authed" [] m.cmd # "RealmList" /\ m.ok -> "LogonProof" [] OTHER -> status
    BY <1>13, <2>2, Zenon DEF QueryReturns
  <2>6. /\ m.tag = epoch
        /\ \/ m.cmd = "LogonChallenge" /\ status = "Closed"
           \/ m.cmd = "RealmList" /\ status = "WaitingForRealmList"
    BY <2>1 DEF SessionInv
  <2> HIDE DEF m
  <2>7. Queues(m)
    BY <2>2, <2>3, Zenon DEF Queues
  <2>8. received' \in 0 .. Len(written') /\ Unread' = Unread \o Bytes(m)
    BY <1>1, <2>1, <2>2, <2>4, <2>7, QueueUnread
  <2>9. received' <= Len(written')
    BY <1>1, <2>3, <2>4
  <2>10. \/ m.cmd = "LogonChallenge" /\ status = "Closed" /\ status' \in {"LogonProof", "Closed"}
         \/ m.cmd = "RealmList" /\ status = "WaitingForRealmList" /\ status' = "Authed"
    <3>1. m.ok \in BOOLEAN
      BY <2>2 DEF Message
    <3>2. CASE m.cmd = "LogonChallenge" /\ status = "Closed"
      BY <2>5, <3>1, <3>2
    <3>3. CASE m.cmd = "RealmList" /\ status = "WaitingForRealmList"
      BY <2>5, <3>3
    <3> QED
      BY <2>6, <3>2, <3>3
  <2>11. Handled' = Handled /\ Chunks' = Chunks /\ UNCHANGED <<stale, epoch, Asking, connect, banned>>
    BY <1>2, <1>4, <2>4 DEF Asking
  <2>12. callback[1] = m
    BY DEF m
  <2>13. AtReply
    BY <2>1, <2>2, <2>3, <2>6, <2>8, <2>10, <2>11, <2>12, Zenon DEF AtReply
  <2> QED
    BY <2>9, <2>13, Zenon DEF Effect
<1>14. CASE ServerWrites
  <2>1. /\ UNCHANGED <<received, tempMessages, messages, stale, epoch, accepted, outgoing, status, callback, banned,
                       connect, taken>>
        /\ WriteStep
    BY <1>14 DEF ServerWrites, clientVars, connectionVars, sendVars, receiveVars, managerVars, queueVars, sessionVars
  <2>2. readBuffer' = readBuffer
    BY <2>1 DEF WriteStep, Update, WriteHandlerWrapper, WriteHandler, WriteHandlerError
  <2>3. received' \in 0 .. Len(written') /\ Fewer
    BY <1>1, <2>1, WriteUnread
  <2>4. received' <= Len(written')
    BY <2>3
  <2>5. Calm
    BY <1>2, <1>4, <1>52, <2>1, <2>2, <2>3 DEF Calm, Silence, Asking
  <2> QED
    BY <2>4, <2>5 DEF Effect
<1>15. ASSUME NEW e \in 1 .. MaxConnections, Opens(e) PROVE received' <= Len(written') /\ Effect
  <2>1. UNCHANGED <<written, writeQueue, received, tempMessages, messages, stale, epoch, accepted, outgoing, status,
                    callback, banned, readBuffer, taken, connect>>
    BY <1>15 DEF Opens, ProcessConnect, Elsewhere, sendVars, managerVars, queueVars, socketVars, sessionVars
  <2> QED
    BY <1>4, <1>51, <1>52, <2>1
<1>16. CASE Receives \/ Send \/ SendFails \/ Stored \/ ReceiveEnds
  <2>1. UNCHANGED <<written, writeQueue, received, epoch, accepted, outgoing, connect>>
    BY <1>16 DEF Receives, TryReceive, Send, SystemSends, ProcessSend, SendFails, Stored, ReceiveEnds, Elsewhere,
       connectionVars, sendVars, receiveVars, socketVars
  <2>2. UNCHANGED <<tempMessages, messages, stale, status, callback, banned, readBuffer, taken>>
    BY <1>16 DEF Receives, Send, SendFails, Stored, Enqueued, ReceiveEnds, Elsewhere, managerVars, queueVars,
       socketVars, sessionVars
  <2> QED
    BY <1>4, <1>51, <1>52, <2>1, <2>2
<1>17. CASE Receive
  <2>1. PICK n \in 1 .. Len(written) - received :
          OnClientDataReceived(SubSeq(written, received + 1, received + n)) /\ received' = received + n
    BY <1>17, Zenon DEF Receive
  <2> DEFINE c == SubSeq(written, received + 1, received + n)
  <2>2. /\ connect = "open" /\ messages' = Append(messages, c)
        /\ UNCHANGED <<written, writeQueue, tempMessages, stale, epoch, accepted, outgoing, status,
                       callback, banned, readBuffer, taken, connect>>
    BY <1>17, <2>1 DEF Receive, OnClientDataReceived, Elsewhere, connectionVars, sendVars, socketVars, sessionVars
  <2>3. /\ received' \in 0 .. Len(written') /\ Unread' \in Seq(Byte) /\ c \in Chunk /\ Unread = c \o Unread'
    BY <1>1, <2>1, <2>2, ReceiveUnread
  <2> HIDE DEF c
  <2>4. Chunks' = Append(Chunks, c)
    <3> DEFINE AnyChunk == Chunk \cup {<<>>}
               one == <<c>>
    <3>1. messages \in Seq(Chunk) /\ tempMessages \in Seq(AnyChunk) /\ Chunk \subseteq AnyChunk
      BY DEF TypeOK, ManagerTypes
    <3>2. messages \in Seq(AnyChunk) /\ one \in Seq(AnyChunk) /\ Chunks \in Seq(AnyChunk) /\ c \in AnyChunk
      BY <2>3, <3>1, FirstChunk
    <3>3. messages' = messages \o one
      BY <2>2, <2>3, <3>1, AppendIsConcat
    <3> HIDE DEF AnyChunk
    <3>4. Append(Chunks, c) = Chunks \o one
      BY <3>2, AppendIsConcat
    <3> HIDE DEF one
    <3>5. (tempMessages \o messages) \o one = tempMessages \o (messages \o one)
      <4>1. tempMessages \in Seq(AnyChunk) /\ messages \in Seq(AnyChunk) /\ one \in Seq(AnyChunk)
        BY <3>1, <3>2
      <4> QED
        BY ONLY <4>1, Assoc
    <3> QED
      BY <2>2, <3>3, <3>4, <3>5, Zenon DEF Chunks
  <2>5. connect # "pending"
    BY <2>2
  <2>6. Handled' = Handled
    BY <1>4, <2>2
  <2>7. AtReceive
    BY <2>2, <2>3, <2>4, <2>5, <2>6 DEF AtReceive, Asking
  <2>8. received' <= Len(written')
    BY <1>1, <2>1, <2>2
  <2> QED
    BY <2>7, <2>8 DEF Effect
<1>18. ASSUME NEW t \in Completions, Returns(t) \/ Disconnects(t) \/ Disconnected(t)
       PROVE  received' <= Len(written') /\ Effect
  <2>1. UNCHANGED <<written, writeQueue, received, tempMessages, messages, stale, epoch, accepted, outgoing, status,
                    callback, banned, readBuffer, taken>>
    BY <1>18 DEF Returns, CompletionReturns, Disconnects, DisconnectCloses, Disconnected, DisconnectClears,
       ShowMessage, Elsewhere, managerVars, queueVars, sendVars, receiveVars, socketVars, sessionVars
  <2>2. connect' = connect \/ connect' # "pending"
    BY <1>18 DEF Returns, CompletionReturns, Disconnects, DisconnectCloses, Disconnected, DisconnectClears
  <2> QED
    BY <1>4, <1>51, <1>52, <2>1, <2>2
<1>19. ASSUME NEW a \in Accounts, UserLogsIn(a) PROVE received' <= Len(written') /\ Effect
  <2> DEFINE m == Request("LogonChallenge", epoch, a)
  <2>1. m \in Message /\ m.cmd = "LogonChallenge"
    BY AreMessages DEF TypeOK, ClientTypes, Commands, Request, Names
  <2>2. /\ UNCHANGED <<written, writeQueue, received, tempMessages, messages, stale, epoch, status,
                       callback, banned, readBuffer, taken, connect>>
        /\ isConnected /\ outgoing = <<>> /\ SendAsync(Bytes(m))
    BY <1>19 DEF UserLogsIn, Login, BetweenFrames, Elsewhere, connectionVars, receiveVars, queueVars, socketVars,
       sessionVars
  <2> HIDE DEF m
  <2>3. Asking' = Asking \o Bytes(m)
    <3>1. accepted' = accepted /\ outgoing' = Bytes(m)
      BY <2>2 DEF SendAsync
    <3>2. Asking' = accepted \o Bytes(m)
      BY <3>1, Zenon DEF Asking
    <3> QED
      BY <2>2, <3>2, AskingMoves, Zenon
  <2>4. received' <= Len(written') /\ Unread' = Unread
    BY <1>1, <2>2, SameUnread
  <2>5. AtLogin
    BY <1>2, <1>4, <2>1, <2>2, <2>3, <2>4 DEF AtLogin
  <2> QED
    BY <2>4, <2>5 DEF Effect
<1>20. CASE Frame
  <2>1. UNCHANGED <<written, writeQueue, received, epoch, status, callback, banned, readBuffer, taken, connect>>
    BY <1>20 DEF Frame, SendBuffered, Elsewhere, connectionVars, receiveVars, socketVars, sessionVars
  <2>2. received' <= Len(written') /\ Unread' = Unread /\ Handled' = Handled
    BY <1>1, <1>4, <2>1, SameUnread
  <2>3. CASE FrameTakes \/ FrameStores \/ (SendBuffered /\ UNCHANGED managerVars)
    <3>1. UNCHANGED stale /\ Asking' = Asking
      BY <2>3, AskingMoves DEF FrameTakes, FrameStores, managerVars, sendVars
    <3>2. Chunks' = Chunks \/ Chunks' = Append(Chunks, <<>>)
      <4>1. CASE FrameTakes
        BY <4>1, FrameMoves
      <4>2. CASE FrameStores \/ UNCHANGED managerVars
        BY <1>2, <4>2 DEF FrameStores, managerVars, queueVars
      <4> QED
        BY <2>3, <4>1, <4>2
    <3>3. Fewer
      BY <1>1, <2>2, FewerIfSame
    <3>4. Silence
      BY <1>52, <2>1, <2>2, <3>1, <3>3 DEF Silence
    <3> QED
      BY <2>2, <3>2, <3>4 DEF Calm, AtNothing, Effect
  <2>4. CASE Dispatch
    <3> DEFINE chunk == Head(tempMessages)
    <3>1. /\ tempMessages # <<>> /\ tempMessages' = Tail(tempMessages) /\ messages' = messages
          /\ stale' = (stale \/ (chunk # <<>> /\ chunk[1].msg.tag # epoch))
          /\ outgoing = <<>>
      BY <2>4, Zenon DEF Dispatch
    <3>2. /\ Chunks # <<>> /\ Chunks[1] = chunk
          /\ Tail(Chunks) = Tail(tempMessages) \o messages
      BY <3>1, FirstChunk
    <3>3. Chunks' = Tail(Chunks)
      BY <3>1, <3>2, Zenon DEF Chunks
    <3>4. /\ chunk # <<>> => chunk[1].msg \in Message /\ chunk[1].msg.tag \in 0 .. MaxConnections
          /\ account \in Names /\ epoch \in 0 .. MaxConnections
      BY <3>1, FirstMessage DEF TypeOK, ClientTypes, ManagerTypes, Message
    <3>5. \A b \in Seq(Byte) : SendAsync(b) => Asking' = Asking \/ Asking' = Asking \o b
      BY <3>1, AskingMoves
    <3>6. \/ UNCHANGED sendVars
          \/ /\ Len(chunk) > 1 /\ chunk[1].part = 1
             /\ LogonProofs \/ RealmLists
      BY <2>4, DispatchSends
    <3>7. CASE UNCHANGED sendVars
      <4>1. Asking' = Asking
        BY <3>7, AskingMoves DEF sendVars
      <4>2. AtDispatch
        BY <2>1, <2>2, <3>1, <3>2, <3>3, <4>1 DEF AtDispatch
      <4> QED
        BY <2>2, <4>2 DEF Effect
    <3>8. CASE Len(chunk) > 1 /\ chunk[1].part = 1 /\ LogonProofs
      <4> DEFINE m == Request("LogonProof", chunk[1].msg.tag, account)
      <4>1. PICK b \in Seq(Byte) :
              /\ chunk[1].msg.cmd = "LogonChallenge" /\ SendAsync(b)
              /\ b = Bytes(m) \/ b = <<Bytes(m)[1]>>
        BY <3>8, Zenon DEF LogonProofs
      <4>0. chunk # <<>>
        BY <3>8
      <4>2. m \in Message /\ m.cmd = "LogonProof"
        BY <3>4, <4>0, AreMessages DEF Commands, Request
      <4> HIDE DEF m
      <4>3. Asking' = Asking \/ Asking' = Asking \o Bytes(m) \/ Asking' = Asking \o <<Bytes(m)[1]>>
        BY <3>5, <4>1, Zenon
      <4>4. Asking' = Asking \/ Answers("LogonChallenge", "LogonProof")
        BY <3>2, <3>8, <4>1, <4>2, <4>3, Zenon DEF Answers, Begins
      <4>5. AtDispatch
        BY <2>1, <2>2, <3>1, <3>2, <3>3, <4>4 DEF AtDispatch
      <4> QED
        BY <2>2, <4>5 DEF Effect
    <3>9. CASE Len(chunk) > 1 /\ chunk[1].part = 1 /\ RealmLists
      <4> DEFINE m == Request("RealmList", epoch, account)
      <4>1. chunk[1].msg.cmd = "LogonProof" /\ SendAsync(Bytes(m))
        BY <3>9, Zenon DEF RealmLists
      <4>2. m \in Message /\ m.cmd = "RealmList" /\ Bytes(m) \in Seq(Byte)
        BY <3>4, AreMessages, TwoBytes DEF Commands, Request
      <4> HIDE DEF m
      <4>3. Asking' = Asking \/ Asking' = Asking \o Bytes(m)
        BY <3>5, <4>1, <4>2, Zenon
      <4>4. Asking' = Asking \/ Answers("LogonProof", "RealmList")
        BY <3>2, <3>9, <4>1, <4>2, <4>3, Zenon DEF Answers, Begins
      <4>5. AtDispatch
        BY <2>1, <2>2, <3>1, <3>2, <3>3, <4>4 DEF AtDispatch
      <4> QED
        BY <2>2, <4>5 DEF Effect
    <3> QED
      BY <3>6, <3>7, <3>8, <3>9
  <2> QED
    BY <1>20, <2>3, <2>4 DEF Frame
<1> QED
  BY <1>6, <1>7, <1>8, <1>9, <1>91, <1>10, <1>11, <1>12, <1>13, <1>14, <1>15, <1>16, <1>17, <1>18, <1>19, <1>20, Zenon
  DEF Next, Server, ClientThreads

-----------------------------------------------------------------------------
(* Who has asked for what, who has heard what, and what is under way. *)
Asked(c)    == \E i \in DOMAIN Asking : Begins(Asking[i], c)
UnderWay(c) == \E i \in DOMAIN Asking : i > Handled /\ Begins(Asking[i], c)
Unheard(c)  == \E b \in ToSet(Unread) : b.msg.cmd = c
WholeAt(i, c) ==
  /\ i \in DOMAIN Chunks /\ Len(Chunks[i]) > 1
  /\ Begins(Chunks[i][1], c) /\ Chunks[i][1].msg.tag = epoch
Heard(c)    == \E i \in DOMAIN Chunks : WholeAt(i, c)
OfOneMessage(s) == \A b, d \in ToSet(s) : b.msg = d.msg

HeardOnce == \A i, j \in DOMAIN Chunks :
  WholeAt(i, "LogonProof") /\ WholeAt(j, "LogonProof") => i = j
AskedOnce == \A i, j \in DOMAIN Asking :
  Begins(Asking[i], "RealmList") /\ Begins(Asking[j], "RealmList") => i = j

(* A client that handles no message of an earlier connection asks nothing   *)
(* before it was answered, and each status of the session says what either  *)
(* end may still have to say; to a banned address the server says one thing *)
(* and no more.                                                             *)
Talk ==
  /\ (status = "Challenge" /\ ~banned) \/ (callback # <<>> /\ callback[1].cmd = "LogonChallenge") =>
       /\ Unread = <<>> /\ ~Asked("LogonProof") /\ ~Asked("RealmList")
       /\ ~Heard("LogonChallenge") /\ ~Heard("LogonProof")
  /\ status = "LogonProof" =>
       /\ ~Unheard("LogonProof") /\ ~Unheard("RealmList")
       /\ ~Asked("RealmList") /\ ~Heard("LogonProof")
  /\ status = "Authed" => ~Unheard("LogonChallenge")
  /\ status = "WaitingForRealmList" => Unread = <<>>
  /\ Heard("LogonChallenge") \/ Asked("LogonProof") => ~Unheard("LogonChallenge")
  /\ Heard("LogonProof") \/ Asked("RealmList") => ~Unheard("LogonProof")
  /\ Heard("LogonProof") => ~Asked("RealmList")
  /\ ~Asked("RealmList") => ~Unheard("RealmList") /\ status # "WaitingForRealmList"
  /\ UnderWay("RealmList") => ~Unheard("RealmList") /\ status # "WaitingForRealmList"

Clean == /\ \A i \in DOMAIN Chunks : OfOneMessage(Chunks[i]) /\ Len(Chunks[i]) <= 2
         /\ OfOneMessage(Unread) /\ Len(Unread) <= 2

Dialogue == ~stale /\ ~late => Clean /\ HeardOnce /\ AskedOnce /\ Talk

(* Every byte on the wire is of this connection, and what the client holds  *)
(* is not of a later one.                                                   *)
Tagged ==
  /\ \A b \in ToSet(Unread) : b.msg.tag = epoch
  /\ \A i \in DOMAIN Chunks : Chunks[i] # <<>> => Chunks[i][1].msg.tag <= epoch
  /\ connect = "pending" => \A i \in DOMAIN Chunks : Chunks[i] # <<>> => Chunks[i][1].msg.tag # epoch

(* The types of what they are about, which hold before and after a step. *)
DialogueTypes ==
  /\ Unread \in Seq(Byte) /\ Chunks \in Seq(Chunk \cup {<<>>}) /\ Asking \in Seq(Byte)
  /\ epoch \in Nat /\ stale \in BOOLEAN /\ Handled \in Int

(* They follow from the types of the variables. *)
LEMMA TypesOfDialogue ==
  ASSUME TypeOK
  PROVE  DialogueTypes
<1>1. WriterTypes /\ received \in 0 .. Len(written)
  <2>1. WriterTypes /\ written \in Seq(Byte) /\ received \in Nat /\ received <= Len(written)
    BY DEF TypeOK, SocketTypes, WriterTypes, Packets, ClientTypes
  <2>2. Len(written) \in Nat
    BY <2>1, LenProperties
  <2> QED
    BY <2>1, <2>2
<1>2. Unread \in Seq(Byte)
  BY <1>1, UnreadParts
<1>3. Chunks \in Seq(Chunk \cup {<<>>})
  BY FirstChunk
<1>4. Handled \in Int
  <2>1. readBuffer.active \in Seq(Byte) /\ taken \in Nat
    BY DEF TypeOK, SocketTypes, Buffer, SessionTypes
  <2>2. Len(readBuffer.active) \in Nat
    BY <2>1, LenProperties
  <2> QED
    BY <2>1, <2>2 DEF Handled
<1> QED
  BY <1>2, <1>3, <1>4, AskingMoves DEF DialogueTypes, TypeOK, ClientTypes, ManagerTypes

(* The bytes of a message are of it. *)
LEMMA BytesOf ==
  ASSUME NEW m \in Message
  PROVE  Bytes(m) \in Seq(Byte) /\ \A b \in ToSet(Bytes(m)) : b.msg = m
<1>1. /\ Bytes(m) \in Seq(Byte) /\ Len(Bytes(m)) = 2
      /\ Bytes(m)[1] = [msg |-> m, part |-> 1] /\ Bytes(m)[2] = [msg |-> m, part |-> 2]
  BY TwoBytes, Zenon
<1>2. DOMAIN Bytes(m) = 1 .. 2
  BY <1>1, LenProperties
<1> QED
  BY <1>1, <1>2 DEF ToSet

(* What a receive returns has a first byte. *)
LEMMA ChunkBegins ==
  ASSUME NEW c \in Chunk
  PROVE  c \in Seq(Byte) /\ c[1] \in ToSet(c) /\ Len(c) \in Nat /\ Len(c) > 0
<1>1. c \in Seq(Byte) /\ c # <<>>
  BY DEF Chunk
<1>2. Len(c) \in Nat /\ Len(c) # 0
  BY <1>1, LenProperties, EmptySeq
<1> QED
  BY <1>1, <1>2, Elements

(* A new request. *)
LEMMA AskingGrows ==
  ASSUME Asking \in Seq(Byte), NEW m \in Message, NEW s,
         s = Bytes(m) \/ s = <<Bytes(m)[1]>>, Asking' = Asking \o s
  PROVE  /\ \A i \in DOMAIN Asking : i \in DOMAIN Asking' /\ Asking'[i] = Asking[i]
         /\ \A c : \A i \in DOMAIN Asking' : Begins(Asking'[i], c) =>
              (i \in DOMAIN Asking /\ Asking'[i] = Asking[i]) \/ (i = Len(Asking) + 1 /\ c = m.cmd)
<1>1. /\ s \in Seq(Byte) /\ Len(s) \in {1, 2} /\ s[1] = [msg |-> m, part |-> 1]
      /\ Len(s) = 2 => s[2] = [msg |-> m, part |-> 2]
  <2>1. Len(Bytes(m)) = 2 /\ Len(<<Bytes(m)[1]>>) = 1
    BY TwoBytes, Zenon
  <2>2. CASE s = Bytes(m)
    BY <2>1, <2>2, TwoBytes, Zenon
  <2>3. CASE s = <<Bytes(m)[1]>>
    <3>1. s \in Seq(Byte) /\ s[1] = [msg |-> m, part |-> 1]
      BY <2>3, TwoBytes, Zenon
    <3> QED
      BY <2>1, <2>3, <3>1
  <2> QED
    BY <2>2, <2>3
<1> DEFINE a == Asking \o s
<1>2. /\ a \in Seq(Byte) /\ Len(a) = Len(Asking) + Len(s)
      /\ \A i \in 1 .. Len(Asking) + Len(s) :
           a[i] = IF i <= Len(Asking) THEN Asking[i] ELSE s[i - Len(Asking)]
  BY <1>1, ConcatProperties
<1> HIDE DEF a
<1>3. /\ DOMAIN a = 1 .. Len(Asking) + Len(s) /\ DOMAIN Asking = 1 .. Len(Asking)
      /\ Len(Asking) \in Nat
  BY <1>2, LenProperties
<1>4. \A i \in DOMAIN Asking : i \in DOMAIN a /\ a[i] = Asking[i]
  BY <1>1, <1>2, <1>3
<1>5. ASSUME NEW c, NEW i \in DOMAIN a, Begins(a[i], c), i \notin DOMAIN Asking
      PROVE  i = Len(Asking) + 1 /\ c = m.cmd
  <2>1. /\ i \in 1 .. Len(Asking) + Len(s) /\ ~(i <= Len(Asking)) /\ i - Len(Asking) \in 1 .. Len(s)
    BY <1>1, <1>3, <1>5
  <2>2. a[i] = s[i - Len(Asking)]
    BY <1>2, <2>1
  <2>3. CASE i - Len(Asking) = 1
    <3>1. i = Len(Asking) + 1
      BY <1>3, <2>1, <2>3
    <3> QED
      BY <1>1, <1>5, <2>2, <2>3, <3>1 DEF Begins
  <2>4. CASE i - Len(Asking) = 2
    <3>1. Len(s) = 2
      BY <1>1, <1>3, <2>1, <2>4
    <3> QED
      BY <1>1, <1>5, <2>2, <2>4, <3>1 DEF Begins
  <2> QED
    BY <1>1, <2>1, <2>3, <2>4
<1>6. Asking' = a
  BY DEF a
<1> QED
  BY <1>4, <1>5, <1>6

(* What a step does to each part: the requests, ... *)
LEMMA KeepsRequests ==
  ASSUME Asking' = Asking, DialogueTypes, DialogueTypes', Handled' >= Handled
  PROVE  /\ \A c : (Asked(c)' <=> Asked(c)) /\ (UnderWay(c)' => UnderWay(c))
         /\ AskedOnce => AskedOnce'
<1>1. Handled \in Int /\ Handled' \in Int /\ Asking \in Seq(Byte)
  BY DEF DialogueTypes
<1>2. DOMAIN Asking = 1 .. Len(Asking) /\ Len(Asking) \in Nat
  BY <1>1, LenProperties
<1>3. \A c : Asked(c)' <=> Asked(c)
  BY DEF Asked, Begins
<1>4. ASSUME NEW c, UnderWay(c)' PROVE UnderWay(c)
  <2>1. PICK i \in DOMAIN Asking : i > Handled' /\ Begins(Asking[i], c)
    BY <1>4 DEF UnderWay, Begins
  <2>2. i > Handled
    BY <1>1, <1>2, <2>1
  <2> QED
    BY <2>1, <2>2 DEF UnderWay
<1>5. AskedOnce => AskedOnce'
  BY DEF AskedOnce, Begins
<1> QED
  BY <1>3, <1>4, <1>5

(* ... which a send extends by at most its own command, ... *)
LEMMA AddsRequest ==
  ASSUME DialogueTypes, Handled' = Handled, NEW m \in Message,
         Asking' = Asking \o Bytes(m) \/ Asking' = Asking \o <<Bytes(m)[1]>>
  PROVE  /\ \A c : Asked(c)' => Asked(c) \/ c = m.cmd
         /\ \A c : UnderWay(c)' => UnderWay(c) \/ c = m.cmd
         /\ \A c : Asked(c) => Asked(c)'
         /\ AskedOnce /\ (m.cmd = "RealmList" => ~Asked("RealmList")) => AskedOnce'
<1> DEFINE s == IF Asking' = Asking \o Bytes(m) THEN Bytes(m) ELSE <<Bytes(m)[1]>>
<1>1. (s = Bytes(m) \/ s = <<Bytes(m)[1]>>) /\ Asking' = Asking \o s
  BY Zenon
<1> HIDE DEF s
<1>2. Asking \in Seq(Byte)
  BY DEF DialogueTypes
<1>3. /\ \A i \in DOMAIN Asking : i \in DOMAIN Asking' /\ Asking'[i] = Asking[i]
      /\ \A c : \A i \in DOMAIN Asking' : Begins(Asking'[i], c) =>
           (i \in DOMAIN Asking /\ Asking'[i] = Asking[i]) \/ (i = Len(Asking) + 1 /\ c = m.cmd)
  BY <1>1, <1>2, AskingGrows
<1>4. \A c : Asked(c)' => Asked(c) \/ c = m.cmd
  BY <1>3 DEF Asked, Begins
<1>5. \A c : UnderWay(c)' => UnderWay(c) \/ c = m.cmd
  BY <1>3 DEF UnderWay, Begins
<1>6. \A c : Asked(c) => Asked(c)'
  BY <1>3 DEF Asked, Begins
<1>7. ASSUME AskedOnce, m.cmd = "RealmList" => ~Asked("RealmList")
      PROVE  AskedOnce'
  <2>1. SUFFICES ASSUME NEW i \in DOMAIN Asking', NEW j \in DOMAIN Asking',
                        Begins(Asking'[i], "RealmList"), Begins(Asking'[j], "RealmList")
                 PROVE  i = j
    BY DEF AskedOnce, Begins
  <2>2. \A k \in DOMAIN Asking' : Begins(Asking'[k], "RealmList") =>
          (k \in DOMAIN Asking /\ Asking'[k] = Asking[k]) \/ (k = Len(Asking) + 1 /\ m.cmd = "RealmList")
    BY <1>3
  <2>3. CASE m.cmd = "RealmList"
    <3>1. \A k \in DOMAIN Asking : ~Begins(Asking[k], "RealmList")
      BY <1>7, <2>3 DEF Asked
    <3> QED
      BY <2>1, <2>2, <3>1
  <2>4. CASE m.cmd # "RealmList"
    <3>1. i \in DOMAIN Asking /\ j \in DOMAIN Asking /\ Asking'[i] = Asking[i] /\ Asking'[j] = Asking[j]
      BY <2>1, <2>2, <2>4
    <3> QED
      BY <1>7, <2>1, <3>1 DEF AskedOnce
  <2> QED
    BY <2>3, <2>4
<1> QED
  BY <1>4, <1>5, <1>6, <1>7

(* ... what is on its way, ... *)
LEMMA KeepsUnread ==
  ASSUME DialogueTypes, DialogueTypes', Fewer
  PROVE  /\ \A c : Unheard(c)' => Unheard(c)
         /\ OfOneMessage(Unread) => OfOneMessage(Unread)'
         /\ Len(Unread) <= 2 => Len(Unread') <= 2
         /\ Unread = <<>> => Unread' = <<>>
         /\ \A b \in ToSet(Unread') : b \in ToSet(Unread)
<1>1. Unread \in Seq(Byte) /\ Unread' \in Seq(Byte)
  BY DEF DialogueTypes
<1>2. Len(Unread) \in Nat /\ Len(Unread') \in Nat
  BY <1>1, LenProperties
<1>3. Unread = <<>> => Unread' = <<>>
  BY <1>1, Elements DEF Fewer
<1>4. \A c : Unheard(c)' => Unheard(c)
  BY DEF Fewer, Unheard
<1>5. OfOneMessage(Unread) => OfOneMessage(Unread)'
  BY DEF Fewer, OfOneMessage
<1>6. Len(Unread) <= 2 => Len(Unread') <= 2
  BY <1>2 DEF Fewer
<1> QED
  BY <1>3, <1>4, <1>5, <1>6 DEF Fewer

(* ... which is one message after a reply to a client that waits, ... *)
LEMMA SaysOne ==
  ASSUME NEW m \in Message, Unread = <<>>, Unread' = Unread \o Bytes(m)
  PROVE  /\ \A c : Unheard(c)' => c = m.cmd
         /\ OfOneMessage(Unread)' /\ Len(Unread') <= 2
         /\ \A b \in ToSet(Unread') : b.msg = m
<1>1. Bytes(m) \in Seq(Byte) /\ \A b \in ToSet(Bytes(m)) : b.msg = m
  BY BytesOf
<1>2. Len(Bytes(m)) = 2
  BY TwoBytes
<1> DEFINE s == Bytes(m)
<1>3. s \in Seq(Byte)
  BY <1>1
<1> HIDE DEF s
<1>4. <<>> \o s = s
  BY <1>3, ConcatEmptySeq
<1>5. Unread' = s
  BY <1>4, Zenon DEF s
<1>6. \A b \in ToSet(Unread') : b.msg = m
  BY <1>1, <1>5, Zenon DEF s
<1>7. Len(Unread') <= 2
  BY <1>2, <1>5 DEF s
<1>8. \A c : Unheard(c)' => c = m.cmd
  BY <1>6 DEF Unheard
<1>9. OfOneMessage(Unread)'
  BY <1>6 DEF OfOneMessage
<1> QED
  BY <1>6, <1>7, <1>8, <1>9

(* ... and what the client has received. *)
LEMMA KeepsChunks ==
  ASSUME Chunks' = Chunks, epoch' = epoch
  PROVE  /\ \A c : Heard(c)' <=> Heard(c)
         /\ HeardOnce => HeardOnce'
         /\ \A i \in DOMAIN Chunks' : Chunks'[i] = Chunks[i]
<1>1. \A i, c : WholeAt(i, c)' <=> WholeAt(i, c)
  BY DEF WholeAt, Begins
<1> QED
  BY <1>1 DEF Heard, HeardOnce

(* A message that is not there is not heard. *)
LEMMA AddsNothing ==
  ASSUME DialogueTypes, Chunks' = Append(Chunks, <<>>), epoch' = epoch
  PROVE  /\ \A c : Heard(c)' <=> Heard(c)
         /\ HeardOnce => HeardOnce'
         /\ \A i \in DOMAIN Chunks' : (i \in DOMAIN Chunks /\ Chunks'[i] = Chunks[i]) \/ Chunks'[i] = <<>>
<1> DEFINE AnyChunk == Chunk \cup {<<>>}
<1>1. Chunks \in Seq(AnyChunk) /\ <<>> \in AnyChunk /\ Len(<<>>) = 0
  BY DEF DialogueTypes
<1> HIDE DEF AnyChunk
<1>2. /\ Len(Chunks) \in Nat /\ DOMAIN Chunks = 1 .. Len(Chunks)
      /\ Append(Chunks, <<>>) \in Seq(AnyChunk) /\ Len(Append(Chunks, <<>>)) = Len(Chunks) + 1
      /\ \A i \in 1 .. Len(Chunks) : Append(Chunks, <<>>)[i] = Chunks[i]
      /\ Append(Chunks, <<>>)[Len(Chunks) + 1] = <<>>
  BY <1>1, AppendProperties, LenProperties
<1>3. DOMAIN Append(Chunks, <<>>) = 1 .. Len(Chunks) + 1
  BY <1>2, LenProperties
<1>4. /\ DOMAIN Chunks' = 1 .. Len(Chunks) + 1
      /\ \A i \in 1 .. Len(Chunks) : Chunks'[i] = Chunks[i]
      /\ Chunks'[Len(Chunks) + 1] = <<>>
  BY <1>2, <1>3, Zenon
<1>5. \A i \in DOMAIN Chunks' : (i \in DOMAIN Chunks /\ Chunks'[i] = Chunks[i]) \/ Chunks'[i] = <<>>
  BY <1>2, <1>4
<1>6. \A i \in DOMAIN Chunks : i \in DOMAIN Chunks' /\ Chunks'[i] = Chunks[i]
  BY <1>2, <1>4
<1>7. \A i, c : WholeAt(i, c)' <=> WholeAt(i, c)
  BY <1>1, <1>5, <1>6 DEF WholeAt, Begins
<1> QED
  BY <1>5, <1>6, <1>7 DEF Heard, HeardOnce, WholeAt

(* A receive takes the beginning of what is on its way. *)
LEMMA TakesChunk ==
  ASSUME DialogueTypes, Unread' \in Seq(Byte), epoch' = epoch,
         NEW c \in Chunk, Unread = c \o Unread', Chunks' = Append(Chunks, c)
  PROVE  /\ Unread # <<>> /\ \A x : Unheard(x)' => Unheard(x)
         /\ Len(Unread) <= 2 => Len(Unread') <= 2 /\ Len(c) <= 2
         /\ OfOneMessage(Unread) => OfOneMessage(Unread)' /\ OfOneMessage(c)
         /\ ToSet(Unread') \subseteq ToSet(Unread) /\ c[1] \in ToSet(Unread)
         /\ \A i \in DOMAIN Chunks' : (i \in DOMAIN Chunks /\ Chunks'[i] = Chunks[i]) \/ Chunks'[i] = c
         /\ Len(Unread) <= 2 => \A x : Heard(x)' => Heard(x) \/ (Unheard(x) /\ Unread' = <<>>)
         /\ Len(Unread) <= 2 /\ HeardOnce /\ (Unheard("LogonProof") => ~Heard("LogonProof")) => HeardOnce'
<1> DEFINE u == Unread'
<1>1. /\ c \in Seq(Byte) /\ c[1] \in ToSet(c) /\ Len(c) \in Nat /\ Len(c) > 0 /\ u \in Seq(Byte)
      /\ Chunks \in Seq(Chunk \cup {<<>>}) /\ Unread \in Seq(Byte)
  BY ChunkBegins DEF DialogueTypes
<1>2. Unread = c \o u
  OBVIOUS
<1> HIDE DEF u
<1>3. ToSet(Unread) = ToSet(c) \cup ToSet(u) /\ Len(Unread) = Len(c) + Len(u)
  <2>1. c \in Seq(Byte) /\ u \in Seq(Byte)
    BY <1>1
  <2>2. ToSet(c \o u) = ToSet(c) \cup ToSet(u) /\ Len(c \o u) = Len(c) + Len(u)
    BY ONLY <2>1, ConcatElements, ConcatProperties
  <2> QED
    BY <1>2, <2>2, Zenon
<1>4. /\ Len(u) \in Nat /\ Len(Chunks) \in Nat /\ DOMAIN Chunks = 1 .. Len(Chunks)
      /\ Len(u) = 0 => u = <<>>
      /\ Unread # <<>>
  BY <1>1, <1>3, Elements, LenProperties, EmptySeq
<1>5. /\ DOMAIN Chunks' = 1 .. Len(Chunks) + 1
      /\ \A i \in DOMAIN Chunks' : i \in 1 .. Len(Chunks) => Chunks'[i] = Chunks[i]
      /\ Chunks'[Len(Chunks) + 1] = c
  <2>1. /\ Append(Chunks, c) \in Seq(Chunk \cup {<<>>}) /\ Len(Append(Chunks, c)) = Len(Chunks) + 1
        /\ \A i \in 1 .. Len(Chunks) : Append(Chunks, c)[i] = Chunks[i]
        /\ Append(Chunks, c)[Len(Chunks) + 1] = c
    BY <1>1, AppendProperties
  <2>2. DOMAIN Append(Chunks, c) = 1 .. Len(Chunks) + 1
    BY <2>1, LenProperties
  <2> QED
    BY <2>1, <2>2, Zenon
<1>6. \A i \in DOMAIN Chunks' : (i \in DOMAIN Chunks /\ Chunks'[i] = Chunks[i]) \/ (i = Len(Chunks) + 1 /\ Chunks'[i] = c)
  BY <1>4, <1>5
<1>7. \A x : Unheard(x)' => Unheard(x)
  BY <1>3 DEF Unheard, u
<1>8. OfOneMessage(Unread) => OfOneMessage(Unread)' /\ OfOneMessage(c)
  BY <1>3 DEF OfOneMessage, u
<1>9. ASSUME Len(Unread) <= 2, NEW x, NEW i, WholeAt(i, x)'
      PROVE  WholeAt(i, x) \/ (i = Len(Chunks) + 1 /\ Unheard(x) /\ u = <<>>)
  <2>1. /\ i \in DOMAIN Chunks' /\ Len(Chunks'[i]) > 1
        /\ Begins(Chunks'[i][1], x) /\ Chunks'[i][1].msg.tag = epoch
    BY <1>9 DEF WholeAt, Begins
  <2>2. CASE i \in DOMAIN Chunks /\ Chunks'[i] = Chunks[i]
    BY <2>1, <2>2 DEF WholeAt
  <2>3. CASE i = Len(Chunks) + 1 /\ Chunks'[i] = c
    <3>1. Len(c) > 1 /\ Begins(c[1], x)
      BY <2>1, <2>3
    <3>2. u = <<>>
      BY <1>1, <1>3, <1>4, <1>9, <3>1
    <3>3. Unheard(x)
      BY <1>1, <1>3, <3>1 DEF Unheard, Begins
    <3> QED
      BY <2>3, <3>2, <3>3
  <2> QED
    BY <1>6, <2>1, <2>2, <2>3
<1>10. ASSUME Len(Unread) <= 2, NEW x, Heard(x)' PROVE Heard(x) \/ (Unheard(x) /\ u = <<>>)
  <2>1. PICK i \in DOMAIN Chunks' : WholeAt(i, x)'
    BY <1>10 DEF Heard
  <2> QED
    BY <1>9, <1>10, <2>1 DEF Heard, WholeAt
<1>11. ASSUME Len(Unread) <= 2, HeardOnce, Unheard("LogonProof") => ~Heard("LogonProof")
       PROVE  HeardOnce'
  <2>1. SUFFICES ASSUME NEW i \in DOMAIN Chunks', NEW j \in DOMAIN Chunks',
                        WholeAt(i, "LogonProof")', WholeAt(j, "LogonProof")'
                 PROVE  i = j
    BY DEF HeardOnce
  <2>2. /\ WholeAt(i, "LogonProof") \/ (i = Len(Chunks) + 1 /\ ~Heard("LogonProof"))
        /\ WholeAt(j, "LogonProof") \/ (j = Len(Chunks) + 1 /\ ~Heard("LogonProof"))
    BY <1>9, <1>11, <2>1
  <2>3. \A k : WholeAt(k, "LogonProof") => k \in DOMAIN Chunks /\ Heard("LogonProof")
    BY DEF WholeAt, Heard
  <2> QED
    BY <1>11, <2>2, <2>3 DEF HeardOnce
<1>12. Len(Unread) <= 2 => Len(u) <= 2 /\ Len(c) <= 2
  BY <1>1, <1>3, <1>4
<1> QED
  BY <1>1, <1>3, <1>4, <1>6, <1>7, <1>8, <1>10, <1>11, <1>12 DEF u

(* Handling a message takes the first chunk away. *)
LEMMA DropsChunk ==
  ASSUME DialogueTypes, Chunks # <<>>, Chunks' = Tail(Chunks), epoch' = epoch
  PROVE  /\ \A i \in DOMAIN Chunks' : i + 1 \in DOMAIN Chunks /\ i + 1 # 1 /\ Chunks'[i] = Chunks[i + 1]
         /\ \A i, c : WholeAt(i, c)' => i + 1 # 1 /\ WholeAt(i + 1, c)
         /\ \A c : Heard(c)' => Heard(c)
         /\ HeardOnce => HeardOnce'
         /\ HeardOnce /\ WholeAt(1, "LogonProof") => ~Heard("LogonProof")'
<1>1. Chunks \in Seq(Chunk \cup {<<>>})
  BY DEF DialogueTypes
<1>2. /\ Len(Chunks) \in Nat /\ DOMAIN Chunks = 1 .. Len(Chunks)
      /\ Tail(Chunks) \in Seq(Chunk \cup {<<>>}) /\ Len(Tail(Chunks)) = Len(Chunks) - 1
      /\ \A i \in 1 .. Len(Chunks) - 1 : Tail(Chunks)[i] = Chunks[i + 1]
  BY <1>1, HeadTailProperties, LenProperties
<1>3. DOMAIN Tail(Chunks) = 1 .. Len(Chunks) - 1
  BY <1>2, LenProperties
<1>4. \A i \in DOMAIN Chunks' : i + 1 \in DOMAIN Chunks /\ i + 1 # 1 /\ Chunks'[i] = Chunks[i + 1]
  BY <1>2, <1>3
<1>5. ASSUME NEW i, NEW c, WholeAt(i, c)' PROVE i \in DOMAIN Chunks' /\ i + 1 # 1 /\ WholeAt(i + 1, c)
  <2>1. /\ i \in DOMAIN Chunks' /\ Len(Chunks'[i]) > 1
        /\ Begins(Chunks'[i][1], c) /\ Chunks'[i][1].msg.tag = epoch
    BY <1>5 DEF WholeAt, Begins
  <2> QED
    BY <1>4, <2>1 DEF WholeAt
<1>6. \A c : Heard(c)' => Heard(c)
  BY <1>5 DEF Heard, WholeAt
<1>7. ASSUME HeardOnce PROVE HeardOnce'
  <2>1. SUFFICES ASSUME NEW i \in DOMAIN Chunks', NEW j \in DOMAIN Chunks',
                        WholeAt(i, "LogonProof")', WholeAt(j, "LogonProof")'
                 PROVE  i = j
    BY DEF HeardOnce
  <2>2. i \in Int /\ j \in Int /\ i + 1 \in DOMAIN Chunks /\ j + 1 \in DOMAIN Chunks
    BY <1>2, <1>3, <1>4
  <2>3. i + 1 = j + 1
    BY <1>5, <1>7, <2>1, <2>2 DEF HeardOnce
  <2> QED
    BY <2>2, <2>3
<1>8. ASSUME HeardOnce, WholeAt(1, "LogonProof") PROVE ~Heard("LogonProof")'
  <2>1. ASSUME Heard("LogonProof")' PROVE FALSE
    <3>1. PICK i \in DOMAIN Chunks' : WholeAt(i, "LogonProof")'
      BY <2>1 DEF Heard
    <3>2. i + 1 # 1 /\ WholeAt(i + 1, "LogonProof")
      BY <1>5, <3>1
    <3>3. i + 1 \in DOMAIN Chunks /\ 1 \in DOMAIN Chunks
      BY <1>8, <3>2 DEF WholeAt
    <3> QED
      BY <1>8, <3>2, <3>3 DEF HeardOnce
  <2> QED
    BY <2>1
<1> QED
  BY <1>4, <1>5, <1>6, <1>7, <1>8

(* What the client holds has tags. *)
LEMMA FirstTags ==
  ASSUME DialogueTypes
  PROVE  /\ \A i \in DOMAIN Chunks : Chunks[i] # <<>> => Chunks[i] \in Chunk /\ Chunks[i][1].msg.tag \in Nat
         /\ epoch \in Nat
<1>1. ASSUME NEW c \in Chunk PROVE c[1].msg.tag \in Nat
  <2>1. c[1] \in Byte
    BY ChunkBegins, Elements
  <2> QED
    BY <2>1 DEF Byte, Message
<1> DEFINE AnyChunk == Chunk \cup {<<>>}
<1>2. Chunks \in Seq(AnyChunk)
  BY DEF DialogueTypes
<1>3. \A i \in DOMAIN Chunks : Chunks[i] \in AnyChunk
  BY <1>2, Elements
<1> QED
  BY <1>1, <1>3 DEF DialogueTypes

(* Each effect keeps the tags. *)
LEMMA EffectKeepsTagged ==
  ASSUME DialogueTypes, DialogueTypes', Tagged, Effect
  PROVE  Tagged'
<1>1. /\ \A i \in DOMAIN Chunks : Chunks[i] # <<>> =>
           Chunks[i][1].msg.tag \in Nat /\ Chunks[i][1].msg.tag <= epoch
      /\ \A b \in ToSet(Unread) : b.msg.tag = epoch
      /\ connect = "pending" => \A i \in DOMAIN Chunks : Chunks[i] # <<>> => Chunks[i][1].msg.tag # epoch
      /\ epoch \in Nat
  BY FirstTags DEF Tagged
<1>2. ToSet(<<>>) = {}
  <2>1. <<>> \in Seq(Byte)
    BY EmptySeq
  <2> QED
    BY <2>1, Elements
<1>3. ASSUME Chunks' = Chunks, epoch' = epoch, connect' = connect \/ connect' # "pending",
             \A b \in ToSet(Unread') : b.msg.tag = epoch
      PROVE  Tagged'
  BY <1>1, <1>3 DEF Tagged
<1>4. CASE AtConnect
  <2>1. Unread' = <<>> /\ Chunks' = Chunks /\ epoch' = epoch + 1
    BY <1>4 DEF AtConnect
  <2>2. \A i \in DOMAIN Chunks' : Chunks'[i] # <<>> =>
          Chunks'[i][1].msg.tag <= epoch' /\ Chunks'[i][1].msg.tag # epoch'
    BY <1>1, <2>1
  <2> QED
    BY <1>2, <2>1, <2>2 DEF Tagged
<1>5. CASE AtAccept
  BY <1>2, <1>3, <1>5 DEF AtAccept
<1>6. CASE Calm
  BY <1>1, <1>3, <1>6 DEF Calm, Silence, Fewer
<1>61. CASE AtNothing
  <2>1. /\ Chunks' = Append(Chunks, <<>>) /\ epoch' = epoch /\ Fewer
        /\ connect' = connect \/ connect' # "pending"
    BY <1>61 DEF AtNothing, Silence
  <2>2. \A i \in DOMAIN Chunks' : (i \in DOMAIN Chunks /\ Chunks'[i] = Chunks[i]) \/ Chunks'[i] = <<>>
    BY <2>1, AddsNothing
  <2> QED
    BY <1>1, <2>1, <2>2 DEF Tagged, Fewer
<1>7. CASE Asks("LogonChallenge", "Challenge", "Closed") \/ Asks("RealmList", "Authed", "WaitingForRealmList")
  BY <1>1, <1>3, <1>7 DEF Asks, AtRequest
<1>8. ASSUME NEW m \in Message, m.tag = epoch, Unread' = Unread \o Bytes(m)
      PROVE  \A b \in ToSet(Unread') : b.msg.tag = epoch
  <2> DEFINE s == Bytes(m)
             u == Unread
  <2>1. s \in Seq(Byte) /\ u \in Seq(Byte) /\ \A b \in ToSet(s) : b.msg = m
    BY BytesOf DEF DialogueTypes
  <2>2. Unread' = u \o s
    BY <1>8
  <2> HIDE DEF s, u
  <2>3. ToSet(u \o s) = ToSet(u) \cup ToSet(s)
    <3>1. s \in Seq(Byte) /\ u \in Seq(Byte)
      BY <2>1
    <3> QED
      BY ONLY <3>1, ConcatElements
  <2>4. ToSet(Unread') = ToSet(u) \cup ToSet(s)
    BY <2>2, <2>3, Zenon
  <2> QED
    BY <1>1, <1>8, <2>1, <2>4 DEF u
<1>9. CASE Proves
  <2>1. Chunks' = Chunks /\ epoch' = epoch /\ connect' = connect
    BY <1>9 DEF Proves, AtRequest
  <2>2. \A b \in ToSet(Unread') : b.msg.tag = epoch
    BY <1>1, <1>8, <1>9, Zenon DEF Proves
  <2> QED
    BY <1>3, <2>1, <2>2
<1>10. CASE AtReply
  <2>1. PICK m \in Message :
          /\ m.tag = epoch /\ Unread' = Unread \o Bytes(m)
          /\ Chunks' = Chunks /\ UNCHANGED <<epoch, connect>>
    BY <1>10, Zenon DEF AtReply
  <2>2. \A b \in ToSet(Unread') : b.msg.tag = epoch
    BY <1>8, <2>1, Zenon
  <2> QED
    BY <1>3, <2>1, <2>2
<1>101. CASE AtBan
  <2>1. Chunks' = Chunks /\ epoch' = epoch /\ connect' = connect
    BY <1>101 DEF AtBan
  <2>2. \A b \in ToSet(Unread') : b.msg.tag = epoch
    BY <1>8, <1>101, Zenon DEF AtBan
  <2> QED
    BY <1>3, <2>1, <2>2
<1>11. CASE AtReceive
  <2>1. PICK c \in Chunk : Unread = c \o Unread' /\ Chunks' = Append(Chunks, c)
    BY <1>11, Zenon DEF AtReceive
  <2>2. Unread' \in Seq(Byte) /\ epoch' = epoch /\ connect' # "pending"
    BY <1>11 DEF AtReceive
  <2>3. /\ ToSet(Unread') \subseteq ToSet(Unread) /\ c[1] \in ToSet(Unread)
        /\ \A i \in DOMAIN Chunks' : (i \in DOMAIN Chunks /\ Chunks'[i] = Chunks[i]) \/ Chunks'[i] = c
    BY <2>1, <2>2, TakesChunk
  <2>4. c[1].msg.tag = epoch /\ epoch <= epoch
    BY <1>1, <2>3
  <2>5. \A i \in DOMAIN Chunks' : Chunks'[i] # <<>> => Chunks'[i][1].msg.tag <= epoch
    BY <1>1, <2>3, <2>4
  <2> QED
    BY <1>1, <2>2, <2>3, <2>5 DEF Tagged
<1>12. CASE AtLogin
  BY <1>1, <1>3, <1>12 DEF AtLogin
<1>13. CASE AtDispatch
  <2>1. Chunks # <<>> /\ Chunks' = Tail(Chunks) /\ UNCHANGED <<Unread, epoch, connect>>
    BY <1>13 DEF AtDispatch
  <2>2. \A i \in DOMAIN Chunks' : i + 1 \in DOMAIN Chunks /\ Chunks'[i] = Chunks[i + 1]
    BY <2>1, DropsChunk
  <2> QED
    BY <1>1, <2>1, <2>2 DEF Tagged
<1> QED
  BY <1>4, <1>5, <1>6, <1>61, <1>7, <1>9, <1>10, <1>101, <1>11, <1>12, <1>13 DEF Effect

(* The commands are three: what holds no reply to any of them holds nothing. *)
LEMMA NothingUnheard ==
  ASSUME DialogueTypes, \A c \in Commands : ~Unheard(c)
  PROVE  Unread = <<>>
<1>1. \A b \in ToSet(Unread) : b.msg.cmd \in Commands
  <2>1. ToSet(Unread) \subseteq Byte
    BY Elements DEF DialogueTypes
  <2> QED
    BY <2>1 DEF Byte, Message
<1>2. ToSet(Unread) = {}
  BY <1>1 DEF Unheard
<1> QED
  BY <1>2, Elements DEF DialogueTypes

(* Nothing unread answers nothing. *)
LEMMA EmptyUnread ==
  ASSUME Unread' = <<>>
  PROVE  /\ \A c : ~Unheard(c)'
         /\ OfOneMessage(Unread)' /\ Len(Unread') <= 2
<1>1. ToSet(<<>>) = {}
  <2>1. <<>> \in Seq(Byte)
    BY EmptySeq
  <2> QED
    BY <2>1, Elements
<1> QED
  BY <1>1 DEF Unheard, OfOneMessage

(* Nothing Asking asks nothing. *)
LEMMA NoRequests ==
  ASSUME Asking' = <<>>
  PROVE  (\A c : ~Asked(c)' /\ ~UnderWay(c)') /\ AskedOnce'
BY DEF Asked, UnderWay, AskedOnce

(* A request that the server handles was under way, and asked for once it is *)
(* under way no longer.                                                      *)
LEMMA HandlesRequest ==
  ASSUME DialogueTypes, DialogueTypes', NEW c, AtRequest(c), ~late
  PROVE  /\ Asked(c) /\ UnderWay(c)
         /\ AskedOnce /\ c = "RealmList" => ~UnderWay("RealmList")'
<1>1. /\ Handled \in Int /\ Handled + 1 \in DOMAIN Asking /\ Begins(Asking[Handled + 1], c)
      /\ Handled' = Handled + 2 /\ Asking' = Asking
  BY DEF DialogueTypes, AtRequest
<1>2. Asked(c) /\ UnderWay(c)
  BY <1>1 DEF Asked, UnderWay
<1>3. ASSUME AskedOnce, c = "RealmList", UnderWay("RealmList")' PROVE FALSE
  <2>1. PICK i \in DOMAIN Asking : i > Handled' /\ Begins(Asking[i], "RealmList")
    BY <1>1, <1>3 DEF UnderWay, Begins
  <2>2. i = Handled + 1
    BY <1>1, <1>3, <2>1 DEF AskedOnce
  <2> QED
    BY <1>1, <2>1, <2>2
<1> QED
  BY <1>2, <1>3

(* Each effect keeps the dialogue: the heart of the proof.  A status of the   *)
(* session allows one kind of request, the client sends that request only in  *)
(* answer to the reply before, and so what is unread is empty when the server *)
(* speaks.                                                                    *)
LEMMA EffectKeepsDialogue ==
  ASSUME DialogueTypes, DialogueTypes', SessionInv, Tagged, Tagged', Dialogue, Effect, late => late'
  PROVE  Dialogue'
<1>1. stale => stale'
  BY DEF Effect, AtConnect, AtAccept, Calm, AtNothing, Silence, Asks, AtRequest, Proves, AtReply, AtBan, AtReceive,
     AtLogin, AtDispatch
<1> SUFFICES ASSUME ~stale', ~late' PROVE Clean' /\ HeardOnce' /\ AskedOnce' /\ Talk'
  BY DEF Dialogue
<1>2. Clean /\ HeardOnce /\ AskedOnce /\ Talk /\ ~late
  BY <1>1 DEF Dialogue
<1>3. ASSUME Chunks' = Chunks, OfOneMessage(Unread)', Len(Unread') <= 2 PROVE Clean'
  BY <1>2, <1>3 DEF Clean, OfOneMessage
<1>4. OfOneMessage(Unread) /\ Len(Unread) <= 2
  BY <1>2 DEF Clean
<1>5. Handled \in Int /\ Handled' \in Int
  BY DEF DialogueTypes
<1>6. CASE AtConnect
  <2>1. /\ Asking' = <<>> /\ Unread' = <<>> /\ status' = "Closed" /\ callback' = <<>>
        /\ Chunks' = Chunks /\ epoch' = epoch + 1
    BY <1>6 DEF AtConnect
  <2>2. \A i, c : ~WholeAt(i, c)'
    BY <2>1, FirstTags DEF WholeAt, Tagged
  <2>3. (\A c : ~Heard(c)') /\ HeardOnce'
    BY <2>2 DEF Heard, HeardOnce
  <2> QED
    BY <1>3, <2>1, <2>3, EmptyUnread, NoRequests DEF Talk
<1>7. CASE AtAccept
  <2>1. /\ Asking' = <<>> /\ Unread' = <<>> /\ status' = "Challenge" /\ callback' = <<>>
        /\ Chunks' = Chunks /\ epoch' = epoch /\ connect = "pending"
    BY <1>2, <1>7 DEF AtAccept
  <2>2. \A i, c : ~WholeAt(i, c)'
    BY <2>1 DEF WholeAt, Tagged
  <2>3. (\A c : ~Heard(c)') /\ HeardOnce'
    BY <2>2 DEF Heard, HeardOnce
  <2> QED
    BY <1>3, <2>1, <2>3, EmptyUnread, NoRequests DEF Talk
<1>8. CASE Calm \/ AtNothing
  <2>1. /\ Fewer /\ Handled' >= Handled
        /\ Chunks' = Chunks \/ Chunks' = Append(Chunks, <<>>)
        /\ UNCHANGED <<epoch, Asking, status, callback, banned>>
    BY <1>8 DEF Calm, AtNothing, Silence
  <2>2. /\ \A c : (Asked(c)' <=> Asked(c)) /\ (UnderWay(c)' => UnderWay(c))
        /\ AskedOnce'
    BY <1>2, <2>1, KeepsRequests
  <2>3. /\ \A c : Unheard(c)' => Unheard(c)
        /\ OfOneMessage(Unread)' /\ Len(Unread') <= 2
        /\ Unread = <<>> => Unread' = <<>>
    BY <1>4, <2>1, KeepsUnread
  <2>4. (\A c : Heard(c)' <=> Heard(c)) /\ HeardOnce'
    BY <1>2, <2>1, KeepsChunks, AddsNothing
  <2>5. Talk'
    BY <1>2, <2>1, <2>2, <2>3, <2>4 DEF Talk
  <2>6. Clean'
    <3>1. CASE Chunks' = Chunks
      BY <1>3, <2>3, <3>1
    <3>2. CASE Chunks' = Append(Chunks, <<>>)
      <4>1. \A i \in DOMAIN Chunks' : (i \in DOMAIN Chunks /\ Chunks'[i] = Chunks[i]) \/ Chunks'[i] = <<>>
        BY <2>1, <3>2, AddsNothing
      <4>2. ToSet(<<>>) = {} /\ Len(<<>>) <= 2
        <5>1. <<>> \in Seq(Byte)
          BY EmptySeq
        <5>2. ToSet(<<>>) = {}
          BY <5>1, Elements
        <5> QED
          BY <5>2
      <4> QED
        BY <1>2, <2>3, <4>1, <4>2 DEF Clean, OfOneMessage
    <3> QED
      BY <2>1, <3>1, <3>2
  <2> QED
    BY <2>2, <2>4, <2>5, <2>6
<1>9. ASSUME NEW c, AtRequest(c)
      PROVE  /\ Asked(c) /\ UnderWay(c) /\ Chunks' = Chunks /\ banned' = banned
             /\ \A d : (Asked(d)' <=> Asked(d)) /\ (UnderWay(d)' => UnderWay(d)) /\ (Heard(d)' <=> Heard(d))
             /\ AskedOnce' /\ HeardOnce'
             /\ c = "RealmList" => ~UnderWay("RealmList")'
  <2>1. Handled' = Handled + 2 /\ Chunks' = Chunks /\ UNCHANGED <<epoch, Asking, banned>>
    BY <1>9 DEF AtRequest
  <2>2. Handled' >= Handled
    BY <1>5, <2>1
  <2> QED
    BY <1>2, <1>9, <2>1, <2>2, KeepsRequests, KeepsChunks, HandlesRequest
<1>10. ASSUME Unread' = Unread
       PROVE  (\A c : Unheard(c)' <=> Unheard(c)) /\ OfOneMessage(Unread)' /\ Len(Unread') <= 2
  BY <1>4, <1>10 DEF Unheard, OfOneMessage
<1>11. CASE Asks("LogonChallenge", "Challenge", "Closed")
  <2>1. /\ AtRequest("LogonChallenge") /\ status = "Challenge" /\ ~banned /\ status' = "Closed" /\ Unread' = Unread
        /\ \E m \in Message : callback' = <<m>> /\ m.cmd = "LogonChallenge"
    BY <1>11 DEF Asks
  <2>2. Talk'
    BY <1>2, <1>9, <1>10, <2>1 DEF Talk
  <2> QED
    BY <1>3, <1>9, <1>10, <2>1, <2>2
<1>12. CASE Proves
  <2>1. /\ AtRequest("LogonProof") /\ status = "LogonProof" /\ status' \in {"Authed", "Closed"}
        /\ callback' = callback
    BY <1>12 DEF Proves
  <2>2. callback' = <<>>
    BY <2>1 DEF SessionInv
  <2>3. /\ ~Unheard("LogonChallenge") /\ ~Unheard("LogonProof") /\ ~Unheard("RealmList")
        /\ ~Asked("RealmList") /\ ~Heard("LogonProof")
    BY <1>2, <1>9, <2>1 DEF Talk
  <2>4. Unread = <<>>
    BY <2>3, NothingUnheard DEF Commands
  <2>5. /\ \A c : Unheard(c)' => c = "LogonProof"
        /\ OfOneMessage(Unread)' /\ Len(Unread') <= 2
    <3>1. CASE Unread' = Unread
      BY <2>4, <3>1, EmptyUnread
    <3>2. ASSUME NEW m \in Message, m.cmd = "LogonProof", Unread' = Unread \o Bytes(m)
          PROVE  /\ \A c : Unheard(c)' => c = "LogonProof"
                 /\ OfOneMessage(Unread)' /\ Len(Unread') <= 2
      BY <2>4, <3>2, SaysOne
    <3> QED
      BY <1>12, <3>1, <3>2, Zenon DEF Proves
  <2>6. ~UnderWay("RealmList")' \/ UnderWay("RealmList")
    BY <1>9, <2>1
  <2>7. UnderWay("RealmList") => Asked("RealmList")
    BY DEF UnderWay, Asked
  <2>8. Talk'
    BY <1>9, <2>1, <2>2, <2>3, <2>5, <2>6, <2>7 DEF Talk
  <2> QED
    BY <1>3, <1>9, <2>1, <2>5, <2>8
<1>13. CASE Asks("RealmList", "Authed", "WaitingForRealmList")
  <2>1. /\ AtRequest("RealmList") /\ status = "Authed" /\ status' = "WaitingForRealmList" /\ Unread' = Unread
        /\ \E m \in Message : callback' = <<m>> /\ m.cmd = "RealmList"
    BY <1>13 DEF Asks
  <2>2. ~Unheard("LogonChallenge") /\ ~Unheard("LogonProof") /\ ~Unheard("RealmList")
    BY <1>2, <1>9, <2>1 DEF Talk
  <2>3. Unread = <<>>
    BY <2>2, NothingUnheard DEF Commands
  <2>4. Asked("RealmList") /\ ~UnderWay("RealmList")' /\ ~Heard("LogonProof")
    BY <1>2, <1>9, <2>1 DEF Talk
  <2>5. Talk'
    BY <1>9, <1>10, <2>1, <2>2, <2>3, <2>4 DEF Talk
  <2> QED
    BY <1>3, <1>9, <1>10, <2>1, <2>5
<1>14. CASE AtReply
  <2>1. PICK m \in Message :
          /\ callback[1] = m /\ callback # <<>> /\ callback' = <<>>
          /\ Unread' = Unread \o Bytes(m)
          /\ \/ m.cmd = "LogonChallenge" /\ status = "Closed" /\ status' \in {"LogonProof", "Closed"}
             \/ m.cmd = "RealmList" /\ status = "WaitingForRealmList" /\ status' = "Authed"
          /\ Handled' = Handled /\ Chunks' = Chunks /\ UNCHANGED <<epoch, Asking, banned>>
    BY <1>14, Zenon DEF AtReply
  <2>2. Unread = <<>>
    BY <1>2, <2>1 DEF Talk
  <2>3. /\ \A c : Unheard(c)' => c = m.cmd
        /\ OfOneMessage(Unread)' /\ Len(Unread') <= 2
    BY <2>1, <2>2, SaysOne
  <2>4. Handled' >= Handled
    BY <1>5, <2>1
  <2>5. /\ \A c : (Asked(c)' <=> Asked(c)) /\ (UnderWay(c)' => UnderWay(c)) /\ (Heard(c)' <=> Heard(c))
        /\ AskedOnce' /\ HeardOnce'
    BY <1>2, <2>1, <2>4, KeepsRequests, KeepsChunks
  <2>6. CASE m.cmd = "LogonChallenge"
    <3>1. status' \in {"LogonProof", "Closed"}
      BY <2>1, <2>6
    <3>2. /\ ~Asked("LogonProof") /\ ~Asked("RealmList")
          /\ ~Heard("LogonChallenge") /\ ~Heard("LogonProof")
      BY <1>2, <2>1, <2>6 DEF Talk
    <3>3. Talk'
      BY <2>1, <2>3, <2>5, <2>6, <3>1, <3>2 DEF Talk
    <3> QED
      BY <1>3, <2>1, <2>3, <2>5, <3>3
  <2>7. CASE m.cmd = "RealmList"
    <3>1. status = "WaitingForRealmList" /\ status' = "Authed"
      BY <2>1, <2>7
    <3>2. Asked("RealmList") /\ ~UnderWay("RealmList") /\ ~Heard("LogonProof")
      BY <1>2, <3>1 DEF Talk
    <3>3. Talk'
      BY <2>1, <2>3, <2>5, <2>7, <3>1, <3>2 DEF Talk
    <3> QED
      BY <1>3, <2>1, <2>3, <2>5, <3>3
  <2> QED
    BY <2>1, <2>6, <2>7
<1>141. CASE AtBan
  <2>1. /\ status = "Challenge" /\ callback = <<>> /\ ~banned /\ banned'
        /\ Handled' = Handled /\ Chunks' = Chunks /\ UNCHANGED <<epoch, Asking, status, callback>>
    BY <1>141 DEF AtBan
  <2>2. PICK m \in Message : m.cmd = "LogonChallenge" /\ Unread' = Unread \o Bytes(m)
    BY <1>141, Zenon DEF AtBan
  <2>3. /\ Unread = <<>> /\ ~Asked("LogonProof") /\ ~Asked("RealmList")
        /\ ~Heard("LogonChallenge") /\ ~Heard("LogonProof")
    BY <1>2, <2>1 DEF Talk
  <2>4. /\ \A c : Unheard(c)' => c = "LogonChallenge"
        /\ OfOneMessage(Unread)' /\ Len(Unread') <= 2
    BY <2>2, <2>3, SaysOne
  <2>5. Handled' >= Handled
    BY <1>5, <2>1
  <2>6. /\ \A c : (Asked(c)' <=> Asked(c)) /\ (UnderWay(c)' => UnderWay(c)) /\ (Heard(c)' <=> Heard(c))
        /\ AskedOnce' /\ HeardOnce'
    BY <1>2, <2>1, <2>5, KeepsRequests, KeepsChunks
  <2>7. Talk'
    BY <2>1, <2>3, <2>4, <2>6 DEF Talk
  <2> QED
    BY <1>3, <2>1, <2>4, <2>6, <2>7
<1>15. CASE AtReceive
  <2>1. PICK c \in Chunk : Unread = c \o Unread' /\ Chunks' = Append(Chunks, c)
    BY <1>15, Zenon DEF AtReceive
  <2>2. /\ Unread' \in Seq(Byte) /\ Handled' = Handled /\ UNCHANGED <<epoch, Asking, status, callback, banned>>
    BY <1>15 DEF AtReceive
  <2>3. Handled' >= Handled
    BY <1>5, <2>2
  <2>4. /\ \A d : (Asked(d)' <=> Asked(d)) /\ (UnderWay(d)' => UnderWay(d))
        /\ AskedOnce'
    BY <1>2, <2>2, <2>3, KeepsRequests
  <2>5. /\ Unread # <<>> /\ \A x : Unheard(x)' => Unheard(x)
        /\ Len(Unread') <= 2 /\ OfOneMessage(Unread)' /\ OfOneMessage(c) /\ Len(c) <= 2
        /\ \A i \in DOMAIN Chunks' : (i \in DOMAIN Chunks /\ Chunks'[i] = Chunks[i]) \/ Chunks'[i] = c
        /\ \A x : Heard(x)' => Heard(x) \/ (Unheard(x) /\ Unread' = <<>>)
        /\ HeardOnce /\ (Unheard("LogonProof") => ~Heard("LogonProof")) => HeardOnce'
    BY <1>4, <2>1, <2>2, TakesChunk
  <2>6. HeardOnce'
    BY <1>2, <2>5 DEF Talk
  <2>7. Clean'
    BY <1>2, <2>5 DEF Clean, OfOneMessage
  <2>8. Unread' = <<>> => \A x : ~Unheard(x)'
    BY EmptyUnread
  <2>9. Talk'
    BY <1>2, <2>2, <2>4, <2>5, <2>8 DEF Talk
  <2> QED
    BY <2>4, <2>6, <2>7, <2>9
<1>16. CASE AtLogin
  <2>1. PICK m \in Message : m.cmd = "LogonChallenge" /\ Asking' = Asking \o Bytes(m)
    BY <1>16, Zenon DEF AtLogin
  <2>2. Unread' = Unread /\ Handled' = Handled /\ Chunks' = Chunks /\ UNCHANGED <<epoch, status, callback, banned>>
    BY <1>16 DEF AtLogin
  <2>3. /\ \A c : Asked(c)' => Asked(c) \/ c = "LogonChallenge"
        /\ \A c : UnderWay(c)' => UnderWay(c) \/ c = "LogonChallenge"
        /\ \A c : Asked(c) => Asked(c)'
        /\ AskedOnce'
    BY <1>2, <2>1, <2>2, AddsRequest
  <2>4. (\A c : Heard(c)' <=> Heard(c)) /\ HeardOnce'
    BY <1>2, <2>2, KeepsChunks
  <2>5. Talk'
    BY <1>2, <1>10, <2>2, <2>3, <2>4 DEF Talk
  <2> QED
    BY <1>3, <1>10, <2>2, <2>3, <2>4, <2>5
<1>17. CASE AtDispatch
  <2>1. /\ Chunks # <<>> /\ Chunks' = Tail(Chunks)
        /\ stale' = (stale \/ (Chunks[1] # <<>> /\ Chunks[1][1].msg.tag # epoch))
        /\ Unread' = Unread /\ Handled' = Handled
        /\ UNCHANGED <<epoch, status, callback, banned>>
    BY <1>17 DEF AtDispatch
  <2>2. Chunks[1] # <<>> => Chunks[1][1].msg.tag = epoch
    BY <2>1
  <2>3. /\ \A i \in DOMAIN Chunks' : i + 1 \in DOMAIN Chunks /\ i + 1 # 1 /\ Chunks'[i] = Chunks[i + 1]
        /\ \A c : Heard(c)' => Heard(c)
        /\ HeardOnce'
        /\ WholeAt(1, "LogonProof") => ~Heard("LogonProof")'
    BY <1>2, <2>1, DropsChunk
  <2>4. Clean'
    BY <1>2, <1>10, <2>1, <2>3 DEF Clean, OfOneMessage
  <2>5. ASSUME NEW c, NEW d, Answers(c, d)
        PROVE  /\ WholeAt(1, c) /\ Heard(c)
               /\ \E m \in Message : m.cmd = d /\ \/ Asking' = Asking \o Bytes(m)
                                                  \/ Asking' = Asking \o <<Bytes(m)[1]>>
    <3>1. Chunks \in Seq(Chunk \cup {<<>>}) /\ Len(Chunks) \in Nat /\ DOMAIN Chunks = 1 .. Len(Chunks) /\ Len(Chunks) # 0
      BY <2>1, Elements, EmptySeq DEF DialogueTypes
    <3>2. 1 \in DOMAIN Chunks
      BY <3>1
    <3>3. WholeAt(1, c)
      <4>1. Len(Chunks[1]) > 1 /\ Len(<<>>) = 0
        BY <2>5 DEF Answers
      <4>2. Chunks[1] # <<>>
        BY <4>1
      <4> QED
        BY <2>2, <2>5, <3>2, <4>2 DEF WholeAt, Answers
    <3> QED
      BY <2>5, <3>2, <3>3 DEF Answers, Heard
  <2>6. CASE Asking' = Asking
    <3>1. Handled' >= Handled
      BY <1>5, <2>1
    <3>2. /\ \A c : (Asked(c)' <=> Asked(c)) /\ (UnderWay(c)' => UnderWay(c))
          /\ AskedOnce'
      BY <1>2, <2>6, <3>1, KeepsRequests
    <3>3. Talk'
      BY <1>2, <1>10, <2>1, <2>3, <3>2 DEF Talk
    <3> QED
      BY <2>3, <2>4, <3>2, <3>3
  <2>7. CASE Answers("LogonChallenge", "LogonProof")
    <3>1. PICK m \in Message : m.cmd = "LogonProof" /\ \/ Asking' = Asking \o Bytes(m)
                                                       \/ Asking' = Asking \o <<Bytes(m)[1]>>
      BY <2>5, <2>7, Zenon
    <3>2. Heard("LogonChallenge")
      BY <2>5, <2>7
    <3>3. /\ \A c : Asked(c)' => Asked(c) \/ c = "LogonProof"
          /\ \A c : UnderWay(c)' => UnderWay(c) \/ c = "LogonProof"
          /\ \A c : Asked(c) => Asked(c)'
          /\ AskedOnce'
      BY <1>2, <2>1, <3>1, AddsRequest
    <3>4. Talk'
      BY <1>2, <1>10, <2>1, <2>3, <3>2, <3>3 DEF Talk
    <3> QED
      BY <2>3, <2>4, <3>3, <3>4
  <2>8. CASE Answers("LogonProof", "RealmList")
    <3>1. PICK m \in Message : m.cmd = "RealmList" /\ \/ Asking' = Asking \o Bytes(m)
                                                      \/ Asking' = Asking \o <<Bytes(m)[1]>>
      BY <2>5, <2>8, Zenon
    <3>2. Heard("LogonProof") /\ ~Asked("RealmList") /\ ~Heard("LogonProof")'
      BY <1>2, <2>3, <2>5, <2>8 DEF Talk
    <3>3. /\ \A c : Asked(c)' => Asked(c) \/ c = "RealmList"
          /\ \A c : UnderWay(c)' => UnderWay(c) \/ c = "RealmList"
          /\ \A c : Asked(c) => Asked(c)'
          /\ AskedOnce'
      BY <1>2, <2>1, <3>1, <3>2, AddsRequest
    <3>4. Talk'
      BY <1>2, <1>10, <2>1, <2>3, <3>2, <3>3 DEF Talk
    <3> QED
      BY <2>3, <2>4, <3>3, <3>4
  <2> QED
    BY <1>17, <2>6, <2>7, <2>8, Zenon DEF AtDispatch
<1> QED
  BY <1>6, <1>7, <1>8, <1>11, <1>12, <1>13, <1>14, <1>141, <1>15, <1>16, <1>17, Zenon DEF Effect

-----------------------------------------------------------------------------
(* The theorems *)

(* The inductive invariant: the types, what each of the four modules keeps   *)
(* for itself, what is so before a connection is made and before its address *)
(* was found good, and the dialogue of the two ends.                         *)
Inv ==
  /\ TypeOK /\ ClientInv /\ WriterInv /\ ReaderInv /\ SessionInv /\ Gate /\ QueueInv
  /\ Quiet /\ Prefix /\ Tagged /\ Dialogue

(* It holds at first. *)
LEMMA InitIsInv ==
  ASSUME Init
  PROVE  Inv
<1>1. /\ <<>> \in Seq(Byte) /\ <<>> \in Seq(Seq(Byte)) /\ <<>> \in Seq(Message)
      /\ <<>> \in Seq(Chunk) /\ <<>> \in Seq(Chunk \cup {<<>>})
      /\ Len(<<>>) = 0 /\ DOMAIN <<>> = {}
  BY EmptySeq
<1>2. FlattenSeq(<<>>) = <<>> /\ <<>> \o <<>> = <<>> /\ SubSeq(<<>>, 0 + 1, 0) = <<>>
  BY FlattenEmpty, SubSeqEmpty
<1>3. EmptyBuffer \in Buffer /\ EmptyBuffer.active = <<>> /\ EmptyBuffer.size = ReadBlock
  BY <1>1 DEF EmptyBuffer, Buffer
<1>4. TypeOK
  <2>0. 0 \in 0 .. MaxStalls /\ 0 \in 0 .. MaxWriteErrors /\ 0 \in 0 .. MaxConnections /\ 0 \in 0 .. 0
        /\ 0 \in 0 .. MaxPartialSends /\ 0 \in 0 .. MaxLogins /\ 0 \in 0 .. MaxResets /\ 0 \in Nat
    OBVIOUS
  <2>1. SocketTypes
    BY <1>1, <1>3, <2>0, Zenon DEF Init, SocketInit, SocketTypes
  <2>2. ClientTypes
    <3>1. transferred \in 0 .. Len(flush)
      BY <1>1, <2>0 DEF Init, ClientInit
    <3> QED
      BY <1>1, <2>0, <3>1 DEF Init, ClientInit, ClientTypes
  <2>3. ManagerTypes
    <3>1. m2 \in [tag : 0 .. MaxConnections, account : Names]
      BY <2>0 DEF Init, ManagerInit, Names
    <3> QED
      BY <1>1, <2>0, <3>1, Zenon DEF Init, ManagerInit, ManagerTypes, Names
  <2>4. SessionTypes
    BY <1>1, <2>0, Zenon DEF Init, SessionTypes, Names
  <2> QED
    BY <1>1, <2>1, <2>2, <2>3, <2>4 DEF Init, SocketInit, ClientInit, TypeOK
<1>5. Gate /\ QueueInv
  BY DEF Init, SocketInit, ManagerInit, Gate, QueueInv
<1>6. ClientInv
  BY DEF Init, ClientInit, ClientInv, OnTime, Fresh, SentInOrder, StuckOnlyIfLate
<1>7. WriterInv
  <2>1. written \o FlattenSeq(writeQueue) = queued /\ ~isWritingAsync
    BY <1>2, Zenon DEF Init, SocketInit
  <2> QED
    BY <2>1 DEF WriterInv, StreamIsIntact
<1>8. Handled = 0
  <2>1. readBuffer.active = <<>> /\ taken = 0
    BY <1>3 DEF Init, SocketInit
  <2>2. Handled = 0 - Len(<<>>)
    BY <2>1, Zenon DEF Handled
  <2>3. 0 - 0 = 0
    OBVIOUS
  <2> QED
    BY <1>1, <2>2, <2>3, Zenon
<1>9. ReaderInv
  <2>1. ~reading /\ ~handling /\ readBuffer = EmptyBuffer
    BY DEF Init, SocketInit
  <2> QED
    BY <1>1, <1>3, <1>8, <2>1 DEF ReaderInv, BufferStaysSmall
<1>10. SessionInv /\ Quiet /\ Prefix
  BY <1>1 DEF Init, SocketInit, ClientInit, SessionInv, Quiet, Prefix
<1>11. Unread = <<>>
  <2>1. Stream = <<>>
    BY <1>2, Zenon DEF Init, SocketInit, Stream
  <2>2. received = 0
    BY DEF Init, ClientInit
  <2> HIDE DEF Stream
  <2> QED
    BY <1>1, <1>2, <2>1, <2>2 DEF Unread
<1>12. Chunks = <<>>
  BY <1>2, Zenon DEF Init, ManagerInit, Chunks
<1>13. ToSet(<<>>) = {}
  BY <1>1, Elements
<1>14. Tagged
  BY <1>1, <1>11, <1>12, <1>13 DEF Tagged
<1>15. Dialogue
  <2>1. Asking = <<>> /\ status = "Closed" /\ callback = <<>>
    BY <1>2 DEF Init, ClientInit, Asking
  <2>2. \A c : ~Asked(c) /\ ~UnderWay(c) /\ ~Unheard(c) /\ ~Heard(c)
    BY <1>1, <1>11, <1>12, <1>13, <2>1 DEF Asked, UnderWay, Unheard, Heard
  <2>3. Clean /\ HeardOnce /\ AskedOnce
    BY <1>1, <1>11, <1>12, <1>13, <2>1 DEF Clean, HeardOnce, AskedOnce, OfOneMessage
  <2> QED
    BY <2>1, <2>2, <2>3 DEF Dialogue, Talk
<1> QED
  BY <1>4, <1>5, <1>6, <1>7, <1>9, <1>10, <1>14, <1>15 DEF Inv

(* Every step keeps it. *)
LEMMA NextKeepsInv ==
  ASSUME Inv, Next
  PROVE  Inv'
<1>1. /\ TypeOK /\ ClientInv /\ WriterInv /\ ReaderInv /\ SessionInv /\ Gate /\ QueueInv
      /\ Quiet /\ Prefix /\ Tagged /\ Dialogue
  BY DEF Inv
<1>2. ClientTypes /\ WriterTypes
  BY <1>1 DEF TypeOK, SocketTypes, WriterTypes, Packets
<1>3. ClientStep \/ UNCHANGED clientVars
  BY <1>1, NextIsClientStep
<1>4. ClientTypes' /\ ClientInv'
  <2>1. CASE ClientStep
    BY <1>1, <1>2, <2>1, ClientStepKeepsTypes, ClientStepKeepsInv
  <2>2. CASE UNCHANGED clientVars
    <3>1. UNCHANGED <<isConnected, isConnecting, connect, opening, outgoing, sending, main, flush, send, transferred,
                      receiving, receiver, begun, leaving, clearing, epoch, accepted, sent, received, partials, late>>
      BY <2>2 DEF clientVars, connectionVars, leaveVars, sendVars, receiveVars
    <3> QED
      BY <1>1, <1>2, <3>1, Zenon DEF ClientTypes, ClientInv, OnTime, Fresh, SentInOrder, StuckOnlyIfLate
  <2> QED
    BY <1>3, <2>1, <2>2
<1>5. WriterTypes' /\ WriterInv'
  BY <1>1, <1>2, NextIsWriterStep, WriterStepKeeps
<1>6. /\ readBuffer' \in Buffer /\ reading' \in BOOLEAN
      /\ taken' \in Nat /\ taken' <= Len(sent') /\ ReaderInv'
  BY <1>1, NextKeepsReader
<1>7. SessionTypes' /\ SessionInv' /\ ManagerTypes' /\ QueueInv' /\ Quiet' /\ Gate'
  BY <1>1, NextKeepsSession, NextKeepsManager, NextKeepsQuiet, NextKeepsGate
<1>8. Prefix'
  BY <1>1, <1>2, <1>3, <1>4, NextKeepsPrefix
<1>9. received' <= Len(written') /\ Effect
  BY <1>1, NextIsEffect
<1>10. TypeOK'
  <2>1. SocketTypes'
    BY <1>5, <1>6 DEF WriterTypes, Packets, SocketTypes
  <2> QED
    BY <1>4, <1>6, <1>7, <1>9, <2>1 DEF TypeOK
<1>11. DialogueTypes
  BY <1>1, TypesOfDialogue
<1>12. DialogueTypes'
  BY <1>10, TypesOfDialogue, PTL
<1>13. Tagged'
  BY <1>1, <1>9, <1>11, <1>12, EffectKeepsTagged
<1>14. Dialogue'
  BY <1>1, <1>3, <1>9, <1>11, <1>12, <1>13, LateStays, EffectKeepsDialogue
<1> QED
  BY <1>4, <1>5, <1>6, <1>7, <1>8, <1>10, <1>13, <1>14 DEF Inv

(* So does a step that changes nothing. *)
LEMMA StutterKeepsInv ==
  ASSUME Inv, UNCHANGED vars
  PROVE  Inv'
<1>1. UNCHANGED <<socketVars, clientVars, managerVars, sessionVars, linkVars>>
  BY DEF vars
<1>2. /\ UNCHANGED <<build, closed, writeQueue, isWritingAsync, readBuffer, reading, queued, written, lost, stalls, errors>>
      /\ UNCHANGED <<isConnected, isConnecting, connect, opening, outgoing, sending, main, flush, send, transferred,
                     receiving, receiver, begun, leaving, clearing, epoch, accepted, sent, received, partials, late>>
      /\ UNCHANGED <<account, m2, messages, size, enqueued, dequeued, frame, tempMessages, torn, dispatching, waiting,
                     logins, split, stale, short>>
      /\ UNCHANGED <<status, sessionAccount, checking, banned, callback, handling, taken, reset, resets>>
  BY <1>1 DEF socketVars, clientVars, connectionVars, leaveVars, sendVars, receiveVars, managerVars, queueVars,
     sessionVars, linkVars
<1>3. Stream' = Stream /\ Chunks' = Chunks /\ Asking' = Asking /\ Handled' = Handled
  BY <1>2, Zenon DEF Stream, Chunks, Asking, Handled
<1>4. Unread' = Unread
  BY <1>2, <1>3, Zenon DEF Unread
<1>5. TypeOK'
  <2>1. SocketTypes'
    BY <1>2, Zenon DEF Inv, TypeOK, SocketTypes
  <2>2. ClientTypes'
    BY <1>2, Zenon DEF Inv, TypeOK, ClientTypes
  <2>3. ManagerTypes'
    BY <1>2, Zenon DEF Inv, TypeOK, ManagerTypes
  <2>4. SessionTypes'
    BY <1>2, Zenon DEF Inv, TypeOK, SessionTypes
  <2> QED
    BY <1>2, <2>1, <2>2, <2>3, <2>4, Zenon DEF Inv, TypeOK
<1>6. ClientInv' /\ WriterInv' /\ Gate' /\ QueueInv'
  BY <1>2, Zenon DEF Inv, ClientInv, OnTime, Fresh, WriterInv, StreamIsIntact, SentInOrder, StuckOnlyIfLate, Gate,
     QueueInv
<1>7. ReaderInv' /\ SessionInv' /\ Quiet' /\ Prefix'
  BY <1>2, <1>3, Zenon DEF Inv, ReaderInv, BufferStaysSmall, GetRemainingSpace, SessionInv, Quiet, Prefix
<1>8. Tagged'
  BY <1>2, <1>3, <1>4, Zenon DEF Inv, Tagged
<1>9. Dialogue'
  BY <1>2, <1>3, <1>4, Zenon DEF Inv, Dialogue, Clean, HeardOnce, AskedOnce, Talk, OfOneMessage,
     Asked, UnderWay, Unheard, Heard, WholeAt, Begins
<1> QED
  BY <1>5, <1>6, <1>7, <1>8, <1>9 DEF Inv

(* The inductive invariant holds in every behaviour. *)
THEOREM InvHolds == Spec => []Inv
<1>1. Init => Inv
  BY InitIsInv
<1>2. Inv /\ [Next]_vars => Inv'
  BY NextKeepsInv, StutterKeepsInv
<1> QED
  BY <1>1, <1>2, PTL DEF Spec

(* Every variable keeps its type; neither end has read more than the other   *)
(* has written.                                                              *)
THEOREM TypeCorrect == Spec => []TypeOK
<1>1. Inv => TypeOK
  BY DEF Inv
<1> QED
  BY <1>1, InvHolds, PTL

(* What the server queues reaches the client whole and in order (Socket's    *)
(* Update, AsyncProcessQueue and write handlers), whatever the number of     *)
(* packets, their cuts, the build and the connections before.                *)
THEOREM StreamsAreIntact == Spec => []StreamIsIntact
<1>1. Inv => StreamIsIntact
  BY DEF Inv, WriterInv
<1> QED
  BY <1>1, InvHolds, PTL

(* The server's read buffer never grows and no read is started into a full   *)
(* one (MessageBuffer, ReadHandler), whatever its size and the bytes.        *)
THEOREM BuffersStaySmall == Spec => []BufferStaysSmall
<1>1. Inv => BufferStaysSmall
  BY DEF Inv, ReaderInv
<1> QED
  BY <1>1, InvHolds, PTL

(* What the client is given to send leaves in order, none skipped and none   *)
(* twice (TcpClient::SendAsync, TrySend, ProcessSend), on every connection   *)
(* that no thread of an earlier one has touched.                             *)
THEOREM BytesLeaveInOrder == Spec => []SentInOrder
<1>1. Inv => SentInOrder
  BY DEF Inv, ClientInv
<1> QED
  BY <1>1, InvHolds, PTL

(* The client is left connecting, with no connect under way, only after a    *)
(* connect was begun while a thread was still inside ProcessConnect,         *)
(* Disconnect or a completion of the connection before.                      *)
THEOREM StuckByLateThread == Spec => []StuckOnlyIfLate
<1>1. Inv => StuckOnlyIfLate
  BY DEF Inv, ClientInv
<1> QED
  BY <1>1, InvHolds, PTL

(* No receive returns bytes of two replies, so that OnClientDataReceived,    *)
(* which takes a receive for a message, loses none: unless the client has    *)
(* handled a message of an earlier connection, or a thread of one was late.  *)
THEOREM RepliesAreApart == Spec => []OneReplyPerChunk
<1>1. ASSUME Inv PROVE OneReplyPerChunk
  <2> DEFINE AnyChunk == Chunk \cup {<<>>}
  <2>1. ~stale /\ ~late => \A i \in DOMAIN Chunks : OfOneMessage(Chunks[i]) /\ Len(Chunks[i]) <= 2
    BY <1>1 DEF Inv, Dialogue, Clean
  <2>2. tempMessages \in Seq(AnyChunk) /\ messages \in Seq(AnyChunk)
    <3>1. tempMessages \in Seq(AnyChunk) /\ messages \in Seq(Chunk) /\ Chunk \subseteq AnyChunk
      BY <1>1 DEF Inv, TypeOK, ManagerTypes
    <3> QED
      BY <3>1
  <2>3. ASSUME NEW c \in AnyChunk, OfOneMessage(c), NEW j \in DOMAIN c PROVE c[j].msg = c[1].msg
    <3>1. c \in Chunk
      <4>1. DOMAIN <<>> = {}
        OBVIOUS
      <4> QED
        BY <2>3, <4>1
    <3>2. c \in Seq(Byte) /\ c[1] \in ToSet(c)
      BY <3>1, ChunkBegins
    <3>3. c[j] \in ToSet(c)
      BY <3>2, Elements
    <3> QED
      BY <2>3, <3>2, <3>3 DEF OfOneMessage
  <2> HIDE DEF AnyChunk
  <2>4. ToSet(Chunks) = ToSet(tempMessages) \cup ToSet(messages)
    BY <2>2, ConcatElements DEF Chunks
  <2>5. ASSUME ~stale, ~late, NEW q \in {messages, tempMessages}, NEW i \in DOMAIN q
        PROVE  q[i] \in AnyChunk /\ OfOneMessage(q[i]) /\ Len(q[i]) <= 2
    <3>1. q[i] \in ToSet(q) /\ q[i] \in AnyChunk
      BY <2>2, Elements
    <3>2. q[i] \in ToSet(Chunks)
      BY <2>4, <3>1
    <3>3. PICK k \in DOMAIN Chunks : Chunks[k] = q[i]
      BY <3>2 DEF ToSet
    <3> QED
      BY <2>1, <2>5, <3>1, <3>3
  <2> QED
    BY <2>3, <2>5 DEF OneReplyPerChunk
<1> QED
  BY <1>1, InvHolds, PTL
=============================================================================
