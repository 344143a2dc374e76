--------------------------- MODULE LoginProtocol ---------------------------
(***************************************************************************)
(* What a client of the authentication server can rely on.  Its address is *)
(* checked, it identifies itself, proves who it is, and asks for the realm *)
(* list as often as it likes; every request is answered by one packet of   *)
(* its own kind before the next is accepted, a refusal is final, and a     *)
(* closed session says nothing more.                                       *)
(***************************************************************************)
EXTENDS Sequences

CONSTANT Sessions

VARIABLES phase,    (* how far the session has come                         *)
          kind,     (* how it identified itself: logon, reconnect or not yet *)
          answers   (* the packets sent to the client                       *)

vars == <<phase, kind, answers>>

Kinds == {"none", "logon", "reconnect"}
Challenge(k) == IF k = "logon" THEN "LogonChallenge" ELSE "ReconnectChallenge"
Proof(k)     == IF k = "logon" THEN "LogonProof" ELSE "ReconnectProof"

Init == /\ phase = [s \in Sessions |-> "absent"]
        /\ kind = [s \in Sessions |-> "none"]
        /\ answers = [s \in Sessions |-> <<>>]

Step(s, from, to) == phase[s] = from /\ phase' = [phase EXCEPT ![s] = to]

Answer(s, cmd, ok) ==
  /\ answers' = [answers EXCEPT ![s] = Append(@, [cmd |-> cmd, ok |-> ok])]
  /\ UNCHANGED kind

Silently == UNCHANGED <<kind, answers>>

Connect(s)  == Step(s, "absent", "greeting") /\ Silently
Admit(s)    == Step(s, "greeting", "admitted") /\ Silently
TurnAway(s) == Step(s, "greeting", "refused") /\ Answer(s, "LogonChallenge", FALSE)

Identify(s, k) == /\ Step(s, "admitted", "identified")
                  /\ kind' = [kind EXCEPT ![s] = k]
                  /\ UNCHANGED answers

Challenged(s) == Step(s, "identified", "proving") /\ Answer(s, Challenge(kind[s]), TRUE)
Unknown(s)    == Step(s, "identified", "refused") /\ Answer(s, Challenge(kind[s]), FALSE)
Proved(s)     == Step(s, "proving", "authed") /\ Answer(s, Proof(kind[s]), TRUE)
Disproved(s)  == Step(s, "proving", "refused") /\ Answer(s, Proof(kind[s]), FALSE)
AskRealms(s)  == Step(s, "authed", "listing") /\ Silently
ListRealms(s) == Step(s, "listing", "authed") /\ Answer(s, "RealmList", TRUE)

(* Either side may close at any time, also on the packet it is reading. *)
Close(s) == /\ phase[s] \notin {"absent", "closed"}
            /\ phase' = [phase EXCEPT ![s] = "closed"]
            /\ \/ UNCHANGED kind
               \/ /\ phase[s] = "admitted"
                  /\ \E k \in Kinds : kind' = [kind EXCEPT ![s] = k]
            /\ UNCHANGED answers

(* What a closed session still reads goes nowhere. *)
ReadAfterClose(s) == /\ phase[s] = "closed" /\ kind[s] = "none"
                     /\ \E k \in Kinds : kind' = [kind EXCEPT ![s] = k]
                     /\ UNCHANGED <<phase, answers>>

(* The record of a closed session is dropped. *)
Forget(s) == /\ phase[s] = "closed"
             /\ kind' = [kind EXCEPT ![s] = "none"]
             /\ answers' = [answers EXCEPT ![s] = <<>>]
             /\ UNCHANGED phase

Next == \E s \in Sessions :
  \/ Connect(s) \/ Admit(s) \/ TurnAway(s)
  \/ \E k \in Kinds \ {"none"} : Identify(s, k)
  \/ Challenged(s) \/ Unknown(s) \/ Proved(s) \/ Disproved(s)
  \/ AskRealms(s) \/ ListRealms(s) \/ Close(s)
  \/ ReadAfterClose(s) \/ Forget(s)

Spec == Init /\ [][Next]_vars
=============================================================================
