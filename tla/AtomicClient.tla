---------------------------- MODULE AtomicClient ----------------------------
(***************************************************************************)
(* What status(), connect() and a function given to run_local() promise    *)
(* their callers on both cores: each call takes effect at one moment       *)
(* between its beginning and its end, as if the client were a single       *)
(* object used by one caller at a time.                                    *)
(***************************************************************************)
EXTENDS Naturals

CONSTANT Callers

VARIABLES conn,    \* "none": no context; otherwise how far its connection is
          phase,   \* of each caller: idle, called, answered
          request, answer

vars == <<conn, phase, request, answer>>

States == {"none", "syn_sent", "established", "close_wait", "stopped", "lost"}
Statuses == {"closed", "syn_sent", "established", "other"}
Requests == {"status", "connect", "local"}

(* A client without a connection that can be written to is closed; one     *)
(* that lost its PCB may show anything.                                    *)
Shown(s) == IF s = "lost" THEN Statuses
            ELSE IF s \in {"syn_sent", "established"} THEN {s} ELSE {"closed"}

Init ==
  /\ conn = "none"
  /\ phase = [t \in Callers |-> "idle"]
  /\ request = [t \in Callers |-> "status"]
  /\ answer = [t \in Callers |-> "nothing"]

Begin(t, r) ==
  /\ phase[t] = "idle"
  /\ phase' = [phase EXCEPT ![t] = "called"]
  /\ request' = [request EXCEPT ![t] = r]
  /\ UNCHANGED <<conn, answer>>

(* The call of t takes effect: the client goes to s and t is told a. *)
Effect(t, s, a) ==
  /\ phase[t] = "called"
  /\ phase' = [phase EXCEPT ![t] = "answered"]
  /\ answer' = [answer EXCEPT ![t] = a]
  /\ conn' = s
  /\ UNCHANGED request

Status(t) ==
  /\ request[t] = "status"
  /\ \E a \in Shown(conn) : Effect(t, conn, a)

Connect(t) ==
  /\ request[t] = "connect"
  /\ \/ conn # "none" /\ Effect(t, conn, "in_use")
     \/ conn = "none" /\ (Effect(t, "syn_sent", "ok") \/ Effect(t, "none", "failed"))

(* A function of the caller's uses the client, and may connect it, stop it *)
(* or delete its context.                                                  *)
RunLocal(t) ==
  /\ request[t] = "local"
  /\ \E s \in {conn, "none", "syn_sent", "stopped"} : Effect(t, s, "done")

(* The call could not be carried out: the client is as before. *)
Refuse(t) ==
  \/ request[t] = "status" /\ Effect(t, conn, "closed")
  \/ request[t] = "connect" /\ \E a \in {"error", "timeout"} : Effect(t, conn, a)

End(t) ==
  /\ phase[t] = "answered"
  /\ phase' = [phase EXCEPT ![t] = "idle"]
  /\ answer' = [answer EXCEPT ![t] = "nothing"]
  /\ UNCHANGED <<conn, request>>

(* The connection changes by itself, or its owner stops or deletes it. *)
Change ==
  /\ conn # "none"
  /\ conn' \in States
  /\ UNCHANGED <<phase, request, answer>>

Next ==
  \/ \E t \in Callers : \/ \E r \in Requests : Begin(t, r)
                        \/ Status(t) \/ Connect(t) \/ RunLocal(t)
                        \/ Refuse(t) \/ End(t)
  \/ Change

SafeSpec == Init /\ [][Next]_vars
=============================================================================
