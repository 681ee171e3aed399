------------------------------ MODULE Connections ------------------------------
(***************************************************************************)
(* What a TcpServer promises about each connection, however many threads   *)
(* it uses: a socket arrives, is refused or admitted while fewer than      *)
(* MaxClient are, waits at one Server, joins it, leaves it once and is     *)
(* then closed.  A Server that is serving ends a connection in no other    *)
(* way.  One that has gone down closes at once all that had joined it, or  *)
(* all that wait at it, and may forget those that came to wait meanwhile.  *)
(***************************************************************************)
EXTENDS Naturals, FiniteSets

CONSTANTS Socks, Servers, MaxClient,
          Nowhere  \* the place of a connection that is at no Server

VARIABLES
  phase,   \* how far each connection has come
  at,      \* the Server it waits at, has joined or has just left
  serving  \* the Servers that are serving

vars == <<phase, at, serving>>

Phases == {"free", "arrived", "accepted", "waiting", "joined", "left", "lost"}

Admitted == {k \in Socks : phase[k] \in {"accepted", "waiting", "joined", "lost"}}

Those(p, s) == {k \in Socks : phase[k] = p /\ at[k] = s}

Init ==
  /\ phase = [k \in Socks |-> "free"]
  /\ at = [k \in Socks |-> Nowhere]
  /\ serving = {}

\* All the connections of K go on to phase p, at Server s or nowhere.
Move(K, p, s) ==
  /\ phase' = [k \in Socks |-> IF k \in K THEN p ELSE phase[k]]
  /\ at' = [k \in Socks |-> IF k \in K THEN s ELSE at[k]]
  /\ UNCHANGED serving

Arrive(k) == phase[k] = "free" /\ Move({k}, "arrived", Nowhere)

Refuse(k) == phase[k] = "arrived" /\ Move({k}, "free", Nowhere)

Admit(k) ==
  /\ phase[k] = "arrived" /\ Cardinality(Admitted) < MaxClient
  /\ Move({k}, "accepted", Nowhere)

Place(k, s) == phase[k] = "accepted" /\ Move({k}, "waiting", s)

Join(k, s) == s \in serving /\ k \in Those("waiting", s) /\ Move({k}, "joined", s)

Leave(k, s) == s \in serving /\ k \in Those("joined", s) /\ Move({k}, "left", s)

Close(k, s) == s \in serving /\ k \in Those("left", s) /\ Move({k}, "free", Nowhere)

\* A Server starts without clients of its own, and goes down between two of
\* its removals.
Up(s) ==
  /\ s \notin serving /\ Those("joined", s) \cup Those("left", s) = {}
  /\ serving' = serving \cup {s}
  /\ UNCHANGED <<phase, at>>

Down(s) ==
  /\ s \in serving /\ Those("left", s) = {}
  /\ serving' = serving \ {s}
  /\ UNCHANGED <<phase, at>>

\* A Server that is down closes its clients, all of them and without a leave, ...
Drop(s, p) == s \notin serving /\ Move(Those(p, s), "free", Nowhere)

\* ... and forgets the ones that wait at it, which stay open for ever.
Forget(s) == s \notin serving /\ Move(Those("waiting", s), "lost", Nowhere)

Next ==
  \/ \E k \in Socks : Arrive(k) \/ Refuse(k) \/ Admit(k)
  \/ \E k \in Socks, s \in Servers :
       Place(k, s) \/ Join(k, s) \/ Leave(k, s) \/ Close(k, s)
  \/ \E s \in Servers :
       Up(s) \/ Down(s) \/ Drop(s, "joined") \/ Drop(s, "waiting") \/ Forget(s)

Spec == Init /\ [][Next]_vars
===============================================================================
