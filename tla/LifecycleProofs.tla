--------------------------- MODULE LifecycleProofs ---------------------------
(***************************************************************************)
(* Proofs about Lifecycle, for any number of addresses and connections:    *)
(* its invariants, and that it implements ServerProcess.                   *)
(***************************************************************************)
EXTENDS Lifecycle, FiniteSetTheorems, TLAPS

\* The connections that a WaitGroup counts, and with the stop goroutine its counter.
Active(s) ==
  {c \in Conns : server[c] = s /\ conn[c] \in {"running", "leaving", "removed"}}
Stopping(s) == IF stopper[s] \in {"waiting", "closed"} THEN 1 ELSE 0

WgCounts == \A s \in Servers : wg[s] = Cardinality(Active(s)) + Stopping(s)

\* How the goroutines of a server fit together.
ServerState ==
  \A s \in Servers :
    /\ listener[s] = "none" <=> stopper[s] = "none"
    /\ listener[s] = "none" <=> acceptor[s] = "none"
    /\ listener[s] = "open" <=> stopper[s] = "waiting"
    /\ s >= turn => listener[s] = "none"
    /\ waiter[s] # "none" => listener[s] # "none"
    /\ s \in stopped => acceptor[s] = "ended"

MainState ==
  /\ main \in {"new", "configure"} => Started = {}
  /\ mctx = told
  /\ main \in {"clear", "exit", "ended"} => \A s \in Started : waiter[s] = "done"

\* A server's accept loop has one connection in hand at most.
ConnState ==
  \A c \in Conns :
    /\ conn[c] # "none" => listener[server[c]] # "none"
    /\ conn[c] = "held" => acceptor[server[c]] = "got"
    /\ c \in registered => conn[c] \in {"running", "leaving"}
    /\ \A d \in Conns :
         conn[c] = "held" /\ conn[d] = "held" /\ server[c] = server[d] => c = d

\* When Wait has returned the listener is closed, and the only connection that may
\* still come, or has come since, is the one that accept had in hand.
WaitedFor ==
  \A s \in Servers : waiter[s] = "done" =>
    /\ stopper[s] = "done"
    /\ Active(s) \subseteq late
    /\ acceptor[s] = "got" => Active(s) = {}

\* A client that was added late was the last in accept's hand.
LateLast ==
  \A c \in late :
    /\ conn[c] \notin {"none", "held"}
    /\ stopper[server[c]] = "done" /\ acceptor[server[c]] # "got"

\* The inductive invariant.
IInv ==
  /\ TypeOK /\ WgCounts /\ ServerState /\ MainState /\ ConnState /\ WaitedFor
  /\ LateLast /\ OneLateAtMost

\* A step of the process, before its end.
Step ==
  \/ Signal \/ MainStep
  \/ \E s \in Servers : WaiterStep(s) \/ ServerStep(s)
  \/ \E c \in Conns : ClientStep(c)

-----------------------------------------------------------------------------
LEMMA ActiveFinite ==
  ASSUME NEW s
  PROVE  /\ IsFiniteSet(Active(s))
         /\ Cardinality(Active(s)) \in Nat
         /\ Cardinality(Active(s)) <= Cardinality(Conns)
         /\ Cardinality(Conns) \in Nat
<1>1. Active(s) \in SUBSET Conns
  BY DEF Active
<1> QED
  BY <1>1, LifecycleAssumption, FS_Subset, FS_CardinalityType

\* A counter at zero counts nobody.
LEMMA ZeroMeansNone ==
  ASSUME WgCounts, NEW s \in Servers, wg[s] = 0
  PROVE  Active(s) = {} /\ stopper[s] \notin {"waiting", "closed"}
<1>1. wg[s] = Cardinality(Active(s)) + Stopping(s)
  BY DEF WgCounts
<1>2. Cardinality(Active(s)) = 0 /\ Stopping(s) = 0
  BY <1>1, ActiveFinite DEF Stopping
<1>3. Active(s) = {}
  BY <1>2, ActiveFinite, FS_EmptySet
<1> QED
  BY <1>2, <1>3 DEF Stopping

\* What a step does to who is counted: nothing, or one connection comes or goes.
LEMMA CountSame ==
  ASSUME WgCounts, NEW s \in Servers,
         Active(s)' = Active(s), Stopping(s)' = Stopping(s), wg'[s] = wg[s]
  PROVE  wg'[s] = Cardinality(Active(s)') + Stopping(s)'
BY DEF WgCounts

LEMMA WgStep ==
  ASSUME IInv, Step
  PROVE  WgCounts'
<1> TypeOK /\ WgCounts
  BY DEF IInv
<1>1. ASSUME NEW s \in Servers, Listen(s)
      PROVE  WgCounts'
  <2>1. UNCHANGED <<conn, server>>
    BY <1>1 DEF Listen, clientVars
  <2>2. \A z \in Servers : Active(z)' = Active(z)
    BY <2>1 DEF Active
  <2>3. CASE UNCHANGED serverVars
    BY <2>2, <2>3 DEF WgCounts, Stopping, serverVars
  <2>4. CASE ~UNCHANGED serverVars
    <3>1. wg' = [wg EXCEPT ![s] = 1] /\ stopper' = [stopper EXCEPT ![s] = "waiting"]
      BY <1>1, <2>4 DEF Listen
    <3>2. Active(s) = {}
      BY <1>1 DEF Listen, IInv, ServerState, ConnState, Active, TypeOK
    <3>3. Cardinality(Active(s)') = 0
      BY <2>2, <3>2, FS_EmptySet
    <3>4. wg'[s] = Cardinality(Active(s)') + Stopping(s)'
      BY <3>1, <3>3 DEF Stopping, TypeOK
    <3>5. \A z \in Servers \ {s} : Stopping(z)' = Stopping(z) /\ wg'[z] = wg[z]
      BY <3>1 DEF Stopping, TypeOK
    <3> QED
      BY <2>2, <3>4, <3>5 DEF WgCounts
  <2> QED
    BY <2>3, <2>4
<1>2. ASSUME NEW s \in Servers, NEW c \in Conns, Register(s, c)
      PROVE  WgCounts'
  <2>1. CASE UNCHANGED <<wg, conn>>
    BY <1>2, <2>1 DEF Register, WgCounts, Active, Stopping
  <2>2. CASE ~UNCHANGED <<wg, conn>>
    <3>1. wg' = [wg EXCEPT ![s] = @ + 1] /\ conn' = [conn EXCEPT ![c] = "running"]
      BY <1>2, <2>2 DEF Register, Counted
    <3>2. server[c] = s /\ conn[c] = "held" /\ server' = server /\ stopper' = stopper
      BY <1>2 DEF Register
    <3>3. Active(s)' = Active(s) \cup {c} /\ c \notin Active(s)
      BY <3>1, <3>2 DEF Active, TypeOK
    <3>4. Cardinality(Active(s)') = Cardinality(Active(s)) + 1
      BY <3>3, ActiveFinite, FS_AddElement
    <3>5. \A z \in Servers \ {s} : Active(z)' = Active(z)
      BY <3>1, <3>2 DEF Active, TypeOK
    <3>6. wg[s] \in Nat /\ wg'[s] = wg[s] + 1 /\ \A z \in Servers \ {s} : wg'[z] = wg[z]
      BY <3>1 DEF TypeOK
    <3>7. wg'[s] = Cardinality(Active(s)') + Stopping(s)'
      BY <3>2, <3>4, <3>6, ActiveFinite DEF WgCounts, Stopping
    <3> QED
      BY <3>2, <3>5, <3>6, <3>7 DEF WgCounts, Stopping
  <2> QED
    BY <2>1, <2>2
<1>3. ASSUME NEW s \in Servers, StopDone(s)
      PROVE  WgCounts'
  <2>1. /\ wg' = [wg EXCEPT ![s] = @ - 1] /\ stopper' = [stopper EXCEPT ![s] = "done"]
        /\ stopper[s] = "closed" /\ UNCHANGED <<conn, server>>
    BY <1>3 DEF StopDone, Done, clientVars
  <2>2. \A z \in Servers : Active(z)' = Active(z)
    BY <2>1 DEF Active
  <2>3. wg[s] = Cardinality(Active(s)) + 1 /\ wg'[s] = wg[s] - 1 /\ Stopping(s)' = 0
    BY <2>1 DEF WgCounts, Stopping, TypeOK
  <2>4. \A z \in Servers \ {s} : wg'[z] = wg[z] /\ Stopping(z)' = Stopping(z)
    BY <2>1 DEF Stopping, TypeOK
  <2> QED
    BY <2>2, <2>3, <2>4, ActiveFinite DEF WgCounts
<1>4. ASSUME NEW c \in Conns, ClientGone(c)
      PROVE  WgCounts'
  <2> DEFINE s == server[c]
  <2>1. /\ wg' = [wg EXCEPT ![s] = @ - 1] /\ conn' = [conn EXCEPT ![c] = "gone"]
        /\ conn[c] = "removed" /\ UNCHANGED <<server, stopper>> /\ s \in Servers
    BY <1>4 DEF ClientGone, Done, Reader, TypeOK
  <2>2. Active(s)' = Active(s) \ {c} /\ c \in Active(s)
    BY <2>1 DEF Active, TypeOK
  <2>3. Cardinality(Active(s)') = Cardinality(Active(s)) - 1
    BY <2>2, ActiveFinite, FS_RemoveElement
  <2>4. \A z \in Servers \ {s} : Active(z)' = Active(z)
    BY <2>1 DEF Active, TypeOK
  <2>5. wg'[s] = wg[s] - 1 /\ \A z \in Servers \ {s} : wg'[z] = wg[z]
    BY <2>1 DEF TypeOK
  <2>6. wg'[s] = Cardinality(Active(s)') + Stopping(s)'
    BY <2>1, <2>3, <2>5, ActiveFinite DEF WgCounts, Stopping
  <2> QED
    BY <2>1, <2>4, <2>5, <2>6 DEF WgCounts, Stopping
<1>5. ASSUME UNCHANGED <<wg, stopper>>, \A s \in Servers : Active(s)' = Active(s)
      PROVE  WgCounts'
  BY <1>5 DEF WgCounts, Stopping
<1>6. ASSUME NEW s \in Servers, NEW c \in Conns, AcceptConn(s, c)
      PROVE  WgCounts'
  <2>1. \A z \in Servers : Active(z)' = Active(z)
    BY <1>6 DEF AcceptConn, Active, TypeOK
  <2> QED
    BY <1>5, <1>6, <2>1 DEF AcceptConn
<1>7. ASSUME NEW s \in Servers, AcceptError(s) \/ StopCloses(s)
      PROVE  WgCounts'
  <2>1. CASE AcceptError(s)
    BY <1>5, <2>1 DEF AcceptError, Active, clientVars
  <2>2. CASE StopCloses(s)
    BY <2>2 DEF StopCloses, Active, clientVars, WgCounts, Stopping, TypeOK
  <2> QED
    BY <1>7, <2>1, <2>2
<1>8. ASSUME NEW c \in Conns, Leave(c) \/ RemoveClient(c) \/ ClientPanics(c)
      PROVE  WgCounts'
  <2>1. \A s \in Servers : Active(s)' = Active(s)
    BY <1>8 DEF Leave, RemoveClient, ClientPanics, Reader, Active, TypeOK, clientVars
  <2> QED
    BY <1>5, <1>8, <2>1 DEF Leave, RemoveClient, ClientPanics, serverVars
<1>9. ASSUME UNCHANGED <<serverVars, conn, server>>
      PROVE  WgCounts'
  BY <1>5, <1>9 DEF serverVars, Active
<1>10. ASSUME \/ Signal \/ Exec \/ Configure \/ Start \/ PidfileOpen \/ PidfileWrite
              \/ AllWaited \/ PidfileClear \/ Exit
              \/ \E s \in Servers : WaiterStep(s)
       PROVE  WgCounts'
  BY <1>9, <1>10 DEF Signal, Exec, Configure, Start, PidfileOpen, PidfileWrite, AllWaited,
     PidfileClear, Exit, WaiterStep, Wait, Wake, WaitReturns, clientVars
<1> QED
  BY <1>1, <1>2, <1>3, <1>4, <1>6, <1>7, <1>8, <1>10
     DEF Step, MainStep, ServerStep, ClientStep

-----------------------------------------------------------------------------
(***************************************************************************)
(* The steps, by what they can change: most lemmas need only some of them. *)
(***************************************************************************)
MainOnly ==
  \/ Signal \/ Exec \/ Configure \/ Start \/ PidfileOpen \/ PidfileWrite
  \/ AllWaited \/ PidfileClear \/ Exit

LEMMA StepCases ==
  ASSUME Step
  PROVE  \/ MainOnly
         \/ \E s \in Servers :
              \/ Listen(s) \/ Wait(s) \/ Wake(s) \/ WaitReturns(s)
              \/ AcceptError(s) \/ StopCloses(s) \/ StopDone(s)
              \/ \E c \in Conns : AcceptConn(s, c) \/ Register(s, c)
         \/ \E c \in Conns : Leave(c) \/ RemoveClient(c) \/ ClientGone(c) \/ ClientPanics(c)
BY DEF Step, MainOnly, MainStep, WaiterStep, ServerStep, ClientStep

\* The types of everything but the counters.
TypeOfRest ==
  /\ main \in {"new", "configure", "listen", "mark", "marking", "wait", "clear",
              "exit", "ended"}
  /\ turn \in 1 .. N + 1
  /\ told \in BOOLEAN /\ mctx \in BOOLEAN /\ marked \in BOOLEAN /\ crashed \in BOOLEAN
  /\ pidfile \in {None, Blank, Self}
  /\ waiter \in [Servers -> {"none", "asleep", "woken", "done"}]
  /\ listener \in [Servers -> {"none", "open", "closed"}]
  /\ stopped \subseteq Servers
  /\ acceptor \in [Servers -> {"none", "accept", "got", "ended"}]
  /\ stopper \in [Servers -> {"none", "waiting", "closed", "done"}]
  /\ conn \in [Conns -> {"none", "held", "running", "leaving", "removed", "gone"}]
  /\ server \in [Conns -> Servers]
  /\ registered \subseteq Conns /\ late \subseteq Conns

LEMMA WgIsFunction ==
  ASSUME TypeOK, Step
  PROVE  wg' = [s \in Servers |-> wg'[s]]
<1>1. wg = [s \in Servers |-> wg[s]]
  BY DEF TypeOK
<1>2. CASE MainOnly
  BY <1>1, <1>2 DEF MainOnly, Signal, Exec, Configure, Start, PidfileOpen, PidfileWrite,
     AllWaited, PidfileClear, Exit, serverVars
<1>3. ASSUME NEW s \in Servers, Listen(s)
      PROVE  wg' = [z \in Servers |-> wg'[z]]
  <2>1. wg' = wg \/ wg' = [wg EXCEPT ![s] = 1]
    BY <1>3 DEF Listen, serverVars
  <2> QED
    BY <1>1, <2>1
<1>4. ASSUME NEW s \in Servers, NEW c \in Conns, Register(s, c)
      PROVE  wg' = [z \in Servers |-> wg'[z]]
  <2>1. wg' = wg \/ wg' = [wg EXCEPT ![s] = @ + 1]
    BY <1>4 DEF Register, Counted
  <2> QED
    BY <1>1, <2>1
<1>5. ASSUME NEW s, Done(s)
      PROVE  wg' = [z \in Servers |-> wg'[z]]
  BY <1>1, <1>5 DEF Done
<1>6. ASSUME NEW s \in Servers,
             \/ Wait(s) \/ Wake(s) \/ WaitReturns(s) \/ AcceptError(s) \/ StopCloses(s)
             \/ \E c \in Conns : AcceptConn(s, c)
      PROVE  wg' = wg
  BY <1>6 DEF Wait, Wake, WaitReturns, AcceptError, StopCloses, AcceptConn, serverVars
<1>7. ASSUME NEW c \in Conns, Leave(c) \/ RemoveClient(c) \/ ClientPanics(c)
      PROVE  wg' = wg
  BY <1>7 DEF Leave, RemoveClient, ClientPanics, serverVars
<1> QED
  BY <1>1, <1>2, <1>3, <1>4, <1>5, <1>6, <1>7, StepCases DEF StopDone, ClientGone

LEMMA TypeStep ==
  ASSUME IInv, Step
  PROVE  TypeOK'
<1> TypeOK
  BY DEF IInv
<1>1. wg' \in [Servers -> 0 .. Cardinality(Conns) + 1]
  <2>1. \A s \in Servers : wg'[s] \in 0 .. Cardinality(Conns) + 1
    <3> TAKE s \in Servers
    <3>1. wg'[s] = Cardinality(Active(s)') + Stopping(s)'
      BY WgStep DEF WgCounts
    <3>2. Active(s)' \in SUBSET Conns
      BY DEF Active
    <3>3. /\ Cardinality(Active(s)') \in Nat /\ Cardinality(Conns) \in Nat
          /\ Cardinality(Active(s)') <= Cardinality(Conns)
      BY <3>2, LifecycleAssumption, FS_Subset, FS_CardinalityType
    <3> QED
      BY <3>1, <3>3 DEF Stopping
  <2> QED
    BY <2>1, WgIsFunction
<1>2. TypeOfRest
  BY DEF TypeOK, TypeOfRest
<1>3. N \in Nat /\ N >= 1
  BY LifecycleAssumption
<1>4. TypeOfRest' => TypeOK'
  BY <1>1 DEF TypeOK, TypeOfRest
<1>5. ASSUME Signal \/ Exec \/ Configure \/ AllWaited \/ Exit
      PROVE  TypeOfRest'
  BY <1>2, <1>5 DEF Signal, Exec, Configure, AllWaited, Exit, MainGoto, TypeOfRest,
     serverVars, clientVars
<1>6. ASSUME Start \/ PidfileOpen \/ PidfileWrite \/ PidfileClear
      PROVE  TypeOfRest'
  BY <1>2, <1>6 DEF Start, PidfileOpen, PidfileWrite, PidfileClear, AfterClear, MainGoto,
     TypeOfRest, serverVars, clientVars
<1>7. ASSUME NEW s \in Servers, Listen(s)
      PROVE  TypeOfRest'
  <2>1. turn' \in 1 .. N + 1
    BY <1>2, <1>3, <1>7 DEF Listen, Servers, TypeOfRest
  <2>2. /\ listener' \in [Servers -> {"none", "open", "closed"}]
        /\ acceptor' \in [Servers -> {"none", "accept", "got", "ended"}]
        /\ stopper' \in [Servers -> {"none", "waiting", "closed", "done"}]
        /\ stopped' = stopped
    BY <1>2, <1>7 DEF Listen, TypeOfRest, serverVars
  <2> QED
    BY <1>2, <1>7, <2>1, <2>2 DEF Listen, TypeOfRest, clientVars
<1>8. ASSUME NEW s \in Servers, Wait(s) \/ Wake(s) \/ WaitReturns(s)
      PROVE  TypeOfRest'
  <2>1. waiter' \in [Servers -> {"none", "asleep", "woken", "done"}] /\ crashed' \in BOOLEAN
    BY <1>2, <1>8 DEF Wait, Wake, WaitReturns, TypeOfRest
  <2> QED
    BY <1>2, <1>8, <2>1 DEF Wait, Wake, WaitReturns, TypeOfRest, serverVars, clientVars
<1>9. ASSUME NEW s \in Servers, AcceptError(s) \/ StopCloses(s) \/ StopDone(s)
      PROVE  TypeOfRest'
  <2>1. /\ listener' \in [Servers -> {"none", "open", "closed"}]
        /\ acceptor' \in [Servers -> {"none", "accept", "got", "ended"}]
        /\ stopper' \in [Servers -> {"none", "waiting", "closed", "done"}]
        /\ stopped' \subseteq Servers
        /\ UNCHANGED <<processVars, clientVars>>
    BY <1>2, <1>9 DEF AcceptError, StopCloses, StopDone, TypeOfRest
  <2> QED
    BY <1>2, <2>1 DEF TypeOfRest, processVars, clientVars
<1>10. ASSUME NEW s \in Servers, NEW c \in Conns, AcceptConn(s, c)
       PROVE  TypeOfRest'
  <2>1. /\ acceptor' \in [Servers -> {"none", "accept", "got", "ended"}]
        /\ conn' \in [Conns -> {"none", "held", "running", "leaving", "removed", "gone"}]
        /\ server' \in [Conns -> Servers]
    BY <1>2, <1>10 DEF AcceptConn, TypeOfRest
  <2> QED
    BY <1>2, <1>10, <2>1 DEF AcceptConn, TypeOfRest, processVars
<1>11. ASSUME NEW s \in Servers, NEW c \in Conns, Register(s, c)
       PROVE  TypeOfRest'
  <2>1. /\ acceptor' \in [Servers -> {"none", "accept", "got", "ended"}]
        /\ conn' \in [Conns -> {"none", "held", "running", "leaving", "removed", "gone"}]
    BY <1>2, <1>11 DEF Register, TypeOfRest
  <2>2. registered' \subseteq Conns /\ late' \subseteq Conns /\ crashed' \in BOOLEAN
    <3>1. /\ registered' = registered \/ registered' = registered \cup {c}
          /\ late' = late \/ late' = late \cup {c}
          /\ crashed' = crashed \/ crashed' = TRUE
      BY <1>11 DEF Register
    <3> QED
      BY <1>2, <3>1 DEF TypeOfRest
  <2> QED
    BY <1>2, <1>11, <2>1, <2>2 DEF Register, TypeOfRest
<1>12. ASSUME NEW c \in Conns, Leave(c) \/ RemoveClient(c) \/ ClientGone(c) \/ ClientPanics(c)
       PROVE  TypeOfRest'
  <2>1. /\ conn' \in [Conns -> {"none", "held", "running", "leaving", "removed", "gone"}]
        /\ registered' \subseteq Conns /\ crashed' \in BOOLEAN
    BY <1>2, <1>12 DEF Leave, RemoveClient, ClientGone, ClientPanics, Reader, TypeOfRest,
       clientVars, processVars
  <2> QED
    BY <1>2, <1>12, <2>1 DEF Leave, RemoveClient, ClientGone, ClientPanics, TypeOfRest,
       processVars, serverVars, clientVars
<1> QED
  BY <1>4, <1>5, <1>6, <1>7, <1>8, <1>9, <1>10, <1>11, <1>12, StepCases DEF MainOnly

LEMMA StateStep ==
  ASSUME IInv, Step
  PROVE  ServerState' /\ MainState' /\ ConnState'
<1> USE LifecycleAssumption DEF Servers, Started, MainAt, MainGoto
<1> TypeOK /\ ServerState /\ MainState /\ ConnState
  BY DEF IInv
<1> USE DEF ServerState, MainState, ConnState
<1>1. CASE MainOnly
  <2>1. CASE Signal
    BY <2>1 DEF Signal, serverVars, clientVars
  <2>2. CASE Exec \/ Configure \/ PidfileOpen \/ PidfileWrite
    BY <2>2 DEF Exec, Configure, PidfileOpen, PidfileWrite, serverVars, clientVars
  <2>3. CASE Start
    BY <2>3 DEF Start, serverVars, clientVars
  <2>4. CASE AllWaited \/ PidfileClear \/ Exit
    BY <2>4 DEF AllWaited, PidfileClear, Exit, serverVars, clientVars
  <2> QED
    BY <1>1, <2>1, <2>2, <2>3, <2>4 DEF MainOnly
<1>2. ASSUME NEW s \in Servers, Listen(s)
      PROVE  ServerState' /\ MainState' /\ ConnState'
  BY <1>2 DEF Listen, TypeOK, serverVars, clientVars
<1>3. ASSUME NEW s \in Servers, Wait(s) \/ Wake(s) \/ WaitReturns(s)
      PROVE  ServerState' /\ MainState' /\ ConnState'
  BY <1>3 DEF Wait, Wake, WaitReturns, TypeOK, serverVars, clientVars
<1>4. ASSUME NEW s \in Servers, AcceptError(s) \/ StopCloses(s) \/ StopDone(s)
      PROVE  ServerState' /\ MainState' /\ ConnState'
  BY <1>4 DEF AcceptError, StopCloses, StopDone, TypeOK, processVars, clientVars
<1>5. ASSUME NEW s \in Servers, NEW c \in Conns, AcceptConn(s, c)
      PROVE  ServerState' /\ MainState' /\ ConnState'
  BY <1>5 DEF AcceptConn, TypeOK, processVars
<1>6. ASSUME NEW s \in Servers, NEW c \in Conns, Register(s, c)
      PROVE  ServerState' /\ MainState' /\ ConnState'
  BY <1>6 DEF Register, TypeOK
<1>7. ASSUME NEW c \in Conns, Leave(c) \/ RemoveClient(c) \/ ClientGone(c) \/ ClientPanics(c)
      PROVE  ServerState' /\ MainState' /\ ConnState'
  BY <1>7 DEF Leave, RemoveClient, ClientGone, ClientPanics, Reader, TypeOK,
     processVars, serverVars, clientVars
<1> QED
  BY <1>1, <1>2, <1>3, <1>4, <1>5, <1>6, <1>7, StepCases

\* Once Wait has returned, what accept has in hand is the last connection.
LEMMA WaitedStep ==
  ASSUME IInv, Step
  PROVE  WaitedFor'
<1> USE LifecycleAssumption DEF Servers
<1> TypeOK /\ WgCounts /\ ServerState /\ ConnState /\ WaitedFor
  BY DEF IInv
<1>1. ASSUME UNCHANGED <<waiter, stopper, conn, server, late, acceptor>>
      PROVE  WaitedFor'
  BY <1>1 DEF WaitedFor, Active
<1>2. CASE MainOnly
  BY <1>1, <1>2 DEF MainOnly, Signal, Exec, Configure, Start, PidfileOpen, PidfileWrite,
     AllWaited, PidfileClear, Exit, serverVars, clientVars
<1>3. ASSUME NEW s \in Servers, Listen(s)
      PROVE  WaitedFor'
  <2>1. listener[s] = "none" /\ waiter[s] = "none"
    BY <1>3 DEF Listen, ServerState, TypeOK
  <2>2. /\ UNCHANGED <<waiter, conn, server, late>>
        /\ \A z \in Servers \ {s} : stopper'[z] = stopper[z] /\ acceptor'[z] = acceptor[z]
    BY <1>3 DEF Listen, TypeOK, serverVars, clientVars
  <2> QED
    BY <2>1, <2>2 DEF WaitedFor, Active
<1>4. ASSUME NEW s \in Servers, Wait(s) \/ Wake(s) \/ WaitReturns(s)
      PROVE  WaitedFor'
  <2>1. UNCHANGED <<stopper, conn, server, late, acceptor>>
    BY <1>4 DEF Wait, Wake, WaitReturns, serverVars, clientVars
  <2>2. \A z \in Servers \ {s} : waiter'[z] = waiter[z]
    BY <1>4 DEF Wait, Wake, WaitReturns, TypeOK
  <2>3. CASE waiter'[s] # "done"
    BY <2>1, <2>2, <2>3 DEF WaitedFor, Active
  <2>4. CASE waiter'[s] = "done"
    <3>1. listener[s] # "none" /\ (waiter[s] = "done" \/ wg[s] = 0)
      BY <1>4, <2>4 DEF Wait, Wake, WaitReturns, Started, ServerState, TypeOK
    <3>2. CASE waiter[s] = "done"
      BY <2>1, <2>2, <3>2 DEF WaitedFor, Active
    <3>3. CASE wg[s] = 0
      <4>1. Active(s) = {} /\ stopper[s] = "done"
        BY <3>1, <3>3, ZeroMeansNone DEF ServerState, TypeOK
      <4> QED
        BY <2>1, <2>2, <4>1 DEF WaitedFor, Active
    <3> QED
      BY <3>1, <3>2, <3>3
  <2> QED
    BY <2>3, <2>4
<1>5. ASSUME NEW s \in Servers, AcceptError(s) \/ StopCloses(s) \/ StopDone(s)
      PROVE  WaitedFor'
  <2>1. UNCHANGED <<waiter, conn, server, late>>
    BY <1>5 DEF AcceptError, StopCloses, StopDone, processVars, clientVars
  <2>2. \A z \in Servers : /\ stopper[z] = "done" => stopper'[z] = "done"
                           /\ acceptor'[z] = "got" => acceptor[z] = "got"
    BY <1>5 DEF AcceptError, StopCloses, StopDone, TypeOK
  <2> QED
    BY <2>1, <2>2 DEF WaitedFor, Active
<1>6. ASSUME NEW s \in Servers, NEW c \in Conns, AcceptConn(s, c)
      PROVE  WaitedFor'
  <2>1. waiter[s] # "done"
    BY <1>6 DEF AcceptConn, ServerState, WaitedFor
  <2>2. \A z \in Servers : Active(z)' = Active(z)
    BY <1>6 DEF AcceptConn, Active, TypeOK
  <2> QED
    BY <1>6, <2>1, <2>2 DEF AcceptConn, WaitedFor, TypeOK, processVars
<1>7. ASSUME NEW s \in Servers, NEW c \in Conns, Register(s, c)
      PROVE  WaitedFor'
  <2>1. CASE UNCHANGED <<conn, late, acceptor>>
    BY <1>1, <1>7, <2>1 DEF Register
  <2>2. CASE ~UNCHANGED <<conn, late, acceptor>>
    <3>1. /\ conn' = [conn EXCEPT ![c] = "running"]
          /\ acceptor' = [acceptor EXCEPT ![s] = "accept"]
          /\ late' = IF wg[s] = 0 THEN late \cup {c} ELSE late
          /\ server[c] = s /\ conn[c] = "held" /\ acceptor[s] = "got"
          /\ UNCHANGED <<waiter, stopper, server>>
      BY <1>7, <2>2 DEF Register
    <3>2. \A z \in Servers \ {s} : Active(z)' = Active(z)
      BY <3>1 DEF Active, TypeOK
    <3>3. Active(s)' = Active(s) \cup {c}
      BY <3>1 DEF Active, TypeOK
    <3>4. waiter[s] = "done" => Active(s) = {} /\ stopper[s] = "done"
      BY <3>1 DEF WaitedFor
    <3>5. waiter[s] = "done" => wg[s] = 0
      BY <3>4, FS_EmptySet DEF WgCounts, Stopping
    <3>6. \A z \in Servers : acceptor'[z] = IF z = s THEN "accept" ELSE acceptor[z]
      BY <3>1 DEF TypeOK
    <3> QED
      BY <3>1, <3>2, <3>3, <3>4, <3>5, <3>6 DEF WaitedFor
  <2> QED
    BY <2>1, <2>2
<1>8. ASSUME NEW c \in Conns, Leave(c) \/ RemoveClient(c) \/ ClientGone(c) \/ ClientPanics(c)
      PROVE  WaitedFor'
  <2>1. UNCHANGED <<waiter, stopper, late, acceptor>>
    BY <1>8 DEF Leave, RemoveClient, ClientGone, ClientPanics, processVars, serverVars,
       clientVars
  <2>2. \A s \in Servers : Active(s)' \subseteq Active(s)
    BY <1>8 DEF Leave, RemoveClient, ClientGone, ClientPanics, Reader, Active, clientVars,
       TypeOK
  <2> QED
    BY <2>1, <2>2 DEF WaitedFor
<1> QED
  BY <1>2, <1>3, <1>4, <1>5, <1>6, <1>7, <1>8, StepCases

\* Who is added late finds the stop goroutine done, and no other who was.
LEMMA LateStep ==
  ASSUME IInv, Step
  PROVE  LateLast' /\ OneLateAtMost'
<1> USE DEF LateLast, OneLateAtMost
<1> TypeOK /\ WgCounts /\ ServerState /\ ConnState /\ LateLast /\ OneLateAtMost
  BY DEF IInv
<1>1. ASSUME UNCHANGED <<late, server>>,
             \A c \in late : conn'[c] = "none" \/ conn'[c] = "held" => conn'[c] = conn[c],
             \A s \in Servers : /\ stopper[s] = "done" => stopper'[s] = "done"
                                /\ acceptor'[s] = "got" => acceptor[s] = "got"
      PROVE  LateLast' /\ OneLateAtMost'
  <2>1. \A c \in late : server[c] \in Servers
    BY DEF TypeOK
  <2>2. OneLateAtMost'
    BY <1>1
  <2>3. ASSUME NEW c \in late
        PROVE  /\ conn'[c] \notin {"none", "held"}
               /\ stopper'[server[c]] = "done" /\ acceptor'[server[c]] # "got"
    BY <1>1, <2>1, <2>3
  <2> QED
    BY <1>1, <2>2, <2>3
<1>2. CASE MainOnly
  BY <1>1, <1>2 DEF MainOnly, Signal, Exec, Configure, Start, PidfileOpen, PidfileWrite,
     AllWaited, PidfileClear, Exit, serverVars, clientVars
<1>3. ASSUME NEW s \in Servers, Listen(s)
      PROVE  LateLast' /\ OneLateAtMost'
  <2>1. listener[s] = "none" /\ stopper[s] = "none"
    BY <1>3 DEF Listen, ServerState, TypeOK
  <2>2. UNCHANGED <<late, server, conn>>
    BY <1>3 DEF Listen, clientVars
  <2>3. \A z \in Servers : /\ stopper[z] = "done" => stopper'[z] = "done"
                           /\ acceptor'[z] = "got" => acceptor[z] = "got"
    BY <1>3, <2>1 DEF Listen, TypeOK, serverVars
  <2> QED
    BY <1>1, <2>2, <2>3
<1>4. ASSUME NEW s \in Servers, Wait(s) \/ Wake(s) \/ WaitReturns(s)
      PROVE  LateLast' /\ OneLateAtMost'
  BY <1>1, <1>4 DEF Wait, Wake, WaitReturns, serverVars, clientVars
<1>5. ASSUME NEW s \in Servers, AcceptError(s) \/ StopCloses(s) \/ StopDone(s)
      PROVE  LateLast' /\ OneLateAtMost'
  <2>1. UNCHANGED <<late, server, conn>>
    BY <1>5 DEF AcceptError, StopCloses, StopDone, clientVars
  <2>2. \A z \in Servers : /\ stopper[z] = "done" => stopper'[z] = "done"
                           /\ acceptor'[z] = "got" => acceptor[z] = "got"
    BY <1>5 DEF AcceptError, StopCloses, StopDone, TypeOK
  <2> QED
    BY <1>1, <2>1, <2>2
<1>6. ASSUME NEW s \in Servers, NEW c \in Conns, AcceptConn(s, c)
      PROVE  LateLast' /\ OneLateAtMost'
  <2>1. stopper[s] # "done" /\ c \notin late
    BY <1>6 DEF AcceptConn, ServerState
  <2>2. \A d \in late : server'[d] = server[d] /\ conn'[d] = conn[d] /\ server[d] # s
    BY <1>6, <2>1 DEF AcceptConn, TypeOK
  <2>3. UNCHANGED <<late, stopper>> /\ \A z \in Servers \ {s} : acceptor'[z] = acceptor[z]
    BY <1>6 DEF AcceptConn, TypeOK
  <2> QED
    BY <2>2, <2>3 DEF TypeOK
<1>7. ASSUME NEW s \in Servers, NEW c \in Conns, Register(s, c)
      PROVE  LateLast' /\ OneLateAtMost'
  <2>1. CASE UNCHANGED <<conn, late, acceptor>>
    BY <1>1, <1>7, <2>1 DEF Register
  <2>2. CASE ~UNCHANGED <<conn, late, acceptor>>
    <3>1. /\ conn' = [conn EXCEPT ![c] = "running"]
          /\ acceptor' = [acceptor EXCEPT ![s] = "accept"]
          /\ late' = IF wg[s] = 0 THEN late \cup {c} ELSE late
          /\ server[c] = s /\ acceptor[s] = "got"
          /\ UNCHANGED <<stopper, server>>
      BY <1>7, <2>2 DEF Register
    <3>2. \A d \in late : server[d] # s
      BY <3>1
    <3>3. wg[s] = 0 => stopper[s] = "done"
      BY <3>1, ZeroMeansNone DEF ServerState, TypeOK
    <3>4. /\ \A d \in Conns : conn'[d] = IF d = c THEN "running" ELSE conn[d]
          /\ \A z \in Servers : acceptor'[z] = IF z = s THEN "accept" ELSE acceptor[z]
      BY <3>1 DEF TypeOK
    <3>5. LateLast'
      BY <3>1, <3>2, <3>3, <3>4 DEF TypeOK
    <3>6. OneLateAtMost'
      BY <3>1, <3>2
    <3> QED
      BY <3>5, <3>6
  <2> QED
    BY <2>1, <2>2
<1>8. ASSUME NEW c \in Conns, Leave(c) \/ RemoveClient(c) \/ ClientGone(c) \/ ClientPanics(c)
      PROVE  LateLast' /\ OneLateAtMost'
  <2>1. UNCHANGED <<stopper, late, server, acceptor>>
    BY <1>8 DEF Leave, RemoveClient, ClientGone, ClientPanics, serverVars, clientVars
  <2>2. \A d \in Conns : conn'[d] = "none" \/ conn'[d] = "held" => conn'[d] = conn[d]
    BY <1>8 DEF Leave, RemoveClient, ClientGone, ClientPanics, Reader, clientVars, TypeOK
  <2> QED
    BY <1>1, <2>1, <2>2 DEF TypeOK
<1> QED
  BY <1>2, <1>3, <1>4, <1>5, <1>6, <1>7, <1>8, StepCases

-----------------------------------------------------------------------------
LEMMA IInvInit == Init => IInv
<1> SUFFICES ASSUME Init
             PROVE  IInv
  OBVIOUS
<1> USE LifecycleAssumption DEF Init, Servers
<1>1. Cardinality(Conns) \in Nat
  BY FS_CardinalityType
<1>2. TypeOK
  <2>1. 1 \in Servers /\ 1 \in 1 .. N + 1 /\ 0 \in 0 .. Cardinality(Conns) + 1
    BY <1>1
  <2>2. wg \in [Servers -> 0 .. Cardinality(Conns) + 1]
    BY <2>1
  <2> HIDE DEF Servers
  <2>3. server \in [Conns -> Servers]
    BY <2>1
  <2> QED
    BY <2>1, <2>2, <2>3 DEF TypeOK
<1>3. WgCounts
  <2> HIDE DEF Servers
  <2>1. \A s \in Servers : Active(s) = {}
    BY DEF Active
  <2>2. \A s \in Servers : Stopping(s) = 0 /\ wg[s] = 0
    BY DEF Stopping
  <2> QED
    BY <2>1, <2>2, FS_EmptySet DEF WgCounts
<1> QED
  BY <1>2, <1>3 DEF IInv, ServerState, MainState, ConnState, WaitedFor, LateLast,
     OneLateAtMost, Started

LEMMA IInvStep == IInv /\ [Next]_vars => IInv'
<1> SUFFICES ASSUME IInv, [Next]_vars
             PROVE  IInv'
  OBVIOUS
<1>1. CASE Step
  BY <1>1, TypeStep, WgStep, StateStep, WaitedStep, LateStep DEF IInv
<1>2. CASE UNCHANGED vars
  BY <1>2 DEF IInv, TypeOK, WgCounts, ServerState, MainState, ConnState, WaitedFor, LateLast,
     OneLateAtMost, Active, Stopping, Started, vars, processVars, serverVars, clientVars
<1> QED
  BY <1>1, <1>2 DEF Next, Step

\* The inductive invariant: how main, the accept loops, the stop goroutines and the
\* WaitGroup of connection.go stand to one another between any two steps.
THEOREM Invariance == Spec => []IInv
<1> QED
  BY IInvInit, IInvStep, PTL DEF Spec

\* Types, and with them the WaitGroup's counter, which never becomes negative.
THEOREM TypeCorrect == Spec => []TypeOK
<1>1. IInv => TypeOK
  BY DEF IInv
<1> QED
  BY <1>1, Invariance, PTL

\* Whatever the number of servers and connections, main does not go on before every
\* client but the ones that accept had in hand is gone.
THEOREM ClientsAreWaitedFor == Spec => []NoClientLeftBehind
<1>1. IInv => NoClientLeftBehind
  <2> SUFFICES ASSUME IInv, PastWait, NEW c \in Conns,
                      conn[c] \in {"running", "leaving", "removed"}
               PROVE  c \in late
    BY DEF NoClientLeftBehind, IInv, ConnState, TypeOK
  <2>1. server[c] \in Started
    BY DEF IInv, ConnState, TypeOK, Started
  <2>2. waiter[server[c]] = "done"
    BY <2>1 DEF PastWait, IInv, MainState
  <2>3. c \in Active(server[c])
    BY DEF Active
  <2> QED
    BY <2>1, <2>2, <2>3 DEF IInv, WaitedFor, Started
<1> QED
  BY <1>1, Invariance, PTL

\* Whatever the number of connections, accept adds one client at most to a server whose
\* WaitGroup has been at zero.
THEOREM FewAreLate == Spec => []OneLateAtMost
<1>1. IInv => OneLateAtMost
  BY DEF IInv
<1> QED
  BY <1>1, Invariance, PTL

\* When main goes on, nothing listens.
LEMMA NothingListens ==
  ASSUME IInv, main \in {"clear", "exit", "ended"}, NEW s \in Servers
  PROVE  listener[s] # "open"
BY DEF IInv, MainState, WaitedFor, ServerState, Started

\* wait lets main go on to PidfileClear only when every listener is closed, by the stop
\* goroutine that the WaitGroup counts.
THEOREM PortsAreReleased == Spec => []PortsReleased
<1>1. IInv => PortsReleased
  BY NothingListens DEF PortsReleased, PastWait
<1> QED
  BY <1>1, Invariance, PTL

\* One server's error does not stop another.
THEOREM OthersAreKept == Spec => []OthersKeepServing
<1>1. IInv => OthersKeepServing
  BY DEF IInv, MainState, ServerState, OthersKeepServing, ServerDone, Started
<1> QED
  BY <1>1, Invariance, PTL

-----------------------------------------------------------------------------
(***************************************************************************)
(* The refinement: what each step of the goroutines is to the operator.    *)
(***************************************************************************)
AnyOpen == \E s \in Servers : listener[s] = "open"

\* Most steps of the goroutines are nothing to the operator.
LEMMA Unnoticed ==
  ASSUME UNCHANGED <<main, told, marked, pidfile, crashed, listener>>
  PROVE  UNCHANGED Process!processVars
BY DEF Process!processVars, Phase, OnlySelf, Over, Started

\* A process that is there, and has begun, can end at any step.
LEMMA Perishes ==
  ASSUME TypeOK, ~Over, main # "new", Over', UNCHANGED pidfile
  PROVE  Process!Dies(Self)
<1>1. Phase # "none" /\ Phase' = "none"
  BY DEF TypeOK, Phase, Over
<1>2. \A b : OnlySelf(b) \subseteq {Self}
  BY DEF OnlySelf
<1> QED
  BY <1>1, <1>2 DEF Process!Dies, Process!Gone, Process!Enters, OnlySelf

\* Who has a server that has started is past its configuration.
LEMMA HasBegun ==
  ASSUME IInv, NEW s \in Servers, listener[s] # "none"
  PROVE  main \notin {"new", "configure"}
BY DEF IInv, MainState, Started

LEMMA MainRefines ==
  ASSUME IInv, ~Over, MainOnly
  PROVE  Process!ProcessNext \/ UNCHANGED Process!processVars
<1> USE DEF Process!ProcessNext, Process!Proceeds, Process!Enters
<1> TypeOK /\ MainState
  BY DEF IInv
<1>1. CASE Signal
  <2>1. Phase # "none" /\ Phase' = Phase
    BY <1>1 DEF Signal, MainAt, Phase, Over, TypeOK, Started, serverVars
  <2>2. Process!Term(Self)
    BY <1>1, <2>1 DEF Signal, Process!Term, OnlySelf, Over, serverVars
  <2> QED
    BY <2>2
<1>2. CASE Exec
  <2>1. Phase = "none" /\ Phase' = "starting"
    BY <1>2 DEF Exec, MainAt, MainGoto, Phase, Over
  <2>2. Process!Exec(Self)
    BY <1>2, <2>1 DEF Exec, MainAt, MainGoto, Process!Exec, OnlySelf, Over, serverVars
  <2> QED
    BY <2>2
<1>3. CASE Configure
  <2>1. CASE main' = "listen"
    BY <1>3, <2>1 DEF Configure, MainAt, MainState, Started, Phase, Over, OnlySelf,
       Process!processVars, serverVars
  <2>2. CASE main' = "ended"
    BY <1>3, <2>2, Perishes DEF Configure, MainAt, Over
  <2> QED
    BY <1>3, <2>1, <2>2 DEF Configure, MainGoto
<1>4. CASE Start
  <2>1. CASE Started = {}
    BY <1>4, <2>1, Perishes DEF Start, MainAt, MainGoto, Over
  <2>2. CASE Started # {}
    BY <1>4, <2>2 DEF Start, MainAt, MainGoto, Started, Phase, Over, OnlySelf,
       Process!processVars, serverVars
  <2> QED
    BY <2>1, <2>2
<1>5. CASE PidfileOpen
  <2>1. Phase = "listening" /\ Phase' = IF main' = "marking" THEN "marking" ELSE "waiting"
    BY <1>5 DEF PidfileOpen, MainAt, MainGoto, Phase, Over
  <2>2. Process!Marks(Self)
    BY <1>5, <2>1 DEF PidfileOpen, MainAt, MainGoto, Process!Marks, Process!OpensFile,
       Process!NoFile, OnlySelf, Over, serverVars
  <2> QED
    BY <2>2
<1>6. CASE PidfileWrite
  <2>1. Phase = "marking" /\ Phase' = "waiting"
    BY <1>6 DEF PidfileWrite, MainAt, MainGoto, Phase, Over
  <2>2. Process!Marked(Self)
    BY <1>6, <2>1 DEF PidfileWrite, MainAt, MainGoto, Process!Marked, Process!WritesFile,
       OnlySelf, Over, serverVars
  <2> QED
    BY <2>2
<1>7. CASE AllWaited
  <2>1. Phase = "waiting" /\ Phase' = "clearing"
    BY <1>7 DEF AllWaited, MainAt, MainGoto, Phase, Over
  <2>2. ~AnyOpen
    BY <1>7 DEF AllWaited, IInv, WaitedFor, ServerState, Started, AnyOpen
  <2>3. Process!Waited(Self)
    BY <1>7, <2>1, <2>2 DEF AllWaited, MainAt, MainGoto, Process!Waited, AnyOpen, OnlySelf,
       Over, serverVars
  <2> QED
    BY <2>3
<1>8. CASE PidfileClear
  <2>1. Phase = "clearing" /\ Phase' = "exiting"
    BY <1>8 DEF PidfileClear, MainAt, MainGoto, Phase, Over
  <2>2. Process!Clears(Self)
    BY <1>8, <2>1 DEF PidfileClear, AfterClear, MainAt, MainGoto, Process!Clears,
       Process!ClearsFile, Process!TriesToRemove, Process!RemovesFile, Process!NoFile,
       OnlySelf, Over, serverVars
  <2> QED
    BY <2>2
<1>9. CASE Exit
  BY <1>9, Perishes DEF Exit, MainAt, MainGoto, Over
<1> QED
  BY <1>1, <1>2, <1>3, <1>4, <1>5, <1>6, <1>7, <1>8, <1>9 DEF MainOnly

\* Listen and Close of a listener: the port is the process's while one is open.
LEMMA PortRefines ==
  ASSUME IInv, ~Over, NEW s \in Servers, Listen(s) \/ StopCloses(s)
  PROVE  Process!ProcessNext \/ UNCHANGED Process!processVars
<1> USE DEF Process!ProcessNext, Process!Proceeds, Process!Enters
<1> TypeOK /\ ServerState
  BY DEF IInv
<1>1. CASE UNCHANGED listener
  BY <1>1, Unnoticed DEF Listen, StopCloses, processVars
<1>2. CASE Listen(s) /\ ~UNCHANGED listener
  <2>1. listener' = [listener EXCEPT ![s] = "open"] /\ main' = main /\ main = "listen"
    BY <1>2 DEF Listen, MainAt, serverVars
  <2>2. AnyOpen' /\ s \in Started'
    BY <2>1 DEF AnyOpen, Started, TypeOK
  <2>3. ~Over' /\ UNCHANGED <<told, marked, pidfile>>
    BY <1>2 DEF Listen, Over
  <2>4. Phase' = "listening" /\ Phase \in {"starting", "listening"}
    BY <2>1, <2>2, <2>3 DEF Phase
  <2>5. AnyOpen => Phase = "listening"
    BY <2>1 DEF AnyOpen, Phase, Started
  <2>6. CASE AnyOpen
    BY <2>1, <2>2, <2>3, <2>4, <2>5, <2>6 DEF Process!processVars, AnyOpen, OnlySelf
  <2>7. CASE ~AnyOpen
    <3>1. Process!Binds(Self)
      BY <2>1, <2>2, <2>3, <2>4, <2>7 DEF Process!Binds, AnyOpen, OnlySelf
    <3> QED
      BY <3>1
  <2> QED
    BY <2>6, <2>7
<1>3. CASE StopCloses(s)
  <2>1. /\ listener' = [listener EXCEPT ![s] = "closed"] /\ listener[s] = "open"
        /\ UNCHANGED processVars
    BY <1>3 DEF StopCloses, ServerState
  <2>2. Started' = Started
    BY <2>1 DEF Started, TypeOK
  <2>3. Phase' = Phase /\ ~Over' /\ UNCHANGED <<main, told, marked, pidfile>> /\ AnyOpen
    BY <2>1, <2>2 DEF Phase, Over, AnyOpen, processVars
  <2>4. CASE AnyOpen'
    BY <2>3, <2>4 DEF Process!processVars, AnyOpen, OnlySelf
  <2>5. CASE ~AnyOpen'
    <3>1. Process!Unbinds(Self)
      BY <2>3, <2>5 DEF Process!Unbinds, AnyOpen, OnlySelf
    <3> QED
      BY <3>1
  <2> QED
    BY <2>4, <2>5
<1> QED
  BY <1>1, <1>2, <1>3

LEMMA StepRefines ==
  ASSUME IInv, ~Over, Step
  PROVE  Process!ProcessNext \/ UNCHANGED Process!processVars
<1> TypeOK /\ ServerState /\ ConnState
  BY DEF IInv
<1>1. ASSUME NEW s \in Servers, crashed', main' = main, UNCHANGED pidfile,
             waiter[s] # "none" \/ \E c \in Conns : server[c] = s /\ conn[c] # "none"
      PROVE  Process!ProcessNext
  <2>1. listener[s] # "none"
    BY <1>1 DEF ServerState, ConnState
  <2>2. Process!Dies(Self)
    BY <1>1, <2>1, HasBegun, Perishes DEF Over
  <2> QED
    BY <2>2 DEF Process!ProcessNext
<1>2. ASSUME NEW s \in Servers, Wait(s) \/ Wake(s) \/ AcceptError(s) \/ StopDone(s)
      PROVE  UNCHANGED Process!processVars
  BY <1>2, Unnoticed DEF Wait, Wake, AcceptError, StopDone, processVars, serverVars
<1>3. ASSUME NEW s \in Servers, WaitReturns(s)
      PROVE  Process!ProcessNext \/ UNCHANGED Process!processVars
  BY <1>1, <1>3, Unnoticed DEF WaitReturns, serverVars
<1>4. ASSUME NEW s \in Servers, NEW c \in Conns, AcceptConn(s, c)
      PROVE  UNCHANGED Process!processVars
  BY <1>4, Unnoticed DEF AcceptConn, processVars
<1>5. ASSUME NEW s \in Servers, NEW c \in Conns, Register(s, c)
      PROVE  Process!ProcessNext \/ UNCHANGED Process!processVars
  BY <1>1, <1>5, Unnoticed DEF Register
<1>6. ASSUME NEW c \in Conns, Leave(c) \/ RemoveClient(c) \/ ClientGone(c)
      PROVE  UNCHANGED Process!processVars
  BY <1>6, Unnoticed DEF Leave, RemoveClient, ClientGone, processVars, serverVars
<1>7. ASSUME NEW c \in Conns, ClientPanics(c)
      PROVE  Process!ProcessNext
  BY <1>1, <1>7 DEF ClientPanics, TypeOK
<1> QED
  BY <1>2, <1>3, <1>4, <1>5, <1>6, <1>7, MainRefines, PortRefines, StepCases

\* The goroutines, and all that peers and panics do to them, are to the operator a
\* process that takes the port, writes the PID file, waits, tries to remove the file if
\* it could write it, and leaves.
THEOREM ImplementsServerProcess == Spec => IsServerProcess
<1>1. Init => Process!ProcessInit
  <2> SUFFICES ASSUME Init
               PROVE  Process!ProcessInit
    OBVIOUS
  <2>1. Phase = "none" /\ ~AnyOpen
    BY DEF Init, Phase, AnyOpen
  <2> QED
    BY <2>1 DEF Init, Process!ProcessInit, OnlySelf, AnyOpen
<1>2. IInv /\ [Next]_vars => [Process!ProcessNext]_(Process!processVars)
  <2> SUFFICES ASSUME IInv, [Next]_vars
               PROVE  Process!ProcessNext \/ UNCHANGED Process!processVars
    OBVIOUS
  <2>1. CASE UNCHANGED vars
    BY <2>1, Unnoticed DEF vars, processVars, serverVars
  <2>2. CASE ~Over /\ Step
    BY <2>2, StepRefines
  <2> QED
    BY <2>1, <2>2 DEF Next, Step
<1> QED
  BY <1>1, <1>2, Invariance, PTL DEF Spec, IsServerProcess, Process!ProcessSpec
=============================================================================
