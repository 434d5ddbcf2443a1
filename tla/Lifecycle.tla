------------------------------ MODULE Lifecycle ------------------------------
(***************************************************************************)
(* One server process from main to its end (nvdaRemoteServer.go,           *)
(* connection.go, pid.go, shutdown.go): Start listens on each address;     *)
(* each server has an accept loop, a stop goroutine and a WaitGroup; main  *)
(* waits for the WaitGroups of all servers and removes the PID file.  A    *)
(* signal cancels Mctx, from which the servers' contexts derive, and from  *)
(* these the clients'.                                                     *)
(*                                                                         *)
(* A connection is here no more than its reader goroutine, from Accept to  *)
(* the last of its deferred calls; ClientConn and Relay have the rest.     *)
(***************************************************************************)
EXTENDS Integers, FiniteSets

CONSTANTS
  N,          \* the number of addresses: 1 or 2
  Conns,      \* the connections that peers may open
  Self,       \* the PID
  None, Blank \* as in ServerProcess

ASSUME LifecycleAssumption ==
  /\ N \in Nat \ {0} /\ IsFiniteSet(Conns)
  /\ None # Self /\ Blank # Self /\ None # Blank

Servers == 1 .. N

VARIABLES
  \* the process
  main,       \* where the main goroutine is
  turn,       \* the server that Start is at
  told,       \* a signal has arrived
  mctx,       \* Mctx is cancelled
  marked,     \* pidfile still has a path: PidfileSet succeeded
  pidfile,    \* the file: None, Blank or Self
  crashed,    \* a panic ended the process
  waiter,     \* the goroutine of wait, per server
  \* Server
  listener,   \* "none" (also: Listen failed), "open" or "closed"
  stopped,    \* the servers whose Stop was called
  wg,         \* the WaitGroup's counter
  acceptor,   \* the accept loop
  stopper,    \* the stop goroutine
  \* Client
  conn,       \* how far each connection's reader has come
  server,     \* Client.s
  registered, \* the clients in the global map
  \* history
  late        \* the clients added when the counter had been at zero

processVars == <<main, turn, told, mctx, marked, pidfile, crashed, waiter>>
serverVars  == <<listener, stopped, wg, acceptor, stopper>>
clientVars  == <<conn, server, registered, late>>
vars == <<processVars, serverVars, clientVars>>

TypeOK ==
  /\ main \in {"new", "configure", "listen", "mark", "marking", "wait", "clear",
              "exit", "ended"}
  /\ turn \in 1 .. N + 1
  /\ told \in BOOLEAN /\ mctx \in BOOLEAN /\ marked \in BOOLEAN /\ crashed \in BOOLEAN
  /\ pidfile \in {None, Blank, Self}
  /\ waiter \in [Servers -> {"none", "asleep", "woken", "done"}]
  /\ listener \in [Servers -> {"none", "open", "closed"}]
  /\ stopped \subseteq Servers
  /\ wg \in [Servers -> 0 .. Cardinality(Conns) + 1]
  /\ acceptor \in [Servers -> {"none", "accept", "got", "ended"}]
  /\ stopper \in [Servers -> {"none", "waiting", "closed", "done"}]
  /\ conn \in [Conns -> {"none", "held", "running", "leaving", "removed", "gone"}]
  /\ server \in [Conns -> Servers]
  /\ registered \subseteq Conns /\ late \subseteq Conns

Init ==
  /\ main = "new" /\ turn = 1 /\ told = FALSE /\ mctx = FALSE
  /\ marked = FALSE /\ pidfile = None /\ crashed = FALSE
  /\ waiter = [s \in Servers |-> "none"]
  /\ listener = [s \in Servers |-> "none"]
  /\ stopped = {}
  /\ wg = [s \in Servers |-> 0]
  /\ acceptor = [s \in Servers |-> "none"]
  /\ stopper = [s \in Servers |-> "none"]
  /\ conn = [c \in Conns |-> "none"]
  /\ server = [c \in Conns |-> 1]
  /\ registered = {} /\ late = {}

MainAt(l) == main = l
MainGoto(l) == main' = l

Over == crashed \/ main = "ended"

-----------------------------------------------------------------------------
(***************************************************************************)
(* Contexts: s.ctx derives from Mctx and c.ctx from s.ctx, whenever the    *)
(* two were made.                                                          *)
(***************************************************************************)
ServerDoneAlone(s) == s \in stopped            \* a faulty variant
ServerDone(s) == s \in stopped \/ mctx

ClientDoneByMctx(c) == mctx                    \* a faulty variant
ClientDone(c) == ServerDone(server[c])

\* signal.NotifyContext
Signal ==
  /\ ~told /\ ~MainAt("new")
  /\ told' = TRUE /\ mctx' = TRUE
  /\ UNCHANGED <<main, turn, marked, pidfile, crashed, waiter, serverVars, clientVars>>

-----------------------------------------------------------------------------
(***************************************************************************)
(* main and wait.                                                          *)
(***************************************************************************)
\* The process is there, and its init has wired the signals.
Exec ==
  /\ MainAt("new") /\ MainGoto("configure")
  /\ UNCHANGED <<turn, told, mctx, marked, pidfile, crashed, waiter, serverVars,
                 clientVars>>

\* Module Settings; a Configure that fails ends the process.
Configure ==
  /\ MainAt("configure")
  /\ MainGoto("listen") \/ MainGoto("ended")
  /\ UNCHANGED <<turn, told, mctx, marked, pidfile, crashed, waiter, serverVars,
                 clientVars>>

\* One round of Start's loop: a server whose Listen fails becomes nil.  The
\* WaitGroup's first unit is for the stop goroutine, which accept starts.
Listen(s) ==
  /\ MainAt("listen") /\ turn = s
  /\ turn' = turn + 1
  /\ \/ UNCHANGED serverVars
     \/ /\ listener' = [listener EXCEPT ![s] = "open"]
        /\ wg' = [wg EXCEPT ![s] = 1]
        /\ acceptor' = [acceptor EXCEPT ![s] = "accept"]
        /\ stopper' = [stopper EXCEPT ![s] = "waiting"]
        /\ UNCHANGED stopped
  /\ UNCHANGED <<main, told, mctx, marked, pidfile, crashed, waiter, clientVars>>

Started == {s \in Servers : listener[s] # "none"}

Start ==
  /\ MainAt("listen") /\ turn = N + 1
  /\ MainGoto(IF Started = {} THEN "ended" ELSE "mark")
  /\ UNCHANGED <<turn, told, mctx, marked, pidfile, crashed, waiter, serverVars,
                 clientVars>>

\* os.WriteFile opens the file, which truncates it, and then writes.  If either
\* fails, the path is forgotten.
PidfileOpen ==
  /\ MainAt("mark")
  /\ \/ MainGoto("marking") /\ pidfile' = Blank
     \/ MainGoto("wait") /\ UNCHANGED pidfile
  /\ UNCHANGED <<turn, told, mctx, marked, crashed, waiter, serverVars, clientVars>>

PidfileWrite ==
  /\ MainAt("marking")
  /\ MainGoto("wait")
  /\ \/ marked' = TRUE /\ pidfile' = Self
     \/ UNCHANGED <<marked, pidfile>>
  /\ UNCHANGED <<turn, told, mctx, crashed, waiter, serverVars, clientVars>>

\* wait's goroutine for s calls s.Wait, which sleeps unless the counter is zero.
Wait(s) ==
  /\ MainAt("wait") /\ s \in Started
  /\ waiter[s] = "none"
  /\ waiter' = [waiter EXCEPT ![s] = IF wg[s] = 0 THEN "done" ELSE "asleep"]
  /\ UNCHANGED <<main, turn, told, mctx, marked, pidfile, crashed, serverVars,
                 clientVars>>

\* The Done that takes the counter to zero wakes it ...
Wake(s) ==
  /\ waiter[s] = "asleep" /\ wg[s] = 0
  /\ waiter' = [waiter EXCEPT ![s] = "woken"]
  /\ UNCHANGED <<main, turn, told, mctx, marked, pidfile, crashed, serverVars,
                 clientVars>>

\* ... and if an Add has come in between, Wait panics ("WaitGroup is reused before
\* previous Wait has returned").
WaitReturns(s) ==
  /\ waiter[s] = "woken"
  /\ \/ /\ wg[s] = 0
        /\ waiter' = [waiter EXCEPT ![s] = "done"]
        /\ UNCHANGED crashed
     \/ /\ wg[s] # 0
        /\ crashed' = TRUE
        /\ UNCHANGED waiter
  /\ UNCHANGED <<main, turn, told, mctx, marked, pidfile, serverVars, clientVars>>

AllWaited ==
  /\ MainAt("wait")
  /\ \A s \in Started : waiter[s] = "done"
  /\ MainGoto("clear")
  /\ UNCHANGED <<turn, told, mctx, marked, pidfile, crashed, waiter, serverVars,
                 clientVars>>

\* os.Remove is tried if there is still a path, and may fail; either way the path is
\* forgotten.
AfterAnyClear == {None, pidfile}                       \* a faulty variant
AfterClear == IF marked THEN {None, pidfile} ELSE {pidfile}

PidfileClear ==
  /\ MainAt("clear")
  /\ MainGoto("exit")
  /\ pidfile' \in AfterClear
  /\ marked' = FALSE
  /\ UNCHANGED <<turn, told, mctx, crashed, waiter, serverVars, clientVars>>

Exit ==
  /\ MainAt("exit")
  /\ MainGoto("ended")
  /\ UNCHANGED <<turn, told, mctx, marked, pidfile, crashed, waiter, serverVars,
                 clientVars>>

-----------------------------------------------------------------------------
(***************************************************************************)
(* Server: the accept loop and the stop goroutine.                         *)
(***************************************************************************)
AcceptConn(s, c) ==
  /\ acceptor[s] = "accept" /\ listener[s] = "open"
  /\ conn[c] = "none"
  /\ acceptor' = [acceptor EXCEPT ![s] = "got"]
  /\ conn' = [conn EXCEPT ![c] = "held"]
  /\ server' = [server EXCEPT ![c] = s]
  /\ UNCHANGED <<processVars, listener, stopped, wg, stopper, registered, late>>

\* Under s's lock: the context, Add(1) and AddClient.  An Add while the counter is
\* at zero and Wait has not been woken yet panics.
NotCounted(s) == wg                                    \* a faulty variant
Counted(s) == [wg EXCEPT ![s] = @ + 1]

Register(s, c) ==
  /\ acceptor[s] = "got" /\ conn[c] = "held" /\ server[c] = s
  /\ \/ /\ waiter[s] = "asleep" /\ wg[s] = 0
        /\ crashed' = TRUE
        /\ UNCHANGED <<wg, acceptor, conn, registered, late>>
     \/ /\ ~(waiter[s] = "asleep" /\ wg[s] = 0)
        /\ wg' = Counted(s)
        /\ late' = IF wg[s] = 0 THEN late \cup {c} ELSE late
        /\ registered' = registered \cup {c}
        /\ conn' = [conn EXCEPT ![c] = "running"]
        /\ acceptor' = [acceptor EXCEPT ![s] = "accept"]
        /\ UNCHANGED crashed
  /\ UNCHANGED <<main, turn, told, mctx, marked, pidfile, waiter, listener, stopped,
                 stopper, server>>

\* Accept returns an error, because the listener is closed or for any other reason,
\* and the loop ends for good.
AcceptErrorStopsAll(s) ==                              \* a faulty variant
  /\ acceptor[s] = "accept"
  /\ acceptor' = [acceptor EXCEPT ![s] = "ended"]
  /\ mctx' = TRUE
  /\ UNCHANGED <<main, turn, told, marked, pidfile, crashed, waiter, listener, stopped,
                 wg, stopper, clientVars>>
AcceptError(s) ==
  /\ acceptor[s] = "accept"
  /\ acceptor' = [acceptor EXCEPT ![s] = "ended"]
  /\ stopped' = stopped \cup {s}
  /\ UNCHANGED <<processVars, listener, wg, stopper, clientVars>>

DoneBeforeClose(s) ==                                  \* a faulty variant
  /\ stopper[s] = "waiting" /\ ServerDone(s)
  /\ wg' = [wg EXCEPT ![s] = @ - 1]
  /\ stopper' = [stopper EXCEPT ![s] = "closed"]
  /\ UNCHANGED <<processVars, listener, stopped, acceptor, clientVars>>
StopCloses(s) ==
  /\ stopper[s] = "waiting" /\ ServerDone(s)
  /\ listener' = [listener EXCEPT ![s] = "closed"]
  /\ stopper' = [stopper EXCEPT ![s] = "closed"]
  /\ UNCHANGED <<processVars, stopped, wg, acceptor, clientVars>>

Done(s) == wg' = [wg EXCEPT ![s] = @ - 1]

StopForgotten(s) == FALSE                              \* a faulty variant
StopDone(s) ==
  /\ stopper[s] = "closed"
  /\ stopper' = [stopper EXCEPT ![s] = "done"]
  /\ Done(s)
  /\ UNCHANGED <<processVars, listener, stopped, acceptor, clientVars>>

-----------------------------------------------------------------------------
(***************************************************************************)
(* Client: listen's deferred calls, in the order Close, RemoveClient, Done.*)
(***************************************************************************)
Reader(c, from, to) == conn[c] = from /\ conn' = [conn EXCEPT ![c] = to]

\* The peer hangs up or is disconnected; a cancelled client always gets here.
Leave(c) ==
  /\ Reader(c, "running", "leaving")
  /\ UNCHANGED <<processVars, serverVars, server, registered, late>>

RemoveClient(c) ==
  /\ Reader(c, "leaving", "removed")
  /\ registered' = registered \ {c}
  /\ UNCHANGED <<processVars, serverVars, server, late>>

ClientGone(c) ==
  /\ Reader(c, "removed", "gone")
  /\ Done(server[c])
  /\ UNCHANGED <<processVars, listener, stopped, acceptor, stopper, server, registered,
                 late>>

\* A panic in a client's goroutine (Relay and ClientConn have two) is not
\* recovered: CatchPanic is deferred by main only.
ClientPanics(c) ==
  /\ conn[c] = "running"
  /\ crashed' = TRUE
  /\ UNCHANGED <<main, turn, told, mctx, marked, pidfile, waiter, serverVars, clientVars>>

-----------------------------------------------------------------------------
MainStep ==
  \/ Exec \/ Configure \/ (\E s \in Servers : Listen(s)) \/ Start \/ PidfileOpen \/ PidfileWrite
  \/ AllWaited \/ PidfileClear \/ Exit

WaiterStep(s) == Wait(s) \/ Wake(s) \/ WaitReturns(s)

ServerStep(s) ==
  \/ \E c \in Conns : AcceptConn(s, c) \/ Register(s, c)
  \/ AcceptError(s) \/ StopCloses(s) \/ StopDone(s)

ClientStep(c) == Leave(c) \/ RemoveClient(c) \/ ClientGone(c) \/ ClientPanics(c)

Next ==
  \/ /\ ~Over
     /\ \/ Signal \/ MainStep
        \/ \E s \in Servers : WaiterStep(s) \/ ServerStep(s)
        \/ \E c \in Conns : ClientStep(c)
  \/ Over /\ UNCHANGED vars

Spec == Init /\ [][Next]_vars

\* Goroutines keep running, Accept on a closed listener returns, and a cancelled
\* client's reader ends (CancelledEnds of ClientConn, CancelledIsRemoved of Relay).
\* Peers, signals and other errors of Accept may stay away for ever.
Fairness ==
  /\ WF_vars(~Over /\ MainStep)
  /\ \A s \in Servers :
       /\ WF_vars(~Over /\ WaiterStep(s))
       /\ WF_vars(~Over /\ (StopCloses(s) \/ StopDone(s)))
       /\ WF_vars(~Over /\ \E c \in Conns : Register(s, c))
       /\ WF_vars(~Over /\ listener[s] = "closed" /\ AcceptError(s))
  /\ \A c \in Conns :
       WF_vars(~Over /\ (RemoveClient(c) \/ ClientGone(c) \/ (ClientDone(c) /\ Leave(c))))

FairSpec == Spec /\ Fairness

-----------------------------------------------------------------------------
(***************************************************************************)
(* Properties.                                                             *)
(***************************************************************************)

\* The process is a server process as its operator knows it: it takes the port, the
\* PID file and leaves them in the order of module ServerProcess.  It tries to remove
\* the file once, when nothing of it listens any more, and only a file that it has
\* written in full.
Phase ==
  CASE Over \/ main = "new"  -> "none"
    [] ~Over /\ main = "configure" -> "starting"
    [] ~Over /\ main = "listen"    -> IF Started = {} THEN "starting" ELSE "listening"
    [] ~Over /\ main = "mark"      -> "listening"
    [] ~Over /\ main = "marking"   -> "marking"
    [] ~Over /\ main = "wait"      -> "waiting"
    [] ~Over /\ main = "clear"     -> "clearing"
    [] ~Over /\ main = "exit"      -> "exiting"

OnlySelf(b) == IF b /\ ~Over THEN {Self} ELSE {}

Process == INSTANCE ServerProcess WITH
  Pids    <- {Self},
  phase   <- [p \in {Self} |-> Phase],
  bound   <- OnlySelf(\E s \in Servers : listener[s] = "open"),
  told    <- OnlySelf(told),
  marked  <- OnlySelf(marked),
  writing <- OnlySelf(main = "marking")
IsServerProcess == Process!ProcessSpec

PastWait == main \in {"clear", "exit", "ended"} /\ Started # {}

\* When main goes on to remove the PID file, every client has left its channel and
\* the client map; except one that was added after the counter had been at zero,
\* because accept had it in hand when the stop goroutine finished.
NoClientLeftBehind ==
  PastWait => /\ registered \subseteq late
              /\ \A c \in Conns : conn[c] \in {"running", "leaving", "removed"} => c \in late

\* And there is no more than one such client per server: a closed listener yields no
\* other, and what accept holds is one connection.
OneLateAtMost == \A c, d \in late : server[c] = server[d] => c = d

\* By then the ports are free for a successor.
PortsReleased == PastWait => \A s \in Servers : listener[s] # "open"

\* An error of Accept ends its own server only: while there has been no signal, a
\* server's context is cancelled only by its own accept loop.
OthersKeepServing ==
  ~told => \A s \in Started : ServerDone(s) => acceptor[s] = "ended"

\* A server that has stopped gets rid of its clients, without a signal too.
StoppedServerDrains ==
  \A s \in Servers :
    s \in stopped ~> Over \/ \A c \in Conns : server[c] = s => conn[c] \notin {"running", "leaving"}

\* A signal ends the process, whenever it comes.
SignalEndsProcess == told ~> Over

\* A process none of whose servers listens any more ends.
NothingListensEnds ==
  main = "wait" /\ (\A s \in Servers : listener[s] # "open") ~> Over
=============================================================================
