------------------------------- MODULE Daemon -------------------------------
(***************************************************************************)
(* The commands start, stop, kill, restart and status (daemon_unix.go),    *)
(* each a process of its own that reads the PID file, acts on what it has  *)
(* read, and rewrites or removes the file by its path; and the servers     *)
(* they act on, which do the same (module ServerProcess).  All use one     *)
(* path and one address.                                                   *)
(*                                                                         *)
(* The machine reuses PIDs, for servers and for strangers.  It does not do *)
(* so while a command is at work with the PID: PIDs are handed out in a    *)
(* cycle of thousands, and a command takes ten seconds at most.            *)
(***************************************************************************)
EXTENDS ServerProcess

CONSTANTS
  Operators    \* those who issue commands, one after the other each

ASSUME DaemonAssumption == Operators \cap Pids = {}

VARIABLES
  command,    \* each operator's command: its name, the step it is at, and its
              \* target, the PID it has read or that of the child it has started
  dying,      \* the servers that SIGKILL was sent to
  strangers,  \* the PIDs of processes that are not servers
  \* history
  orphans,    \* the PIDs that their last server may leave in the file
  events      \* what has happened that a property makes an exception for

vars == <<processVars, command, dying, strangers, orphans, events>>

NoCommand == [name |-> "none", step |-> "idle", target |-> None]
Commands == {"start", "stop", "kill", "restart", "status"}
Steps == {"signal", "wait", "remove", "record", "write"}

\* misread:   a command read the file while it was blank
\* overlap:   a command began while another was in progress
\* unwritten: a write of the PID file failed
Events == {"misread", "overlap", "unwritten"}

TypeOK ==
  /\ ProcessTypeOK
  /\ writing \subseteq Pids \cup Operators
  /\ command \in [Operators ->
        [name : Commands, step : Steps, target : Pids]
          \cup [name : {"start", "restart"}, step : {"exec"}, target : {None}]
          \cup {NoCommand}]
  /\ dying \subseteq Pids /\ strangers \subseteq Pids
  /\ \A p \in dying : phase[p] # "none"
  /\ \A p \in strangers : phase[p] = "none"
  /\ orphans \subseteq Pids /\ events \subseteq Events

Init ==
  /\ ProcessInit
  /\ command = [o \in Operators |-> NoCommand]
  /\ dying = {} /\ strangers = {}
  /\ orphans = {} /\ events = {}

Happen(E)   == events' = events \cup E
Orphaned(P) == orphans' = orphans \cup P
When(b, e)  == IF b THEN {e} ELSE {}

-----------------------------------------------------------------------------
(***************************************************************************)
(* What a command finds out, and what it does to processes.                *)
(***************************************************************************)
pidAlive(p) == p \in Pids /\ (phase[p] # "none" \/ p \in strangers)

\* daemonStatus: a blank file does not parse.
pidRead == IF pidfile \in Pids THEN pidfile ELSE None

At(o, s) == command[o].step = s
Is(o, c) == command[o].name = c
Target(o) == command[o].target
Idle(o) == command[o] = NoCommand

Goto(o, s) == command' = [command EXCEPT ![o].step = s]
Finish(o) == command' = [command EXCEPT ![o] = NoCommand]

SendTerm(p) ==
  /\ told' = IF phase[p] # "none" THEN told \cup {p} ELSE told
  /\ UNCHANGED dying

SendKill(p) ==
  /\ dying' = IF phase[p] # "none" THEN dying \cup {p} ELSE dying
  /\ UNCHANGED told

-----------------------------------------------------------------------------
(***************************************************************************)
(* daemonCmd.                                                              *)
(***************************************************************************)
\* What a command does first, given whether its server is running.
StartsAnyway(c, running) ==                            \* a faulty variant
  CASE c \in {"start", "restart"} -> "exec"
    [] c \in {"stop", "kill"} -> IF running THEN "signal" ELSE "idle"
    [] c = "status"  -> "idle"
SignalsAnyway(c, running) ==                           \* a faulty variant
  CASE c = "start"   -> IF running THEN "idle" ELSE "exec"
    [] c \in {"restart", "stop", "kill"} -> "signal"
    [] c = "status"  -> "idle"
FirstStep(c, running) ==
  CASE c = "start"   -> IF running THEN "idle" ELSE "exec"
    [] c = "restart" -> IF running THEN "signal" ELSE "exec"
    [] c \in {"stop", "kill"} -> IF running THEN "signal" ELSE "idle"
    [] c = "status"  -> "idle"

Begin(o, c) ==
  LET running == pidAlive(pidRead)
      first   == FirstStep(c, running)
  IN /\ Idle(o)
     /\ first # "idle"
     /\ command' = [command EXCEPT ![o] =
                      [name |-> c, step |-> first,
                       target |-> IF first = "signal" THEN pidRead ELSE None]]
     /\ Happen(When(first = "exec" /\ pidfile = Blank, "misread")
          \cup When(\E q \in Operators \ {o} : ~Idle(q), "overlap"))
     /\ UNCHANGED <<processVars, dying, strangers, orphans>>

\* status, and a command that finds that there is nothing to do.
Report(o, c) ==
  /\ Idle(o)
  /\ FirstStep(c, pidAlive(pidRead)) = "idle"
  /\ UNCHANGED vars

Signal(o) ==
  /\ At(o, "signal")
  /\ Goto(o, "wait")
  /\ IF Is(o, "kill") THEN SendKill(Target(o)) ELSE SendTerm(Target(o))
  /\ UNCHANGED <<phase, bound, marked, pidfile, writing, strangers, orphans, events>>

\* waitForProcess, when the process is gone ...
SeesNothing(p) == TRUE                                 \* a faulty variant
SeesItGone(p) == ~pidAlive(p)

WaitEnds(o) ==
  /\ At(o, "wait") /\ SeesItGone(Target(o))
  /\ Goto(o, "remove")
  /\ UNCHANGED <<processVars, dying, strangers, orphans, events>>

\* ... and when it is not, after ten seconds: restart goes on with a SIGKILL, and
\* does not wait again.
WaitTimesOut(o) ==
  /\ At(o, "wait") /\ pidAlive(Target(o))
  /\ \/ Is(o, "restart") /\ Goto(o, "remove") /\ SendKill(Target(o))
     \/ ~Is(o, "restart") /\ Finish(o) /\ UNCHANGED <<told, dying>>
  /\ UNCHANGED <<phase, bound, marked, pidfile, writing, strangers, orphans, events>>

\* An error of os.Remove is ignored, and the file may still name the target.
Remove(o) ==
  /\ At(o, "remove")
  /\ TriesToRemove
  /\ Orphaned(When(pidfile' = Target(o), Target(o)))
  /\ \/ /\ Is(o, "restart")
        /\ command' = [command EXCEPT ![o].step = "exec", ![o].target = None]
     \/ ~Is(o, "restart") /\ Finish(o)
  /\ UNCHANGED <<phase, bound, told, marked, dying, strangers, events>>

-----------------------------------------------------------------------------
(***************************************************************************)
(* daemonStart.                                                            *)
(***************************************************************************)
Free(p) == phase[p] = "none" /\ p \notin strangers /\ \A o \in Operators : Target(o) # p

StartChild(o, p) ==
  /\ At(o, "exec") /\ Free(p)
  /\ Exec(p)
  /\ command' = [command EXCEPT ![o].step = "record", ![o].target = p]
  /\ orphans' = orphans \ {p}
  /\ UNCHANGED <<dying, strangers, events>>

StartFails(o) ==
  /\ At(o, "exec")
  /\ Finish(o)
  /\ UNCHANGED <<processVars, dying, strangers, orphans, events>>

\* WriteFile with the child's PID, whatever has become of the child: it may be past its
\* PidfileClear, or gone.  An error is ignored.
RecordOpens(o) ==
  /\ At(o, "record")
  /\ \/ OpensFile(o) /\ Goto(o, "write") /\ UNCHANGED events
     \/ NoFile /\ Finish(o) /\ Happen({"unwritten"})
  /\ UNCHANGED <<phase, bound, told, marked, dying, strangers, orphans>>

RecordWrites(o) ==
  /\ At(o, "write")
  /\ \/ /\ WritesFile(o, Target(o))
        /\ Orphaned(When(phase[Target(o)] \in {"exiting", "none"}, Target(o)))
        /\ UNCHANGED events
     \/ /\ writing' = writing \ {o} /\ UNCHANGED <<pidfile, orphans>>
        /\ Happen({"unwritten"})
  /\ Finish(o)
  /\ UNCHANGED <<phase, bound, told, marked, dying, strangers>>

-----------------------------------------------------------------------------
(***************************************************************************)
(* The machine.                                                            *)
(***************************************************************************)
\* What a step of p may leave behind: PidfileSet failed; p did not start; os.Remove
\* failed in PidfileClear.
Unwritten(p) ==
  phase[p] \in {"listening", "marking"} /\ phase'[p] = "waiting" /\ p \notin marked'
Unstarted(p) == phase[p] = "starting" /\ phase'[p] = "none" /\ pidfile = p
Unremoved(p) == phase[p] = "clearing" /\ ClearsFile(p) /\ pidfile' = p

Server(p) ==
  /\ p \notin dying
  /\ Proceeds(p)
  /\ Happen(When(Unwritten(p), "unwritten"))
  /\ Orphaned(When(Unwritten(p) \/ Unstarted(p) \/ Unremoved(p), p))
  /\ UNCHANGED <<command, dying, strangers>>

CleanedUp(p) ==
  \E o \in Operators : (At(o, "wait") \/ At(o, "remove")) /\ Target(o) = p

\* A panic, the out-of-memory killer, or the SIGKILL of a command.
Death(p) ==
  /\ Dies(p)
  /\ dying' = dying \ {p}
  /\ Happen(When(phase[p] = "marking", "unwritten"))
  /\ Orphaned(When(pidfile = p /\ ~CleanedUp(p), p))
  /\ UNCHANGED <<command, strangers>>

Reuse(p) ==
  /\ Free(p)
  /\ strangers' = strangers \cup {p}
  /\ UNCHANGED <<processVars, command, dying, orphans, events>>

StrangerEnds(p) ==
  /\ p \in strangers
  /\ strangers' = strangers \ {p}
  /\ UNCHANGED <<processVars, command, dying, orphans, events>>

-----------------------------------------------------------------------------
Command(o) ==
  \/ \E c \in Commands : Begin(o, c) \/ Report(o, c)
  \/ Signal(o) \/ WaitEnds(o) \/ WaitTimesOut(o) \/ Remove(o)
  \/ \E p \in Pids : StartChild(o, p)
  \/ StartFails(o) \/ RecordOpens(o) \/ RecordWrites(o)

Machine(p) == Server(p) \/ Death(p) \/ Reuse(p) \/ StrangerEnds(p)

Next ==
  \/ \E o \in Operators : Command(o)
  \/ \E p \in Pids : Machine(p)

Spec == Init /\ [][Next]_vars

-----------------------------------------------------------------------------
(***************************************************************************)
(* Properties.                                                             *)
(***************************************************************************)

Serving(p) == phase[p] = "waiting" /\ p \in marked
Quiet == \A o \in Operators : Idle(o)
Never(E) == events \cap E = {}

\* Between commands the PID file names the server that runs and has written it, so
\* that the next command finds it; unless a command came while the file was blank,
\* two ran at a time, or a write failed.  Crashes, failed starts, time-outs and files
\* that could not be removed do no harm.
Confusing == {"misread", "overlap", "unwritten"}
ServerIsNamed ==
  Quiet /\ Never(Confusing) =>
    \A p \in Pids : Serving(p) /\ p \notin dying => pidfile = p

\* A start or restart starts its child when the port is free, or is held by a
\* process that has been killed; with the same exceptions.
SuccessorCanBind ==
  Never(Confusing) => \A o \in Operators : At(o, "exec") => bound \subseteq dying

\* There are never two servers that would go on by themselves, of which the file could
\* name only one; with the same exceptions.  A server that is past PidfileClear does
\* not count.
Up(p) == phase[p] \notin {"none", "exiting"} /\ p \notin dying
OneServer == \A p, q \in Pids : Up(p) /\ Up(q) => p = q
OneAtATime == Never(Confusing) => OneServer

\* A command acts on a process that is not a server only if the last server of that
\* PID, and not just any, may have left it in the file: it could not write the file or
\* not remove it, died or did not start while the file named it, was gone before it was
\* recorded, or the command that saw it end could not remove the file.  However many
\* commands run at a time.
StrangersAreSafe ==
  \A o \in Operators : Target(o) \in strangers => Target(o) \in orphans

\* What the README says (README.MD:98, "The daemon tracks the running instance via a
\* PID file"), given that file_rewrite, by its comment (file.go:11), "overwrites a file
\* atomically": ServerIsNamed with no exception for a file that was read while blank.
InstanceIsTracked ==
  Quiet /\ Never({"overlap", "unwritten"}) =>
    \A p \in Pids : Serving(p) /\ p \notin dying => pidfile = p
=============================================================================
