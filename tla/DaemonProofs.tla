---------------------------- MODULE DaemonProofs ----------------------------
(***************************************************************************)
(* Proofs about Daemon, for any number of operators and PIDs.              *)
(***************************************************************************)
EXTENDS Daemon, TLAPS

(***************************************************************************)
(* Invariants.                                                             *)
(***************************************************************************)
\* What holds the port runs, and has not got as far as to clear the file.
BoundRuns == \A p \in bound : phase[p] \notin {"none", "clearing", "exiting"}

\* What has written the file has done so before it waits, and removes it before it exits.
MarkedLast == \A p \in marked : phase[p] \in {"waiting", "clearing"}

\* But for the orphans: a server that waits has the path to remove; the file names a
\* process that has yet to remove it, or one that a command is about to clean up after;
\* and no command has a stranger for a target.
CleanFile(p) ==
  \/ phase[p] \notin {"none", "exiting"}
  \/ phase[p] = "none" /\ CleanedUp(p)

Traced ==
  /\ \A p \in Pids \ orphans : phase[p] \in {"waiting", "clearing"} => p \in marked
  /\ \A p \in Pids \ orphans : pidfile = p => CleanFile(p)
  /\ StrangersAreSafe

Named(p) == pidfile = p \/ (pidfile = Blank /\ phase[p] = "marking")

\* As long as nobody is confused (Confusing): one command at a time, one server at a time,
\* and the file names the server, except while that is for a command to see to.
OneCommand == \A o, q \in Operators : o # q => Idle(o) \/ Idle(q)
WritesAtLast == \A p \in Pids : Up(p) /\ phase[p] = "marking" => p \in writing
FollowedBy(o, p) ==
  /\ At(o, "signal") \/ At(o, "wait") => p = Target(o) /\ Named(p)
  /\ ~At(o, "remove") /\ ~At(o, "exec")
  /\ At(o, "record") => p = Target(o)
  /\ At(o, "write") => p = Target(o) /\ o \in writing
Followed ==
  \A p \in Pids : Up(p) =>
    /\ Quiet => Named(p)
    /\ \A o \in Operators : FollowedBy(o, p)

Tracked == OneCommand /\ OneServer /\ WritesAtLast /\ Followed

TrackedInv == Never(Confusing) => Tracked

IInv == TypeOK /\ BoundRuns /\ MarkedLast /\ Traced /\ TrackedInv
-----------------------------------------------------------------------------
(***************************************************************************)
(* Types.                                                                  *)
(***************************************************************************)
LEMMA ServerCases ==
  ASSUME NEW p \in Pids, Server(p)
  PROVE  \/ Binds(p) \/ Unbinds(p) \/ Marks(p) \/ Marked(p) \/ Waited(p) \/ Clears(p)
         \/ Exits(p) \/ Fails(p)
BY DEF Server, Proceeds

LEMMA StepCases ==
  ASSUME Next
  PROVE  \/ \E o \in Operators :
              \/ \E c \in Commands : Begin(o, c) \/ Report(o, c)
              \/ Signal(o) \/ WaitEnds(o) \/ WaitTimesOut(o) \/ Remove(o)
              \/ \E p \in Pids : StartChild(o, p)
              \/ StartFails(o) \/ RecordOpens(o) \/ RecordWrites(o)
         \/ \E p \in Pids : Server(p) \/ Death(p) \/ Reuse(p) \/ StrangerEnds(p)
BY DEF Next, Command, Machine

\* What a command in progress is: it has a target, but for one about to start a server.
LEMMA CommandType ==
  ASSUME TypeOK, NEW o \in Operators
  PROVE  /\ ~Idle(o) => Is(o, "start") \/ Is(o, "stop") \/ Is(o, "kill") \/ Is(o, "restart")
                           \/ Is(o, "status")
         /\ Idle(o) => At(o, "idle") /\ Target(o) = None
         /\ At(o, "idle") => Idle(o)
         /\ At(o, "exec") => Target(o) = None /\ (Is(o, "start") \/ Is(o, "restart"))
         /\ At(o, "signal") \/ At(o, "wait") \/ At(o, "remove") \/ At(o, "record")
              \/ At(o, "write") => Target(o) \in Pids
         /\ command[o].step \in Steps \cup {"exec", "idle"}
         /\ Target(o) \in Pids \cup {None}
BY DEF TypeOK, At, Is, Idle, Target, NoCommand, Commands, Steps

\* A command that reads a PID of nothing does not get to signal it.
LEMMA BeginCases ==
  ASSUME NEW o \in Operators, NEW c \in Commands, Begin(o, c)
  PROVE  \/ /\ command' = [command EXCEPT ![o] =
                             [name |-> c, step |-> "signal", target |-> pidfile]]
            /\ pidfile \in Pids /\ pidAlive(pidfile)
         \/ /\ c \in {"start", "restart"}
            /\ command' = [command EXCEPT ![o] =
                             [name |-> c, step |-> "exec", target |-> None]]
            /\ ~pidAlive(pidfile)
            /\ pidfile = Blank => "misread" \in events'
<1>1. pidAlive(pidRead) <=> pidAlive(pidfile)
  BY ProcessAssumption DEF pidAlive, pidRead
<1>2. pidAlive(pidfile) => pidfile \in Pids /\ pidRead = pidfile
  BY DEF pidAlive, pidRead
<1>3. c \in {"start", "stop", "kill", "restart", "status"}
  BY DEF Commands
<1>4. CASE FirstStep(c, pidAlive(pidRead)) = "signal"
  <2>1. pidAlive(pidRead)
    BY <1>3, <1>4 DEF FirstStep
  <2> QED
    BY <1>1, <1>2, <1>4, <2>1 DEF Begin
<1>5. CASE FirstStep(c, pidAlive(pidRead)) # "signal"
  <2>1. FirstStep(c, pidAlive(pidRead)) = "exec" /\ c \in {"start", "restart"}
    BY <1>3, <1>5 DEF FirstStep, Begin
  <2>2. ~pidAlive(pidRead)
    BY <1>3, <2>1 DEF FirstStep
  <2>3. pidfile = Blank => "misread" \in events'
    BY <2>1 DEF Begin, Happen, When
  <2> QED
    BY <1>1, <2>1, <2>2, <2>3 DEF Begin
<1> QED
  BY <1>4, <1>5

\* The events, and the command of others, stay.
LEMMA EventsStay ==
  ASSUME [Next]_vars
  PROVE  events \subseteq events'
<1>1. ASSUME NEW o \in Operators, NEW c \in Commands, Begin(o, c) \/ Report(o, c)
      PROVE  events \subseteq events'
  BY <1>1 DEF Begin, Report, Happen, vars
<1>2. ASSUME NEW o \in Operators, Signal(o) \/ WaitEnds(o) \/ WaitTimesOut(o) \/ Remove(o)
      PROVE  events \subseteq events'
  BY <1>2 DEF Signal, WaitEnds, WaitTimesOut, Remove
<1>3. ASSUME NEW o \in Operators, StartFails(o) \/ RecordOpens(o) \/ RecordWrites(o)
      PROVE  events \subseteq events'
  BY <1>3 DEF StartFails, RecordOpens, RecordWrites, Happen
<1>4. ASSUME NEW o \in Operators, NEW p \in Pids, StartChild(o, p)
      PROVE  events \subseteq events'
  BY <1>4 DEF StartChild
<1>5. ASSUME NEW p \in Pids, Server(p) \/ Death(p) \/ Reuse(p) \/ StrangerEnds(p)
      PROVE  events \subseteq events'
  BY <1>5 DEF Server, Death, Reuse, StrangerEnds, Happen
<1>6. CASE UNCHANGED vars
  BY <1>6 DEF vars
<1> QED
  BY <1>1, <1>2, <1>3, <1>4, <1>5, <1>6, StepCases

LEMMA TypeStep ==
  ASSUME TypeOK, BoundRuns, [Next]_vars
  PROVE  TypeOK'
<1> USE DEF TypeOK, ProcessTypeOK
<1>1. ASSUME NEW o \in Operators, NEW c \in Commands, Begin(o, c)
      PROVE  TypeOK'
  <2>1. UNCHANGED <<processVars, dying, strangers, orphans>> /\ events' \subseteq Events
    BY <1>1 DEF Begin, Happen, When, Events
  <2>2. command'[o] \in [name : Commands, step : Steps, target : Pids]
                          \cup [name : {"start", "restart"}, step : {"exec"}, target : {None}]
    BY <1>1, BeginCases DEF Steps
  <2>3. command' = [command EXCEPT ![o] = command'[o]]
    BY <1>1 DEF Begin
  <2> QED
    BY <2>1, <2>2, <2>3 DEF processVars
<1>2. ASSUME NEW o \in Operators, NEW c \in Commands, Report(o, c)
      PROVE  TypeOK'
  BY <1>2 DEF Report, vars, processVars
<1>3. ASSUME NEW o \in Operators, Signal(o)
      PROVE  TypeOK'
  <2>1. Target(o) \in Pids
    BY <1>3, CommandType DEF Signal
  <2>2. command'[o] \in [name : Commands, step : Steps, target : Pids]
    BY <1>3 DEF Signal, At, Goto, NoCommand, Steps
  <2>3. command' = [command EXCEPT ![o] = command'[o]]
    BY <1>3 DEF Signal, Goto
  <2>4. told' \subseteq Pids /\ dying' \subseteq Pids /\ \A p \in dying' : phase[p] # "none"
    BY <1>3, <2>1 DEF Signal, SendKill, SendTerm
  <2> QED
    BY <1>3, <2>2, <2>3, <2>4 DEF Signal
<1>4. ASSUME NEW o \in Operators, WaitEnds(o)
      PROVE  TypeOK'
  <2>1. command'[o] \in [name : Commands, step : Steps, target : Pids]
    BY <1>4 DEF WaitEnds, At, Goto, NoCommand, Steps
  <2>2. command' = [command EXCEPT ![o] = command'[o]]
    BY <1>4 DEF WaitEnds, Goto
  <2> QED
    BY <1>4, <2>1, <2>2 DEF WaitEnds, processVars
<1>5. ASSUME NEW o \in Operators, WaitTimesOut(o)
      PROVE  TypeOK'
  <2>1. Target(o) \in Pids
    BY <1>5, CommandType DEF WaitTimesOut
  <2>2. command'[o] \in [name : Commands, step : Steps, target : Pids] \cup {NoCommand}
    BY <1>5 DEF WaitTimesOut, At, Goto, Finish, NoCommand, Steps
  <2>3. command' = [command EXCEPT ![o] = command'[o]]
    BY <1>5 DEF WaitTimesOut, Goto, Finish
  <2>4. told' \subseteq Pids /\ dying' \subseteq Pids /\ \A p \in dying' : phase[p] # "none"
    BY <1>5, <2>1 DEF WaitTimesOut, SendKill
  <2> QED
    BY <1>5, <2>2, <2>3, <2>4 DEF WaitTimesOut
<1>6. ASSUME NEW o \in Operators, Remove(o)
      PROVE  TypeOK'
  <2>1. command'[o] \in [name : {"start", "restart"}, step : {"exec"}, target : {None}]
                          \cup {NoCommand}
    BY <1>6 DEF Remove, At, Is, Finish, NoCommand
  <2>2. command' = [command EXCEPT ![o] = command'[o]]
    BY <1>6 DEF Remove, Finish
  <2>3. pidfile' \in Pids \cup {None, Blank} /\ writing' \subseteq Pids \cup Operators
    BY <1>6 DEF Remove, TriesToRemove, RemovesFile, NoFile
  <2>4. orphans' \subseteq Pids
    <3>1. Target(o) \in Pids
      BY <1>6, CommandType DEF Remove
    <3> QED
      BY <1>6, <3>1 DEF Remove, Orphaned, When
  <2> QED
    BY <1>6, <2>1, <2>2, <2>3, <2>4 DEF Remove
<1>7. ASSUME NEW o \in Operators, NEW p \in Pids, StartChild(o, p)
      PROVE  TypeOK'
  <2>1. command'[o] \in [name : Commands, step : Steps, target : Pids]
    <3>1. At(o, "exec") /\ command'[o] = [command[o] EXCEPT !.step = "record", !.target = p]
      BY <1>7 DEF StartChild
    <3>2. command[o] \in [name : {"start", "restart"}, step : {"exec"}, target : {None}]
      BY <3>1 DEF At, NoCommand, Steps
    <3> QED
      BY <3>1, <3>2 DEF Steps, Commands
  <2>2. command' = [command EXCEPT ![o] = command'[o]]
    BY <1>7 DEF StartChild
  <2> QED
    BY <1>7, <2>1, <2>2 DEF StartChild, Exec, Enters, Free, Phases
<1>8. ASSUME NEW o \in Operators, StartFails(o)
      PROVE  TypeOK'
  BY <1>8 DEF StartFails, Finish, processVars
<1>9. ASSUME NEW o \in Operators, RecordOpens(o)
      PROVE  TypeOK'
  <2>1. command'[o] \in [name : Commands, step : Steps, target : Pids] \cup {NoCommand}
    BY <1>9 DEF RecordOpens, At, Goto, Finish, NoCommand, Steps
  <2>2. command' = [command EXCEPT ![o] = command'[o]]
    BY <1>9 DEF RecordOpens, Goto, Finish
  <2>3. /\ pidfile' \in Pids \cup {None, Blank} /\ writing' \subseteq Pids \cup Operators
        /\ events' \subseteq Events
    BY <1>9 DEF RecordOpens, OpensFile, NoFile, Happen, Events
  <2> QED
    BY <1>9, <2>1, <2>2, <2>3 DEF RecordOpens
<1>10. ASSUME NEW o \in Operators, RecordWrites(o)
       PROVE  TypeOK'
  <2>1. Target(o) \in Pids
    BY <1>10, CommandType DEF RecordWrites
  <2>2. /\ pidfile' \in Pids \cup {None, Blank} /\ writing' \subseteq Pids \cup Operators
        /\ events' \subseteq Events /\ orphans' \subseteq Pids
    BY <1>10, <2>1 DEF RecordWrites, WritesFile, Happen, Orphaned, When, Events
  <2> QED
    BY <1>10, <2>2 DEF RecordWrites, Finish
<1>11. ASSUME NEW p \in Pids, Server(p)
       PROVE  TypeOK'
  <2>1. phase'[p] \in Phases /\ phase' = [phase EXCEPT ![p] = phase'[p]]
    BY <1>11, ServerCases
       DEF Binds, Unbinds, Marks, Marked, Waited, Clears, Exits, Fails, Gone, Enters, Phases
  <2>2. /\ pidfile' \in Pids \cup {None, Blank}
        /\ bound' \subseteq Pids /\ told' \subseteq Pids /\ marked' \subseteq Pids
        /\ writing' \subseteq Pids \cup Operators
    BY <1>11, ServerCases
       DEF Binds, Unbinds, Marks, Marked, Waited, Clears, Exits, Fails, Gone,
           OpensFile, WritesFile, TriesToRemove, RemovesFile, NoFile
  <2>3. p \notin strangers
    BY <1>11, ServerCases
    DEF BoundRuns, Binds, Unbinds, Marks, Marked, Waited, Clears, Exits, Fails
  <2>4. events' \subseteq Events /\ orphans' \subseteq Pids
        /\ UNCHANGED <<command, dying, strangers>> /\ p \notin dying
    BY <1>11 DEF Server, Happen, Orphaned, When, Events
  <2> QED
    BY <2>1, <2>2, <2>3, <2>4
<1>12. ASSUME NEW p \in Pids, Death(p)
       PROVE  TypeOK'
  <2>1. events' \subseteq Events /\ orphans' \subseteq Pids
    BY <1>12 DEF Death, Happen, Orphaned, When, Events
  <2> QED
    BY <1>12, <2>1 DEF Death, Dies, Gone, Enters, Phases
<1>13. ASSUME NEW p \in Pids, Reuse(p) \/ StrangerEnds(p)
       PROVE  TypeOK'
  BY <1>13 DEF Reuse, StrangerEnds, Free, processVars
<1>14. CASE UNCHANGED vars
  BY <1>14 DEF vars, processVars
<1> QED
  BY <1>1, <1>2, <1>3, <1>4, <1>5, <1>6, <1>7, <1>8, <1>9, <1>10, <1>11, <1>12, <1>13,
     <1>14, StepCases

LEMMA BoundStep ==
  ASSUME TypeOK, BoundRuns, [Next]_vars
  PROVE  BoundRuns'
<1> USE DEF BoundRuns
<1>1. ASSUME UNCHANGED <<phase, bound>>
      PROVE  BoundRuns'
  BY <1>1
<1>2. ASSUME NEW p \in Pids, Server(p)
      PROVE  BoundRuns'
  <2> USE DEF TypeOK, ProcessTypeOK
  <2>1. CASE Binds(p)
    BY <2>1 DEF Binds, Enters
  <2>2. CASE Unbinds(p)
    BY <2>2 DEF Unbinds
  <2>3. CASE Marks(p) \/ Marked(p)
    BY <2>3 DEF Marks, Marked, Enters
  <2>4. CASE Waited(p)
    BY <2>4 DEF Waited, Enters
  <2>5. CASE Clears(p)
    BY <2>5 DEF Clears, Enters
  <2>6. CASE Exits(p) \/ Fails(p)
    BY <2>6 DEF Exits, Fails, Gone, Enters
  <2> QED
    BY <1>2, <2>1, <2>2, <2>3, <2>4, <2>5, <2>6, ServerCases
<1>3. ASSUME NEW p \in Pids, Death(p)
      PROVE  BoundRuns'
  BY <1>3 DEF TypeOK, ProcessTypeOK, Death, Dies, Gone, Enters
<1>4. ASSUME NEW o \in Operators, NEW p \in Pids, StartChild(o, p)
      PROVE  BoundRuns'
  BY <1>4 DEF TypeOK, ProcessTypeOK, StartChild, Exec, Enters
<1> QED
  BY <1>1, <1>2, <1>3, <1>4, StepCases
     DEF Begin, Report, Signal, WaitEnds, WaitTimesOut, Remove, StartFails, RecordOpens,
         RecordWrites, Reuse, StrangerEnds, vars, processVars

LEMMA MarkedStep ==
  ASSUME TypeOK, MarkedLast, [Next]_vars
  PROVE  MarkedLast'
<1> USE DEF MarkedLast, TypeOK, ProcessTypeOK
<1>1. ASSUME UNCHANGED <<phase, marked>>
      PROVE  MarkedLast'
  BY <1>1
<1>2. ASSUME NEW p \in Pids, Server(p)
      PROVE  MarkedLast'
  <2>1. CASE Binds(p) \/ Unbinds(p)
    BY <2>1 DEF Binds, Unbinds, Enters
  <2>2. CASE Marks(p) \/ Marked(p)
    BY <2>2 DEF Marks, Marked, Enters
  <2>3. CASE Waited(p) \/ Clears(p)
    BY <2>3 DEF Waited, Clears, Enters
  <2>4. CASE Exits(p) \/ Fails(p)
    BY <2>4 DEF Exits, Fails, Gone, Enters
  <2> QED
    BY <1>2, <2>1, <2>2, <2>3, <2>4, ServerCases
<1>3. ASSUME NEW p \in Pids, Death(p)
      PROVE  MarkedLast'
  BY <1>3 DEF Death, Dies, Gone, Enters
<1>4. ASSUME NEW o \in Operators, NEW p \in Pids, StartChild(o, p)
      PROVE  MarkedLast'
  BY <1>4 DEF StartChild, Exec, Enters
<1> QED
  BY <1>1, <1>2, <1>3, <1>4, StepCases
     DEF Begin, Report, Signal, WaitEnds, WaitTimesOut, Remove, StartFails, RecordOpens,
         RecordWrites, Reuse, StrangerEnds, vars, processVars

\* A command at another step has another command; and only its own steps change it.
LEMMA OthersWait ==
  ASSUME TypeOK, NEW o \in Operators, NEW r, command' = [command EXCEPT ![o] = r]
  PROVE  /\ command'[o] = r
         /\ \A q \in Operators \ {o} : command'[q] = command[q]
BY DEF TypeOK

-----------------------------------------------------------------------------
(***************************************************************************)
(* Strangers.                                                              *)
(***************************************************************************)
\* A command that does not touch the file, processes or targets changes nothing here,
\* if it is not one that ends its cleaning up for a process that is gone.
LEMMA CleanUpStays ==
  ASSUME TypeOK, NEW o \in Operators, NEW p \in Pids, CleanedUp(p),
         command' = [command EXCEPT ![o] = command'[o]],
         Target(o) = p => ~(At(o, "wait") \/ At(o, "remove"))
           \/ (command'[o].target = p /\ command'[o].step \in {"wait", "remove"})
  PROVE  CleanedUp(p)'
<1>1. PICK q \in Operators : (At(q, "wait") \/ At(q, "remove")) /\ Target(q) = p
  BY DEF CleanedUp
<1>2. CASE q = o
  BY <1>1, <1>2 DEF CleanedUp, At, Target
<1>3. CASE q # o
  <2>1. command'[q] = command[q]
    BY <1>3 DEF TypeOK
  <2> QED
    BY <1>1, <2>1 DEF CleanedUp, At, Target
<1> QED
  BY <1>2, <1>3

LEMMA TracedStep ==
  ASSUME TypeOK, BoundRuns, Traced, [Next]_vars
  PROVE  Traced'
<1> TypeOK' /\ BoundRuns'
  BY TypeStep, BoundStep
<1> USE DEF Traced, StrangersAreSafe
<1>1. ASSUME NEW o \in Operators, NEW c \in Commands, Begin(o, c)
      PROVE  Traced'
  <2>1. UNCHANGED <<processVars, strangers, orphans>> /\ Idle(o)
    BY <1>1 DEF Begin
  <2>2. \A p \in Pids : CleanedUp(p) => CleanedUp(p)'
    <3>1. At(o, "idle") /\ command' = [command EXCEPT ![o] = command'[o]]
      BY <1>1, CommandType DEF Begin
    <3> QED
      BY <3>1, CleanUpStays DEF At
  <2>3. command'[o].target \in strangers => command'[o].target \in orphans
    <3>1. CASE command'[o].target = None
      BY <3>1, ProcessAssumption DEF TypeOK
    <3>2. CASE command'[o].target = pidfile /\ pidfile \in Pids /\ pidAlive(pidfile)
      <4>1. CleanFile(pidfile) \/ pidfile \in orphans
        BY <3>2
      <4>2. CASE phase[pidfile] # "none"
        BY <3>2, <4>2 DEF TypeOK
      <4>3. CASE CleanedUp(pidfile)
        BY <3>2, <4>3 DEF CleanedUp
      <4>4. CASE pidfile \in orphans
        BY <3>2, <4>4
      <4> QED
        BY <4>1, <4>2, <4>3, <4>4 DEF CleanFile
    <3> QED
      BY <1>1, <3>1, <3>2, BeginCases, OthersWait
  <2>4. \A q \in Operators : Target(q)' \in strangers => Target(q)' \in orphans
    BY <1>1, <2>3, OthersWait DEF Begin, Target
  <2> QED
    BY <2>1, <2>2, <2>4 DEF processVars, CleanFile
<1>2. ASSUME NEW o \in Operators, NEW c \in Commands, Report(o, c)
      PROVE  Traced'
  BY <1>2 DEF Report, vars, processVars, CleanFile, CleanedUp, At, Target
<1>3. ASSUME NEW o \in Operators, Signal(o)
      PROVE  Traced'
  <2>1. command' = [command EXCEPT ![o] = command'[o]] /\ command'[o].target = Target(o)
        /\ ~At(o, "wait") /\ ~At(o, "remove")
    BY <1>3 DEF Signal, Goto, At, Target, TypeOK, NoCommand
  <2>2. \A p \in Pids : CleanedUp(p) => CleanedUp(p)'
    BY <2>1, CleanUpStays
  <2>3. \A q \in Operators : Target(q)' = Target(q)
    BY <2>1, OthersWait DEF Target
  <2> QED
    BY <1>3, <2>2, <2>3 DEF Signal, CleanFile
<1>4. ASSUME NEW o \in Operators, WaitEnds(o)
      PROVE  Traced'
  <2>1. command' = [command EXCEPT ![o] = command'[o]] /\ command'[o].target = Target(o)
        /\ command'[o].step = "remove"
    BY <1>4 DEF WaitEnds, Goto, At, Target, TypeOK, NoCommand
  <2>2. \A p \in Pids : CleanedUp(p) => CleanedUp(p)'
    BY <2>1, CleanUpStays
  <2>3. \A q \in Operators : Target(q)' = Target(q)
    BY <2>1, OthersWait DEF Target
  <2> QED
    BY <1>4, <2>2, <2>3 DEF WaitEnds, CleanFile, processVars
<1>5. ASSUME NEW o \in Operators, WaitTimesOut(o)
      PROVE  Traced'
  <2>1. Target(o) \in Pids /\ (phase[Target(o)] # "none" \/ Target(o) \in strangers)
    BY <1>5 DEF WaitTimesOut, pidAlive
  <2>2. command' = [command EXCEPT ![o] = command'[o]]
    BY <1>5 DEF WaitTimesOut, Goto, Finish
  <2>3. \A p \in Pids : p # Target(o) /\ CleanedUp(p) => CleanedUp(p)'
    BY <2>2, CleanUpStays
  <2>4. command'[o].target \in {Target(o), None}
    BY <1>5 DEF WaitTimesOut, Goto, Finish, Target, TypeOK, NoCommand
  <2>5. \A q \in Operators : Target(q)' \in strangers => Target(q)' \in orphans
    BY <2>2, <2>4, OthersWait, ProcessAssumption DEF Target, TypeOK
  <2>6. UNCHANGED <<phase, marked, pidfile, strangers, orphans>>
    BY <1>5 DEF WaitTimesOut
  <2> QED
    BY <2>1, <2>3, <2>5, <2>6 DEF CleanFile
<1>6. ASSUME NEW o \in Operators, Remove(o)
      PROVE  Traced'
  <2>1. /\ pidfile' = Target(o) => Target(o) \in orphans'
        /\ orphans \subseteq orphans'
        /\ pidfile' = pidfile \/ pidfile' \notin Pids
        /\ UNCHANGED <<phase, marked, strangers>>
    BY <1>6, ProcessAssumption
       DEF Remove, TriesToRemove, RemovesFile, NoFile, Orphaned, When
  <2>2. command' = [command EXCEPT ![o] = command'[o]] /\ command'[o].target = None
    BY <1>6 DEF Remove, Finish, TypeOK, NoCommand
  <2>3. \A q \in Operators : Target(q)' \in strangers => Target(q)' \in orphans
    BY <2>2, OthersWait, ProcessAssumption DEF Target, TypeOK
  <2>4. \A p \in Pids : p # Target(o) /\ CleanedUp(p) => CleanedUp(p)'
    BY <2>2, CleanUpStays
  <2>5. ASSUME NEW p \in Pids \ orphans', pidfile' = p
        PROVE  CleanFile(p)'
    BY <2>1, <2>4, <2>5 DEF CleanFile
  <2> QED
    BY <2>1, <2>3, <2>5
<1>7. ASSUME NEW o \in Operators, NEW p \in Pids, StartChild(o, p)
      PROVE  Traced'
  <2>0. At(o, "exec") /\ command'[o] = [command[o] EXCEPT !.step = "record", !.target = p]
    BY <1>7 DEF StartChild, TypeOK
  <2>1. command' = [command EXCEPT ![o] = command'[o]] /\ command'[o].target = p
        /\ At(o, "exec") /\ Free(p)
    <3>1. command[o] \in [name : {"start", "restart"}, step : {"exec"}, target : {None}]
      BY <2>0 DEF At, NoCommand, Steps, TypeOK
    <3> QED
      BY <1>7, <2>0, <3>1 DEF StartChild
  <2>2. \A q \in Pids : CleanedUp(q) => CleanedUp(q)'
    BY <2>1, CleanUpStays DEF At
  <2>3. /\ phase' = [phase EXCEPT ![p] = "starting"] /\ orphans' = orphans \ {p}
        /\ UNCHANGED <<marked, pidfile, strangers>>
    BY <1>7 DEF StartChild, Exec, Enters
  <2>4. \A q \in Operators : Target(q)' \in strangers => Target(q)' \in orphans'
    BY <2>1, <2>3, OthersWait DEF Target, Free
  <2> QED
    BY <2>2, <2>3, <2>4 DEF CleanFile, TypeOK, ProcessTypeOK
<1>8. ASSUME NEW o \in Operators, StartFails(o)
      PROVE  Traced'
  <2>1. command' = [command EXCEPT ![o] = command'[o]] /\ command'[o].target = None
        /\ At(o, "exec")
    BY <1>8 DEF StartFails, Finish, TypeOK, NoCommand
  <2>2. \A p \in Pids : CleanedUp(p) => CleanedUp(p)'
    BY <2>1, CleanUpStays DEF At
  <2>3. \A q \in Operators : Target(q)' \in strangers => Target(q)' \in orphans
    BY <2>1, OthersWait, ProcessAssumption DEF Target, TypeOK
  <2> QED
    BY <1>8, <2>2, <2>3 DEF StartFails, processVars, CleanFile
<1>9. ASSUME NEW o \in Operators, RecordOpens(o)
      PROVE  Traced'
  <2>1. /\ pidfile' = pidfile \/ pidfile' \notin Pids
        /\ UNCHANGED <<phase, marked, strangers, orphans>>
    BY <1>9, ProcessAssumption DEF RecordOpens, OpensFile, NoFile
  <2>2. command' = [command EXCEPT ![o] = command'[o]] /\ At(o, "record")
        /\ command'[o].target \in {Target(o), None}
    BY <1>9 DEF RecordOpens, Goto, Finish, Target, TypeOK, NoCommand
  <2>3. \A p \in Pids : CleanedUp(p) => CleanedUp(p)'
    BY <2>2, CleanUpStays DEF At
  <2>4. \A q \in Operators : Target(q)' \in strangers => Target(q)' \in orphans
    BY <2>2, OthersWait, ProcessAssumption DEF Target, TypeOK
  <2> QED
    BY <2>1, <2>3, <2>4 DEF CleanFile
<1>10. ASSUME NEW o \in Operators, RecordWrites(o)
       PROVE  Traced'
  <2>1. /\ pidfile' \in {pidfile, Target(o)} /\ orphans \subseteq orphans'
        /\ \/ pidfile' = pidfile \/ phase[Target(o)] \notin {"exiting", "none"}
           \/ Target(o) \in orphans'
        /\ UNCHANGED <<phase, marked, strangers>>
    BY <1>10 DEF RecordWrites, WritesFile, Orphaned, When
  <2>2. command' = [command EXCEPT ![o] = command'[o]] /\ command'[o].target = None
        /\ At(o, "write")
    BY <1>10 DEF RecordWrites, Finish, TypeOK, NoCommand
  <2>3. \A p \in Pids : CleanedUp(p) => CleanedUp(p)'
    BY <2>2, CleanUpStays DEF At
  <2>4. \A q \in Operators : Target(q)' \in strangers => Target(q)' \in orphans
    BY <2>2, OthersWait, ProcessAssumption DEF Target, TypeOK
  <2>5. ASSUME NEW p \in Pids \ orphans', pidfile' = p
        PROVE  CleanFile(p)'
    BY <2>1, <2>3, <2>5 DEF CleanFile
  <2> QED
    BY <2>1, <2>4, <2>5
<1>11. ASSUME NEW p \in Pids, Server(p)
       PROVE  Traced'
  <2>1. UNCHANGED <<command, strangers>> /\ orphans \subseteq orphans'
        /\ (Unwritten(p) \/ Unstarted(p) \/ Unremoved(p) => p \in orphans')
    BY <1>11 DEF Server, Orphaned, When
  <2>2. \A q \in Pids : CleanedUp(q)' = CleanedUp(q)
    BY <2>1 DEF CleanedUp, At, Target
  <2>3. \A q \in Pids \ {p} : phase'[q] = phase[q] /\ (q \in marked' <=> q \in marked)
    BY <1>11, ServerCases
       DEF TypeOK, ProcessTypeOK, Binds, Unbinds, Marks, Marked, Waited, Clears, Exits,
           Fails, Gone, Enters
  <2>4. p \notin orphans' /\ phase'[p] \in {"waiting", "clearing"} => p \in marked'
    <3>1. CASE phase[p] \in {"listening", "marking"}
      <4>1. phase'[p] # "clearing"
        BY <1>11, <3>1, ServerCases
           DEF TypeOK, ProcessTypeOK, Binds, Unbinds, Marks, Marked, Waited, Clears, Exits,
               Fails, Gone, Enters
      <4>2. p \notin orphans' /\ phase'[p] = "waiting" => p \in marked'
        BY <2>1, <3>1 DEF Unwritten
      <4> QED
        BY <4>1, <4>2
    <3>2. CASE phase[p] \notin {"listening", "marking"}
      BY <1>11, <2>1, <3>2, ServerCases
         DEF TypeOK, ProcessTypeOK, Binds, Unbinds, Marks, Marked, Waited, Clears, Exits,
             Fails, Gone, Enters
    <3> QED
      BY <3>1, <3>2
  <2>5. ASSUME NEW q \in Pids \ orphans', pidfile' = q
        PROVE  CleanFile(q)'
    <3>0. q \notin orphans
      BY <2>1
    <3>1. CASE Binds(p)
      BY <2>2, <2>5, <3>0, <3>1 DEF Binds, Enters, CleanFile, TypeOK, ProcessTypeOK
    <3>2. CASE Unbinds(p)
      BY <2>2, <2>5, <3>0, <3>2 DEF Unbinds, CleanFile
    <3>3. CASE Marks(p)
      BY <2>2, <2>5, <3>0, <3>3, ProcessAssumption
         DEF Marks, OpensFile, NoFile, Enters, CleanFile, TypeOK, ProcessTypeOK
    <3>4. CASE Marked(p)
      BY <2>2, <2>5, <3>0, <3>4
         DEF Marked, WritesFile, Enters, CleanFile, TypeOK, ProcessTypeOK
    <3>5. CASE Waited(p)
      BY <2>2, <2>5, <3>0, <3>5 DEF Waited, Enters, CleanFile, TypeOK, ProcessTypeOK
    <3>6. CASE Clears(p)
      <4>1. /\ phase[p] = "clearing" /\ phase' = [phase EXCEPT ![p] = "exiting"]
            /\ pidfile' = pidfile
        BY <2>5, <3>6, ProcessAssumption
           DEF Clears, TriesToRemove, RemovesFile, NoFile, Enters
      <4>2. p # q
        BY <2>1, <2>5, <3>0, <4>1 DEF Unremoved, ClearsFile
      <4> QED
        BY <2>2, <2>5, <3>0, <4>1, <4>2 DEF CleanFile, TypeOK, ProcessTypeOK
    <3>7. CASE Exits(p)
      BY <2>2, <2>5, <3>0, <3>7 DEF Exits, Gone, Enters, CleanFile, TypeOK, ProcessTypeOK
    <3>8. CASE Fails(p)
      <4>1. /\ phase[p] = "starting" /\ phase' = [phase EXCEPT ![p] = "none"]
            /\ pidfile' = pidfile
        BY <3>8 DEF Fails, Gone, Enters
      <4>2. p # q
        BY <2>1, <2>5, <4>1 DEF Unstarted, TypeOK, ProcessTypeOK
      <4> QED
        BY <2>2, <2>5, <3>0, <4>1, <4>2 DEF CleanFile, TypeOK, ProcessTypeOK
    <3> QED
      BY <1>11, <3>1, <3>2, <3>3, <3>4, <3>5, <3>6, <3>7, <3>8, ServerCases
  <2> QED
    BY <2>1, <2>3, <2>4, <2>5 DEF Target
<1>12. ASSUME NEW p \in Pids, Death(p)
       PROVE  Traced'
  <2>1. /\ UNCHANGED <<command, strangers, pidfile>> /\ orphans \subseteq orphans'
        /\ phase' = [phase EXCEPT ![p] = "none"] /\ marked' = marked \ {p}
    BY <1>12 DEF Death, Dies, Gone, Enters, Orphaned
  <2>2. \A q \in Pids : CleanedUp(q)' = CleanedUp(q)
    BY <2>1 DEF CleanedUp, At, Target
  <2>3. pidfile = p => CleanedUp(p) \/ p \in orphans'
    BY <1>12 DEF Death, Orphaned, When
  <2> QED
    BY <2>1, <2>2, <2>3 DEF CleanFile, Target, TypeOK, ProcessTypeOK
<1>13. ASSUME NEW p \in Pids, Reuse(p) \/ StrangerEnds(p)
       PROVE  Traced'
  BY <1>13 DEF Reuse, StrangerEnds, Free, processVars, CleanFile, CleanedUp, At, Target
<1>14. CASE UNCHANGED vars
  BY <1>14 DEF vars, processVars, CleanFile, CleanedUp, At, Target
<1> QED
  BY <1>1, <1>2, <1>3, <1>4, <1>5, <1>6, <1>7, <1>8, <1>9, <1>10, <1>11, <1>12, <1>13,
     <1>14, StepCases

-----------------------------------------------------------------------------
(***************************************************************************)
(* The server that goes on.                                                *)
(***************************************************************************)
\* While one command is at work, or begins, what it does next is all there is to know.
LEMMA OneActs ==
  ASSUME TypeOK, NEW o \in Operators, \A q \in Operators : q # o => Idle(q),
         command' = [command EXCEPT ![o] = command'[o]],
         (OneServer /\ WritesAtLast)',
         \A p \in Pids : Up(p)' => (Idle(o)' => Named(p)') /\ FollowedBy(o, p)'
  PROVE  Tracked'
<1>1. \A q \in Operators : q # o => Idle(q)' /\ At(q, "idle")'
  BY OthersWait DEF Idle, At, NoCommand
<1>2. OneCommand'
  BY <1>1 DEF OneCommand
<1>3. \A p \in Pids, q \in Operators : q # o => FollowedBy(q, p)'
  BY <1>1 DEF FollowedBy, At
<1>4. Quiet' => Idle(o)'
  BY DEF Quiet
<1> QED
  BY <1>2, <1>3, <1>4 DEF Tracked, Followed

LEMMA TrackedStep ==
  ASSUME TypeOK, BoundRuns, MarkedLast, Tracked, Never(Confusing)', [Next]_vars
  PROVE  Tracked'
<1> TypeOK'
  BY TypeStep
<1> DEFINE Alone(o) == \A q \in Operators : q # o => Idle(q)
<1>a. ASSUME NEW o \in Operators, ~At(o, "idle")
      PROVE  Alone(o) /\ ~Quiet
  BY <1>a, CommandType DEF Tracked, OneCommand, Quiet
<1>b. ASSUME NEW o \in Operators, Alone(o), command' = [command EXCEPT ![o] = command'[o]],
             (OneServer /\ WritesAtLast)',
             \A p \in Pids : Up(p)' => (Idle(o)' => Named(p)') /\ FollowedBy(o, p)'
      PROVE  Tracked'
  BY <1>b, OneActs
<1>c. OneServer /\ WritesAtLast /\ Followed
  BY DEF Tracked
<1>d. ASSUME UNCHANGED <<phase, writing>>, dying \subseteq dying'
      PROVE  /\ \A p \in Pids : Up(p)' => Up(p)
             /\ (OneServer /\ WritesAtLast)'
  BY <1>c, <1>d DEF Up, OneServer, WritesAtLast
<1>e. ASSUME UNCHANGED command, (OneServer /\ WritesAtLast)',
             \A p \in Pids : Up(p)' => /\ Up(p)
                                       /\ Named(p) => Named(p)'
                                       /\ \A o \in Operators : o \in writing => o \in writing'
      PROVE  Tracked'
  <2>1. OneCommand' /\ Quiet' = Quiet
    BY <1>e DEF Tracked, OneCommand, Quiet, Idle
  <2>2. \A p \in Pids, o \in Operators : FollowedBy(o, p) /\ Up(p)' => FollowedBy(o, p)'
    BY <1>e DEF FollowedBy, At, Target
  <2> QED
    BY <1>c, <1>e, <2>1, <2>2 DEF Tracked, Followed
<1>1. ASSUME NEW o \in Operators, NEW c \in Commands, Begin(o, c)
      PROVE  Tracked'
  <2>1. Alone(o) /\ Quiet
    BY <1>1 DEF Begin, Happen, When, Never, Confusing, Quiet
  <2>2. UNCHANGED <<processVars, dying>>
    BY <1>1 DEF Begin
  <2>3. \A p \in Pids : Up(p)' => Up(p) /\ Named(p) /\ Named(p)'
    BY <1>c, <2>1, <2>2 DEF processVars, Up, Named, Followed
  <2>4. CASE command'[o] = [name |-> c, step |-> "signal", target |-> pidfile]
             /\ pidfile \in Pids
    <3>1. \A p \in Pids : Up(p)' => p = pidfile
      BY <2>3, <2>4, ProcessAssumption DEF Named
    <3>2. \A p \in Pids : Up(p)' => FollowedBy(o, p)' /\ Named(p)'
      BY <2>3, <2>4, <3>1 DEF FollowedBy, At, Target
    <3> QED
      BY <1>1, <1>b, <1>d, <2>1, <2>2, <3>2 DEF Begin, processVars
  <2>5. CASE command'[o] = [name |-> c, step |-> "exec", target |-> None]
             /\ ~pidAlive(pidfile) /\ pidfile # Blank
    <3>1. \A p \in Pids : ~Up(p)'
      BY <2>3, <2>5 DEF Named, pidAlive, Up
    <3> QED
      BY <1>1, <1>b, <1>d, <2>1, <2>2, <3>1 DEF Begin, processVars
  <2> QED
    BY <1>1, <2>4, <2>5, BeginCases, OthersWait DEF Never, Confusing
<1>2. ASSUME NEW o \in Operators, NEW c \in Commands, Report(o, c)
      PROVE  Tracked'
  BY <1>2, <1>d, <1>e DEF Report, vars, processVars, Named
<1>3. ASSUME NEW o \in Operators, Signal(o)
      PROVE  Tracked'
  <2>1. command' = [command EXCEPT ![o] = command'[o]] /\ command'[o].target = Target(o)
        /\ command'[o].step = "wait"
    BY <1>3 DEF Signal, Goto, At, Target, TypeOK, NoCommand
  <2>2. At(o, "signal") /\ UNCHANGED <<phase, pidfile, writing>> /\ dying \subseteq dying'
    BY <1>3 DEF Signal, SendKill, SendTerm
  <2>3. \A p \in Pids : Up(p)' => FollowedBy(o, p) /\ (Named(p) => Named(p)')
    BY <1>c, <1>d, <2>2 DEF Followed, Named
  <2>4. \A p \in Pids : Up(p)' => FollowedBy(o, p)' /\ ~Idle(o)'
    BY <2>1, <2>2, <2>3 DEF FollowedBy, At, Target, Idle, NoCommand
  <2> QED
    BY <1>a, <1>b, <1>d, <2>1, <2>2, <2>4 DEF At
<1>4. ASSUME NEW o \in Operators, WaitEnds(o)
      PROVE  Tracked'
  <2>1. command' = [command EXCEPT ![o] = command'[o]] /\ At(o, "wait")
    BY <1>4 DEF WaitEnds, Goto
  <2>2. \A p \in Pids : ~Up(p)
    BY <1>4, <1>c DEF WaitEnds, SeesItGone, Followed, FollowedBy, Up, pidAlive
  <2> QED
    BY <1>4, <1>a, <1>b, <1>d, <2>1, <2>2 DEF WaitEnds, processVars, At
<1>5. ASSUME NEW o \in Operators, WaitTimesOut(o)
      PROVE  Tracked'
  <2>1. command' = [command EXCEPT ![o] = command'[o]] /\ At(o, "wait")
        /\ UNCHANGED <<phase, pidfile, writing>>
    BY <1>5 DEF WaitTimesOut, Goto, Finish
  <2>2. dying \subseteq dying'
    BY <1>5 DEF WaitTimesOut, SendKill
  <2>3. CASE SendKill(Target(o))
    <3>1. \A p \in Pids : ~Up(p)'
      <4>1. \A p \in Pids : Up(p)' => p = Target(o)
        BY <1>c, <1>d, <2>1, <2>2 DEF Followed, FollowedBy
      <4> QED
        BY <1>5, <2>1, <2>3, <4>1 DEF SendKill, Up
    <3> QED
      BY <1>a, <1>b, <1>d, <2>1, <2>2, <3>1 DEF At
  <2>4. CASE Finish(o) /\ UNCHANGED dying
    <3>1. At(o, "idle")'
      BY <2>4 DEF Finish, At, TypeOK, NoCommand
    <3>2. \A p \in Pids : Up(p)' => Named(p)'
      BY <1>c, <1>d, <2>1, <2>2 DEF Followed, FollowedBy, Named
    <3> QED
      BY <1>a, <1>b, <1>d, <2>1, <2>2, <3>1, <3>2 DEF At, FollowedBy
  <2> QED
    BY <1>5, <2>3, <2>4 DEF WaitTimesOut
<1>6. ASSUME NEW o \in Operators, Remove(o)
      PROVE  Tracked'
  <2>1. command' = [command EXCEPT ![o] = command'[o]] /\ At(o, "remove")
    BY <1>6 DEF Remove, Finish
  <2>2. \A p \in Pids : ~Up(p)'
    BY <1>6, <1>c DEF Remove, Followed, FollowedBy, Up
  <2> QED
    BY <1>a, <1>b, <2>1, <2>2 DEF At, OneServer, WritesAtLast
<1>7. ASSUME NEW o \in Operators, NEW p \in Pids, StartChild(o, p)
      PROVE  Tracked'
  <2>1. At(o, "exec") /\ command'[o] = [command[o] EXCEPT !.step = "record", !.target = p]
    BY <1>7 DEF StartChild, TypeOK
  <2>2. command'[o].step = "record" /\ command'[o].target = p
        /\ command' = [command EXCEPT ![o] = command'[o]]
    <3>1. command[o] \in [name : {"start", "restart"}, step : {"exec"}, target : {None}]
      BY <2>1 DEF At, NoCommand, Steps, TypeOK
    <3> QED
      BY <1>7, <2>1, <3>1 DEF StartChild
  <2>3. \A q \in Pids : ~Up(q)
    BY <1>c, <2>1 DEF Followed, FollowedBy
  <2>4. phase' = [phase EXCEPT ![p] = "starting"] /\ UNCHANGED dying
    BY <1>7 DEF StartChild, Exec, Enters
  <2>5. \A q \in Pids : Up(q)' => q = p /\ phase'[q] # "marking"
    BY <2>3, <2>4 DEF Up, TypeOK, ProcessTypeOK
  <2>6. \A q \in Pids : Up(q)' => FollowedBy(o, q)' /\ ~Idle(o)'
    BY <2>2, <2>5 DEF FollowedBy, At, Target, Idle, NoCommand
  <2> QED
    BY <1>a, <1>b, <2>1, <2>2, <2>5, <2>6 DEF At, OneServer, WritesAtLast
<1>8. ASSUME NEW o \in Operators, StartFails(o)
      PROVE  Tracked'
  <2>1. command' = [command EXCEPT ![o] = command'[o]] /\ At(o, "exec")
    BY <1>8 DEF StartFails, Finish
  <2>2. \A p \in Pids : ~Up(p)'
    BY <1>8, <1>c DEF StartFails, Followed, FollowedBy, Up, processVars
  <2> QED
    BY <1>a, <1>b, <2>1, <2>2 DEF At, OneServer, WritesAtLast
<1>9. ASSUME NEW o \in Operators, RecordOpens(o)
      PROVE  Tracked'
  <2>1. At(o, "record") /\ Goto(o, "write") /\ UNCHANGED <<phase, dying>>
        /\ writing' = writing \cup {o}
    BY <1>9 DEF RecordOpens, OpensFile, Happen, Never, Confusing
  <2>2. command' = [command EXCEPT ![o] = command'[o]] /\ command'[o].target = Target(o)
        /\ command'[o].step = "write"
    BY <2>1 DEF Goto, At, Target, TypeOK, NoCommand
  <2>3. \A p \in Pids : Up(p)' => Up(p) /\ p = Target(o)
    BY <1>c, <2>1 DEF Followed, FollowedBy, Up
  <2>4. \A p \in Pids : Up(p)' => FollowedBy(o, p)' /\ ~Idle(o)'
    BY <2>1, <2>2, <2>3 DEF FollowedBy, At, Target, Idle, NoCommand
  <2>5. (OneServer /\ WritesAtLast)'
    BY <1>c, <2>1, <2>3 DEF OneServer, WritesAtLast
  <2> QED
    BY <1>a, <1>b, <2>1, <2>2, <2>4, <2>5 DEF At
<1>10. ASSUME NEW o \in Operators, RecordWrites(o)
       PROVE  Tracked'
  <2>1. At(o, "write") /\ WritesFile(o, Target(o)) /\ UNCHANGED <<phase, dying>>
    BY <1>10 DEF RecordWrites, Happen, Never, Confusing
  <2>2. command' = [command EXCEPT ![o] = command'[o]] /\ command'[o].step = "idle"
    BY <1>10 DEF RecordWrites, Finish, TypeOK, NoCommand
  <2>3. \A p \in Pids : Up(p)' => Up(p) /\ p = Target(o) /\ pidfile' = p
    BY <1>c, <2>1 DEF Followed, FollowedBy, Up, WritesFile
  <2>4. \A p \in Pids : Up(p)' => FollowedBy(o, p)' /\ Named(p)'
    BY <2>2, <2>3 DEF FollowedBy, At, Named
  <2>5. (OneServer /\ WritesAtLast)'
    <3>1. \A p \in Pids : p # o
      BY DaemonAssumption
    <3> QED
      BY <1>c, <2>1, <2>3, <3>1 DEF OneServer, WritesAtLast, WritesFile
  <2> QED
    BY <1>a, <1>b, <2>1, <2>2, <2>4, <2>5 DEF At
<1>11. ASSUME NEW p \in Pids, Server(p)
       PROVE  Tracked'
  <2>0. UNCHANGED <<command, dying>> /\ p \notin dying /\ \A o \in Operators : o # p
    BY <1>11, DaemonAssumption DEF Server
  <2> USE DEF TypeOK, ProcessTypeOK
  <2>a. ASSUME Up(p), phase' = [phase EXCEPT ![p] = phase'[p]],
               phase'[p] = "marking" => p \in writing',
               Named(p) => Named(p)',
               \A o \in Operators : o \in writing => o \in writing'
        PROVE  Tracked'
    <3>1. \A q \in Pids : Up(q)' => q = p
      BY <1>c, <2>0, <2>a DEF OneServer, Up
    <3>2. (OneServer /\ WritesAtLast)'
      BY <2>a, <3>1 DEF OneServer, WritesAtLast
    <3> QED
      BY <1>e, <2>0, <2>a, <3>1, <3>2
  <2>b. ASSUME phase' = [phase EXCEPT ![p] = phase'[p]], ~Up(p)',
               pidfile' = pidfile, writing' = writing \ {p}
        PROVE  Tracked'
    <3>1. \A q \in Pids : Up(q)' => q # p /\ Up(q) /\ phase'[q] = phase[q]
      BY <2>0, <2>b DEF Up
    <3>2. (OneServer /\ WritesAtLast)'
      BY <1>c, <2>b, <3>1 DEF OneServer, WritesAtLast
    <3>3. \A q \in Pids : Up(q)' /\ Named(q) => Named(q)'
      BY <2>b, <3>1 DEF Named
    <3> QED
      BY <1>e, <2>0, <2>b, <3>1, <3>2, <3>3
  <2>1. CASE Binds(p)
    <3>1. phase[p] \notin {"none", "exiting", "marking"} /\ phase'[p] = "listening"
      BY <2>1 DEF Binds, Enters
    <3> QED
      BY <2>1, <2>0, <2>a, <3>1 DEF Binds, Enters, Up, Named
  <2>2. CASE Unbinds(p)
    BY <2>2, <2>0, <1>d, <1>e DEF Unbinds, Named
  <2>3. CASE Marks(p)
    <3>1. Up(p) /\ phase[p] = "listening"
      BY <2>0, <2>3 DEF Marks, Up
    <3>2. CASE OpensFile(p) /\ Enters(p, "marking")
      BY <2>a, <3>1, <3>2 DEF OpensFile, Enters, Named
    <3>3. CASE NoFile /\ Enters(p, "waiting")
      BY <2>a, <3>1, <3>3 DEF NoFile, Enters, Named
    <3> QED
      BY <2>3, <3>2, <3>3 DEF Marks
  <2>4. CASE Marked(p)
    <3>1. Up(p) /\ p \in writing /\ p \notin marked
      BY <1>c, <2>0, <2>4 DEF Marked, Up, WritesAtLast, MarkedLast
    <3>2. phase'[p] = "waiting" /\ phase' = [phase EXCEPT ![p] = phase'[p]]
      BY <2>4 DEF Marked, Enters
    <3>3. WritesFile(p, p)
      BY <1>11, <2>4, <3>1, <3>2
         DEF Marked, Server, Unwritten, Happen, When, Never, Confusing
    <3> QED
      BY <2>0, <2>a, <3>1, <3>2, <3>3 DEF WritesFile, Named
  <2>5. CASE Waited(p)
    BY <2>5, <2>0, <2>a DEF Waited, Enters, Up, Named
  <2>6. CASE Clears(p)
    <3>1. Up(p) /\ phase' = [phase EXCEPT ![p] = "exiting"]
      BY <2>0, <2>6 DEF Clears, Enters, Up
    <3>2. \A q \in Pids : ~Up(q)'
      BY <1>c, <2>0, <3>1 DEF OneServer, Up
    <3> QED
      BY <1>e, <2>0, <3>2 DEF OneServer, WritesAtLast
  <2>7. CASE Exits(p) \/ Fails(p)
    BY <2>7, <2>0, <2>b DEF Exits, Fails, Gone, Enters, Up
  <2> QED
    BY <1>11, <2>1, <2>2, <2>3, <2>4, <2>5, <2>6, <2>7, ServerCases
<1>12. ASSUME NEW p \in Pids, Death(p)
       PROVE  Tracked'
  <2>1. /\ phase' = [phase EXCEPT ![p] = "none"] /\ dying' = dying \ {p}
        /\ writing' = writing \ {p} /\ UNCHANGED <<command, pidfile>>
    BY <1>12 DEF Death, Dies, Gone, Enters
  <2>2. \A q \in Pids : Up(q)' => q # p /\ Up(q) /\ phase'[q] = phase[q]
    BY <2>1 DEF Up, TypeOK, ProcessTypeOK
  <2>3. (OneServer /\ WritesAtLast)'
    BY <1>c, <2>1, <2>2 DEF OneServer, WritesAtLast
  <2>4. \A q \in Pids : Up(q)' /\ Named(q) => Named(q)'
    BY <2>1, <2>2 DEF Named
  <2>5. \A o \in Operators : o # p
    BY DaemonAssumption
  <2> QED
    BY <1>e, <2>1, <2>2, <2>3, <2>4, <2>5
<1>13. ASSUME NEW p \in Pids, Reuse(p) \/ StrangerEnds(p)
       PROVE  Tracked'
  BY <1>13, <1>d, <1>e DEF Reuse, StrangerEnds, processVars, Named
<1>14. CASE UNCHANGED vars
  BY <1>14, <1>d, <1>e DEF vars, processVars, Named
<1> QED
  BY <1>1, <1>2, <1>3, <1>4, <1>5, <1>6, <1>7, <1>8, <1>9, <1>10, <1>11, <1>12, <1>13,
     <1>14, StepCases

-----------------------------------------------------------------------------
(***************************************************************************)
(* Theorems.                                                               *)
(***************************************************************************)
\* The inductive invariant: what daemon_unix.go and the servers' PidfileSet and
\* PidfileClear keep true of processes, targets and the file between any two steps.
THEOREM Invariance == Spec => []IInv
<1>1. Init => IInv
  <2> SUFFICES ASSUME Init PROVE IInv
    OBVIOUS
  <2>1. TypeOK /\ BoundRuns /\ MarkedLast
    BY DEF Init, ProcessInit, TypeOK, ProcessTypeOK, BoundRuns, MarkedLast, Phases
  <2>2. \A o \in Operators : Target(o) = None /\ Idle(o)
    BY DEF Init, Target, NoCommand, Idle
  <2>3. Traced
    BY <2>2, ProcessAssumption DEF Init, ProcessInit, Traced, StrangersAreSafe
  <2>4. \A p \in Pids : ~Up(p)
    BY DEF Init, ProcessInit, Up
  <2>5. TrackedInv
    BY <2>2, <2>4 DEF TrackedInv, Tracked, OneCommand, OneServer, WritesAtLast, Followed
  <2> QED
    BY <2>1, <2>3, <2>5 DEF IInv
<1>2. IInv /\ [Next]_vars => IInv'
  <2> SUFFICES ASSUME IInv, [Next]_vars PROVE IInv'
    OBVIOUS
  <2>1. TypeOK' /\ BoundRuns' /\ MarkedLast'
    BY TypeStep, BoundStep, MarkedStep DEF IInv
  <2>2. \A E : Never(E)' => Never(E)
    BY EventsStay DEF Never
  <2>3. Traced'
    BY TracedStep DEF IInv
  <2>4. TrackedInv'
    BY <2>2, TrackedStep DEF IInv, TrackedInv
  <2> QED
    BY <2>1, <2>3, <2>4 DEF IInv
<1> QED
  BY <1>1, <1>2, PTL DEF Spec

\* Every variable of the commands, the servers and the PID file has its type.
THEOREM TypeCorrect == Spec => []TypeOK
<1>1. IInv => TypeOK
  BY DEF IInv
<1> QED
  BY <1>1, Invariance, PTL

\* The commands stop, kill and restart (daemonCmd) signal a process that is not a server
\* only if the last server of its PID may have left it in the file: one whose PidfileSet
\* or PidfileClear failed, that died or did not start, or that was gone before it was
\* recorded or could not be removed.  However many commands run at a time, a server that
\* ends with none of these takes its PID out of the file.
THEOREM StrangersCorrect == Spec => []StrangersAreSafe
<1>1. IInv => StrangersAreSafe
  BY DEF IInv, Traced
<1> QED
  BY <1>1, Invariance, PTL

\* daemonStart and restart run no second server beside one that goes on, as long as
\* commands did not overlap or misread and no write failed.
THEOREM OneCorrect == Spec => []OneAtATime
<1>1. IInv => OneAtATime
  BY DEF IInv, TrackedInv, Tracked, OneAtATime
<1> QED
  BY <1>1, Invariance, PTL

\* Between commands the file names the server that has written it (PidfileSet), as long as
\* commands did not overlap or misread and no write failed: daemonStart, the restart of
\* daemonCmd and the server itself agree on what they write.
THEOREM NamedCorrect == Spec => []ServerIsNamed
<1>1. IInv => ServerIsNamed
  BY DEF IInv, TrackedInv, Tracked, Followed, ServerIsNamed, Serving, Up, Named
<1> QED
  BY <1>1, Invariance, PTL

\* daemonStart, also that of a restart, starts its child when nothing that goes on holds
\* the port, with the same exceptions.
THEOREM SuccessorCorrect == Spec => []SuccessorCanBind
<1>1. IInv => SuccessorCanBind
  <2> SUFFICES ASSUME IInv, Never(Confusing), NEW o \in Operators, At(o, "exec"),
                      NEW p \in bound
               PROVE  p \in dying
    BY DEF SuccessorCanBind
  <2>1. p \in Pids /\ phase[p] \notin {"none", "exiting"}
    BY DEF IInv, TypeOK, ProcessTypeOK, BoundRuns
  <2>2. ~Up(p)
    BY <2>1 DEF IInv, TrackedInv, Tracked, Followed, FollowedBy
  <2> QED
    BY <2>1, <2>2 DEF Up
<1> QED
  BY <1>1, Invariance, PTL

=============================================================================
