---------------------------- MODULE ServerProcess ----------------------------
(***************************************************************************)
(* Server processes as the operator of the machine sees them: a PID, a     *)
(* listening port, and the PID file.  What happens inside one process is   *)
(* in module Lifecycle, which implements this one; what the operator does  *)
(* with them is in module Daemon, which adds to it.                        *)
(*                                                                         *)
(* A process that is started tries to listen (main, Start), rewrites the   *)
(* PID file (PidfileSet), waits until its servers are done, tries to       *)
(* remove the file (PidfileClear) and exits.  It can die at any time, and  *)
(* then leaves the file behind.                                            *)
(***************************************************************************)
CONSTANTS
  Pids,    \* the process ids of the machine that servers can get
  None,    \* there is no file, or nothing
  Blank    \* what the file holds between its truncation and the write

ASSUME ProcessAssumption == None \notin Pids /\ Blank \notin Pids /\ None # Blank

VARIABLES
  phase,    \* how far each process has come; "none" if there is no such process
  bound,    \* the processes that hold the port
  told,     \* the processes that have received SIGTERM (or SIGINT, SIGQUIT)
  marked,   \* the processes that have the file's path: PidfileSet succeeded, and
            \* PidfileClear is yet to come
  pidfile,  \* the content of the PID file, None if there is no file
  writing   \* who has opened the file that is there, and has yet to write

processVars == <<phase, bound, told, marked, pidfile, writing>>

Phases == {"none", "starting", "listening", "marking", "waiting", "clearing", "exiting"}

ProcessTypeOK ==
  /\ phase \in [Pids -> Phases]
  /\ bound \subseteq Pids /\ told \subseteq Pids /\ marked \subseteq Pids
  /\ pidfile \in Pids \cup {None, Blank}

ProcessInit ==
  /\ phase = [p \in Pids |-> "none"]
  /\ bound = {} /\ told = {} /\ marked = {} /\ writing = {}
  /\ pidfile = None

Enters(p, s) == phase' = [phase EXCEPT ![p] = s]

-----------------------------------------------------------------------------
Exec(p) ==
  /\ phase[p] = "none"
  /\ Enters(p, "starting")
  /\ UNCHANGED <<bound, told, marked, pidfile, writing>>

\* SIGTERM only cancels Mctx.
Term(p) ==
  /\ phase[p] # "none"
  /\ told' = told \cup {p}
  /\ UNCHANGED <<phase, bound, marked, pidfile, writing>>

\* One Listen succeeds; with two addresses, perhaps after the other has been
\* closed again.
Binds(p) ==
  /\ phase[p] \in {"starting", "listening"}
  /\ bound = {}
  /\ bound' = {p}
  /\ Enters(p, "listening")
  /\ UNCHANGED <<told, marked, pidfile, writing>>

\* The last listener is closed: after a signal, or an error of Accept.
Unbinds(p) ==
  /\ p \in bound
  /\ bound' = bound \ {p}
  /\ UNCHANGED <<phase, told, marked, pidfile, writing>>

\* os.WriteFile: open, which truncates the file, and write.  The write goes to the
\* file that was opened, and is lost if that has been removed.
OpensFile(w) == pidfile' = Blank /\ writing' = writing \cup {w}
WritesFile(w, p) ==
  /\ pidfile' = IF w \in writing THEN p ELSE pidfile
  /\ writing' = writing \ {w}
NoFile == UNCHANGED <<pidfile, writing>>

\* os.Remove, whose error nobody acts on: the file may stay.
RemovesFile == pidfile' = None /\ writing' = {}
TriesToRemove == RemovesFile \/ NoFile

\* PidfileSet, which forgets the path if either step fails.
Marks(p) ==
  /\ phase[p] = "listening"
  /\ \/ OpensFile(p) /\ Enters(p, "marking")
     \/ NoFile /\ Enters(p, "waiting")
  /\ UNCHANGED <<bound, told, marked>>

Marked(p) ==
  /\ phase[p] = "marking"
  /\ \/ WritesFile(p, p) /\ marked' = marked \cup {p}
     \/ writing' = writing \ {p} /\ UNCHANGED <<pidfile, marked>>
  /\ Enters(p, "waiting")
  /\ UNCHANGED <<bound, told>>

\* wait returns: nothing listens any more.
Waited(p) ==
  /\ phase[p] = "waiting"
  /\ p \notin bound
  /\ Enters(p, "clearing")
  /\ UNCHANGED <<bound, told, marked, pidfile, writing>>

\* PidfileClear removes whatever is at the path, if PidfileSet succeeded, and forgets
\* the path whether it could or not.
KeepsFile(p) == FALSE                                  \* a faulty variant
ClearsFile(p) == p \in marked

Clears(p) ==
  /\ phase[p] = "clearing"
  /\ IF ClearsFile(p) THEN TriesToRemove ELSE NoFile
  /\ marked' = marked \ {p}
  /\ Enters(p, "exiting")
  /\ UNCHANGED <<bound, told>>

Gone(p) ==
  /\ Enters(p, "none")
  /\ bound' = bound \ {p} /\ told' = told \ {p} /\ marked' = marked \ {p}
  /\ writing' = writing \ {p}
  /\ UNCHANGED pidfile

\* The end of main; or its exit code 1, if Configure fails or nothing listens.
Exits(p) == phase[p] = "exiting" /\ Gone(p)
Fails(p) == phase[p] = "starting" /\ Gone(p)
\* A panic that is not recovered, or a SIGKILL.
Dies(p)  == phase[p] # "none" /\ Gone(p)

Proceeds(p) ==
  \/ Binds(p) \/ Unbinds(p) \/ Marks(p) \/ Marked(p) \/ Waited(p) \/ Clears(p)
  \/ Exits(p) \/ Fails(p)

ProcessNext == \E p \in Pids : Exec(p) \/ Term(p) \/ Proceeds(p) \/ Dies(p)

ProcessSpec == ProcessInit /\ [][ProcessNext]_processVars
=============================================================================
