----------------------------- MODULE ClientConn -----------------------------
(***************************************************************************)
(* One connection (client.go): the goroutine that reads (listen), the one  *)
(* that writes, the one that pings and tears down, and the goroutines of   *)
(* other clients that send to this one.                                    *)
(*                                                                         *)
(* Granularity.  A select is one step, and picks any of its ready cases; a *)
(* write to the peer is one step, which may fail at any time.  Between two *)
(* steps of a goroutine the others may run.  Membership is reduced to one  *)
(* flag (joined): others send to a client only while it is in a channel,   *)
(* and Remove waits for them; module Relay has the channels.               *)
(***************************************************************************)
EXTENDS Integers, Sequences, FiniteSets, SequencesExt

CONSTANTS
  Senders,      \* the goroutines of other clients in the channel
  Cap,          \* capacity of the send queue (100)
  DropKick,     \* dropKickInterval (500)
  MaxSends,     \* bound of the model: calls of Send
  MaxBuffered   \* bound of the model: messages the bufio reader holds

ASSUME ClientConnAssumption ==
  /\ Cap \in Nat \ {0} /\ DropKick \in Nat \ {0}
  /\ MaxSends \in Nat /\ MaxBuffered \in Nat
  /\ IsFiniteSet(Senders) /\ Senders \cap {"reader", "pinger"} = {}

VARIABLES
  ctxDone,    \* ctx is cancelled: Close was called, or the server stops
  connOpen,   \* conn has not been closed by this side
  joined,     \* the client is in a channel
  sd,         \* the send queue
  sdClosed,   \* close(sd) has run
  dropped,    \* messages dropped because the queue was full
  reader,     \* where listen is
  buffered,   \* complete messages in its bufio.Reader
  todo,       \* sends left in the handler it runs, and what the handler does then
  writer,     \* where the writer is
  bw,         \* messages in its bufio.Writer
  timer,      \* its batch timer
  teardown,   \* where the pinging and stopping goroutine is
  sending,    \* per goroutine: where it is in a Send that found the queue full
  sends,      \* calls of Send so far
  wire,       \* what has been written to the connection
  accepted,   \* what Send has queued
  promised,   \* what was queued when CloseGracefully queued its marker
  failed,     \* a write has failed
  crashed     \* a panic left the process without recover

queueVars  == <<sd, sdClosed, dropped, sending, sends, accepted>>
readerVars == <<reader, buffered, todo, joined>>
writerVars == <<writer, bw, timer, wire, failed>>
vars == <<ctxDone, connOpen, queueVars, readerVars, writerVars, teardown,
          promised, crashed>>

Procs == Senders \cup {"reader", "pinger"}
Sentinel == 0            \* the empty slice; messages are 1, 2, ...
Nothing == <<-1>>        \* no close has been promised yet

\* What the handler of a message does to its own client: `n' sends, and then
\* `end'.  A client that is not in a channel is heard by cmd_exec.
Ignored  == [n |-> 0, end |-> "read"]       \* also protocol_version, or a join
                                            \* that meets its own id
Joins    == {[n |-> 1, end |-> "join"], [n |-> 2, end |-> "join"]}  \* with motd
BadJoin  == [n |-> 1, end |-> "close"]      \* invalid_parameters
SentKey  == [n |-> 1, end |-> "graceful"]   \* generate_key
NoKey    == [n |-> 0, end |-> "close"]      \* gen_key failed
Relays   == {[n |-> 0, end |-> "read"], [n |-> 1, end |-> "read"]}  \* alone
Handlers == IF joined THEN Relays ELSE Joins \cup {Ignored, BadJoin, SentKey, NoKey}

TypeOK ==
  /\ ctxDone \in BOOLEAN /\ connOpen \in BOOLEAN /\ joined \in BOOLEAN
  /\ sd \in Seq(Nat) /\ Len(sd) <= Cap
  /\ sdClosed \in BOOLEAN
  /\ dropped \in 0 .. MaxSends
  /\ reader \in {"handshake", "read", "handle", "leaving", "gone"}
  /\ buffered \in 0 .. MaxBuffered
  /\ todo \in [n : 0 .. 2, end : {"read", "join", "close", "graceful"}]
  /\ writer \in {"select", "written", "flush", "done"}
  /\ bw \in Seq(Nat \ {Sentinel}) /\ wire \in Seq(Nat \ {Sentinel})
  /\ timer \in {"off", "armed", "fired"}
  /\ teardown \in {"run", "closed", "done"}
  /\ sending \in [Procs -> {"idle", "drop", "kick"}]
  /\ sends \in 0 .. MaxSends
  /\ accepted \in Seq(Nat \ {Sentinel})
  /\ promised \in Seq(Nat \ {Sentinel}) \cup {Nothing}
  /\ failed \in BOOLEAN /\ crashed \in BOOLEAN

Init ==
  /\ ctxDone = FALSE /\ connOpen = TRUE /\ joined = FALSE
  /\ sd = <<>> /\ sdClosed = FALSE /\ dropped = 0
  /\ reader = "handshake" /\ buffered = 0 /\ todo = Ignored
  /\ writer = "select" /\ bw = <<>> /\ timer = "off"
  /\ teardown = "run"
  /\ sending = [p \in Procs |-> "idle"] /\ sends = 0
  /\ wire = <<>> /\ accepted = <<>> /\ promised = Nothing
  /\ failed = FALSE /\ crashed = FALSE

-----------------------------------------------------------------------------
(***************************************************************************)
(* Send, by any goroutine p.                                               *)
(***************************************************************************)
RoomForOneMore == ~sdClosed /\ Len(sd) <= Cap      \* a faulty variant
HasRoom == ~sdClosed /\ Len(sd) < Cap

\* The select.  When the queue is closed, its case is ready too: the panic is
\* recovered and closes the client.
Send(p) ==
  /\ sending[p] = "idle"
  /\ \/ /\ HasRoom
        /\ accepted' = Append(accepted, Len(accepted) + 1)
        /\ sd' = Append(sd, Len(accepted) + 1)
        /\ UNCHANGED <<ctxDone, sending>>
     \/ /\ ctxDone
        /\ UNCHANGED <<ctxDone, sd, accepted, sending>>
     \/ /\ sdClosed
        /\ ctxDone' = TRUE
        /\ UNCHANGED <<sd, accepted, sending>>
     \/ /\ ~HasRoom /\ ~ctxDone /\ ~sdClosed
        /\ sending' = [sending EXCEPT ![p] = "drop"]
        /\ UNCHANGED <<ctxDone, sd, accepted>>
  /\ UNCHANGED <<connOpen, sdClosed, dropped, writerVars, promised, crashed>>

\* The default case: count the drop, and disconnect at every DropKick-th.
KickBelow(n) == n % DropKick = 0 /\ n > DropKick   \* a faulty variant
Kicks(n) == n % DropKick = 0

CountDrop(p) ==
  /\ sending[p] = "drop"
  /\ dropped' = dropped + 1
  /\ sending' = [sending EXCEPT ![p] = IF Kicks(dropped') THEN "kick" ELSE "idle"]
  /\ UNCHANGED <<ctxDone, connOpen, sd, sdClosed, sends, accepted, readerVars,
                 writerVars, teardown, promised, crashed>>

Kick(p) ==
  /\ sending[p] = "kick"
  /\ ctxDone' = TRUE
  /\ sending' = [sending EXCEPT ![p] = "idle"]
  /\ UNCHANGED <<connOpen, sd, sdClosed, dropped, sends, accepted, readerVars,
                 writerVars, teardown, promised, crashed>>

\* A member relays to this client, or announces who joins or leaves.
Receive(p) ==
  /\ joined /\ sends < MaxSends
  /\ sends' = sends + 1
  /\ Send(p)
  /\ UNCHANGED <<readerVars, teardown>>

\* The ticker fires.
Ping ==
  /\ teardown = "run" /\ sends < MaxSends
  /\ sends' = sends + 1
  /\ Send("pinger")
  /\ UNCHANGED <<readerVars, teardown>>

-----------------------------------------------------------------------------
(***************************************************************************)
(* The reader.                                                             *)
(***************************************************************************)
readerOthers == <<connOpen, queueVars, writerVars, teardown, promised, crashed>>

\* HandshakeContext succeeds.
Handshake ==
  /\ reader = "handshake" /\ connOpen
  /\ reader' = "read"
  /\ UNCHANGED <<ctxDone, buffered, todo, joined, readerOthers>>

\* listen returns: the handshake failed, timed out or was cancelled; a message
\* was too long; or ReadBytes gave an error, as it does when the connection is
\* closed and the bufio.Reader empty.  Close is the first deferred call.
Return ==
  /\ reader \in {"handshake", "read"}
  /\ reader' = "leaving"
  /\ ctxDone' = TRUE
  /\ UNCHANGED <<buffered, todo, joined, readerOthers>>

\* ReadBytes returns a message, from the buffer or with more behind it in what
\* the connection gives.
Read(h, more) ==
  /\ reader = "read"
  /\ \/ buffered > 0 /\ more = buffered - 1
     \/ buffered = 0 /\ connOpen
  /\ h \in Handlers /\ sends + h.n <= MaxSends
  /\ reader' = "handle"
  /\ buffered' = more /\ todo' = h
  /\ sends' = sends + h.n
  /\ UNCHANGED <<ctxDone, joined, connOpen, sd, sdClosed, dropped, sending, accepted,
                 writerVars, teardown, promised, crashed>>

Reply ==
  /\ reader = "handle" /\ todo.n > 0
  /\ Send("reader")
  /\ todo' = [todo EXCEPT !.n = @ - 1]
  /\ UNCHANGED <<sends, reader, buffered, joined, teardown>>

\* The handler has sent what it had to send.
Handled == reader = "handle" /\ todo.n = 0 /\ sending["reader"] = "idle"

EndHandler ==
  /\ Handled /\ todo.end # "graceful"
  /\ reader' = "read"
  /\ joined' = (joined \/ todo.end = "join")
  /\ ctxDone' = (ctxDone \/ todo.end = "close")
  /\ UNCHANGED <<buffered, todo, readerOthers>>

\* CloseGracefully.  Its select has the same cases as that of Send, but nothing
\* recovers the panic of the closed queue.
CloseGracefully ==
  /\ Handled /\ todo.end = "graceful"
  /\ \/ /\ HasRoom
        /\ sd' = Append(sd, Sentinel)
        /\ promised' = IF promised = Nothing THEN accepted ELSE promised
        /\ UNCHANGED <<ctxDone, crashed>>
     \/ /\ ctxDone
        /\ UNCHANGED <<ctxDone, sd, promised, crashed>>
     \/ /\ sdClosed
        /\ crashed' = TRUE
        /\ UNCHANGED <<ctxDone, sd, promised>>
     \/ /\ ~HasRoom /\ ~ctxDone /\ ~sdClosed
        /\ ctxDone' = TRUE
        /\ UNCHANGED <<sd, promised, crashed>>
  /\ reader' = "read"
  /\ UNCHANGED <<connOpen, sdClosed, dropped, sending, sends, accepted, buffered,
                 todo, joined, writerVars, teardown>>

\* RemoveClient, which waits for those that send, and the last deferred call.
Leave ==
  /\ reader = "leaving"
  /\ \A p \in Senders : sending[p] = "idle"
  /\ reader' = "gone" /\ joined' = FALSE
  /\ UNCHANGED <<ctxDone, buffered, todo, readerOthers>>

-----------------------------------------------------------------------------
(***************************************************************************)
(* The writer.                                                             *)
(***************************************************************************)
writerOthers == <<connOpen, sdClosed, dropped, sending, sends, accepted, readerVars,
                  teardown, promised, crashed>>

\* The first k messages of bw reach the connection.
WriteOutAgain(k) == wire' = wire \o SubSeq(bw, 1, k) /\ UNCHANGED bw  \* a faulty variant
WriteOut(k) == /\ wire' = wire \o SubSeq(bw, 1, k)
               /\ bw' = SubSeq(bw, k + 1, Len(bw))

\* A flush of bw succeeds, or fails at the first message or at a later one.  The
\* flush of an empty bw does not touch the connection.
Flushed == (connOpen \/ bw = <<>>) /\ WriteOut(Len(bw))
NotFlushed == /\ bw # <<>>
              /\ \E k \in 0 .. Len(bw) - 1 : (connOpen \/ k = 0) /\ WriteOut(k)
              /\ failed' = TRUE

\* The writer calls Close when it ends.
ForgetsToClose == UNCHANGED ctxDone                 \* a faulty variant
WriterCloses == ctxDone' = TRUE

\* The write or flush of a message, or the flush the timer asks for, fails.
WriteFails ==
  /\ writer \in {"written", "flush"} \/ (writer = "select" /\ timer = "fired")
  /\ NotFlushed
  /\ WriterCloses
  /\ writer' = "done"
  /\ UNCHANGED <<sd, timer, writerOthers>>

\* The select receives a message, which goes to bw.
Take ==
  /\ writer = "select" /\ sd # <<>> /\ Head(sd) # Sentinel
  /\ bw' = Append(bw, Head(sd))
  /\ sd' = Tail(sd)
  /\ writer' = "written"
  /\ UNCHANGED <<ctxDone, timer, wire, failed, writerOthers>>

\* bw.Write does not fit, and writes out what bw holds first.
Spill ==
  /\ writer = "written" /\ connOpen
  /\ \E k \in 1 .. Len(bw) : WriteOut(k)
  /\ UNCHANGED <<ctxDone, sd, writer, timer, failed, writerOthers>>

\* Was that the last message of the queue?  If not, the batch timer is stopped
\* if it was set, and set if it was not.
LeftToTimer == FALSE                                \* a faulty variant
Drained == sd = <<>>

Toggled == IF timer = "off" THEN "armed" ELSE "off"

CheckQueue ==
  /\ writer = "written"
  /\ \/ Drained /\ writer' = "flush" /\ UNCHANGED timer
     \/ ~Drained /\ writer' = "select" /\ timer' = Toggled
  /\ UNCHANGED <<ctxDone, sd, bw, wire, failed, writerOthers>>

\* The flush of a drained queue, which also disarms the timer.
FlushDrained ==
  /\ writer = "flush"
  /\ Flushed
  /\ writer' = "select" /\ timer' = "off"
  /\ UNCHANGED <<ctxDone, sd, failed, writerOthers>>

TimerFires ==
  /\ timer = "armed" /\ writer # "done"
  /\ timer' = "fired"
  /\ UNCHANGED <<ctxDone, sd, writer, bw, wire, failed, writerOthers>>

FlushTimer ==
  /\ writer = "select" /\ timer = "fired"
  /\ Flushed
  /\ timer' = "off"
  /\ UNCHANGED <<ctxDone, sd, writer, failed, writerOthers>>

\* The marker of CloseGracefully: flush, whatever comes of it, and close.
NoLastFlush == UNCHANGED <<wire, bw, failed>>       \* a faulty variant
LastFlush == NotFlushed \/ (Flushed /\ UNCHANGED failed)

TakeSentinel ==
  /\ writer = "select" /\ sd # <<>> /\ Head(sd) = Sentinel
  /\ sd' = Tail(sd)
  /\ LastFlush
  /\ WriterCloses
  /\ writer' = "done"
  /\ UNCHANGED <<timer, writerOthers>>

\* The queue is closed and empty: the writer ends without a flush.
WriterEnds ==
  /\ writer = "select" /\ sd = <<>> /\ sdClosed
  /\ writer' = "done"
  /\ UNCHANGED <<ctxDone, sd, bw, timer, wire, failed, writerOthers>>

-----------------------------------------------------------------------------
(***************************************************************************)
(* Closing.                                                                *)
(***************************************************************************)
\* Close by anyone else, or the end of the server: ctx is a child of Mctx.
Cancel ==
  /\ ~ctxDone
  /\ ctxDone' = TRUE
  /\ UNCHANGED <<connOpen, queueVars, readerVars, writerVars, teardown, promised, crashed>>

\* The teardown, once its select has picked Done: the connection, then the queue.
CloseConn ==
  /\ teardown = "run" /\ sending["pinger"] = "idle" /\ ctxDone
  /\ connOpen' = FALSE
  /\ teardown' = "closed"
  /\ UNCHANGED <<ctxDone, queueVars, readerVars, writerVars, promised, crashed>>

QueueLeftOpen == UNCHANGED sdClosed                 \* a faulty variant
QueueClosed == sdClosed' = TRUE

CloseQueue ==
  /\ teardown = "closed"
  /\ QueueClosed
  /\ teardown' = "done"
  /\ UNCHANGED <<ctxDone, connOpen, sd, dropped, sending, sends, accepted, readerVars,
                 writerVars, promised, crashed>>

-----------------------------------------------------------------------------
Sending(p) == CountDrop(p) \/ Kick(p)

Reader ==
  \/ Handshake \/ Return \/ Reply \/ EndHandler \/ CloseGracefully \/ Leave
  \/ \E h \in Handlers, more \in 0 .. MaxBuffered : Read(h, more)

Writer ==
  \/ Take \/ Spill \/ CheckQueue \/ FlushDrained \/ FlushTimer \/ WriteFails
  \/ TakeSentinel \/ WriterEnds

Step ==
  \/ Reader \/ Writer \/ TimerFires \/ Ping \/ Cancel \/ CloseConn \/ CloseQueue
  \/ \E p \in Procs : Sending(p)
  \/ \E p \in Senders : Receive(p)

AllEnded == reader = "gone" /\ writer = "done" /\ teardown = "done"

Next ==
  \/ ~crashed /\ Step
  \/ (crashed \/ AllEnded) /\ UNCHANGED vars

Spec == Init /\ [][Next]_vars

\* Goroutines keep running and timers fire; a write ends because of its deadline,
\* a handshake and a read when the context or the connection is gone.  Strong
\* fairness where a select or a lock could be lost to others again and again:
\* Done against the ticker, and the channel's lock in RemoveClient.  Nothing is
\* assumed of the peer or of the other clients.
ReaderEnds ==
  /\ \/ reader = "handshake" /\ ctxDone
     \/ reader = "read" /\ ~connOpen /\ buffered = 0
  /\ Return
ReadsOn == ~connOpen /\ \E h \in Handlers, more \in 0 .. MaxBuffered : Read(h, more)

Fairness ==
  /\ WF_vars(~crashed /\ Writer) /\ WF_vars(~crashed /\ TimerFires)
  /\ WF_vars(~crashed /\ (Reply \/ EndHandler \/ CloseGracefully))
  /\ WF_vars(~crashed /\ (ReaderEnds \/ ReadsOn))
  /\ \A p \in Procs : WF_vars(~crashed /\ Sending(p))
  /\ WF_vars(~crashed /\ CloseQueue)
  /\ SF_vars(~crashed /\ CloseConn) /\ SF_vars(~crashed /\ Leave)

FairSpec == Spec /\ Fairness

-----------------------------------------------------------------------------
(***************************************************************************)
(* Properties.                                                             *)
(***************************************************************************)

\* Send, the queue and the writer together are the mailbox of module Mailbox:
\* in order, nothing twice, nothing skipped, whatever fails or closes when.
Delivery == INSTANCE Mailbox WITH delivered <- wire, stopped <- (writer = "done")
DeliversInOrder == Delivery!Spec

\* CloseGracefully delivers all that was sent before it, unless a write fails:
\* the marker is taken after them, and flushed before the close.
GracefulCloseDelivers ==
  writer = "done" /\ promised # Nothing /\ ~failed => wire = promised

\* A client that has lost DropKick messages is disconnected, or one of the
\* senders that count them is about to: their counts do not run past each other.
HopelessIsKicked ==
  dropped >= DropKick => ctxDone \/ \E p \in Procs : sending[p] = "kick"

\* While the writer waits, nothing lies in its buffer that neither a queued
\* message nor the timer would flush.
NothingStranded ==
  writer = "select" /\ bw # <<>> => sd # <<>> \/ timer # "off"

\* A client never lives on without its writer.
WriterDeathCancels == writer = "done" => ctxDone

\* What has been queued is written, unless the client is being closed: the writer
\* catches up with the queue (the bound on the sends makes this the same as: each
\* message is written in the end).
EventuallyDelivered == []<>(wire = accepted \/ ctxDone \/ crashed)

\* A graceful close does close.
GracefulCloseCloses == promised # Nothing ~> ctxDone \/ crashed

\* Once the context is cancelled all three goroutines end.
CancelledEnds == ctxDone ~> AllEnded \/ crashed

\* The claim of CloseGracefully (client.go:302-303): when the client is already
\* shutting down, the call leaves the close to the teardown goroutine.
GracefulCloseIsSafe == ~crashed

=============================================================================
