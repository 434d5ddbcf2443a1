# A TLA+ development of nvdaRemoteServer

nvdaRemoteServer relays messages between NVDA Remote clients: clients connect over
TLS, join a channel by name, and from then on what one of them sends goes to all
others of the channel. This directory models the server, the process it runs in and
the commands that start and stop it, checks the models with TLC on small instances
and proves most of the safety properties with TLAPS for all instances. Source
references are to the files under `server/` unless a path says otherwise.

    tlc -workers 2 -config Relay_safety.cfg MCRelay.tla     # a run
    tlapm RelayProofs.tla                                   # the proofs

## 1. The system

| part | state | operations | used by |
|---|---|---|---|
| global maps (`server.go`) | `lastID`, `clients`, `channels`, all under `mu` | AddClient, RemoveClient, AddChannel, FindChannel, RemoveChannel, MessageReceived | accept, commands, channels |
| channel (`clientChannel.go`) | name, password, locked, `ClientsAll`, an RWMutex | Add, Remove, quitLocked, SendAll, SendOthers | commands, RemoveClient, MessageReceived |
| client connection (`client.go`) | socket, queue `sd`, context, drop count, batch timer, channel pointer, `auth` | reader (listen), writer, teardown and ping, Send, CloseGracefully | everyone who sends |
| commands (`commands.go`) | none | join, protocol_version, generate_key | MessageReceived |
| server (`connection.go`) | listener, context, WaitGroup | Listen, accept, the stop goroutine | main |
| process (`nvdaRemoteServer.go`, `pid.go`, `shutdown.go`) | PID file | main, wait, Shutdown, CatchPanic | - |
| daemon commands (`daemon_unix.go`) | PID file | start, stop, kill, restart, status | the operator |
| settings (`configure.go`, `conf.go`, `defaults.go`, `logger.go`, `file.go`) | the option variables, the log level | Configure and its stages | main |
| helpers (`jsonFuncs.go`, `genKey.go`, `genCert.go`, `data.go`) | none | origin field, keys, certificate | commands, channels |

Each connection has three goroutines. The *reader* does all that the client asks
for: it calls the command handlers, walks the channel's members to relay, and
when its loop ends leaves the channel and the global map. In doing so it calls
`Send` of other clients, so every client's queue has as many producers as its
channel has members. The *writer* empties the queue into a buffered writer. The
*teardown* goroutine pings, and once the client's context is cancelled (by its
reader, its writer, a sender that found the queue hopeless, or the server) closes
the connection and then the queue.

What is hard here:

- membership is recorded three times (the channel's map, the client's pointer,
  the global map), under three locks, and a fourth time in the clients' heads,
  as told by messages that may be dropped;
- `join` looks a channel up, releases `mu`, and then uses the answer;
- a channel is destroyed by its last member while others may hold a pointer to it;
- ids come from a 32-bit counter that wraps, and members are deleted by id;
- three goroutines and any number of senders share a queue that is closed under
  them; only some of the sends recover from that;
- flushing is split between a drained queue and a timer;
- four kinds of lock nest in more than one order, and a close is done under two of them;
- the server stops by a cascade of contexts, while its accept loop may have one more
  connection in hand, and waits on a WaitGroup that this connection still adds to;
- processes share a file that names one of them by a number that the machine reuses,
  that is written in two steps and removed by its path.

What makes each part correct, beyond its types: *maps and channels*: the records
of membership agree, relays reach members only, no channel leaks or gets lost,
authorization follows the password, everybody who should leave does, no panic.
*Connection*: messages in order, once, without gaps; a graceful close delivers
what was sent before; an overflowing client is disconnected; nothing lies
unflushed; closing ends all three goroutines. *Settings*: the result is valid
whatever the sources say, and the command line prevails. *Locks*: no goroutines wait for one another. *Server and process*: a signal
ends the process, and by then the port is free and the clients are gone. *Daemon
commands*: the PID file names the server that runs, a start finds the port free, no
two servers go on at a time, and nobody else's process is signalled. `PROJECT.json` lists the hazards line by
line, with the properties that cover them.

## 2. The modules

| module | models | composes |
|---|---|---|
| `Room` | abstract: what a channel promises its members | - |
| `Relay` | global maps, channels, the join/relay/leave side of the reader | refines `Room` |
| `Mailbox` | abstract: what a queue and a writer promise | - |
| `ClientConn` | one connection: Send, queue, reader, writer, teardown | refines `Mailbox` |
| `LockOrder` | the locks under all of these, step by step | - |
| `ServerProcess` | abstract: a process with a port and a PID file | - |
| `Lifecycle` | main, Start, accept, stop, WaitGroup, wait, PID file, signal, panic | refines `ServerProcess` |
| `Daemon` | start, stop, kill, restart, status and the servers they act on | extends `ServerProcess` |
| `Settings` | Configure, stage by stage | - |
| `ChannelKey`, `JsonOrigin`, `GeneratedKey`, `ConfFile` | pure functions: getChannelParams, JsonAddOrigin, randomDigits and gen_key, conf_read_python | `MCRelay`, `MCSettings` |
| `RelayProofs`, `ClientConnProofs`, `LockOrderProofs`, `LifecycleProofs`, `DaemonProofs`, `SettingsProofs`, `ChannelKeyProofs`, `GeneratedKeyProofs` | theorems | extend the module they name |
| `MCRelay`, `MCRelayWarm`, `MCSettings`, `MCDaemon` | instances for TLC | |

The parts meet at the actions that the one takes as given and the other has as its
own: `Relay` and `Lifecycle` take it that a cancelled client's reader ends
(`CancelledEnds` of `ClientConn`), `Relay` that queues are FIFO (`Mailbox`),
`ClientConn` that the channel's lock is granted (`CancelledIsRemoved` of `Relay`),
all of them that locks are not waited for in a circle (`LockOrder`), and `Daemon` that
a server is a `ServerProcess` (`Lifecycle`).

### Relay and Room

One reader per element of `Clients`; `pc` says where it is:

| pc | the reader is |
|---|---|
| `new`, `gone` | not yet accepted; after RemoveClient |
| `reading` | at the top of listen's loop |
| `create`, `add` | in the join handler, after FindChannel, about to call AddChannel / `cc.Add` |
| `relay` | in SendAll or SendOthers, holding the channel's read lock, `pending` the members left |
| `leaving` | in RemoveClient, about to lock its channel |
| `quit` | in quitLocked, holding the channel's write lock, waiting for `mu` |
| `unregister` | in RemoveClient, out of its channel, waiting for `mu` |

An action is one critical section or one step between two. `mu` is never held
across actions. A channel's lock is, by readers at `relay` (reading) and `quit`
(writing), and the predicates `ReadLocked` and `WriteLocked` read it off `pc`. A
Go RWMutex lets the next writer announce itself, which keeps new readers out;
`AnnounceLock` and `announced` are that, and without it JoinCompletes would not
hold. `AddChannel` makes the object, adds the first member and stores the entry
under `mu`; `AddMember`, `AddSameId` and `AddToNilMap` are the three ends of
`Add`; `RemoveMember` is `Remove` up to quitLocked's call of `RemoveChannel`.

Abstracted: a channel object is named by the client that made it (a client makes
at most one, since it stays in its channel); a join's parameters are what
`getChannelParams` returns (`JoinKeys`); payloads are JSON or not, which decides
between SendOthers and SendAll; whether `Send` finds room is left open for the
clients in `MayLose`. `view` records what a client has been told of the others in
channel_joined, client_joined and client_left, and `lossy` who missed one of
these. Messages in the queue are taken as told: queues are FIFO, which is what
`ClientConn` checks. Commands that touch neither maps nor channels are left to
`ClientConn`, and so is a client that has cancelled but whose reader still handles
what it had buffered: here it may do anything a live one may, until `Hangup`.

`Room` has no locks, lookups or maps: clients found rooms, enter those that have people
in them, leave, and speak to those who are there, who hear of it before anybody comes
or goes. Relay implements it with `room <- channel`, `due <- pending` and, for
`founded`, the objects that have been made (`IsRoom`). Rooms stand for channel objects,
not for names: that two objects can bear one name is the finding of `relay_split`, and
that a join can meet an object that was quit is that of `relay_nilmap`; it does not
get in.

### ClientConn and Mailbox

`ctxDone`, `connOpen` and `sdClosed` are the three stages of closing, in the order
the code goes through them. The reader picks handlers (`Handlers`): a number of
sends to its own client, and then what the command does: return, be a member,
`Close`, or `CloseGracefully`. `Send` is split where it is not atomic: the select
(any ready case; a closed queue is a ready case, and recovered), the count of a
drop, and the kick. The writer's `Take`, `Spill` (bufio writes out what it holds
when a message does not fit), `CheckQueue`, `FlushDrained`, `FlushTimer`,
`TakeSentinel` and `WriterEnds` are the branches of its loop; `WriteFails` is any of
its writes failing, with a prefix of the buffer written. Messages are numbered in
the order they are queued. The batch timer follows the code: a message that leaves
others in the queue stops the timer if it was set and sets it otherwise
(`Toggled`). Timers have the semantics of Go 1.23 and later, as go.mod asks for: a
stopped timer delivers nothing. One simplification there: when the timer has
fired but not been received, `Stop` reports it as still active, so `Toggled` treats
`fired` like `armed`.

`Mailbox` has no queue, no goroutines and no failures: messages are taken on,
delivered in order, and delivery stops at some point for good. `ClientConn`
implements it with `delivered <- wire` and `stopped <- writer = "done"`.

### LockOrder

Each goroutine has a `script`, the locks it has yet to take and release in its present
operation, and the actions that come between them where the data decide what is
locked next (`Find`, `Enter`, `Leave`, `Quit`, `List`, `Unlist`, ...). RWMutexes are
Go's: Lock announces itself, then waits for the readers. Channels of one name are told
apart by a generation, since goroutines hold on to objects that have left the map.
There are at least as many generations as clients (`LockAssumption`), so that whoever
creates a channel finds one that nobody has to do with, as Go's allocation does.
Getters that take and release a lock with nothing in between are one `pass`. `Send`
passes the lock of any of those it is for: the other members, or the sender itself when
SendOthers finds it alone (`Recipients`).

### ServerProcess, Lifecycle and Daemon

`ServerProcess` is what an operator can see of servers: processes that start, hold the
port, rewrite the PID file in the two steps of os.WriteFile, try to remove it and exit, or
die at any of these points and leave the file. Any of these file operations may fail:
PidfileSet then forgets the path, and PidfileClear forgets it whether the file is gone or
not (`TriesToRemove`). `Lifecycle` is one of them from the inside: an
accept loop, a stop goroutine and a WaitGroup per address, `main` with its PID file, a
signal that cancels `Mctx`. A connection is no more than its reader, from Accept to the
last deferred call. A panic ends the process where CatchPanic does not see it, which is
in every goroutine but main's. The teardown and writer goroutines are not counted by the
WaitGroup and so are not there.

`Daemon` adds operators, whose commands are processes that read the file, act on what
they have read, and rewrite or try to remove the file by its path, ignoring the errors of
both. The machine hands PIDs out
again, to servers and to strangers, but not while a command is at work with that PID:
PIDs are handed out in a cycle of thousands, and a command takes ten seconds at most.
Two history variables record what the properties make exceptions for. `events` has what
confuses the commands: a file read while blank, commands that overlap, a write that
failed. `orphans` has the PIDs whose last server may have left them in the file, and is
kept for each PID from its server's start to the start of the next. Each exception is
needed: with any of them dropped TLC finds a violation of a property it is made for.

As the code has it: restart does not wait after its SIGKILL; start reports success for a
child that may then fail to listen; all commands use one path. findPidFile recognises
`-pidfile` with one dash only, though the flag package takes two; operators are taken to
write one.

### Settings and the pure functions

One action per stage of Configure: flags, file, logger, validation, message of the
day, certificate, addresses. The logger is set up before the level is clamped, as in
the code. Options are a record; a value is given, not given (`Unset`) or given
and not parsable (`Bad`). Paths are strings that `fs` says something about. A timeout
may be NaN, which the flag package and ParseFloat both accept and no comparison rejects;
ValidSettings says what becomes of it: the handshake is then not limited.

The four modules of pure functions take texts as sequences of symbols, as coarse as the
function allows: a field with its value is one symbol to `JsonAddOrigin`, which only looks
at white space and braces, and `__password__` is one to `getChannelParams`. Each states its
reference definition (the grammar of objects, keys as the README writes them, a file as it
was written, a nearly uniform draw), and the MC modules compare the two in an ASSUME over
all short texts, which every run of theirs evaluates: objects and garbage of up to six
symbols, names of up to two letters with texts of up to three, values of up to three
symbols with signs and comment marks in them, draws of one and two digits.

## 3. The runs

| run | instance | shows |
|---|---|---|
| relay_safety | 3 clients, 2 names, 3 kinds of key, no loss, ids do not wrap; 539 000 states | the refinement of Room; rosters, pointers, maps, authorization agree |
| relay_contended | 2 members and a newcomer, 3 ids, the next one free or a member's, two of them may lose messages, fair; 20 000 states | ids are reused without displacing anybody, views are right; joins complete, cancelled clients leave |
| relay_split | 2 clients, one key | finding: two channels of one name |
| relay_nilmap | 2 clients, one key | finding: panic on a nil map |
| conn_safety | 2 senders, queue of 1, kick at 2 drops, 4 sends, fair; 244 000 states | the refinement of Mailbox, the safety properties, delivery, graceful close, the end of all goroutines |
| conn_closed | 1 sender | finding: CloseGracefully panics on a closed queue |
| settings_safety | pairs of command line and file around each limit; 692 000 states | validity, priority |
| settings_levels | same | finding: log levels are inverted |
| lifecycle | 2 addresses, 2 connections, fair; 209 000 states | the refinement of ServerProcess, what holds when wait returns, who can be late, a signal ends the process |
| daemon | 2 operators, 2 PIDs; 3 458 000 states | the PID file names the server, the port is free, one server goes on at a time, strangers are safe |
| daemon_tracked | 1 operator, 2 PIDs | finding: the PID file is not written atomically |
| lockorder | 2 clients, 1 name, 2 generations; 340 000 states | no circular wait |

Why these bounds are enough to mean something. Three clients are the smallest number
in which one joins or leaves while a second relays to a third, in which two share a
channel while the third makes another one of the same name, and in which the
orphaned channel's last leave meets the other channel's entry. Three kinds of key
give a channel locked with and without password and a second name. In
relay_contended the counter starts anew after three ids, and has done so or not when
the newcomer is accepted, which then gets an id that a member has, or a free one. In
`ClientConn` two senders and the pinger and reader make four producers; a queue of
one is full with another message in the writer's hands, so that drained and not
drained, toggled once and twice, dropped and dropped again all happen; MaxSends
counts calls of Send and MaxBuffered (1) the messages the bufio reader still holds
after a close. The real constants (100, 500, 2^32) are parameters, and the theorems
hold for them. Two addresses are all that the program can have; two connections are
one in accept's hands while the other is served. Two PIDs are a server and its
successor, or a server and a stranger, and with two operators any two commands
overlap; three PIDs with one operator give 4 633 000 states and the same result. In
`LockOrder` two clients are reader against reader, reader against the other's
teardown, and both against accept; the second generation is the channel made while
the first is being left. `Settings` uses the numbers on both sides of every
comparison in validateSettings.

`Next` has a stuttering disjunct for the states in which everything has ended (or the
process has crashed), so deadlock is checked in every run: a state in which nobody
can move before the end is reported. That one goroutine waits for ever while others
go on is what the liveness properties rule out.

Symmetry is used only in safety runs, over `Clients`, `Pids` and `Operators`. No run
has a state constraint. `MCRelayWarm` starts from
a state that is reachable in `Relay` (two clients accepted, one created the channel
and the other joined, and other connections came and went) so that TLC affords three
clients for liveness.

**Fairness.** Weak fairness for each goroutine's own steps: the Go scheduler runs
what can run, and no step of a reader but the next message waits for the peer
(sends do not block, writes have a deadline). Strong fairness in four places.
Locks: a goroutine that waits for an RWMutex's inner mutex is served in turn (Go's
mutex has a starvation mode), for `AnnounceLock` in Relay and `Leave` in
ClientConn. Select: a ready Done case is eventually picked among ready cases,
since the choice is uniform (`CloseConn`). Reading: after Close the connection
gives at most what was buffered (`Hangup` of a cancelled client). In `Lifecycle` weak
fairness is enough: Accept on a closed listener returns its error, a cancelled client's
reader ends, and the two-step goroutines go on. Nothing is assumed of peers and
operators: they need not connect, send, read, hang up or signal.

**Exceptions.** Nothing in the passing runs leans on the findings not happening: a
crash ends the behaviour (`crashed`, `panicked`), and two channels of one name are a
normal state that RosterMatchesPointers, ViewsAgree and the rest hold in. This is why
SoleChannelIsListed speaks of names that were created once. NoClientLeftBehind makes
an exception for a connection that accept had in hand when the stop goroutine took the
counter to zero (`late`): the process may end while it is being served. OneLateAtMost
bounds that exception: one connection of each server, whatever is signalled, fails or is
cancelled. ServerIsNamed, SuccessorCanBind and OneAtATime except a command that read the
file while it was blank, commands that overlap, and a failed write; they hold over
crashes, failed starts, time-outs, reused PIDs and files that cannot be removed. They say
nothing of what two overlapping commands do to each other (one may remove the file of the
server that the other has started), and SuccessorCanBind allows that a server that restart
has killed still holds the port, in which case the child fails to listen and ends.
StrangersAreSafe holds over all these, and
excepts the PID, and no other, whose last server may have left it in the file: it could
not write the file or could not remove it, it died or did not start while the file named
it, it was gone before start recorded it, or the command that saw it end could not remove
the file. The panic of a WaitGroup that is reused while Wait returns is an end of the
process in `Lifecycle`, and no property forbids it.

## 4. The proofs

| module | theorems (`Spec =>` ...) |
|---|---|
| `RelayProofs` | TypeOK, RosterMatchesPointers, MembersAreRegistered, RelayTargetsAreMembers, AloneNoticeIsTrue, ViewsAgree, NobodyDisplaced, AuthorizedGavePassword, NoLeakedChannel, SoleChannelIsListed, and that Relay implements Room |
| `ClientConnProofs` | TypeOK, GracefulCloseDelivers, HopelessIsKicked, NothingStranded, WriterDeathCancels, and that ClientConn implements Mailbox |
| `LockOrderProofs` | TypeOK, NoWaitCycle, MapsWaitOnlyForCloses |
| `LifecycleProofs` | TypeOK, NoClientLeftBehind, OneLateAtMost, PortsReleased, OthersKeepServing, and that Lifecycle implements ServerProcess |
| `DaemonProofs` | TypeOK, StrangersAreSafe, ServerIsNamed, SuccessorCanBind, OneAtATime |
| `SettingsProofs` | ValidSettings, CommandLineWins |
| `ChannelKeyProofs`, `GeneratedKeyProofs` | keys of any length are read as written; gen_key's loop has something to find |

Each holds for all values of the constants that the module's named assumption allows,
and TLC evaluates the assumption in every run: finitely many clients, connections and
senders, markers outside the sets they mark, names, clients, locks and channels that
are different values, as many generations of a channel as there are clients, limits that
are at least one, options of the types the parsers give them. Nothing else is assumed:
`LockOrder` is run with two clients and one name and proved for any number of each,
`Daemon` for any number of operators and PIDs.

*Relay.* RosterMatchesPointers is not inductive: `RemoveMember` deletes by id,
so it needs that the members of a channel have different ids (`DistinctIds`), which
needs that nobody enters a channel in which its id is taken (`Exists`), that a
reader's `pc`, pointer and locals fit together (`ReaderState`), that only those who
want a lock have announced it (`AnnouncedWant`) and that only a made object has
members (`ObjectsMade`). The conjunction with TypeOK is `IInv`, and `Invariance`
proves it with one step per action. On top of it:

- `RosterChange` is the step lemma: in any step a roster either stays, or gains one
  client whose id it did not have, or loses one that is leaving; and the two latter
  happen only while no relay walks that channel. RelayCorrect, NobodyIsDisplaced,
  AloneNoticeCorrect and ViewsCorrect follow from it.
- MembersAreRegistered is inductive together with IInv.
- ViewsAgree needs that an id identifies a member within a channel, so that adding
  and removing ids mirrors adding and removing members.
- `AInv` has that a client's `auth` is what its key gives it in the channel it is in; an
  object somebody is in keeps its parameters.
- `LInv` has that a listed object bears the name it is listed under, that an object whose
  map is nil is empty and its last member on the way to delist it, and that the only
  object of its name is listed as long as it has members.
- `EmptyIsQuit` has that an object without members has been quit, so that a join that
  finds the map in place enters a room with people in it. ImplementsRoom maps AddMember to
  Enter, AddChannel to Found, RemoveMember to Leave, BeginRelay to Speak and RelayTo to
  Hear; the rest, the panic included, are stutters.

*ClientConn.* Messages are numbered as they are accepted (`Numbered`), so that `wire`
is a prefix of `accepted` exactly if it counts from one. What lies in the queue between
them is numbered too, but with markers in between: `Contents` has a function that tallies
the messages up to each place of the queue, without which neither Take nor Append can be
followed, and puts the first marker where CloseGracefully was called (`Tallies`,
`FirstMarker`). `Budget` keeps the count of drops within the calls of Send, which needs
that finitely many senders drop at a time; `Finished` and `Closing` are the reasons why a
writer has ended and the order in which things are closed. The refinement of Mailbox
maps Spill, FlushDrained, FlushTimer, TakeSentinel, WriterEnds and WriteFails to steps
of delivery, Send to a message taken on, and the rest to stutters.

*LockOrder.* That there is no cycle of waits follows from what each goroutine has left to
do while it holds what it holds. `Fits` says it: a reader's, teardown's or acceptor's
`script` is one of the suffixes of its operations' scripts, perhaps after some clients'
locks to pass, with the locks held and the channel its client is in that belong to that
place. The lemmas `...Is` write the scripts out step by step, `...Moves` go from each
place to the next, and the `...Keeps` lemmas are the actions. Two parts are about several
goroutines. `PrivateInv` has that nobody else has to do with a channel that is made and
yet to be listed, which is what makes it safe to take its lock under `mu`; it needs that
a channel nobody has to do with exists, and as every other client has to do with one at
most, it does by counting (`FreshIs`). `PendingInv` has that only who is about to take a
lock has announced it, so that a pending writer that turns readers away is itself at a
place. The rest is an order of waits: a client's lock is held only by its teardown, in
`conn.Close`, which waits for nothing (`AtClient`); who holds `mu` waits for such a lock
at most (`HoldsMaps`, which is MapsWaitOnlyForCloses); who waits for `mu` waits for one
of those or for another that waits for `mu` to be let in (`AtMaps`); and who holds a
channel's or the Server's lock waits for those only (`AtOther`). `AllWaitsEnd` puts them
together: in every set of goroutines somebody waits for nobody in it.

*Lifecycle.* The WaitGroup's counter is the number of connections it counts, and one for
the stop goroutine that has not ended (`WgCounts`); this is a statement about cardinalities,
and the reason for FiniteSetTheorems. When Wait has returned, the stop goroutine is
done, what is counted since came late, and accept has at most one connection in hand
(`WaitedFor`, `ConnState`). NoClientLeftBehind follows. OneLateAtMost needs to know where
the late client of a server comes from (`LateLast`): the counter is at zero only when the
stop goroutine has closed the listener, so that accept can add what it has in hand and
then finds Accept failing. For ImplementsServerProcess
each action of main is one of a process (or of the listener), and the servers' and
clients' actions stutter but for the close of the last listener and a panic.

*Daemon.* `Traced` is about each PID that is not among the orphans: if the file names it,
its process has yet to remove it, or a command that saw it end is about to; and no
command has it for a target when it is a stranger's. It holds without exception, so
StrangersAreSafe does. As long as nothing that confuses has happened (`TrackedInv`), there
is one command at a time and one server at a time (OneAtATime), and the file names that
server or a command has it in hand (`Followed`). Neither is inductive without knowing where a
process is in its life: one that holds the port runs and has not begun to clear the file
(`BoundRuns`), one that has written the file is waiting or later (`MarkedLast`).

*Settings.* `IInv` says for each stage what is already settled: after validation the
numbers are in range, and from the file on what the command line gave is kept.

Every invariant of the passing runs and every action property among their
properties is a theorem. Only model-checked: the liveness properties (CancelledIsRemoved,
JoinCompletes, EventuallyDelivered, GracefulCloseCloses, CancelledEnds,
StoppedServerDrains, SignalEndsProcess, NothingListensEnds), which are out of the
prover's reach; and what JsonAddOrigin, conf_read_python and randomDigits compute, which
is recursive and checked on bounded texts.

## 5. Findings

`relay_split`, `relay_nilmap`, `conn_closed`, `settings_levels` and `daemon_tracked`
show where the program and its comments or documentation disagree; `PROJECT.json`
quotes them. The first three can end the process or separate clients that asked for the
same channel; `daemon_tracked` can start a second server and lose sight of the first.

Noted while modelling, without a run: a certificate at the default path is never loaded,
even if `certfile` and `keyfile` name it, because configure.go:201 takes the default path
for "not configured" (`Generate`); the sample configuration of README.MD:151-152 does name
it, and README.MD:229 says that a certificate is generated only if none is configured or
the file does not exist. The `already_joined` branch of join and the Goexit
of MessageReceived cannot be reached; handleMotd's last reset assigns what is there;
`-port6` does not default to `-port` as its help says, only an invalid value does; errors
are not logged at level -1; the message of the day announces the logged protocol at
level 4 alone, while by `settings_levels` it is logged at -1, 2 and 3 as well; every other message that leaves others in the queue disarms the batch
timer (`Toggled`), which costs at most latency, because a drained queue is flushed anyway
(NothingStranded, EventuallyDelivered); conf_read_python trims the option but not the
value, so that `port = 6837` sets nothing.

## 6. Not modelled, and what is left

Not modelled: the certificate generation and CertMagic (library calls, which succeed or
fail), encoding/json, the resolution of links, the texts of numbers, TCP options, the
wording of messages and of the log, the Windows stub, the build information, packaging;
and settings that are copied and nothing else. That file.go panics on a path that
cannot be looked at is in `Settings` (stage `crashed`), but nothing in the repository
says what should happen instead, so that no property speaks of it.

Left for later: progress of the lock scripts. With NoWaitCycle and scripts that are
finite, fair locks give it; that is argued here and not checked.
