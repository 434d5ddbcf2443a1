------------------------------ MODULE LockOrder ------------------------------
(***************************************************************************)
(* The locks of the server, and the order in which its goroutines take     *)
(* them: the lock of a Server (accept and the teardown of each client),    *)
(* mu (the global maps), the lock of each channel and that of each client. *)
(* Relay takes each operation as one step; here it is a script of lock and *)
(* unlock steps, and of what decides which lock comes next.                *)
(*                                                                         *)
(* Except for the Server's, locks are sync.RWMutexes: a writer that waits  *)
(* for readers to leave keeps new readers out.                             *)
(*                                                                         *)
(* A lock that is taken and released with nothing in between, as in the    *)
(* getters and setters of Client and in lookups, is passed in one step.    *)
(* One that is passed while no other is held keeps nobody waiting, and is  *)
(* mostly left out; under other locks, passing one twice is passing it     *)
(* once.  The logger's lock is left out: nothing else is taken under it.   *)
(***************************************************************************)
EXTENDS Naturals, Sequences, FiniteSets, SequencesExt

CONSTANTS
  Clients,       \* Client objects, used again when the goroutines are gone
  Names,         \* channel names
  Generations,   \* to tell the channels of a name apart
  None

Channels == [name : Names, gen : Generations]

Lock(kind, x) == [kind |-> kind, of |-> x]
s        == Lock("server", None)
mu       == Lock("maps", None)
cc(ch)   == Lock("channel", ch)
cl(c)    == Lock("client", c)
Locks == {s, mu} \cup {cc(ch) : ch \in Channels} \cup {cl(c) : c \in Clients}

\* Goroutines: a client has a reader (listen) and a teardown.
reader(c)   == [role |-> "reader", of |-> c]
teardown(c) == [role |-> "teardown", of |-> c]
acceptor    == [role |-> "acceptor", of |-> None]
Threads == {acceptor} \cup {reader(c) : c \in Clients} \cup {teardown(c) : c \in Clients}

\* Values of different kinds differ; and there is always an object that nobody has seen.
ASSUME LockAssumption ==
  /\ None \notin Clients \cup Channels \cup Threads
  /\ (Names \cup Clients) \cap (Channels \cup Locks) = {}
  /\ IsFiniteSet(Clients)
  /\ IsFiniteSet(Generations) => Cardinality(Generations) >= Cardinality(Clients)

VARIABLES
  script,    \* what each goroutine has yet to do in its present operation
  owner,     \* of each lock: who holds it
  pending,   \* ... who waits in Lock for the readers to leave
  readers,   \* ... who holds it for reading
  there,     \* the clients that have a reader
  live,      \* the clients that have a teardown
  channels,  \* the global map
  at,        \* Client.c, and membership in ClientsAll
  quit,      \* the channels whose ClientsAll is nil
  panicked   \* a join reached such a channel

lockVars == <<owner, pending, readers>>
dataVars == <<there, live, channels, at, quit, panicked>>
vars == <<script, lockVars, dataVars>>

Deeds == {"lock", "unlock", "rlock", "runlock", "pass", "send", "types", "enter", "leave",
          "quit", "find", "list", "unlist", "register", "delete", "close"}
Things == Locks \cup Channels \cup Names \cup Clients

TypeOK ==
  /\ script \in [Threads -> Seq([do : Deeds, of : Things])]
  /\ owner \in [Locks -> Threads \cup {None}]
  /\ pending \in [Locks -> Threads \cup {None}]
  /\ readers \in [Locks -> SUBSET Threads]
  /\ there \subseteq Clients /\ live \subseteq Clients
  /\ channels \in [Names -> Channels \cup {None}]
  /\ at \in [Clients -> Channels \cup {None}]
  /\ quit \subseteq Channels
  /\ panicked \in BOOLEAN

Init ==
  /\ script = [t \in Threads |-> <<>>]
  /\ owner = [l \in Locks |-> None] /\ pending = owner
  /\ readers = [l \in Locks |-> {}]
  /\ there = {} /\ live = {}
  /\ channels = [n \in Names |-> None]
  /\ at = [c \in Clients |-> None]
  /\ quit = {} /\ panicked = FALSE

-----------------------------------------------------------------------------
(***************************************************************************)
(* Scripts.                                                                *)
(***************************************************************************)
Step(d, x)   == <<[do |-> d, of |-> x]>>
Hold(l, b)   == Step("lock", l) \o b \o Step("unlock", l)
Read(l, b)   == Step("rlock", l) \o b \o Step("runlock", l)
Pass(l)      == Step("pass", l)

\* AddClient under the Server's lock
AcceptScript(c) == Hold(s, Hold(mu, Pass(cl(c)) \o Step("register", c)))

\* The teardown: conn.Close, which may take seconds, under two locks.
TeardownScript(c) == Hold(s, Hold(cl(c), Step("close", c)))

\* MessageReceived in a channel: FindClient, then SendAll or SendOthers.
RelayScript(c) == Pass(mu) \o Read(cc(at[c]), Step("send", at[c]))

\* Without: the join command up to FindChannel; "find" goes on from there.  The other
\* commands only pass the same locks.
JoinScript(c, n) == Pass(cl(c)) \o Read(mu, Step("find", n))

AddScript(ch, c) ==
  Hold(cc(ch), Pass(cl(c)) \o Step("enter", ch)
                 \o Step("send", ch) \o Step("types", ch))
CreateScript(ch, c) == Hold(mu, AddScript(ch, c) \o Step("list", ch))

\* RemoveClient: Channel and Remove, and the client map.
LeaveScript(c) ==
  (IF at[c] = None THEN <<>>
   ELSE Hold(cc(at[c]), Pass(cl(c)) \o Step("leave", at[c]) \o Step("send", at[c])
                          \o Step("quit", at[c])))
  \o Hold(mu, Pass(cl(c)) \o Step("delete", c))

-----------------------------------------------------------------------------
(***************************************************************************)
(* Locks: sync.Mutex and sync.RWMutex.  A lock that is not free is waited  *)
(* for, also by its holder: they are not reentrant.                        *)
(***************************************************************************)
Busy(t) == script[t] # <<>>
Does(t, d) == Busy(t) /\ Head(script[t]).do = d
What(t) == Head(script[t]).of
Rest(t) == Tail(script[t])

Continue(t, b) == script' = [script EXCEPT ![t] = b]
Goes(t) == Continue(t, Rest(t))

\* Lock first keeps other writers and new readers out ...
Announce(t) ==
  /\ Does(t, "lock")
  /\ owner[What(t)] = None /\ pending[What(t)] = None
  /\ pending' = [pending EXCEPT ![What(t)] = t]
  /\ UNCHANGED <<script, owner, readers, dataVars>>

\* ... and then waits for the readers that are in.
Acquire(t) ==
  /\ Does(t, "lock")
  /\ pending[What(t)] = t /\ readers[What(t)] = {}
  /\ pending' = [pending EXCEPT ![What(t)] = None]
  /\ owner' = [owner EXCEPT ![What(t)] = t]
  /\ Goes(t)
  /\ UNCHANGED <<readers, dataVars>>

AcquireRead(t) ==
  /\ Does(t, "rlock")
  /\ owner[What(t)] = None /\ pending[What(t)] = None
  /\ readers' = [readers EXCEPT ![What(t)] = @ \cup {t}]
  /\ Goes(t)
  /\ UNCHANGED <<owner, pending, dataVars>>

PassBy(t) ==
  /\ Does(t, "pass")
  /\ owner[What(t)] = None /\ pending[What(t)] = None
  /\ Goes(t)
  /\ UNCHANGED <<lockVars, dataVars>>

Release(t) ==
  /\ \/ /\ Does(t, "unlock")
        /\ owner' = [owner EXCEPT ![What(t)] = None]
        /\ UNCHANGED readers
     \/ /\ Does(t, "runlock")
        /\ readers' = [readers EXCEPT ![What(t)] = @ \ {t}]
        /\ UNCHANGED owner
  /\ Goes(t)
  /\ UNCHANGED <<pending, dataVars>>

-----------------------------------------------------------------------------
(***************************************************************************)
(* What is done under the locks.                                           *)
(***************************************************************************)
\* A set in the order in which Go happens to iterate over a map.
AnyOrder(S) == SetToSeqs(S)
Passes(q) == [i \in DOMAIN q |-> [do |-> "pass", of |-> cl(q[i])]]

Members(ch) == {m \in Clients : at[m] = ch}

\* What a member says goes to the others; if there are none, SendOthers, which has the
\* channel for reading, tells the member itself.
Recipients(c, ch) ==
  IF Members(ch) = {c} /\ reader(c) \in readers[cc(ch)] THEN {c} ELSE Members(ch) \ {c}

\* Send takes the client's lock when it drops its first message, to log its ID.
Send(c, ch) ==
  /\ Does(reader(c), "send") /\ What(reader(c)) = ch
  /\ \E D \in SUBSET Recipients(c, ch) : \E q \in AnyOrder(D) :
       Continue(reader(c), Passes(q) \o Rest(reader(c)))
  /\ UNCHANGED <<lockVars, dataVars>>

\* Add asks the other members for their ConnectionType, and answers the client.
Types(c, ch) ==
  /\ Does(reader(c), "types") /\ What(reader(c)) = ch
  /\ \E q \in AnyOrder(Members(ch) \ {c}), self \in {<<>>, Pass(cl(c))} :
       Continue(reader(c), Passes(q) \o self \o Rest(reader(c)))
  /\ UNCHANGED <<lockVars, dataVars>>

Enter(c, ch) ==
  /\ Does(reader(c), "enter") /\ What(reader(c)) = ch
  /\ IF ch \in quit THEN panicked' = TRUE /\ UNCHANGED at
     ELSE at' = [at EXCEPT ![c] = ch] /\ UNCHANGED panicked
  /\ Goes(reader(c))
  /\ UNCHANGED <<lockVars, there, live, channels, quit>>

Leave(c, ch) ==
  /\ Does(reader(c), "leave") /\ What(reader(c)) = ch
  /\ at' = [at EXCEPT ![c] = None]
  /\ Goes(reader(c))
  /\ UNCHANGED <<lockVars, there, live, channels, quit, panicked>>

\* quitLocked by the last member, with the channel's lock held; RemoveChannel takes
\* mu and goes by the name.
Quit(c, ch) ==
  /\ Does(reader(c), "quit") /\ What(reader(c)) = ch
  /\ IF Members(ch) = {}
     THEN /\ quit' = quit \cup {ch}
          /\ Continue(reader(c), Hold(mu, Step("unlist", ch)) \o Rest(reader(c)))
     ELSE Goes(reader(c)) /\ UNCHANGED quit
  /\ UNCHANGED <<lockVars, there, live, channels, at, panicked>>

ListAs(c, d, ch, entry) ==
  /\ Does(reader(c), d) /\ What(reader(c)) = ch
  /\ channels' = [channels EXCEPT ![ch.name] = entry]
  /\ Goes(reader(c))
  /\ UNCHANGED <<lockVars, there, live, at, quit, panicked>>
List(c, ch)   == ListAs(c, "list", ch, ch)
Unlist(c, ch) == ListAs(c, "unlist", ch, None)

\* FindChannel, and what the join command does then.  A new channel is an object
\* that nobody has seen.
Unseen(ch) ==
  /\ \A n \in Names : channels[n] # ch
  /\ \A c \in Clients : at[c] # ch
  /\ \A t \in Threads : \A i \in DOMAIN script[t] : script[t][i].of \notin {ch, cc(ch)}

Fresh(n) == CHOOSE ch \in Channels : ch.name = n /\ Unseen(ch)

AddUnderMu(b, ch, c) == AddScript(ch, c) \o b         \* a faulty variant
AddThen(b, ch, c) == b \o AddScript(ch, c)

Find(c, n) ==
  /\ Does(reader(c), "find") /\ What(reader(c)) = n
  /\ \/ /\ channels[n] # None
        /\ Continue(reader(c), AddThen(Rest(reader(c)), channels[n], c))
        /\ UNCHANGED quit
     \/ /\ channels[n] = None
        /\ LET ch == Fresh(n)
           IN /\ Continue(reader(c), Rest(reader(c)) \o CreateScript(ch, c))
              /\ quit' = quit \ {ch}
  /\ UNCHANGED <<lockVars, there, live, channels, at, panicked>>

Register(c) ==
  /\ Does(acceptor, "register") /\ What(acceptor) = c
  /\ there' = there \cup {c} /\ live' = live \cup {c}
  /\ Goes(acceptor)
  /\ UNCHANGED <<lockVars, channels, at, quit, panicked>>

Delete(c) ==
  /\ Does(reader(c), "delete")
  /\ there' = there \ {c}
  /\ Goes(reader(c))
  /\ UNCHANGED <<lockVars, live, channels, at, quit, panicked>>

CloseConn(c) ==
  /\ Does(teardown(c), "close")
  /\ live' = live \ {c}
  /\ Goes(teardown(c))
  /\ UNCHANGED <<lockVars, there, channels, at, quit, panicked>>

-----------------------------------------------------------------------------
(***************************************************************************)
(* Operations begin.                                                       *)
(***************************************************************************)
Begin(t, b) == ~Busy(t) /\ Continue(t, b) /\ UNCHANGED <<lockVars, dataVars>>

Accepts(c) ==
  /\ c \notin there /\ c \notin live /\ ~Busy(reader(c)) /\ ~Busy(teardown(c))
  /\ Begin(acceptor, AcceptScript(c))

TearsDown(c) == c \in live /\ Begin(teardown(c), TeardownScript(c))

InNil(c) == TRUE                                       \* a faulty variant
InChannel(c) == at[c] # None

Reads(c) ==
  /\ c \in there
  /\ \/ InChannel(c) /\ Begin(reader(c), RelayScript(c))
     \/ ~InChannel(c) /\ \E n \in Names : Begin(reader(c), JoinScript(c, n))
     \/ Begin(reader(c), LeaveScript(c))

-----------------------------------------------------------------------------
Waits(t) == Announce(t) \/ Acquire(t) \/ AcquireRead(t) \/ PassBy(t)

Under(c) ==
  \/ \E ch \in Channels :
       \/ Send(c, ch) \/ Types(c, ch) \/ Enter(c, ch) \/ Leave(c, ch)
       \/ Quit(c, ch) \/ List(c, ch) \/ Unlist(c, ch)
  \/ \E n \in Names : Find(c, n)
  \/ Delete(c)

Next ==
  \/ /\ ~panicked
     /\ \/ \E t \in Threads : Waits(t) \/ Release(t)
        \/ \E c \in Clients :
             Under(c) \/ Register(c) \/ CloseConn(c) \/ Accepts(c) \/ TearsDown(c) \/ Reads(c)
  \/ panicked /\ UNCHANGED vars

Spec == Init /\ [][Next]_vars

-----------------------------------------------------------------------------
(***************************************************************************)
(* Properties.                                                             *)
(***************************************************************************)
\* The goroutines that a goroutine waits for, itself perhaps among them.
Awaited(t) ==
  IF Does(t, "lock") /\ pending[What(t)] = t THEN readers[What(t)]
  ELSE IF Does(t, "lock") \/ Does(t, "rlock") \/ Does(t, "pass")
  THEN {owner[What(t)], pending[What(t)]} \ {None}
  ELSE {}

\* No goroutines wait for one another: of any of them, some can go on when the rest
\* have; in particular none waits for itself.
NoWaitCycle ==
  \A S \in (SUBSET Threads) \ {{}} : \E t \in S : Awaited(t) \cap S = {}

\* Whoever holds mu, which everybody needs, waits for nobody but teardowns, and these
\* for nothing but their conn.Close: what goes on in a channel keeps no other waiting.
Holds(t, l) == owner[l] = t \/ t \in readers[l]
MapsWaitOnlyForCloses ==
  \A t \in Threads : Holds(t, mu) =>
    \A u \in Awaited(t) : u.role = "teardown" /\ Awaited(u) = {}
=============================================================================
