------------------------------- MODULE Relay -------------------------------
(***************************************************************************)
(* The relay core of the server: the global maps of server.go, the         *)
(* channels of clientChannel.go, and one goroutine per connection (the     *)
(* reader, Client.listen) that registers, joins, relays and leaves.        *)
(*                                                                         *)
(* Granularity.  One action is one critical section, or one step between   *)
(* two of them.  The global lock mu is held only inside single actions.    *)
(* A channel's RWMutex is held across actions in two places: a relaying    *)
(* reader read-holds it while it walks the recipients (pc "relay"), and    *)
(* the last leaver write-holds it while it waits for mu (pc "quit"); the   *)
(* holders are therefore read off pc.                                      *)
(*                                                                         *)
(* A channel object is named by the client whose AddChannel made it: a     *)
(* client makes at most one, since it keeps its channel until it leaves.   *)
(*                                                                         *)
(* Whether a Send is accepted by the recipient's queue is left open here   *)
(* (the sets `lost'); module ClientConn has the queue itself.              *)
(***************************************************************************)
EXTENDS Integers, FiniteSets

CONSTANTS
  Clients,     \* the connections accepted in a behaviour, one *Client each
  Names,       \* non-empty channel names
  Passwords,   \* non-empty channel passwords
  NoPassword,  \* the empty password
  JoinKeys,    \* what getChannelParams returns for the keys clients use
  None,        \* Go's nil
  MayLose,     \* the clients whose queue may be full when something is sent
  IdSpace      \* how many client ids there are (2^32: lastID is an int32)

ASSUME RelayAssumption ==
  /\ IsFiniteSet(Clients)
  /\ None \notin Clients
  /\ MayLose \subseteq Clients
  /\ None \notin JoinKeys
  /\ NoPassword \notin Passwords
  /\ JoinKeys \subseteq [name     : Names,
                         password : Passwords \cup {NoPassword},
                         locked   : BOOLEAN]
  /\ \A k \in JoinKeys : k.password # NoPassword => k.locked
  /\ IdSpace \in Nat \ {0}

VARIABLES
  \* server.go
  lastID,      \* the id counter
  clients,     \* the global client map
  channels,    \* the global channel map, name -> channel object or None
  \* Client
  id,          \* Client.id
  channel,     \* Client.c, the channel the client is in
  auth,        \* the clients with auth set
  cancelled,   \* the clients whose ctx is cancelled
  \* ClientChannel objects
  params,      \* name, password and locked; None until the object is made
  ClientsAll,  \* the map of members (id -> client), as the set of clients
  nilMap,      \* the objects whose ClientsAll is nil (quitLocked ran)
  \* reader goroutines
  pc,
  cc,          \* the local variable cc of the join handler and RemoveClient
  key,         \* the parameters of the last join
  pending,     \* recipients a relay has yet to reach
  announced,   \* who is next to write-lock the channel it wants
  \* history
  view,        \* ids of the other members, as told to the client
  lossy,       \* clients that have lost a membership message
  crashed      \* a panic left the process without recover

serverVars  == <<lastID, clients, channels>>
clientVars  == <<id, channel, auth, cancelled>>
objectVars  == <<params, ClientsAll, nilMap>>
readerVars  == <<pc, cc, key, pending, announced>>
historyVars == <<view, lossy, crashed>>
vars == <<serverVars, clientVars, objectVars, readerVars, historyVars>>

PC == {"new", "reading", "add", "create", "relay",
       "leaving", "quit", "unregister", "gone"}

TypeOK ==
  /\ lastID \in 0 .. IdSpace - 1
  /\ clients \subseteq Clients
  /\ channels \in [Names -> Clients \cup {None}]
  /\ id \in [Clients -> 0 .. IdSpace - 1]
  /\ channel \in [Clients -> Clients \cup {None}]
  /\ auth \subseteq Clients
  /\ cancelled \subseteq Clients
  /\ params \in [Clients -> JoinKeys \cup {None}]
  /\ ClientsAll \in [Clients -> SUBSET Clients]
  /\ nilMap \subseteq Clients
  /\ pc \in [Clients -> PC]
  /\ cc \in [Clients -> Clients \cup {None}]
  /\ key \in [Clients -> JoinKeys \cup {None}]
  /\ pending \in [Clients -> SUBSET Clients]
  /\ announced \subseteq Clients
  /\ view \in [Clients -> SUBSET (0 .. IdSpace - 1)]
  /\ lossy \subseteq Clients
  /\ crashed \in BOOLEAN

Init ==
  /\ lastID = 0
  /\ clients = {}
  /\ channels = [n \in Names |-> None]
  /\ id = [c \in Clients |-> 0]
  /\ channel = [c \in Clients |-> None]
  /\ auth = {}
  /\ cancelled = {}
  /\ params = [ch \in Clients |-> None]
  /\ ClientsAll = [ch \in Clients |-> {}]
  /\ nilMap = {}
  /\ pc = [c \in Clients |-> "new"]
  /\ cc = [c \in Clients |-> None]
  /\ key = [c \in Clients |-> None]
  /\ pending = [c \in Clients |-> {}]
  /\ announced = {}
  /\ view = [c \in Clients |-> {}]
  /\ lossy = {}
  /\ crashed = FALSE

-----------------------------------------------------------------------------
(***************************************************************************)
(* Channel locks.  RWMutex.Lock first makes its caller the next writer,    *)
(* which keeps new readers out, and then waits for the readers that are    *)
(* in; without the announcement two members that take turns relaying would *)
(* starve every join and leave.                                            *)
(***************************************************************************)
Goto(c, l) == pc' = [pc EXCEPT ![c] = l]

WriteLocked(ch) == \E h \in Clients : pc[h] = "quit" /\ cc[h] = ch

\* A faulty variant: readers are not kept out of, or do not keep out, writers.
ReadLockedNever(ch) == FALSE
ReadLocked(ch) == \E h \in Clients : pc[h] = "relay" /\ channel[h] = ch

\* The channel whose Lock c is about to call or has called, in Add or Remove.
Wanted(c) == IF pc[c] = "add" THEN cc[c]
             ELSE IF pc[c] = "leaving" THEN channel[c] ELSE None

WriterNext(ch) == \E h \in announced : Wanted(h) = ch

AnnounceLock(c) ==
  /\ Wanted(c) # None
  /\ ~WriteLocked(Wanted(c))
  /\ ~WriterNext(Wanted(c))
  /\ announced' = announced \cup {c}
  /\ UNCHANGED <<serverVars, clientVars, objectVars, pc, cc, key, pending,
                 historyVars>>

\* RLock, and the end of Lock.
CanReadLock(ch) == ~WriteLocked(ch) /\ ~WriterNext(ch)
GetsLock(c) ==
  /\ c \in announced
  /\ ~ReadLocked(Wanted(c))
  /\ announced' = announced \ {c}

-----------------------------------------------------------------------------
(***************************************************************************)
(* Membership.                                                             *)
(***************************************************************************)
\* The map entries under c's id.
SameId(ch, c) == {m \in ClientsAll[ch] : id[m] = id[c]}

\* What remains of the map when Remove deletes c's id.
AllRemain(ch, c) == ClientsAll[ch]          \* a faulty variant: no delete
Others(ch, c) == ClientsAll[ch] \ SameId(ch, c)

AuthorizedByAnyone(ch, k) ==  \* a faulty variant: empty passwords match
  params[ch].locked => k.password = params[ch].password
Authorized(ch, k) ==
  params[ch].locked => /\ k.password = params[ch].password
                       /\ params[ch].password # NoPassword

\* What the message of the day of a locked channel tells the newcomer.  Lmotd works
\* it out for itself, in one way for each connection type.
LmotdByMatch(ctype, ch, k) ==  \* a faulty variant: empty passwords match
  IF ~params[ch].locked THEN {}
  ELSE {IF k.password = params[ch].password THEN "granted" ELSE "refused"}
Lmotd(ctype, ch, k) ==
  LET mine == params[ch].password
  IN IF ~params[ch].locked THEN {}
     ELSE CASE ctype = "slave" ->
                 {IF mine # NoPassword /\ k.password = mine THEN "granted" ELSE "refused"}
            [] ctype = "master" ->
                 {n \in {"granted", "refused"} :
                    \/ /\ n = "refused"
                       /\ (mine # NoPassword /\ k.password # mine) \/ mine = NoPassword
                    \/ /\ n = "granted"
                       /\ mine = k.password /\ mine # NoPassword}

SetAuthorized(c, b) == auth' = IF b THEN auth \cup {c} ELSE auth \ {c}

(***************************************************************************)
(* What the clients are told.  Add sends client_joined to the others and   *)
(* then channel_joined, with the list of the others, to the newcomer;      *)
(* Remove sends client_left to those that remain.  A message to a client   *)
(* in `lost' is dropped by its queue.                                      *)
(***************************************************************************)
Ids(S) == {id[m] : m \in S}

ToldJoined(c, others, lost) ==
  view' = [m \in Clients |->
             IF m \in lost \/ m \notin others \cup {c} THEN view[m]
             ELSE IF m = c THEN Ids(others) ELSE view[m] \cup {id[c]}]

ToldLeftNobody(c, others, lost) == view' = view  \* a faulty variant
ToldLeft(c, others, lost) ==
  view' = [m \in Clients |-> IF m \in others \ lost THEN view[m] \ {id[c]}
                                                    ELSE view[m]]

-----------------------------------------------------------------------------
(***************************************************************************)
(* Connecting and disconnecting.                                           *)
(***************************************************************************)
\* The counter is 32 bits wide, whatever the width of Client.id.
NextIDWide == lastID + 1                    \* a faulty variant
NextID == (lastID + 1) % IdSpace

\* Server.accept calls AddClient and starts listen; the TLS handshake that
\* listen performs first is in ClientConn.
Accept(c) ==
  /\ pc[c] = "new"
  /\ lastID' = NextID
  /\ id' = [id EXCEPT ![c] = lastID']
  /\ clients' = clients \cup {c}
  /\ Goto(c, "reading")
  /\ UNCHANGED <<channels, channel, auth, cancelled, objectVars,
                 cc, key, pending, announced, historyVars>>

\* Client.Close, by whoever calls it: the writer on a failed write, a sender
\* that found the queue hopelessly behind, a join without a channel name, a
\* served generate_key, or the server that stops.
Close(c) ==
  /\ pc[c] \notin {"new", "gone"}
  /\ c \notin cancelled
  /\ cancelled' = cancelled \cup {c}
  /\ UNCHANGED <<serverVars, id, channel, auth, objectVars, readerVars, historyVars>>

\* The reader's loop ends: a read error, or a message that is too long.  The
\* deferred calls run in the order Close, RemoveClient.
HangupUnregistersFirst(c) ==  \* a faulty variant: RemoveClient's halves swapped
  /\ pc[c] = "reading"
  /\ cancelled' = cancelled \cup {c}
  /\ clients' = clients \ {c}
  /\ Goto(c, "leaving")
  /\ UNCHANGED <<lastID, channels, id, channel, auth, objectVars,
                 cc, key, pending, announced, historyVars>>
Hangup(c) ==
  /\ pc[c] = "reading"
  /\ cancelled' = cancelled \cup {c}
  /\ Goto(c, "leaving")
  /\ UNCHANGED <<serverVars, id, channel, auth, objectVars,
                 cc, key, pending, announced, historyVars>>

\* Remove, up to the end of its critical section unless the channel is now
\* empty; then quitLocked sets the map to nil and asks for mu, still holding
\* the channel's lock.
RemoveMember(c, lost) ==
  LET ch   == channel[c]
      rest == Others(ch, c)
  IN /\ pc[c] = "leaving"
     /\ GetsLock(c)
     /\ lost \subseteq rest
     /\ ClientsAll' = [ClientsAll EXCEPT ![ch] = rest]
     /\ channel' = [channel EXCEPT ![c] = None]
     /\ ToldLeft(c, rest, lost)
     /\ lossy' = lossy \cup lost
     /\ cc' = [cc EXCEPT ![c] = ch]
     /\ \/ /\ rest # {}
           /\ Goto(c, "unregister")
           /\ UNCHANGED nilMap
        \/ /\ rest = {}
           /\ nilMap' = nilMap \cup {ch}
           /\ Goto(c, "quit")
     /\ UNCHANGED <<serverVars, id, auth, cancelled, params, key, pending, crashed>>

\* RemoveChannel deletes the entry under the object's name, whichever object
\* it holds by now; then the channel's lock is released.
StillListed(n) == channels                  \* a faulty variant: no delete
Delisted(n) == [channels EXCEPT ![n] = None]

RemoveChannel(c) ==
  /\ pc[c] = "quit"
  /\ channels' = Delisted(params[cc[c]].name)
  /\ Goto(c, "unregister")
  /\ UNCHANGED <<lastID, clients, clientVars, objectVars,
                 cc, key, pending, announced, historyVars>>

\* The second half of RemoveClient, under mu.
Unregister(c) ==
  /\ \/ pc[c] = "unregister"
     \/ pc[c] = "leaving" /\ channel[c] = None
  /\ clients' = clients \ {c}
  /\ Goto(c, "gone")
  /\ cc' = [cc EXCEPT ![c] = None]
  /\ UNCHANGED <<lastID, channels, clientVars, objectVars,
                 key, pending, announced, historyVars>>

-----------------------------------------------------------------------------
(***************************************************************************)
(* Joining: the join command of a client that is in no channel.            *)
(***************************************************************************)
\* SetConnectionType and FindChannel.  The answer is used after mu has been
\* released.
FindChannel(c, k) ==
  /\ pc[c] = "reading"
  /\ channel[c] = None
  /\ key' = [key EXCEPT ![c] = k]
  /\ cc' = [cc EXCEPT ![c] = channels[k.name]]
  /\ Goto(c, IF channels[k.name] = None THEN "create" ELSE "add")
  /\ UNCHANGED <<serverVars, clientVars, objectVars, pending, announced,
                 historyVars>>

\* The part of Add that makes c a member of ch, whose other members are given.
Enter(c, ch, others, lost) ==
  /\ lost \subseteq others \cup {c}
  /\ ClientsAll' = [ClientsAll EXCEPT ![ch] = others \cup {c}]
  /\ channel' = [channel EXCEPT ![c] = ch]
  /\ ToldJoined(c, others, lost)
  /\ lossy' = lossy \cup lost
  /\ cc' = [cc EXCEPT ![c] = None]
  /\ Goto(c, "reading")

ExistsNever(ch, c) == FALSE  \* a faulty variant: Add without its exists test
Exists(ch, c) == SameId(ch, c) # {}

AddMember(c, lost) ==
  /\ pc[c] = "add"
  /\ GetsLock(c)
  /\ cc[c] \notin nilMap
  /\ ~Exists(cc[c], c)
  /\ SetAuthorized(c, Authorized(cc[c], key[c]))
  /\ Enter(c, cc[c], Others(cc[c], c), lost)
  /\ UNCHANGED <<serverVars, id, cancelled, params, nilMap, key, pending, crashed>>

\* Another member has the id already (the counter wrapped): Add returns, with
\* auth set and nothing sent.
AddSameId(c) ==
  /\ pc[c] = "add"
  /\ GetsLock(c)
  /\ Exists(cc[c], c)
  /\ SetAuthorized(c, Authorized(cc[c], key[c]))
  /\ cc' = [cc EXCEPT ![c] = None]
  /\ Goto(c, "reading")
  /\ UNCHANGED <<serverVars, id, channel, cancelled, objectVars, key, pending,
                 historyVars>>

\* The channel was quit between FindChannel and Add: the assignment to the nil
\* map panics in the reader goroutine, which nothing recovers.
AddToNilMap(c) ==
  /\ pc[c] = "add"
  /\ GetsLock(c)
  /\ cc[c] \in nilMap
  /\ SetAuthorized(c, Authorized(cc[c], key[c]))
  /\ crashed' = TRUE
  /\ UNCHANGED <<serverVars, id, channel, cancelled, objectVars,
                 pc, cc, key, pending, view, lossy>>

\* AddChannel, all of it under mu: a new object, its first member, and the
\* entry in the map, over whatever another AddChannel put there.
Unlisted(n, ch) == channels                 \* a faulty variant: no entry made
Listed(n, ch) == [channels EXCEPT ![n] = ch]

AddChannel(c, lost) ==
  /\ pc[c] = "create"
  /\ params' = [params EXCEPT ![c] = key[c]]
  /\ channels' = Listed(key[c].name, c)
  /\ SetAuthorized(c, key[c].locked => key[c].password # NoPassword)
  /\ Enter(c, c, {}, lost)
  /\ UNCHANGED <<lastID, clients, id, cancelled, nilMap, key, pending, announced,
                 crashed>>

-----------------------------------------------------------------------------
(***************************************************************************)
(* Relaying: any message of a client that is in a channel.                 *)
(***************************************************************************)
\* SendOthers, for a JSON message, tells a sender that is alone so; SendAll,
\* for raw data, then sends nothing.
Recipients(c, json) ==
  LET others == ClientsAll[channel[c]] \ {c}
  IN IF json /\ Cardinality(ClientsAll[channel[c]]) <= 1 THEN {c} ELSE others

BeginRelay(c, json) ==
  /\ pc[c] = "reading"
  /\ channel[c] # None
  /\ CanReadLock(channel[c])
  /\ pending' = [pending EXCEPT ![c] = Recipients(c, json)]
  /\ Goto(c, "relay")
  /\ UNCHANGED <<serverVars, clientVars, objectVars, cc, key, announced,
                 historyVars>>

\* Send to one recipient; Go ranges over the map in any order.
RelayTo(c, r) ==
  /\ pc[c] = "relay"
  /\ r \in pending[c]
  /\ pending' = [pending EXCEPT ![c] = @ \ {r}]
  /\ UNCHANGED <<serverVars, clientVars, objectVars, pc, cc, key, announced,
                 historyVars>>

EndRelayLocked(c) ==  \* a faulty variant: the read lock is not released
  /\ pc[c] = "relay"
  /\ pending[c] = {}
  /\ UNCHANGED vars
EndRelay(c) ==
  /\ pc[c] = "relay"
  /\ pending[c] = {}
  /\ Goto(c, "reading")
  /\ UNCHANGED <<serverVars, clientVars, objectVars, cc, key, pending, announced, historyVars>>

-----------------------------------------------------------------------------
Join(c) ==
  \/ \E k \in JoinKeys : FindChannel(c, k)
  \/ \E lost \in SUBSET MayLose : AddMember(c, lost)
  \/ AddSameId(c)
  \/ AddToNilMap(c)
  \/ \E lost \in SUBSET MayLose : AddChannel(c, lost)

Message(c) ==
  \/ \E json \in BOOLEAN : BeginRelay(c, json)
  \/ \E r \in Clients : RelayTo(c, r)
  \/ EndRelay(c)

Leave(c) ==
  \/ Hangup(c)
  \/ \E lost \in SUBSET MayLose : RemoveMember(c, lost)
  \/ RemoveChannel(c)
  \/ Unregister(c)

Step(c) ==
  Accept(c) \/ Close(c) \/ AnnounceLock(c) \/ Join(c) \/ Message(c) \/ Leave(c)

\* Nothing runs after a crash, or once every connection of the behaviour is gone.
Stopped == crashed \/ \A c \in Clients : pc[c] = "gone"

Next ==
  \/ /\ ~crashed
     /\ \E c \in Clients : Step(c)
  \/ /\ Stopped
     /\ UNCHANGED vars

Spec == Init /\ [][Next]_vars

\* Goroutines keep running: weak fairness for each step of a reader.  Strong
\* fairness where the code waits for something that comes and goes: the mutex
\* inside RWMutex is handed over in order to those who wait (AnnounceLock), and
\* a closed connection delivers at most what bufio had read, so a reader that
\* keeps coming back to ReadBytes gets the error (Hangup once cancelled).
\* Connecting, sending and closing are up to the peers: no fairness.
Adds(c)    == ~crashed /\ (AddSameId(c) \/ AddToNilMap(c)
                              \/ \E lost \in SUBSET MayLose : AddMember(c, lost))
Creates(c) == ~crashed /\ \E lost \in SUBSET MayLose : AddChannel(c, lost)
Sends(c)   == ~crashed /\ (EndRelay(c) \/ \E r \in Clients : RelayTo(c, r))
Removes(c) == ~crashed /\ \E lost \in SUBSET MayLose : RemoveMember(c, lost)
Departs(c) == ~crashed /\ (RemoveChannel(c) \/ Unregister(c))

Fairness ==
  \A c \in Clients :
    /\ WF_vars(Creates(c)) /\ WF_vars(Adds(c)) /\ WF_vars(Sends(c))
    /\ WF_vars(Removes(c)) /\ WF_vars(Departs(c))
    /\ SF_vars(~crashed /\ AnnounceLock(c))
    /\ SF_vars(~crashed /\ c \in cancelled /\ Hangup(c))

FairSpec == Spec /\ Fairness

-----------------------------------------------------------------------------
(***************************************************************************)
(* Properties.                                                             *)
(***************************************************************************)

\* The two records of membership agree: a channel's ClientsAll holds exactly
\* the clients whose pointer c leads to the channel.  Add and Remove write the
\* two under different locks, and delete by id, which may have been reused.
RosterMatchesPointers ==
  \A ch, c \in Clients : c \in ClientsAll[ch] <=> channel[c] = ch

\* Every member is in the global client map, so the lookup that guards
\* MessageReceived never fails for a running reader: RemoveClient leaves the
\* channel before it unregisters.
MembersAreRegistered ==
  /\ \A c \in Clients : pc[c] \in PC \ {"new", "gone"} => c \in clients
  /\ \A ch \in Clients : ClientsAll[ch] \subseteq clients

\* A client that has lost no membership message knows who is in its channel:
\* channel_joined, client_joined and client_left, applied in the order they
\* were queued, name exactly the other members.
ViewsAgree ==
  \A c \in Clients :
    channel[c] # None /\ c \notin lossy =>
      view[c] = Ids(ClientsAll[channel[c]] \ {c})

\* A relay in progress is aimed at members only: the read lock SendAll and
\* SendOthers take keeps joins and leaves out of the iteration.  With ViewsAgree,
\* no message arrives from a client the recipient has not been told of.
RelayTargetsAreMembers ==
  \A c \in Clients : pending[c] # {} =>
    channel[c] # None /\ pending[c] \subseteq ClientsAll[channel[c]]

\* nvda_not_connected is sent only to a member that is alone until the notice
\* is queued: SendOthers checks and sends under one read lock.
AloneNoticeIsTrue ==
  \A c \in Clients : c \in pending[c] => ClientsAll[channel[c]] = {c}

\* The channel map does not leak: an entry leads to a channel with members, or
\* to one whose last member is on its way to delete the entry.
NoLeakedChannel ==
  \A n \in Names : channels[n] # None =>
    \/ ClientsAll[channels[n]] # {}
    \/ \E c \in Clients : pc[c] = "quit" /\ params[cc[c]].name = n

\* The channel of a name that was created once can be found while it has
\* members: nobody removes the entry of a channel that is in use.
SoleChannelIsListed ==
  \A ch \in Clients :
    /\ ClientsAll[ch] # {}
    /\ \A o \in Clients : params[o] # None /\ params[o].name = params[ch].name
                           => o = ch
    => channels[params[ch].name] = ch

\* A member is authorized if its channel is open, or if it gave the password that the
\* creator set, and not otherwise: nobody is in a locked channel without a password.
\* Authorization is worked out before the member is entered, and survives it; and
\* what the newcomer was told of it is true for as long as it is a member.
AuthorizedGavePassword ==
  \A c \in Clients : channel[c] # None =>
    LET ch == channel[c]
    IN /\ c \in auth <=> \/ ~params[ch].locked
                         \/ /\ key[c].password = params[ch].password
                            /\ key[c].password \in Passwords
       /\ \A ctype \in {"master", "slave"} :
            Lmotd(ctype, ch, key[c]) =
              IF ~params[ch].locked THEN {}
              ELSE IF c \in auth THEN {"granted"} ELSE {"refused"}

\* Nobody is taken off a roster by the join or the leave of another client,
\* even if ids are reused.
NobodyDisplaced ==
  [][\A ch, c \in Clients :
       c \in ClientsAll[ch] /\ c \notin ClientsAll'[ch] => pc[c] = "leaving"]_vars

\* Channels are rooms that are entered, left and spoken in atomically: a relay reaches
\* exactly those who were members when it began, and no others come or go until it has,
\* whatever takes place between FindChannel and Add, or while the last member quits.
\* Which object a name leads to is left out: two channels of one name are two rooms.
Rooms == INSTANCE Room WITH
  room    <- channel,
  founded <- {ch \in Clients : params[ch] # None},
  due     <- pending
IsRoom == Rooms!Spec

\* A client whose context is cancelled is eventually out of its channel and of
\* the client map, whatever locks the others hold meanwhile.
CancelledIsRemoved ==
  \A c \in Clients : c \in cancelled ~> pc[c] = "gone" \/ crashed

\* A join that has been received is eventually carried out.
JoinCompletes ==
  \A c \in Clients : pc[c] \in {"add", "create"} ~> pc[c] = "reading" \/ crashed

\* The claim of the package comment (server.go:1-6): clients are grouped into
\* named channels, whose members see each other's messages.
OneChannelPerName ==
  \A c, d \in Clients :
    /\ channel[c] # None /\ channel[d] # None
    /\ params[channel[c]].name = params[channel[d]].name
    => channel[c] = channel[d]

\* The claim of the comment in Remove (clientChannel.go:171-174): the check for
\* emptiness and the cleanup under one lock leave no race, so that no join
\* ever meets a channel that has been quit.
NoCrash == ~crashed

=============================================================================
