---------------------------- MODULE RelayProofs ----------------------------
(***************************************************************************)
(* Proofs about Relay, for any number of clients, names, keys and ids.     *)
(***************************************************************************)
EXTENDS Relay, FiniteSetTheorems, TLAPS

\* Who waits for a lock has said which.
AnnouncedWant == \A c \in announced : Wanted(c) # None

\* Where a reader is tells what its client's variables hold.
ReaderState ==
  \A c \in Clients :
    /\ pc[c] \in {"new", "add", "create", "quit", "unregister", "gone"}
         => channel[c] = None
    /\ pc[c] = "add" => cc[c] # None
    /\ pc[c] = "create" => key[c] # None
    /\ pc[c] = "relay" => channel[c] # None
    /\ pending[c] # {} => pc[c] = "relay"

\* A channel object that has not been made has no members, and a client makes
\* at most one: it has joined it or left it ever since.
ObjectsMade ==
  /\ \A ch \in Clients : params[ch] = None => ClientsAll[ch] = {}
  /\ \A ch \in Clients : params[ch] # None =>
       channel[ch] # None \/ pc[ch] \in {"quit", "unregister", "gone"}
  /\ \A n \in Names : channels[n] # None => params[channels[n]] # None
  /\ \A c \in Clients : pc[c] = "add" => params[cc[c]] # None

\* The members of a channel have different ids, although ids are reused.
DistinctIds ==
  \A ch \in Clients : \A c, d \in ClientsAll[ch] : id[c] = id[d] => c = d

\* The inductive invariant.
IInv ==
  /\ TypeOK
  /\ AnnouncedWant
  /\ ReaderState
  /\ ObjectsMade
  /\ RosterMatchesPointers
  /\ DistinctIds

-----------------------------------------------------------------------------
\* What is left of the roster, and who is told, are sets of the right type.
LEMMA OthersType ==
  ASSUME TypeOK, NEW ch \in Clients, NEW c \in Clients
  PROVE  Others(ch, c) \in SUBSET Clients
BY DEF Others, SameId, TypeOK

\* Membership messages name ids.
LEMMA ViewType ==
  ASSUME TypeOK, NEW c \in Clients, NEW S \in SUBSET Clients, NEW lost
  PROVE  /\ ToldJoined(c, S, lost) =>
              view' \in [Clients -> SUBSET (0 .. IdSpace - 1)]
         /\ ToldLeft(c, S, lost) =>
              view' \in [Clients -> SUBSET (0 .. IdSpace - 1)]
<1>1. Ids(S) \in SUBSET (0 .. IdSpace - 1)
  BY DEF Ids, TypeOK
<1>2. id[c] \in 0 .. IdSpace - 1
  BY DEF TypeOK
<1>3. \A m \in Clients : view[m] \in SUBSET (0 .. IdSpace - 1)
  BY DEF TypeOK
<1> QED
  BY <1>1, <1>2, <1>3 DEF ToldJoined, ToldLeft

\* The effect of Enter, as far as types go.
LEMMA EnterType ==
  ASSUME TypeOK, NEW c \in Clients, NEW ch \in Clients,
         NEW S \in SUBSET Clients, NEW lost \in SUBSET Clients,
         Enter(c, ch, S, lost)
  PROVE  /\ ClientsAll' \in [Clients -> SUBSET Clients]
         /\ channel' \in [Clients -> Clients \cup {None}]
         /\ view' \in [Clients -> SUBSET (0 .. IdSpace - 1)]
         /\ lossy' \in SUBSET Clients
         /\ cc' \in [Clients -> Clients \cup {None}]
         /\ pc' \in [Clients -> PC]
<1>1. view' \in [Clients -> SUBSET (0 .. IdSpace - 1)]
  BY ViewType DEF Enter
<1> QED
  BY <1>1 DEF Enter, Goto, TypeOK, PC

\* Every step of a client keeps the types.
LEMMA TypeStep ==
  ASSUME IInv, NEW c \in Clients, Step(c)
  PROVE  TypeOK'
<1> USE RelayAssumption DEF Goto, PC
<1> TypeOK
  BY DEF IInv
<1>1. CASE Accept(c)
  <2>1. lastID' \in 0 .. IdSpace - 1
    BY <1>1 DEF Accept, NextID, TypeOK
  <2> QED
    BY <1>1, <2>1 DEF Accept, TypeOK, objectVars, historyVars
<1>2. CASE Close(c)
  BY <1>2 DEF Close, TypeOK, serverVars, objectVars, readerVars, historyVars
<1>3. CASE AnnounceLock(c)
  BY <1>3 DEF AnnounceLock, TypeOK, serverVars, clientVars, objectVars, historyVars
<1>4. ASSUME NEW k \in JoinKeys, FindChannel(c, k)
      PROVE  TypeOK'
  <2>1. channels[k.name] \in Clients \cup {None}
    BY DEF TypeOK
  <2> QED
    BY <1>4, <2>1 DEF FindChannel, TypeOK, serverVars, clientVars, objectVars, historyVars
<1>5. ASSUME NEW lost \in SUBSET MayLose, AddMember(c, lost)
      PROVE  TypeOK'
  <2>1. cc[c] \in Clients
    BY <1>5 DEF AddMember, IInv, ReaderState, TypeOK
  <2>2. Others(cc[c], c) \in SUBSET Clients
    BY <2>1, OthersType
  <2>3. Enter(c, cc[c], Others(cc[c], c), lost) /\ lost \in SUBSET Clients
    BY <1>5 DEF AddMember
  <2>4. auth' \in SUBSET Clients /\ announced' \in SUBSET Clients
    BY <1>5 DEF AddMember, SetAuthorized, GetsLock, TypeOK
  <2> HIDE DEF PC
  <2> QED
    BY <1>5, <2>1, <2>2, <2>3, <2>4, EnterType DEF AddMember, TypeOK, serverVars
<1>6. CASE AddSameId(c)
  BY <1>6 DEF AddSameId, TypeOK, SetAuthorized, GetsLock, serverVars, objectVars, historyVars
<1>7. CASE AddToNilMap(c)
  BY <1>7 DEF AddToNilMap, TypeOK, SetAuthorized, GetsLock, serverVars, objectVars
<1>8. ASSUME NEW lost \in SUBSET MayLose, AddChannel(c, lost)
      PROVE  TypeOK'
  <2>1. Enter(c, c, {}, lost) /\ lost \in SUBSET Clients
    BY <1>8 DEF AddChannel
  <2>2. auth' \in SUBSET Clients
    BY <1>8 DEF AddChannel, SetAuthorized, TypeOK
  <2>3. params' \in [Clients -> JoinKeys \cup {None}]
    BY <1>8 DEF AddChannel, TypeOK
  <2>4. channels' \in [Names -> Clients \cup {None}]
    BY <1>8 DEF AddChannel, Listed, TypeOK
  <2> HIDE DEF PC
  <2> QED
    BY <1>8, <2>1, <2>2, <2>3, <2>4, EnterType DEF AddChannel, TypeOK
<1>9. ASSUME NEW json \in BOOLEAN, BeginRelay(c, json)
      PROVE  TypeOK'
  <2>1. Recipients(c, json) \in SUBSET Clients
    BY <1>9 DEF Recipients, BeginRelay, TypeOK
  <2> QED
    BY <1>9, <2>1 DEF BeginRelay, TypeOK, serverVars, clientVars, objectVars, historyVars
<1>10. ASSUME NEW r \in Clients, RelayTo(c, r)
       PROVE  TypeOK'
  BY <1>10 DEF RelayTo, TypeOK, serverVars, clientVars, objectVars, historyVars
<1>11. CASE EndRelay(c)
  BY <1>11 DEF EndRelay, TypeOK, serverVars, clientVars, objectVars, historyVars
<1>12. CASE Hangup(c)
  BY <1>12 DEF Hangup, TypeOK, serverVars, objectVars, historyVars
<1>13. ASSUME NEW lost \in SUBSET MayLose, RemoveMember(c, lost)
       PROVE  TypeOK'
  <2>1. channel[c] \in Clients
    BY <1>13 DEF RemoveMember, GetsLock, Wanted, IInv, AnnouncedWant, TypeOK
  <2>2. Others(channel[c], c) \in SUBSET Clients
    BY <2>1, OthersType
  <2>3. view' \in [Clients -> SUBSET (0 .. IdSpace - 1)]
    BY <1>13, <2>2, ViewType DEF RemoveMember
  <2>4. nilMap' \in SUBSET Clients /\ pc' \in [Clients -> PC]
    BY <1>13, <2>1 DEF RemoveMember, TypeOK
  <2> HIDE DEF PC
  <2> QED
    BY <1>13, <2>1, <2>2, <2>3, <2>4 DEF RemoveMember, GetsLock, TypeOK, serverVars
<1>14. CASE RemoveChannel(c)
  BY <1>14 DEF RemoveChannel, Delisted, TypeOK, clientVars, objectVars, historyVars
<1>15. CASE Unregister(c)
  BY <1>15 DEF Unregister, TypeOK, clientVars, objectVars, historyVars
<1> QED
  BY <1>1, <1>2, <1>3, <1>4, <1>5, <1>6, <1>7, <1>8, <1>9, <1>10, <1>11,
     <1>12, <1>13, <1>14, <1>15 DEF Step, Join, Message, Leave

-----------------------------------------------------------------------------
\* How each step moves the reader that takes it, and only that one.
LEMMA OneReaderMoves ==
  ASSUME IInv, NEW c \in Clients, Step(c), NEW d \in Clients, d # c
  PROVE  /\ pc'[d] = pc[d] /\ cc'[d] = cc[d] /\ key'[d] = key[d]
         /\ channel'[d] = channel[d] /\ pending'[d] = pending[d]
         /\ id'[d] = id[d]
         /\ d \in announced' <=> d \in announced
         /\ params'[d] = params[d]
BY DEF IInv, TypeOK, Step, Join, Message, Leave, Accept, Close, AnnounceLock,
       FindChannel, AddMember, AddSameId, AddToNilMap, AddChannel, BeginRelay,
       RelayTo, EndRelay, Hangup, RemoveMember, RemoveChannel, Unregister,
       Goto, Enter, GetsLock, serverVars, clientVars, objectVars, readerVars,
       historyVars

\* The steps that can touch the variables below, by the place they start from.
LEMMA AnnouncedWantStep ==
  ASSUME IInv, NEW c \in Clients, Step(c)
  PROVE  AnnouncedWant'
<1>0. ASSUME NEW d \in announced', d # c
      PROVE  Wanted(d)' # None
  <2>1. d \in Clients
    BY <1>0, TypeStep DEF TypeOK
  <2>2. d \in announced
    BY <1>0, <2>1, OneReaderMoves
  <2>3. Wanted(d)' = Wanted(d)
    BY <1>0, <2>1, OneReaderMoves DEF Wanted
  <2> QED
    BY <2>2, <2>3 DEF IInv, AnnouncedWant
<1>1. SUFFICES ASSUME c \in announced' PROVE Wanted(c)' # None
  BY <1>0 DEF AnnouncedWant
<1>2. c \in announced => /\ pc[c] \in {"add", "leaving"}
                         /\ pc[c] = "leaving" => channel[c] # None
  BY DEF IInv, AnnouncedWant, Wanted
<1>3. AnnounceLock(c) \/ Close(c)
  BY <1>1, <1>2 DEF Step, Join, Message, Leave, Accept, FindChannel, AddMember,
     AddSameId, AddToNilMap, AddChannel, BeginRelay, RelayTo, EndRelay, Hangup,
     RemoveMember, RemoveChannel, Unregister, GetsLock, readerVars
<1>4. CASE AnnounceLock(c)
  BY <1>4 DEF AnnounceLock, Wanted, clientVars
<1>5. CASE Close(c)
  BY <1>1, <1>5 DEF Close, IInv, AnnouncedWant, Wanted, readerVars
<1> QED
  BY <1>3, <1>4, <1>5

\* The reader's own variables, and the channel objects.
LEMMA ReaderStateStep ==
  ASSUME IInv, NEW c \in Clients, Step(c)
  PROVE  ReaderState'
<1> USE RelayAssumption DEF Goto
<1> DEFINE R(d) == /\ pc[d] \in {"new", "add", "create", "quit", "unregister", "gone"}
                        => channel[d] = None
                   /\ pc[d] = "add" => cc[d] # None
                   /\ pc[d] = "create" => key[d] # None
                   /\ pc[d] = "relay" => channel[d] # None
                   /\ pending[d] # {} => pc[d] = "relay"
<1>1. R(c) /\ TypeOK /\ AnnouncedWant
  BY DEF IInv, ReaderState
<1>2. ASSUME R(c)'
      PROVE  ReaderState'
  BY <1>2, OneReaderMoves DEF ReaderState, IInv
<1>3. CASE Accept(c) \/ Close(c) \/ AnnounceLock(c)
  BY <1>1, <1>2, <1>3 DEF Accept, Close, AnnounceLock, TypeOK, serverVars, clientVars,
     objectVars, readerVars, historyVars
<1>4. CASE \E k \in JoinKeys : FindChannel(c, k)
  BY <1>1, <1>2, <1>4 DEF FindChannel, TypeOK, serverVars, clientVars
<1>5. CASE \E lost \in SUBSET MayLose : AddMember(c, lost) \/ AddChannel(c, lost)
  BY <1>1, <1>2, <1>5 DEF AddMember, AddChannel, Enter, TypeOK
<1>6. CASE AddSameId(c) \/ AddToNilMap(c)
  BY <1>1, <1>2, <1>6 DEF AddSameId, AddToNilMap, TypeOK
<1>7. CASE Message(c)
  BY <1>1, <1>2, <1>7 DEF Message, BeginRelay, RelayTo, EndRelay, TypeOK, clientVars
<1>8. CASE Hangup(c) \/ RemoveChannel(c) \/ Unregister(c)
  BY <1>1, <1>2, <1>8 DEF Hangup, RemoveChannel, Unregister, TypeOK, clientVars
<1>9. CASE \E lost \in SUBSET MayLose : RemoveMember(c, lost)
  BY <1>1, <1>2, <1>9 DEF RemoveMember, TypeOK
<1> QED
  BY <1>3, <1>4, <1>5, <1>6, <1>7, <1>8, <1>9 DEF Step, Join, Leave

-----------------------------------------------------------------------------
(***************************************************************************)
(* What any step does to the rosters: nothing, or one client enters one    *)
(* channel, or one client leaves one channel; and the last two only when   *)
(* nobody is relaying in that channel.                                     *)
(***************************************************************************)
Enters(c, ch) ==
  /\ pc[c] \in {"add", "create"}
  /\ channel[c] = None
  /\ ~Exists(ch, c)
  /\ ClientsAll' = [ClientsAll EXCEPT ![ch] = ClientsAll[ch] \cup {c}]
  /\ channel' = [channel EXCEPT ![c] = ch]

Leaves(c, ch) ==
  /\ pc[c] = "leaving"
  /\ channel[c] = ch
  /\ ClientsAll' = [ClientsAll EXCEPT ![ch] = ClientsAll[ch] \ {c}]
  /\ channel' = [channel EXCEPT ![c] = None]

\* The only member with a member's id is that member.
LEMMA SameIdOfMember ==
  ASSUME IInv, NEW ch \in Clients, NEW c \in ClientsAll[ch]
  PROVE  /\ SameId(ch, c) = {c}
         /\ Others(ch, c) = ClientsAll[ch] \ {c}
BY DEF IInv, DistinctIds, SameId, Others

\* Nobody is in a channel that its maker has yet to create.
LEMMA NewObject ==
  ASSUME IInv, NEW c \in Clients, pc[c] = "create"
  PROVE  channel[c] = None /\ ClientsAll[c] = {} /\ ~ReadLocked(c)
<1>1. channel[c] = None /\ params[c] = None
  BY DEF IInv, ReaderState, ObjectsMade
<1>2. ClientsAll[c] = {}
  BY <1>1 DEF IInv, ObjectsMade
<1>3. \A h \in Clients : channel[h] # c
  BY <1>2 DEF IInv, RosterMatchesPointers
<1> QED
  BY <1>1, <1>2, <1>3 DEF ReadLocked

LEMMA RosterChange ==
  ASSUME IInv, NEW c \in Clients, Step(c)
  PROVE  \/ UNCHANGED <<ClientsAll, channel>>
         \/ \E ch \in Clients : (Enters(c, ch) \/ Leaves(c, ch)) /\ ~ReadLocked(ch)
<1> TypeOK
  BY DEF IInv
<1>1. CASE \E lost \in SUBSET MayLose : AddMember(c, lost)
  <2>1. cc[c] \in Clients /\ channel[c] = None /\ ~ReadLocked(cc[c])
    BY <1>1 DEF AddMember, GetsLock, Wanted, IInv, ReaderState, TypeOK
  <2>2. Others(cc[c], c) = ClientsAll[cc[c]]
    BY <1>1 DEF AddMember, Others, Exists
  <2>3. Enters(c, cc[c])
    BY <1>1, <2>1, <2>2 DEF AddMember, Enter, Enters
  <2> QED
    BY <2>1, <2>3
<1>2. CASE \E lost \in SUBSET MayLose : AddChannel(c, lost)
  <2>1. channel[c] = None /\ ClientsAll[c] = {} /\ ~ReadLocked(c)
    BY <1>2, NewObject DEF AddChannel
  <2>2. Enters(c, c)
    BY <1>2, <2>1 DEF AddChannel, Enter, Enters, Exists, SameId
  <2> QED
    BY <2>1, <2>2
<1>3. CASE \E lost \in SUBSET MayLose : RemoveMember(c, lost)
  <2>1. channel[c] \in Clients /\ ~ReadLocked(channel[c])
    BY <1>3 DEF RemoveMember, GetsLock, Wanted, IInv, AnnouncedWant, TypeOK
  <2>2. c \in ClientsAll[channel[c]]
    BY <2>1 DEF IInv, RosterMatchesPointers
  <2>3. Leaves(c, channel[c])
    BY <1>3, <2>1, <2>2, SameIdOfMember DEF RemoveMember, Leaves
  <2> QED
    BY <2>1, <2>3
<1>4. ASSUME \A lost \in SUBSET MayLose :
               ~(AddMember(c, lost) \/ AddChannel(c, lost) \/ RemoveMember(c, lost))
      PROVE  UNCHANGED <<ClientsAll, channel>>
  BY <1>4 DEF Step, Join, Message, Leave, Accept, Close, AnnounceLock, FindChannel,
     AddSameId, AddToNilMap, BeginRelay, RelayTo, EndRelay, Hangup, RemoveChannel,
     Unregister, clientVars, objectVars
<1> QED
  BY <1>1, <1>2, <1>3, <1>4

\* The two records of membership keep agreeing.
LEMMA RosterStep ==
  ASSUME IInv, NEW c \in Clients, Step(c)
  PROVE  RosterMatchesPointers'
<1>1. CASE UNCHANGED <<ClientsAll, channel>>
  BY <1>1 DEF IInv, RosterMatchesPointers
<1>2. ASSUME NEW ch \in Clients, Enters(c, ch) \/ Leaves(c, ch)
      PROVE  RosterMatchesPointers'
  BY <1>2, RelayAssumption DEF Enters, Leaves, IInv, TypeOK, RosterMatchesPointers
<1> QED
  BY <1>1, <1>2, RosterChange

\* An id is given to a client that is in no channel, so that a repetition can
\* only come in by Add, which refuses it.
LEMMA DistinctIdsStep ==
  ASSUME IInv, NEW c \in Clients, Step(c)
  PROVE  DistinctIds'
<1> USE RelayAssumption
<1>1. CASE Accept(c)
  <2>1. \A ch \in Clients : c \notin ClientsAll[ch]
    BY <1>1 DEF Accept, IInv, ReaderState, RosterMatchesPointers
  <2> QED
    BY <1>1, <2>1, OneReaderMoves DEF Accept, IInv, TypeOK, DistinctIds, objectVars
<1>2. CASE ~Accept(c)
  <2>1. id' = id
    BY <1>2 DEF Step, Join, Message, Leave, Close, AnnounceLock, FindChannel,
       AddMember, AddSameId, AddToNilMap, AddChannel, BeginRelay, RelayTo, EndRelay,
       Hangup, RemoveMember, RemoveChannel, Unregister, clientVars
  <2>2. CASE UNCHANGED <<ClientsAll, channel>>
    BY <2>1, <2>2 DEF IInv, DistinctIds
  <2>3. ASSUME NEW ch \in Clients, Enters(c, ch)
        PROVE  DistinctIds'
    BY <2>1, <2>3 DEF Enters, Exists, SameId, IInv, TypeOK, DistinctIds
  <2>4. ASSUME NEW ch \in Clients, Leaves(c, ch)
        PROVE  DistinctIds'
    BY <2>1, <2>4 DEF Leaves, IInv, TypeOK, DistinctIds
  <2> QED
    BY <2>2, <2>3, <2>4, RosterChange
<1> QED
  BY <1>1, <1>2

\* Only a maker's AddChannel makes an object, and it comes with a member.
LEMMA ObjectsMadeStep ==
  ASSUME IInv, NEW c \in Clients, Step(c)
  PROVE  ObjectsMade'
<1> USE RelayAssumption
<1> TypeOK /\ TypeOK' /\ ReaderState /\ ObjectsMade
  BY TypeStep DEF IInv
<1>1. CASE \E lost \in SUBSET MayLose : AddChannel(c, lost)
  <2>1. key[c] # None /\ params[c] = None
    BY <1>1 DEF AddChannel, ReaderState, ObjectsMade
  <2>2. params'[c] # None /\ channel'[c] # None /\ pc'[c] = "reading"
    BY <1>1, <2>1 DEF AddChannel, Enter, Goto, TypeOK
  <2>3. \A d \in Clients \ {c} : /\ params'[d] = params[d] /\ pc'[d] = pc[d]
                                 /\ ClientsAll'[d] = ClientsAll[d]
                                 /\ channel'[d] = channel[d] /\ cc'[d] = cc[d]
    BY <1>1 DEF AddChannel, Enter, Goto, TypeOK
  <2>4. \A n \in Names : channels'[n] \in {channels[n], c}
    BY <1>1 DEF AddChannel, Listed, TypeOK
  <2>5. \A d \in Clients : params[d] # None => params'[d] # None
    BY <2>2, <2>3
  <2>6. \A n \in Names : channels'[n] # None => params'[channels'[n]] # None
    BY <2>2, <2>4, <2>5 DEF ObjectsMade, TypeOK
  <2>7. \A d \in Clients : pc'[d] = "add" => params'[cc'[d]] # None
    BY <2>2, <2>3, <2>5 DEF ObjectsMade, ReaderState, TypeOK
  <2> QED
    BY <2>2, <2>3, <2>6, <2>7 DEF ObjectsMade
<1>2. CASE \A lost \in SUBSET MayLose : ~AddChannel(c, lost)
  <2>1. params' = params /\ \A n \in Names : channels'[n] \in {channels[n], None}
    BY <1>2 DEF Step, Join, Message, Leave, Accept, Close, AnnounceLock, FindChannel,
       AddMember, AddSameId, AddToNilMap, BeginRelay, RelayTo, EndRelay, Hangup,
       RemoveMember, RemoveChannel, Unregister, Delisted, TypeOK,
       serverVars, objectVars
  <2>2. \A ch \in Clients : params[ch] = None => ClientsAll'[ch] = {}
    <3>1. CASE UNCHANGED <<ClientsAll, channel>>
      BY <3>1 DEF ObjectsMade
    <3>2. CASE \E lost \in SUBSET MayLose : AddMember(c, lost)
      BY <3>2 DEF AddMember, Enter, ObjectsMade, TypeOK
    <3>3. ASSUME NEW ch \in Clients, Leaves(c, ch)
          PROVE  \A o \in Clients : params[o] = None => ClientsAll'[o] = {}
      BY <3>3 DEF Leaves, ObjectsMade, TypeOK
    <3>4. (\E ch \in Clients : Enters(c, ch)) /\ ~UNCHANGED <<ClientsAll, channel>>
            => \E lost \in SUBSET MayLose : AddMember(c, lost)
      BY <1>2 DEF Enters, Step, Join, Message, Leave, Accept, Close, AnnounceLock,
         FindChannel, AddSameId, AddToNilMap, BeginRelay, RelayTo, EndRelay, Hangup,
         RemoveMember, RemoveChannel, Unregister, objectVars, clientVars
    <3> QED
      BY <3>1, <3>2, <3>3, <3>4, RosterChange
  <2>3. \/ channel'[c] # None
        \/ pc'[c] \in {"quit", "unregister", "gone"}
        \/ params[c] = None
    <3>1. CASE \E lost \in SUBSET MayLose : AddMember(c, lost)
      BY <3>1 DEF AddMember, Enter, TypeOK, ReaderState
    <3>2. CASE \E lost \in SUBSET MayLose : RemoveMember(c, lost)
      BY <3>2 DEF RemoveMember, Goto, TypeOK
    <3>3. CASE RemoveChannel(c) \/ Unregister(c)
      BY <3>3 DEF RemoveChannel, Unregister, Goto, TypeOK
    <3>4. CASE /\ channel' = channel
               /\ pc[c] \in {"quit", "unregister", "gone"} => pc' = pc
      BY <3>4 DEF ObjectsMade
    <3> QED
      BY <1>2, <3>1, <3>2, <3>3, <3>4 DEF Step, Join, Message, Leave, Accept, Close,
         AnnounceLock, FindChannel, AddSameId, AddToNilMap, BeginRelay, RelayTo,
         EndRelay, Hangup, clientVars, objectVars, readerVars
  <2>4. pc'[c] = "add" => params[cc'[c]] # None
    BY <1>2 DEF Step, Join, Message, Leave, Accept, Close, AnnounceLock, FindChannel,
       AddMember, AddSameId, AddToNilMap, BeginRelay, RelayTo, EndRelay, Hangup,
       RemoveMember, RemoveChannel, Unregister, Enter, Goto, TypeOK, ObjectsMade,
       readerVars
  <2>5. \A d \in Clients \ {c} :
          pc'[d] = pc[d] /\ channel'[d] = channel[d] /\ cc'[d] = cc[d]
    BY OneReaderMoves
  <2> QED
    BY <2>1, <2>2, <2>3, <2>4, <2>5 DEF ObjectsMade, TypeOK
<1> QED
  BY <1>1, <1>2

\* The invariant is inductive.
LEMMA IInvInit ==
  ASSUME Init
  PROVE  IInv
<1>0. 0 \in 0 .. IdSpace - 1
  BY RelayAssumption
<1>1. TypeOK
  BY <1>0 DEF Init, TypeOK, PC
<1>2. AnnouncedWant /\ ReaderState
  BY DEF Init, AnnouncedWant, ReaderState
<1>3. ObjectsMade
  BY DEF Init, ObjectsMade
<1>4. RosterMatchesPointers /\ DistinctIds
  BY RelayAssumption DEF Init, RosterMatchesPointers, DistinctIds
<1> QED
  BY <1>1, <1>2, <1>3, <1>4 DEF IInv

LEMMA IInvStep ==
  ASSUME IInv, [Next]_vars
  PROVE  IInv'
<1>1. CASE UNCHANGED vars
  BY <1>1 DEF vars, serverVars, clientVars, objectVars, readerVars, historyVars,
     IInv, TypeOK, AnnouncedWant, Wanted, ReaderState, ObjectsMade,
     RosterMatchesPointers, DistinctIds
<1>2. ASSUME NEW c \in Clients, Step(c)
      PROVE  IInv'
  BY <1>2, TypeStep, AnnouncedWantStep, ReaderStateStep, ObjectsMadeStep, RosterStep,
     DistinctIdsStep DEF IInv
<1> QED
  BY <1>1, <1>2 DEF Next

\* The inductive invariant: how the channels' maps, the clients' pointers, the ids and the
\* place of every reader stand to one another between any two critical sections.
THEOREM Invariance == Spec => []IInv
<1>1. Init => IInv
  BY IInvInit
<1>2. IInv /\ [Next]_vars => IInv'
  BY IInvStep
<1> QED
  BY <1>1, <1>2, PTL DEF Spec

\* Every variable keeps its type: in particular ids stay in the range of the
\* counter, and Remove is only ever called on a channel.
THEOREM TypeCorrect == Spec => []TypeOK
<1>1. IInv => TypeOK
  BY DEF IInv
<1> QED
  BY <1>1, Invariance, PTL

\* ClientsAll and Client.c never disagree outside the critical sections of Add
\* and Remove, for any number of clients and although ids are reused.
THEOREM RosterCorrect == Spec => []RosterMatchesPointers
<1>1. IInv => RosterMatchesPointers
  BY DEF IInv
<1> QED
  BY <1>1, Invariance, PTL

-----------------------------------------------------------------------------
\* Every member is registered: it follows from where its reader is.
LEMMA RegisteredStep ==
  ASSUME IInv, IInv', MembersAreRegistered, NEW c \in Clients, Step(c)
  PROVE  MembersAreRegistered'
<1> TypeOK /\ TypeOK'
  BY DEF IInv
<1>1. \A d \in Clients : pc'[d] \in PC \ {"new", "gone"} => d \in clients'
  <2>1. CASE Accept(c)
    BY <2>1 DEF Accept, Goto, MembersAreRegistered, TypeOK
  <2>2. CASE Unregister(c)
    BY <2>2 DEF Unregister, Goto, MembersAreRegistered, TypeOK
  <2>3. CASE ~Accept(c) /\ ~Unregister(c)
    <3>1. clients' = clients /\ pc[c] \notin {"new", "gone"}
      BY <2>3 DEF Step, Join, Message, Leave, Close, AnnounceLock, FindChannel,
         AddMember, AddSameId, AddToNilMap, AddChannel, BeginRelay, RelayTo, EndRelay,
         Hangup, RemoveMember, RemoveChannel, GetsLock, Wanted, IInv, AnnouncedWant,
         serverVars
    <3> QED
      BY <3>1, OneReaderMoves DEF MembersAreRegistered, TypeOK
  <2> QED
    BY <2>1, <2>2, <2>3
<1>2. \A ch, d \in Clients : d \in ClientsAll'[ch] => pc'[d] \in PC \ {"new", "gone"}
  BY RelayAssumption DEF IInv, TypeOK, ReaderState, RosterMatchesPointers
<1> QED
  BY <1>1, <1>2 DEF MembersAreRegistered, TypeOK

\* MessageReceived finds its client in the map, and every member of a channel
\* is in the map.
THEOREM RegistrationCorrect == Spec => []MembersAreRegistered
<1>1. Init => MembersAreRegistered
  BY DEF Init, MembersAreRegistered
<1>2. IInv /\ IInv' /\ MembersAreRegistered /\ [Next]_vars => MembersAreRegistered'
  <2>1. ASSUME MembersAreRegistered, UNCHANGED vars
        PROVE  MembersAreRegistered'
    BY <2>1 DEF vars, serverVars, objectVars, readerVars, MembersAreRegistered
  <2> QED
    BY <2>1, RegisteredStep DEF Next
<1> QED
  BY <1>1, <1>2, Invariance, PTL DEF Spec

-----------------------------------------------------------------------------
(***************************************************************************)
(* Relaying.  RInv needs the read lock: a channel's roster cannot change   *)
(* while a relay in it has recipients to reach.                            *)
(***************************************************************************)
RInv == RelayTargetsAreMembers /\ AloneNoticeIsTrue

\* A roster with at most one member holds nobody but a given member.
LEMMA OnlyMember ==
  ASSUME NEW S \in SUBSET Clients, NEW c \in S, Cardinality(S) <= 1
  PROVE  S = {c}
<1>1. IsFiniteSet(S)
  BY RelayAssumption, FS_Subset
<1>2. IsFiniteSet(S \ {c}) /\ Cardinality(S \ {c}) = Cardinality(S) - 1
  BY <1>1, FS_RemoveElement
<1>3. Cardinality(S \ {c}) \in Nat
  BY <1>2, FS_CardinalityType
<1>4. Cardinality(S) \in Nat
  BY <1>1, FS_CardinalityType
<1>5. Cardinality(S \ {c}) = 0
  BY <1>2, <1>3, <1>4
<1>6. S \ {c} = {}
  BY <1>2, <1>5, FS_EmptySet
<1> QED
  BY <1>6

LEMMA RInvStep ==
  ASSUME IInv, RInv, NEW c \in Clients, Step(c)
  PROVE  RInv'
<1> TypeOK
  BY DEF IInv
<1>1. ASSUME NEW json \in BOOLEAN, BeginRelay(c, json)
      PROVE  RInv'
  <2> DEFINE S == ClientsAll[channel[c]]
  <2>1. S \in SUBSET Clients /\ c \in S
    BY <1>1 DEF BeginRelay, IInv, RosterMatchesPointers, TypeOK
  <2>2. pending'[c] \in SUBSET S /\ (c \in pending'[c] => S = {c})
    <3>1. pending'[c] = Recipients(c, json)
      BY <1>1 DEF BeginRelay, TypeOK
    <3>2. Cardinality(S) <= 1 => S = {c}
      BY <2>1, OnlyMember
    <3> HIDE DEF S
    <3>3. Recipients(c, json) = IF json /\ Cardinality(S) <= 1 THEN {c} ELSE S \ {c}
      BY DEF Recipients, S
    <3> QED
      BY <2>1, <3>1, <3>2, <3>3
  <2>3. \A d \in Clients \ {c} : pending'[d] = pending[d]
    BY <1>1 DEF BeginRelay, TypeOK
  <2>4. UNCHANGED <<ClientsAll, channel>> /\ channel[c] # None
    BY <1>1 DEF BeginRelay, clientVars, objectVars
  <2> QED
    BY <2>1, <2>2, <2>3, <2>4 DEF RInv, RelayTargetsAreMembers, AloneNoticeIsTrue
<1>2. ASSUME NEW r \in Clients, RelayTo(c, r)
      PROVE  RInv'
  BY <1>2 DEF RelayTo, RInv, RelayTargetsAreMembers, AloneNoticeIsTrue, TypeOK,
     clientVars, objectVars
<1>3. CASE pending' = pending
  <2>1. CASE UNCHANGED <<ClientsAll, channel>>
    BY <1>3, <2>1 DEF RInv, RelayTargetsAreMembers, AloneNoticeIsTrue
  <2>2. ASSUME NEW ch \in Clients, Enters(c, ch) \/ Leaves(c, ch), ~ReadLocked(ch)
        PROVE  RInv'
    <3>1. ASSUME NEW d \in Clients, pending[d] # {}
          PROVE  d # c /\ channel[d] \in Clients \ {ch}
      BY <2>2, <3>1 DEF IInv, ReaderState, ReadLocked, Enters, Leaves, TypeOK
    <3>2. ASSUME NEW d \in Clients, pending[d] # {}
          PROVE  channel'[d] = channel[d] /\ ClientsAll'[channel[d]] = ClientsAll[channel[d]]
      BY <2>2, <3>1, <3>2 DEF Enters, Leaves, TypeOK
    <3> QED
      BY <1>3, <3>2 DEF RInv, RelayTargetsAreMembers, AloneNoticeIsTrue
  <2> QED
    BY <2>1, <2>2, RosterChange
<1>4. \/ \E json \in BOOLEAN : BeginRelay(c, json)
      \/ \E r \in Clients : RelayTo(c, r)
      \/ pending' = pending
  BY DEF Step, Join, Message, Leave, Accept, Close, AnnounceLock, FindChannel,
     AddMember, AddSameId, AddToNilMap, AddChannel, EndRelay, Hangup, RemoveMember,
     RemoveChannel, Unregister, readerVars
<1> QED
  BY <1>1, <1>2, <1>3, <1>4

\* SendAll and SendOthers only ever send to members, and tell a sender that it
\* is alone only while it is.
THEOREM RelayCorrect == Spec => [](RelayTargetsAreMembers /\ AloneNoticeIsTrue)
<1>1. Init => RInv
  BY DEF Init, RInv, RelayTargetsAreMembers, AloneNoticeIsTrue
<1>2. IInv /\ RInv /\ [Next]_vars => RInv'
  <2>1. ASSUME RInv, UNCHANGED vars
        PROVE  RInv'
    BY <2>1 DEF vars, clientVars, objectVars, readerVars, RInv,
       RelayTargetsAreMembers, AloneNoticeIsTrue
  <2> QED
    BY <2>1, RInvStep DEF Next
<1>3. RInv => RelayTargetsAreMembers /\ AloneNoticeIsTrue
  BY DEF RInv
<1> QED
  BY <1>1, <1>2, <1>3, Invariance, PTL DEF Spec

-----------------------------------------------------------------------------
\* A member leaves a roster only by its own Remove, never by another client's
\* Add or Remove, although both work by id.
THEOREM NobodyIsDisplaced == Spec => NobodyDisplaced
<1> DEFINE A == \A ch, c \in Clients :
                  c \in ClientsAll[ch] /\ c \notin ClientsAll'[ch] => pc[c] = "leaving"
<1>1. IInv /\ [Next]_vars => [A]_vars
  <2>1. ASSUME IInv, NEW d \in Clients, Step(d)
        PROVE  A
    <3>1. CASE UNCHANGED <<ClientsAll, channel>>
      BY <3>1
    <3>2. ASSUME NEW ch \in Clients, Enters(d, ch) \/ Leaves(d, ch)
          PROVE  A
      BY <2>1, <3>2 DEF Enters, Leaves, IInv, TypeOK
    <3> QED
      BY <2>1, <3>1, <3>2, RosterChange
  <2> QED
    BY <2>1 DEF Next
<1>2. Spec => [][A]_vars
  <2> HIDE DEF A
  <2> QED
    BY <1>1, Invariance, PTL DEF Spec
<1> QED
  BY <1>2 DEF NobodyDisplaced

-----------------------------------------------------------------------------
(***************************************************************************)
(* Views.  What the clients have been told follows the rosters because     *)
(* every change is announced inside the critical section that makes it,    *)
(* and because the ids of a roster are distinct.                           *)
(***************************************************************************)
\* Joining an existing channel or a new one: the roster is that of the others.
LEMMA ViewsJoin ==
  ASSUME IInv, ViewsAgree, NEW c \in Clients, NEW ch \in Clients,
         Enters(c, ch), ~Exists(ch, c), NEW lost \in SUBSET Clients,
         id' = id, lossy' = lossy \cup lost, ToldJoined(c, ClientsAll[ch], lost)
  PROVE  ViewsAgree'
<1> TypeOK
  BY DEF IInv
<1>1. \A d \in Clients \ {c} : channel'[d] = channel[d]
  BY DEF Enters, TypeOK
<1>2. channel'[c] = ch /\ c \notin ClientsAll[ch]
  BY RelayAssumption DEF Enters, IInv, RosterMatchesPointers, TypeOK
<1>3. ClientsAll'[ch] = ClientsAll[ch] \cup {c}
  BY DEF Enters, TypeOK
<1>4. ASSUME NEW d \in Clients, d \notin lossy', d # c, channel[d] = ch
      PROVE  view'[d] = {id[m] : m \in ClientsAll'[ch] \ {d}}
  <2>1. d \in ClientsAll[ch] /\ d \notin lost
    BY <1>4 DEF IInv, RosterMatchesPointers
  <2>2. view[d] = {id[m] : m \in ClientsAll[ch] \ {d}}
    BY <1>4, RelayAssumption DEF ViewsAgree, Ids
  <2>3. view'[d] = view[d] \cup {id[c]}
    BY <1>4, <2>1 DEF ToldJoined
  <2> QED
    BY <1>3, <1>4, <2>2, <2>3
<1>5. ASSUME NEW d \in Clients, d \notin lossy', d # c, channel[d] \notin {ch, None}
      PROVE  view'[d] = {id[m] : m \in ClientsAll'[channel[d]] \ {d}}
  <2>1. d \notin ClientsAll[ch] \cup {c}
    BY <1>5 DEF IInv, RosterMatchesPointers
  <2>2. view'[d] = view[d]
    BY <1>5, <2>1 DEF ToldJoined
  <2>3. ClientsAll'[channel[d]] = ClientsAll[channel[d]]
    BY <1>5 DEF Enters, TypeOK
  <2> QED
    BY <1>5, <2>2, <2>3 DEF ViewsAgree, Ids
<1>6. c \notin lossy' => view'[c] = {id[m] : m \in ClientsAll'[ch] \ {c}}
  <2>1. c \notin lossy' => view'[c] = {id[m] : m \in ClientsAll[ch]}
    BY DEF ToldJoined, Ids
  <2>2. ClientsAll'[ch] \ {c} = ClientsAll[ch]
    BY <1>2, <1>3
  <2> QED
    BY <2>1, <2>2
<1> QED
  BY <1>1, <1>2, <1>4, <1>5, <1>6 DEF ViewsAgree, Ids

LEMMA ViewsLeave ==
  ASSUME IInv, ViewsAgree, NEW c \in Clients, NEW ch \in Clients,
         Leaves(c, ch), NEW lost \in SUBSET Clients,
         id' = id, lossy' = lossy \cup lost, ToldLeft(c, ClientsAll[ch] \ {c}, lost)
  PROVE  ViewsAgree'
<1> TypeOK
  BY DEF IInv
<1>1. channel'[c] = None /\ \A d \in Clients \ {c} : channel'[d] = channel[d]
  BY DEF Leaves, TypeOK
<1>2. c \in ClientsAll[ch] /\ ClientsAll'[ch] = ClientsAll[ch] \ {c}
  BY DEF Leaves, IInv, RosterMatchesPointers, TypeOK
<1>3. ASSUME NEW d \in Clients, d \notin lossy', d # c, channel[d] = ch
      PROVE  view'[d] = {id[m] : m \in ClientsAll'[ch] \ {d}}
  <2>1. d \in ClientsAll[ch] /\ d \notin lost
    BY <1>3 DEF IInv, RosterMatchesPointers
  <2>2. view[d] = {id[m] : m \in ClientsAll[ch] \ {d}}
    BY <1>3, RelayAssumption DEF ViewsAgree, Ids
  <2>3. view'[d] = view[d] \ {id[c]}
    BY <1>3, <2>1 DEF ToldLeft
  <2>4. \A m \in ClientsAll[ch] : id[m] = id[c] => m = c
    BY <1>2 DEF IInv, DistinctIds
  <2> QED
    BY <1>2, <1>3, <2>2, <2>3, <2>4
<1>4. ASSUME NEW d \in Clients, d \notin lossy', d # c, channel[d] \notin {ch, None}
      PROVE  view'[d] = {id[m] : m \in ClientsAll'[channel[d]] \ {d}}
  <2>1. d \notin ClientsAll[ch]
    BY <1>4 DEF IInv, RosterMatchesPointers
  <2>2. view'[d] = view[d]
    BY <1>4, <2>1 DEF ToldLeft
  <2>3. ClientsAll'[channel[d]] = ClientsAll[channel[d]]
    BY <1>4 DEF Leaves, TypeOK
  <2> QED
    BY <1>4, <2>2, <2>3 DEF ViewsAgree, Ids
<1> QED
  BY <1>1, <1>3, <1>4 DEF ViewsAgree, Ids

LEMMA ViewsStep ==
  ASSUME IInv, ViewsAgree, NEW c \in Clients, Step(c)
  PROVE  ViewsAgree'
<1> TypeOK
  BY DEF IInv
<1>1. CASE Accept(c)
  <2>1. \A ch \in Clients : c \notin ClientsAll[ch]
    BY <1>1, RelayAssumption DEF Accept, IInv, ReaderState, RosterMatchesPointers
  <2>2. \A d \in Clients \ {c} : id'[d] = id[d]
    BY <1>1, OneReaderMoves
  <2>3. UNCHANGED <<channel, ClientsAll, view, lossy>>
    BY <1>1 DEF Accept, objectVars, historyVars
  <2>4. ASSUME NEW d \in Clients, channel[d] # None, d \notin lossy
        PROVE  view[d] = {id'[m] : m \in ClientsAll[channel[d]] \ {d}}
    <3>1. view[d] = {id[m] : m \in ClientsAll[channel[d]] \ {d}}
      BY <2>4 DEF ViewsAgree, Ids
    <3>2. channel[d] \in Clients
      BY <2>4 DEF TypeOK
    <3>3. \A m \in ClientsAll[channel[d]] : id'[m] = id[m]
      BY <2>1, <2>2, <3>2 DEF TypeOK
    <3> QED
      BY <3>1, <3>3
  <2> QED
    BY <2>3, <2>4 DEF ViewsAgree, Ids
<1>2. ASSUME NEW lost \in SUBSET MayLose, AddMember(c, lost)
      PROVE  ViewsAgree'
  <2>1. cc[c] \in Clients /\ channel[c] = None
    BY <1>2 DEF AddMember, IInv, ReaderState, TypeOK
  <2>2. Others(cc[c], c) = ClientsAll[cc[c]] /\ ~Exists(cc[c], c)
    BY <1>2 DEF AddMember, Others, Exists
  <2>3. Enters(c, cc[c]) /\ ToldJoined(c, ClientsAll[cc[c]], lost)
    BY <1>2, <2>1, <2>2 DEF AddMember, Enter, Enters
  <2>4. id' = id /\ lossy' = lossy \cup lost /\ lost \in SUBSET Clients
    BY <1>2, RelayAssumption DEF AddMember, Enter
  <2> QED
    BY <2>1, <2>2, <2>3, <2>4, ViewsJoin
<1>3. ASSUME NEW lost \in SUBSET MayLose, AddChannel(c, lost)
      PROVE  ViewsAgree'
  <2>1. channel[c] = None /\ ClientsAll[c] = {} /\ ~Exists(c, c)
    BY <1>3, NewObject DEF AddChannel, Exists, SameId
  <2>2. Enters(c, c) /\ ToldJoined(c, ClientsAll[c], lost)
    BY <1>3, <2>1 DEF AddChannel, Enter, Enters
  <2>3. id' = id /\ lossy' = lossy \cup lost /\ lost \in SUBSET Clients
    BY <1>3, RelayAssumption DEF AddChannel, Enter
  <2> QED
    BY <2>1, <2>2, <2>3, ViewsJoin
<1>4. ASSUME NEW lost \in SUBSET MayLose, RemoveMember(c, lost)
      PROVE  ViewsAgree'
  <2>1. channel[c] \in Clients
    BY <1>4 DEF RemoveMember, GetsLock, Wanted, IInv, AnnouncedWant, TypeOK
  <2>2. Others(channel[c], c) = ClientsAll[channel[c]] \ {c}
    BY <2>1, SameIdOfMember DEF IInv, RosterMatchesPointers
  <2>3. Leaves(c, channel[c]) /\ ToldLeft(c, ClientsAll[channel[c]] \ {c}, lost)
    BY <1>4, <2>1, <2>2 DEF RemoveMember, Leaves
  <2>4. id' = id /\ lossy' = lossy \cup lost /\ lost \in SUBSET Clients
    BY <1>4, RelayAssumption DEF RemoveMember
  <2> QED
    BY <2>1, <2>3, <2>4, ViewsLeave
<1>5. \/ Accept(c)
      \/ \E lost \in SUBSET MayLose :
           AddMember(c, lost) \/ AddChannel(c, lost) \/ RemoveMember(c, lost)
      \/ UNCHANGED <<id, channel, ClientsAll, view, lossy>>
  BY DEF Step, Join, Message, Leave, Close, AnnounceLock, FindChannel, AddSameId,
     AddToNilMap, BeginRelay, RelayTo, EndRelay, Hangup, RemoveChannel, Unregister,
     clientVars, objectVars, historyVars
<1>6. CASE UNCHANGED <<id, channel, ClientsAll, view, lossy>>
  BY <1>6 DEF ViewsAgree, Ids
<1> QED
  BY <1>1, <1>2, <1>3, <1>4, <1>5, <1>6

\* channel_joined, client_joined and client_left keep every client that loses
\* none of them informed of exactly the other members of its channel.
THEOREM ViewsCorrect == Spec => []ViewsAgree
<1>1. Init => ViewsAgree
  BY DEF Init, ViewsAgree
<1>2. IInv /\ ViewsAgree /\ [Next]_vars => ViewsAgree'
  <2>1. ASSUME ViewsAgree, UNCHANGED vars
        PROVE  ViewsAgree'
    BY <2>1 DEF vars, clientVars, objectVars, historyVars, ViewsAgree, Ids
  <2> QED
    BY <2>1, ViewsStep DEF Next
<1> QED
  BY <1>1, <1>2, Invariance, PTL DEF Spec

-----------------------------------------------------------------------------
(***************************************************************************)
(* Authorization.  It is worked out from the key of the last join before   *)
(* the client is entered; while the client is a member that key does not   *)
(* change, and neither does the channel's object.                          *)
(***************************************************************************)
AInv ==
  \A c \in Clients :
    /\ pc[c] = "add" => key[c] # None
    /\ channel[c] # None => /\ key[c] # None
                            /\ c \in auth <=> Authorized(channel[c], key[c])

\* The object of a channel somebody is in keeps its parameters.
LEMMA ParamsKept ==
  ASSUME IInv, NEW c \in Clients, Step(c), NEW d \in Clients, channel[d] # None
  PROVE  channel[d] \in Clients /\ params'[channel[d]] = params[channel[d]]
<1>1. channel[d] \in Clients
  BY DEF IInv, TypeOK
<1>2. CASE \E lost \in SUBSET MayLose : AddChannel(c, lost)
  <2>1. ClientsAll[c] = {}
    BY <1>2, NewObject DEF AddChannel
  <2>2. channel[d] # c
    BY <1>1, <2>1 DEF IInv, RosterMatchesPointers
  <2> QED
    BY <1>1, <2>2, OneReaderMoves
<1>3. CASE \A lost \in SUBSET MayLose : ~AddChannel(c, lost)
  <2>1. params' = params
    BY <1>3 DEF Step, Join, Message, Leave, Accept, Close, AnnounceLock, FindChannel,
       AddMember, AddSameId, AddToNilMap, BeginRelay, RelayTo, EndRelay, Hangup,
       RemoveMember, RemoveChannel, Unregister, objectVars
  <2> QED
    BY <1>1, <2>1
<1> QED
  BY <1>1, <1>2, <1>3

LEMMA AuthStep ==
  ASSUME IInv, AInv, NEW c \in Clients, Step(c)
  PROVE  AInv'
<1> USE RelayAssumption DEF Goto
<1> DEFINE A(d) == /\ pc[d] = "add" => key[d] # None
                   /\ channel[d] # None => /\ key[d] # None
                                           /\ d \in auth <=> Authorized(channel[d], key[d])
<1>0. TypeOK /\ A(c)
  BY DEF IInv, AInv
\* The others.
<1>1. ASSUME NEW d \in Clients, d # c
      PROVE  A(d)'
  <2>1. d \in auth' <=> d \in auth
    BY <1>1 DEF Step, Join, Message, Leave, Accept, Close, AnnounceLock, FindChannel,
       AddMember, AddSameId, AddToNilMap, AddChannel, SetAuthorized, BeginRelay, RelayTo,
       EndRelay, Hangup, RemoveMember, RemoveChannel, Unregister, clientVars
  <2>2. pc'[d] = pc[d] /\ key'[d] = key[d] /\ channel'[d] = channel[d]
    BY <1>1, OneReaderMoves
  <2>3. channel[d] # None => params'[channel[d]] = params[channel[d]]
    BY ParamsKept
  <2> QED
    BY <2>1, <2>2, <2>3 DEF AInv, Authorized
\* The client that takes the step.
<1> SUFFICES A(c)'
  BY <1>1 DEF AInv
<1>2. CASE \E lost \in SUBSET MayLose : AddMember(c, lost)
  <2>1. cc[c] \in Clients /\ key'[c] = key[c] /\ key[c] # None /\ params' = params
    BY <1>0, <1>2 DEF AddMember, IInv, ReaderState, TypeOK
  <2>2. channel'[c] = cc[c] /\ pc'[c] = "reading"
    BY <1>0, <1>2 DEF AddMember, Enter, TypeOK
  <2>3. c \in auth' <=> Authorized(cc[c], key[c])
    BY <1>2 DEF AddMember, SetAuthorized
  <2> QED
    BY <2>1, <2>2, <2>3 DEF Authorized
<1>3. CASE \E lost \in SUBSET MayLose : AddChannel(c, lost)
  <2>1. key[c] # None /\ key'[c] = key[c] /\ params'[c] = key[c]
    BY <1>0, <1>3 DEF AddChannel, IInv, ReaderState, TypeOK
  <2>2. channel'[c] = c /\ pc'[c] = "reading"
    BY <1>0, <1>3 DEF AddChannel, Enter, TypeOK
  <2>3. c \in auth' <=> (key[c].locked => key[c].password # NoPassword)
    BY <1>3 DEF AddChannel, SetAuthorized
  <2> QED
    BY <2>1, <2>2, <2>3 DEF Authorized
<1>4. ASSUME NEW lost \in SUBSET MayLose, RemoveMember(c, lost)
      PROVE  A(c)'
  BY <1>0, <1>4 DEF RemoveMember, TypeOK
<1>5. CASE \E k \in JoinKeys : FindChannel(c, k)
  BY <1>0, <1>5 DEF FindChannel, TypeOK, clientVars
<1>6. CASE AddSameId(c) \/ AddToNilMap(c)
  BY <1>0, <1>6 DEF AddSameId, AddToNilMap, IInv, ReaderState, TypeOK
<1>7. CASE \/ Accept(c) \/ Close(c) \/ AnnounceLock(c) \/ Message(c)
           \/ Hangup(c) \/ RemoveChannel(c) \/ Unregister(c)
  <2>1. auth' = auth /\ channel' = channel /\ key' = key /\ (pc'[c] = "add" => pc[c] = "add")
    BY <1>0, <1>7 DEF Message, Accept, Close, AnnounceLock, BeginRelay, RelayTo, EndRelay,
       Hangup, RemoveChannel, Unregister, clientVars, readerVars, TypeOK
  <2> QED
    BY <1>0, <2>1, <1>7, ParamsKept DEF Authorized
<1> QED
  BY <1>2, <1>3, <1>4, <1>5, <1>6, <1>7 DEF Step, Join, Leave

\* What authorization stands for, and what Lmotd says of it.
LEMMA AuthMeaning ==
  ASSUME IInv, AInv
  PROVE  AuthorizedGavePassword
<1> USE RelayAssumption
<1> SUFFICES ASSUME NEW c \in Clients, channel[c] # None
             PROVE  LET ch == channel[c]
                    IN /\ c \in auth <=> \/ ~params[ch].locked
                                         \/ /\ key[c].password = params[ch].password
                                            /\ key[c].password \in Passwords
                       /\ \A ctype \in {"master", "slave"} :
                            Lmotd(ctype, ch, key[c]) =
                              IF ~params[ch].locked THEN {}
                              ELSE IF c \in auth THEN {"granted"} ELSE {"refused"}
  BY DEF AuthorizedGavePassword
<1> DEFINE ch == channel[c]
           given == key[c].password
           wanted == params[ch].password
<1>1. ch \in Clients /\ params[ch] \in JoinKeys /\ key[c] \in JoinKeys
  <2>1. ch \in Clients /\ c \in ClientsAll[ch]
    BY DEF IInv, TypeOK, RosterMatchesPointers
  <2> QED
    BY <2>1 DEF IInv, TypeOK, ObjectsMade, AInv
<1>2. given \in Passwords \cup {NoPassword}
  BY <1>1
<1>3. c \in auth <=> (params[ch].locked => given = wanted /\ wanted # NoPassword)
  BY DEF AInv, Authorized
<1>4. params[ch].locked \in BOOLEAN
  BY <1>1
<1>5. Lmotd("slave", ch, key[c]) =
        IF ~params[ch].locked THEN {} ELSE IF c \in auth THEN {"granted"} ELSE {"refused"}
  BY <1>3, <1>4 DEF Lmotd
<1>6. Lmotd("master", ch, key[c]) =
        IF ~params[ch].locked THEN {} ELSE IF c \in auth THEN {"granted"} ELSE {"refused"}
  BY <1>3, <1>4 DEF Lmotd
<1> QED
  BY <1>2, <1>3, <1>4, <1>5, <1>6

\* A member is authorized exactly if its channel is open or it gave the creator's
\* password, which is not empty; and the message of the day told it so.
THEOREM AuthorizationCorrect == Spec => []AuthorizedGavePassword
<1>1. Init => AInv
  BY DEF Init, AInv
<1>2. IInv /\ AInv /\ [Next]_vars => AInv'
  <2>1. ASSUME AInv, UNCHANGED vars
        PROVE  AInv'
    BY <2>1 DEF vars, clientVars, objectVars, readerVars, AInv, Authorized
  <2> QED
    BY <2>1, AuthStep DEF Next
<1> QED
  BY <1>1, <1>2, AuthMeaning, Invariance, PTL DEF Spec

-----------------------------------------------------------------------------
(***************************************************************************)
(* The channel map.  An entry is made by AddChannel under the name of its  *)
(* object, and deleted by whoever quits an object of that name; an object  *)
(* that has been quit is empty for good.                                   *)
(***************************************************************************)
\* The entry of a name leads to an object of that name.
NamesMatch ==
  \A n \in Names : channels[n] # None => params[channels[n]].name = n

\* What quitLocked leaves behind.
QuitIsEmpty ==
  /\ \A c \in Clients : pc[c] = "quit" => cc[c] \in nilMap
  /\ \A ch \in nilMap : ClientsAll[ch] = {} /\ params[ch] # None

\* An object that is the only one of its name is listed until it is quit.
SoleObjectIsListed ==
  \A ch \in Clients :
    /\ params[ch] # None
    /\ ch \notin nilMap
    /\ \A o \in Clients : params[o] # None /\ params[o].name = params[ch].name => o = ch
    => channels[params[ch].name] = ch

LInv == NamesMatch /\ QuitIsEmpty /\ SoleObjectIsListed /\ NoLeakedChannel

\* A name is a name.
LEMMA ObjectName ==
  ASSUME TypeOK, NEW ch \in Clients, params[ch] # None
  PROVE  params[ch].name \in Names
BY RelayAssumption DEF TypeOK

\* A member joins an object that exists: only its roster changes.
LEMMA LAddMember ==
  ASSUME IInv, LInv, NEW c \in Clients, NEW lost \in SUBSET MayLose, AddMember(c, lost)
  PROVE  LInv'
<1> TypeOK
  BY DEF IInv
<1>1. cc[c] \in Clients \ nilMap /\ pc[c] = "add"
  BY DEF AddMember, IInv, ReaderState, TypeOK
<1>2. UNCHANGED <<channels, params, nilMap>>
  BY DEF AddMember, serverVars
<1>3. /\ \A ch \in Clients \ {cc[c]} : ClientsAll'[ch] = ClientsAll[ch]
      /\ ClientsAll'[cc[c]] # {}
  BY <1>1 DEF AddMember, Enter, TypeOK
<1>4. \A d \in Clients : /\ pc'[d] = "quit" <=> pc[d] = "quit"
                         /\ pc[d] = "quit" => cc'[d] = cc[d]
  BY <1>1 DEF AddMember, Enter, Goto, TypeOK
<1>5. NamesMatch' /\ SoleObjectIsListed'
  BY <1>2 DEF LInv, NamesMatch, SoleObjectIsListed
<1>6. QuitIsEmpty'
  BY <1>1, <1>2, <1>3, <1>4 DEF LInv, QuitIsEmpty, TypeOK
<1>7. NoLeakedChannel'
  BY <1>2, <1>3, <1>4, RelayAssumption DEF LInv, NoLeakedChannel, TypeOK
<1> QED
  BY <1>5, <1>6, <1>7 DEF LInv

\* A new object is listed under its name, over whatever was there.
LEMMA LAddChannel ==
  ASSUME IInv, LInv, NEW c \in Clients, NEW lost \in SUBSET MayLose, AddChannel(c, lost)
  PROVE  LInv'
<1> USE RelayAssumption
<1> TypeOK
  BY DEF IInv
<1>1. pc[c] = "create" /\ key[c] # None /\ params[c] = None /\ c \notin nilMap
  BY DEF AddChannel, IInv, ReaderState, ObjectsMade, LInv, QuitIsEmpty
<1>2. key[c] \in JoinKeys /\ key[c].name \in Names
  BY <1>1 DEF TypeOK
<1>3. /\ params'[c] = key[c]
      /\ \A ch \in Clients \ {c} : params'[ch] = params[ch]
      /\ nilMap' = nilMap
  BY DEF AddChannel, TypeOK
<1>4. /\ channels'[key[c].name] = c
      /\ \A n \in Names \ {key[c].name} : channels'[n] = channels[n]
  BY <1>2 DEF AddChannel, Listed, TypeOK
<1>5. /\ ClientsAll'[c] # {}
      /\ \A ch \in Clients \ {c} : ClientsAll'[ch] = ClientsAll[ch]
  BY DEF AddChannel, Enter, TypeOK
<1>6. \A d \in Clients : /\ pc'[d] = "quit" <=> pc[d] = "quit"
                         /\ pc[d] = "quit" => cc'[d] = cc[d]
  BY <1>1 DEF AddChannel, Enter, Goto, TypeOK
<1>7. NamesMatch'
  <2> SUFFICES ASSUME NEW n \in Names, channels'[n] # None
               PROVE  params'[channels'[n]].name = n
    BY DEF NamesMatch
  <2>1. CASE n = key[c].name
    BY <2>1, <1>3, <1>4
  <2>2. CASE n # key[c].name
    <3>1. channels'[n] = channels[n] /\ channels[n] \in Clients
      BY <2>2, <1>4 DEF TypeOK
    <3>2. channels[n] # c
      BY <3>1, <1>1 DEF IInv, ObjectsMade
    <3> QED
      BY <3>1, <3>2, <1>3 DEF LInv, NamesMatch
  <2> QED
    BY <2>1, <2>2
<1>8. QuitIsEmpty'
  BY <1>1, <1>3, <1>5, <1>6 DEF LInv, QuitIsEmpty, TypeOK
<1>9. SoleObjectIsListed'
  <2> SUFFICES ASSUME NEW ch \in Clients, params'[ch] # None, ch \notin nilMap',
                      \A o \in Clients : params'[o] # None /\ params'[o].name = params'[ch].name
                                           => o = ch
               PROVE  channels'[params'[ch].name] = ch
    BY DEF SoleObjectIsListed
  <2>1. CASE ch = c
    BY <2>1, <1>3, <1>4
  <2>2. CASE ch # c
    <3>1. params'[ch] = params[ch] /\ params[ch].name # key[c].name
      BY <2>2, <1>1, <1>3
    <3>2. \A o \in Clients : params[o] # None /\ params[o].name = params[ch].name => o = ch
      BY <3>1, <1>1, <1>3
    <3>3. channels[params[ch].name] = ch
      BY <3>1, <3>2, <1>3 DEF LInv, SoleObjectIsListed
    <3> QED
      BY <3>1, <3>3, <1>4, ObjectName
  <2> QED
    BY <2>1, <2>2
<1>10. NoLeakedChannel'
  <2> SUFFICES ASSUME NEW n \in Names, channels'[n] # None, ClientsAll'[channels'[n]] = {}
               PROVE  \E d \in Clients : pc'[d] = "quit" /\ params'[cc'[d]].name = n
    BY DEF NoLeakedChannel
  <2>1. n # key[c].name /\ channels'[n] = channels[n]
    BY <1>4, <1>5
  <2>2. channels[n] \in Clients \ {c}
    BY <2>1, <1>1 DEF IInv, ObjectsMade, TypeOK
  <2>3. PICK d \in Clients : pc[d] = "quit" /\ params[cc[d]].name = n
    BY <2>1, <2>2, <1>5 DEF LInv, NoLeakedChannel
  <2>4. cc[d] \in Clients \ {c}
    BY <2>3, <1>1 DEF LInv, QuitIsEmpty, TypeOK
  <2> QED
    BY <2>3, <2>4, <1>3, <1>6
<1> QED
  BY <1>7, <1>8, <1>9, <1>10 DEF LInv

\* The last member's leave turns the object into one that is being quit.
LEMMA LRemoveMember ==
  ASSUME IInv, LInv, NEW c \in Clients, NEW lost \in SUBSET MayLose, RemoveMember(c, lost)
  PROVE  LInv'
<1> USE RelayAssumption
<1> TypeOK
  BY DEF IInv
<1> DEFINE ch == channel[c]
           rest == Others(ch, c)
<1>1. ch \in Clients /\ c \in ClientsAll[ch] /\ params[ch] # None /\ pc[c] = "leaving"
  BY DEF RemoveMember, GetsLock, Wanted, IInv, AnnouncedWant, RosterMatchesPointers,
     ObjectsMade, TypeOK
<1>2. ch \notin nilMap
  BY <1>1 DEF LInv, QuitIsEmpty
<1>3. UNCHANGED <<channels, params>>
  BY DEF RemoveMember, serverVars
<1>4. /\ ClientsAll'[ch] = rest
      /\ \A o \in Clients \ {ch} : ClientsAll'[o] = ClientsAll[o]
  BY <1>1 DEF RemoveMember, TypeOK
<1>5. \A d \in Clients \ {c} : pc'[d] = pc[d] /\ cc'[d] = cc[d]
  BY DEF RemoveMember, Goto, TypeOK
<1>6. /\ cc'[c] = ch
      /\ \/ rest # {} /\ pc'[c] = "unregister" /\ nilMap' = nilMap
         \/ rest = {} /\ pc'[c] = "quit" /\ nilMap' = nilMap \cup {ch}
  BY DEF RemoveMember, Goto, TypeOK
<1> HIDE DEF rest
<1>7. NamesMatch'
  BY <1>3 DEF LInv, NamesMatch
<1>8. QuitIsEmpty'
  <2>1. \A o \in nilMap' : ClientsAll'[o] = {} /\ params'[o] # None
    BY <1>1, <1>2, <1>3, <1>4, <1>6 DEF LInv, QuitIsEmpty, TypeOK
  <2>2. \A d \in Clients : pc'[d] = "quit" => cc'[d] \in nilMap'
    BY <1>5, <1>6 DEF LInv, QuitIsEmpty
  <2> QED
    BY <2>1, <2>2 DEF QuitIsEmpty
<1>9. SoleObjectIsListed'
  BY <1>3, <1>6 DEF LInv, SoleObjectIsListed
<1>10. NoLeakedChannel'
  <2> SUFFICES ASSUME NEW n \in Names, channels[n] # None, ClientsAll'[channels[n]] = {}
               PROVE  \E d \in Clients : pc'[d] = "quit" /\ params[cc'[d]].name = n
    BY <1>3 DEF NoLeakedChannel
  <2>1. channels[n] \in Clients
    BY DEF TypeOK
  <2>2. CASE channels[n] = ch
    <3>1. pc'[c] = "quit" /\ cc'[c] = ch
      BY <2>2, <1>4, <1>6
    <3> QED
      BY <2>2, <3>1 DEF LInv, NamesMatch
  <2>3. CASE channels[n] # ch
    <3>1. PICK d \in Clients : pc[d] = "quit" /\ params[cc[d]].name = n
      BY <2>1, <2>3, <1>4 DEF LInv, NoLeakedChannel
    <3> QED
      BY <3>1, <1>1, <1>5
  <2> QED
    BY <2>2, <2>3
<1> QED
  BY <1>7, <1>8, <1>9, <1>10 DEF LInv

\* The entry that RemoveChannel deletes leads to the object that has been quit,
\* or to another object of the same name.
LEMMA LRemoveChannel ==
  ASSUME IInv, LInv, NEW c \in Clients, RemoveChannel(c)
  PROVE  LInv'
<1> USE RelayAssumption
<1> TypeOK
  BY DEF IInv
<1> DEFINE ch == cc[c]
           name == params[ch].name
<1>1. ch \in nilMap /\ ch \in Clients /\ params[ch] # None
  BY DEF RemoveChannel, LInv, QuitIsEmpty, TypeOK
<1>2. name \in Names
  BY <1>1, ObjectName
<1>3. UNCHANGED <<params, ClientsAll, nilMap, cc>>
  BY DEF RemoveChannel, objectVars
<1>4. /\ channels'[name] = None
      /\ \A n \in Names \ {name} : channels'[n] = channels[n]
  BY <1>2 DEF RemoveChannel, Delisted, TypeOK
<1>5. pc[c] = "quit" /\ \A d \in Clients : pc'[d] = "quit" <=> pc[d] = "quit" /\ d # c
  BY DEF RemoveChannel, Goto, TypeOK
<1> HIDE DEF name
<1>6. NamesMatch'
  BY <1>3, <1>4 DEF LInv, NamesMatch
<1>7. QuitIsEmpty'
  BY <1>3, <1>5 DEF LInv, QuitIsEmpty
<1>8. SoleObjectIsListed'
  <2> SUFFICES ASSUME NEW o \in Clients, params[o] # None, o \notin nilMap,
                      \A p \in Clients : params[p] # None /\ params[p].name = params[o].name
                                           => p = o
               PROVE  channels'[params[o].name] = o
    BY <1>3 DEF SoleObjectIsListed
  <2>1. params[o].name # name /\ params[o].name \in Names
    BY <1>1, ObjectName DEF name
  <2>2. channels[params[o].name] = o
    BY DEF LInv, SoleObjectIsListed
  <2> QED
    BY <2>1, <2>2, <1>4
<1>9. NoLeakedChannel'
  <2> SUFFICES ASSUME NEW n \in Names, channels'[n] # None, ClientsAll[channels'[n]] = {}
               PROVE  \E d \in Clients : pc'[d] = "quit" /\ params[cc[d]].name = n
    BY <1>3 DEF NoLeakedChannel
  <2>1. n # name /\ channels'[n] = channels[n]
    BY <1>4
  <2>2. PICK d \in Clients : pc[d] = "quit" /\ params[cc[d]].name = n
    BY <2>1 DEF LInv, NoLeakedChannel
  <2> QED
    BY <2>1, <2>2, <1>5 DEF name
<1> QED
  BY <1>6, <1>7, <1>8, <1>9 DEF LInv

LEMMA LInvStep ==
  ASSUME IInv, LInv, NEW c \in Clients, Step(c)
  PROVE  LInv'
<1> TypeOK
  BY DEF IInv
<1>1. \/ \E lost \in SUBSET MayLose :
           AddMember(c, lost) \/ AddChannel(c, lost) \/ RemoveMember(c, lost)
      \/ RemoveChannel(c)
      \/ /\ UNCHANGED <<channels, params, ClientsAll, nilMap>>
         /\ \A d \in Clients : /\ pc'[d] = "quit" <=> pc[d] = "quit"
                               /\ pc[d] = "quit" => cc'[d] = cc[d]
  BY DEF Step, Join, Message, Leave, Accept, Close, AnnounceLock, FindChannel, AddSameId,
     AddToNilMap, BeginRelay, RelayTo, EndRelay, Hangup, Unregister, Goto, TypeOK,
     serverVars, objectVars, readerVars
<1>2. CASE /\ UNCHANGED <<channels, params, ClientsAll, nilMap>>
           /\ \A d \in Clients : /\ pc'[d] = "quit" <=> pc[d] = "quit"
                                 /\ pc[d] = "quit" => cc'[d] = cc[d]
  BY <1>2 DEF LInv, NamesMatch, QuitIsEmpty, SoleObjectIsListed, NoLeakedChannel
<1> QED
  BY <1>1, <1>2, LAddMember, LAddChannel, LRemoveMember, LRemoveChannel

LEMMA LInvariance == Spec => []LInv
<1>1. Init => LInv
  BY RelayAssumption DEF Init, LInv, NamesMatch, QuitIsEmpty, SoleObjectIsListed, NoLeakedChannel
<1>2. IInv /\ LInv /\ [Next]_vars => LInv'
  <2>1. ASSUME LInv, UNCHANGED vars
        PROVE  LInv'
    BY <2>1 DEF vars, serverVars, objectVars, readerVars, LInv, NamesMatch, QuitIsEmpty,
       SoleObjectIsListed, NoLeakedChannel
  <2> QED
    BY <2>1, LInvStep DEF Next
<1> QED
  BY <1>1, <1>2, Invariance, PTL DEF Spec

\* The channel map does not leak: whatever order joins and quits of one name
\* come in, an entry whose channel is empty is about to be deleted.
THEOREM NothingLeaks == Spec => []NoLeakedChannel
<1>1. LInv => NoLeakedChannel
  BY DEF LInv
<1> QED
  BY <1>1, LInvariance, PTL

\* A channel with members whose name was created once can be found.
THEOREM SoleChannelIsFound == Spec => []SoleChannelIsListed
<1>1. IInv /\ LInv => SoleChannelIsListed
  <2> SUFFICES ASSUME IInv, LInv, NEW ch \in Clients, ClientsAll[ch] # {},
                      \A o \in Clients : params[o] # None /\ params[o].name = params[ch].name
                                           => o = ch
               PROVE  channels[params[ch].name] = ch
    BY DEF SoleChannelIsListed
  <2>1. params[ch] # None
    BY DEF IInv, ObjectsMade
  <2>2. ch \notin nilMap
    BY DEF LInv, QuitIsEmpty
  <2> QED
    BY <2>1, <2>2 DEF LInv, SoleObjectIsListed
<1> QED
  BY <1>1, Invariance, LInvariance, PTL

\* SendOthers tells a sender that it is alone only while it is.
THEOREM AloneNoticeCorrect == Spec => []AloneNoticeIsTrue
BY RelayCorrect, PTL

-----------------------------------------------------------------------------
(***************************************************************************)
(* Channels implement rooms.                                               *)
(***************************************************************************)
\* Whoever leaves a channel empty quits it: all other objects are in use.
EmptyIsQuit ==
  \A ch \in Clients : params[ch] # None /\ ch \notin nilMap => ClientsAll[ch] # {}

LEMMA EmptyIsQuitStep ==
  ASSUME IInv, EmptyIsQuit, NEW c \in Clients, Step(c)
  PROVE  EmptyIsQuit'
<1> TypeOK
  BY DEF IInv
<1>1. CASE \E lost \in SUBSET MayLose : AddMember(c, lost)
  <2>1. /\ UNCHANGED <<params, nilMap>>
        /\ \A ch \in Clients : ClientsAll'[ch] = ClientsAll[ch] \/ c \in ClientsAll'[ch]
    BY <1>1 DEF AddMember, Enter, TypeOK
  <2> QED
    BY <2>1 DEF EmptyIsQuit
<1>2. CASE \E lost \in SUBSET MayLose : AddChannel(c, lost)
  <2>1. /\ nilMap' = nilMap
        /\ \A ch \in Clients \ {c} : params'[ch] = params[ch]
        /\ \A ch \in Clients \ {c} : ClientsAll'[ch] = ClientsAll[ch]
        /\ c \in ClientsAll'[c]
    BY <1>2 DEF AddChannel, Enter, TypeOK
  <2> QED
    BY <2>1 DEF EmptyIsQuit
<1>3. CASE \E lost \in SUBSET MayLose : RemoveMember(c, lost)
  BY <1>3 DEF RemoveMember, EmptyIsQuit, TypeOK
<1>4. ASSUME \A lost \in SUBSET MayLose :
               ~(AddMember(c, lost) \/ AddChannel(c, lost) \/ RemoveMember(c, lost))
      PROVE  UNCHANGED objectVars
  BY <1>4 DEF Step, Join, Message, Leave, Accept, Close, AnnounceLock, FindChannel,
     AddSameId, AddToNilMap, BeginRelay, RelayTo, EndRelay, Hangup, RemoveChannel,
     Unregister, objectVars
<1>5. CASE UNCHANGED objectVars
  BY <1>5 DEF objectVars, EmptyIsQuit
<1> QED
  BY <1>1, <1>2, <1>3, <1>4, <1>5

\* The people in a room are the members; nobody who holds no read lock has anything due.
LEMMA RoomIs ==
  ASSUME IInv, NEW ch \in Clients
  PROVE  /\ Rooms!People(ch) = ClientsAll[ch]
         /\ ~ReadLocked(ch) => Rooms!Quiet(ch)
<1>1. Rooms!People(ch) = ClientsAll[ch]
  BY DEF Rooms!People, IInv, RosterMatchesPointers, TypeOK
<1>2. ASSUME ~ReadLocked(ch), NEW d \in Rooms!People(ch)
      PROVE  pending[d] = {}
  BY <1>2 DEF Rooms!People, ReadLocked, IInv, ReaderState
<1> QED
  BY <1>1, <1>2 DEF Rooms!Quiet

\* The steps that rooms do not see.
LEMMA Unseen ==
  ASSUME UNCHANGED <<params, channel, pending>>
  PROVE  UNCHANGED Rooms!roomVars
BY DEF Rooms!roomVars

LEMMA AddMemberEnters ==
  ASSUME IInv, EmptyIsQuit, NEW c \in Clients, NEW lost \in SUBSET MayLose,
         AddMember(c, lost)
  PROVE  Rooms!Next
<1>1. cc[c] \in Clients /\ channel[c] = None /\ ~ReadLocked(cc[c])
  BY DEF AddMember, GetsLock, Wanted, IInv, ReaderState, TypeOK
<1>2. ClientsAll[cc[c]] # {}
  BY <1>1 DEF AddMember, IInv, ObjectsMade, EmptyIsQuit
<1>3. Rooms!People(cc[c]) # {} /\ Rooms!Quiet(cc[c])
  BY <1>1, <1>2, RoomIs
<1>4. Rooms!Enter(c, cc[c])
  BY <1>1, <1>3 DEF AddMember, Enter, Rooms!Enter
<1> QED
  BY <1>1, <1>4 DEF Rooms!Next

LEMMA AddChannelFounds ==
  ASSUME IInv, NEW c \in Clients, NEW lost \in SUBSET MayLose, AddChannel(c, lost)
  PROVE  Rooms!Next
<1> DEFINE made == {ch \in Clients : params[ch] # None}
<1>1. channel[c] = None /\ params[c] = None /\ key[c] # None /\ TypeOK
  BY DEF AddChannel, IInv, ReaderState, ObjectsMade
<1>2. made' = made \cup {c} /\ c \notin made
  BY <1>1 DEF AddChannel, TypeOK
<1>3. Rooms!Found(c)
  BY <1>1, <1>2 DEF AddChannel, Enter, Rooms!Found
<1> QED
  BY <1>3 DEF Rooms!Next

LEMMA RemoveMemberLeaves ==
  ASSUME IInv, NEW c \in Clients, NEW lost \in SUBSET MayLose, RemoveMember(c, lost)
  PROVE  Rooms!Next
<1>1. channel[c] \in Clients /\ channel[c] # None /\ ~ReadLocked(channel[c])
  BY RelayAssumption DEF RemoveMember, GetsLock, Wanted, IInv, AnnouncedWant, TypeOK
<1>2. Rooms!Quiet(channel[c])
  BY <1>1, RoomIs
<1>3. Rooms!Leave(c)
  BY <1>1, <1>2 DEF RemoveMember, Rooms!Leave
<1> QED
  BY <1>3 DEF Rooms!Next

LEMMA BeginRelaySpeaks ==
  ASSUME IInv, NEW c \in Clients, NEW json \in BOOLEAN, BeginRelay(c, json)
  PROVE  Rooms!Next \/ UNCHANGED Rooms!roomVars
<1> DEFINE S == ClientsAll[channel[c]]
<1>1. /\ channel[c] \in Clients /\ channel[c] # None /\ pending[c] = {}
      /\ S \in SUBSET Clients /\ c \in S
  BY DEF BeginRelay, IInv, ReaderState, RosterMatchesPointers, TypeOK
<1>2. Cardinality(S) <= 1 => S = {c}
  BY <1>1, OnlyMember
<1>3. Rooms!People(channel[c]) = S
  BY <1>1, RoomIs
<1> HIDE DEF S
<1>4. Recipients(c, json) = IF json /\ Cardinality(S) <= 1 THEN {c} ELSE S \ {c}
  BY DEF Recipients, S
<1>5. CASE Recipients(c, json) = {}
  <2>1. pending' = pending
    BY <1>1, <1>5 DEF BeginRelay, IInv, TypeOK
  <2> QED
    BY <2>1, Unseen DEF BeginRelay, clientVars, objectVars
<1>6. CASE Recipients(c, json) # {}
  <2>1. Recipients(c, json) = IF S = {c} THEN {c} ELSE S \ {c}
    BY <1>1, <1>2, <1>4, <1>6
  <2>2. Rooms!Speak(c)
    BY <1>1, <1>3, <2>1 DEF BeginRelay, clientVars, objectVars, Rooms!Speak
  <2> QED
    BY <2>2 DEF Rooms!Next
<1> QED
  BY <1>5, <1>6

LEMMA StepIsRoom ==
  ASSUME IInv, EmptyIsQuit, NEW c \in Clients, Step(c)
  PROVE  Rooms!Next \/ UNCHANGED Rooms!roomVars
<1>1. ASSUME NEW r \in Clients, RelayTo(c, r)
      PROVE  Rooms!Next
  <2>1. Rooms!Hear(c, r)
    BY <1>1 DEF RelayTo, Rooms!Hear, clientVars, objectVars
  <2> QED
    BY <2>1 DEF Rooms!Next
<1>2. ASSUME /\ \A lost \in SUBSET MayLose :
                  ~(AddMember(c, lost) \/ AddChannel(c, lost) \/ RemoveMember(c, lost))
             /\ \A json \in BOOLEAN : ~BeginRelay(c, json)
             /\ \A r \in Clients : ~RelayTo(c, r)
      PROVE  UNCHANGED <<params, channel, pending>>
  BY <1>2 DEF Step, Join, Message, Leave, Accept, Close, AnnounceLock, FindChannel,
     AddSameId, AddToNilMap, EndRelay, Hangup, RemoveChannel, Unregister, clientVars,
     objectVars, readerVars
<1> QED
  BY <1>1, <1>2, Unseen, AddMemberEnters, AddChannelFounds, RemoveMemberLeaves,
     BeginRelaySpeaks

\* Locks taken one by one, a lookup used after its lock was released, and a quit that
\* sets the map to nil before the entry is deleted are, to the members, rooms in which
\* everybody enters, leaves and speaks at once; and nobody enters one that has emptied.
THEOREM ImplementsRoom == Spec => IsRoom
<1>1. Init => Rooms!Init /\ EmptyIsQuit
  BY RelayAssumption DEF Init, Rooms!Init, EmptyIsQuit
<1>2. IInv /\ EmptyIsQuit /\ [Next]_vars => EmptyIsQuit'
  <2>1. ASSUME EmptyIsQuit, UNCHANGED vars
        PROVE  EmptyIsQuit'
    BY <2>1 DEF vars, objectVars, EmptyIsQuit
  <2> QED
    BY <2>1, EmptyIsQuitStep DEF Next
<1>3. IInv /\ EmptyIsQuit /\ [Next]_vars => [Rooms!Next]_(Rooms!roomVars)
  <2>1. ASSUME UNCHANGED vars
        PROVE  UNCHANGED Rooms!roomVars
    BY <2>1, Unseen DEF vars, clientVars, objectVars, readerVars
  <2> QED
    BY <2>1, StepIsRoom DEF Next
<1> QED
  BY <1>1, <1>2, <1>3, Invariance, PTL DEF Spec, IsRoom, Rooms!Spec
=============================================================================
