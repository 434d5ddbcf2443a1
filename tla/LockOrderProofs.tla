--------------------------- MODULE LockOrderProofs ---------------------------
(***************************************************************************)
(* Proofs about LockOrder, for any number of clients and channel names.    *)
(*                                                                         *)
(* The inductive invariant says what each goroutine may have left to do,   *)
(* given the locks that it holds and the channel its client is in (Fits):  *)
(* its script is one of the suffixes of the operations' scripts, perhaps   *)
(* with some clients' locks to pass before it.  The scripts are therefore  *)
(* first written step by step (Then), with what each of them leads to and  *)
(* which channels it has to do with; then come the places and the steps    *)
(* between them, the invariant and the actions, and who waits for whom.    *)
(***************************************************************************)
EXTENDS LockOrder, FunctionTheorems, FiniteSetTheorems, SequenceTheorems, TLAPS

(***************************************************************************)
(* Scripts, step by step.                                                  *)
(***************************************************************************)
Scripts == Seq([do : Deeds, of : Things])
Then(d, x, r) == Step(d, x) \o r

\* A script that has to do with a channel, and one that will list it.
Mentions(q, ch) == \E i \in DOMAIN q : q[i].of \in {ch, cc(ch)}
Lists(q, ch)    == \E i \in DOMAIN q : q[i] = [do |-> "list", of |-> ch]

\* The script q begins with a step, and goes on with r.
Leads(q, d, x, r) ==
  /\ q \in Scripts /\ r \in Scripts /\ q # <<>>
  /\ Head(q).do = d /\ Head(q).of = x /\ Tail(q) = r
  /\ \A ch \in Channels :
       /\ Mentions(q, ch) <=> x \in {ch, cc(ch)} \/ Mentions(r, ch)
       /\ Lists(q, ch) <=> (d = "list" /\ x = ch) \/ Lists(r, ch)

\* The script q passes some clients' locks before it goes on with r.
PassSteps == {[do |-> "pass", of |-> cl(m)] : m \in Clients}
Passing(q, r) == \E p \in Seq(PassSteps) : q = p \o r

LEMMA LocksDiffer ==
  /\ s # mu /\ \A ch \in Channels : cc(ch) \notin {s, mu} /\ cc(ch) \notin Channels
  /\ \A c \in Clients : cl(c) \notin {s, mu} /\ cl(c) \notin Channels
  /\ s \notin Channels /\ mu \notin Channels
  /\ \A ch \in Channels, c \in Clients : cc(ch) # cl(c)
  /\ \A ch, dh \in Channels : cc(ch) = cc(dh) => ch = dh
  /\ \A c, e \in Clients : cl(c) = cl(e) => c = e
<1>1. \A x \in Channels : DOMAIN x = {"name", "gen"}
  BY DEF Channels
<1>2. \A k, x : DOMAIN Lock(k, x) = {"kind", "of"} /\ Lock(k, x).kind = k /\ Lock(k, x).of = x
  BY DEF Lock
<1>3. \A k, x : Lock(k, x) \notin Channels
  BY <1>1, <1>2
<1> QED
  BY <1>2, <1>3 DEF s, mu, cc, cl

LEMMA LockTypes ==
  /\ s \in Locks /\ mu \in Locks
  /\ \A ch \in Channels : cc(ch) \in Locks
  /\ \A c \in Clients : cl(c) \in Locks
  /\ \A l \in Locks : \/ l \in {s, mu} \/ \E ch \in Channels : l = cc(ch)
                      \/ \E c \in Clients : l = cl(c)
BY DEF Locks

LEMMA StepLeads ==
  ASSUME NEW d \in Deeds, NEW x \in Things, NEW r \in Scripts
  PROVE  Leads(Then(d, x, r), d, x, r)
<1> DEFINE S == [do : Deeds, of : Things]
           e == [do |-> d, of |-> x]
           q == Then(d, x, r)
<1>1. e \in S /\ <<e>> \in Seq(S) /\ Len(<<e>>) = 1 /\ <<e>>[1] = e
  OBVIOUS
<1>2. q = <<e>> \o r /\ r \in Seq(S) /\ Len(r) \in Nat
  BY DEF Then, Step, Scripts
<1>3. /\ q \in Seq(S) /\ Len(q) = 1 + Len(r)
      /\ \A i \in 1 .. 1 + Len(r) : q[i] = IF i <= 1 THEN e ELSE r[i - 1]
  BY <1>1, <1>2, ConcatProperties
<1>4. q # <<>> /\ q[1] = e
  BY <1>2, <1>3
<1>5. /\ Tail(q) \in Seq(S) /\ Len(Tail(q)) = Len(r)
      /\ \A i \in 1 .. Len(Tail(q)) : Tail(q)[i] = q[i + 1]
  BY <1>2, <1>3, <1>4, HeadTailProperties
<1>6. Tail(q) = r
  <2>1. \A i \in 1 .. Len(Tail(q)) : Tail(q)[i] = r[i]
    BY <1>2, <1>3, <1>5
  <2> QED
    BY <1>2, <1>5, <2>1, SeqEqual
<1>7. Head(q) = e
  BY <1>3, <1>4
<1>8. DOMAIN q = 1 .. 1 + Len(r) /\ DOMAIN r = 1 .. Len(r)
  BY <1>2, <1>3, LenProperties
<1>9. \A P : (\E i \in DOMAIN q : q[i] \in P) <=> e \in P \/ (\E i \in DOMAIN r : r[i] \in P)
  <2> SUFFICES ASSUME NEW P
               PROVE (\E i \in DOMAIN q : q[i] \in P)
                       <=> e \in P \/ (\E i \in DOMAIN r : r[i] \in P)
    OBVIOUS
  <2>1. ASSUME NEW i \in DOMAIN q, q[i] \in P
        PROVE  e \in P \/ (\E j \in DOMAIN r : r[j] \in P)
    <3>1. CASE i = 1
      BY <1>4, <2>1, <3>1
    <3>2. CASE i # 1
      <4>1. i - 1 \in DOMAIN r /\ q[i] = r[i - 1]
        BY <1>2, <1>3, <1>8, <3>2
      <4> QED
        BY <2>1, <4>1
    <3> QED
      BY <3>1, <3>2
  <2>2. ASSUME NEW j \in DOMAIN r, r[j] \in P
        PROVE  \E i \in DOMAIN q : q[i] \in P
    <3>1. j + 1 \in DOMAIN q /\ q[j + 1] = r[j]
      BY <1>2, <1>3, <1>8
    <3> QED
      BY <2>2, <3>1
  <2>3. 1 \in DOMAIN q
    BY <1>2, <1>8
  <2> QED
    BY <1>4, <2>1, <2>2, <2>3
<1>10. ASSUME NEW ch \in Channels
       PROVE  /\ Mentions(q, ch) <=> x \in {ch, cc(ch)} \/ Mentions(r, ch)
              /\ Lists(q, ch) <=> (d = "list" /\ x = ch) \/ Lists(r, ch)
  <2> DEFINE P == {y \in S : y.of \in {ch, cc(ch)}}
             L == {[do |-> "list", of |-> ch]}
  <2>1. (\A i \in DOMAIN q : q[i] \in S) /\ (\A i \in DOMAIN r : r[i] \in S)
    BY <1>2, <1>3, <1>8, ElementOfSeq
  <2>2. Mentions(q, ch) <=> \E i \in DOMAIN q : q[i] \in P
    BY <2>1 DEF Mentions
  <2>3. Mentions(r, ch) <=> \E i \in DOMAIN r : r[i] \in P
    BY <2>1 DEF Mentions
  <2>4. e \in P <=> x \in {ch, cc(ch)}
    BY <1>1
  <2>5. Mentions(q, ch) <=> x \in {ch, cc(ch)} \/ Mentions(r, ch)
    <3> HIDE DEF P
    <3> QED
      BY <1>9, <2>2, <2>3, <2>4
  <2>6. Lists(q, ch) <=> \E i \in DOMAIN q : q[i] \in L
    BY DEF Lists
  <2>7. Lists(r, ch) <=> \E i \in DOMAIN r : r[i] \in L
    BY DEF Lists
  <2>8. e \in L <=> d = "list" /\ x = ch
    OBVIOUS
  <2>9. Lists(q, ch) <=> (d = "list" /\ x = ch) \/ Lists(r, ch)
    <3> HIDE DEF L
    <3> QED
      BY <1>9, <2>6, <2>7, <2>8
  <2> QED
    BY <2>5, <2>9
<1> HIDE DEF q
<1>11. Head(q).do = d /\ Head(q).of = x /\ q \in Scripts /\ r \in Scripts
  BY <1>3, <1>7 DEF Scripts
<1>12. Leads(q, d, x, r)
  BY <1>4, <1>6, <1>10, <1>11 DEF Leads
<1> QED
  BY <1>12 DEF q

LEMMA EmptyScript ==
  /\ <<>> \in Scripts
  /\ \A ch \in Channels : ~Mentions(<<>>, ch) /\ ~Lists(<<>>, ch)
BY DEF Scripts, Mentions, Lists

\* What passing comes to: nothing more to pass, or a lock to pass and the same again.
LEMMA PassingLeads ==
  ASSUME NEW r \in Scripts, NEW q, Passing(q, r)
  PROVE  /\ q \in Scripts
         /\ \A ch \in Channels : /\ Mentions(q, ch) <=> Mentions(r, ch)
                                 /\ Lists(q, ch) <=> Lists(r, ch)
         /\ \/ q = r
            \/ /\ q # <<>> /\ Head(q).do = "pass"
               /\ \E m \in Clients : Head(q).of = cl(m)
               /\ Passing(Tail(q), r)
<1> DEFINE S == [do : Deeds, of : Things]
<1>1. PICK p \in Seq(PassSteps) : q = p \o r
  BY DEF Passing
<1>2. PassSteps \subseteq S
  <2>1. \A m \in Clients : cl(m) \in Things
    BY LockTypes DEF Things
  <2>2. \A m \in Clients : [do |-> "pass", of |-> cl(m)] \in S
    BY <2>1 DEF Deeds
  <2> QED
    BY <2>2 DEF PassSteps
<1>3. p \in Seq(S) /\ r \in Seq(S)
  BY <1>1, <1>2, SeqMonotonic DEF Scripts
<1>4. /\ q \in Seq(S) /\ Len(q) = Len(p) + Len(r)
      /\ Len(p) \in Nat /\ Len(r) \in Nat
      /\ \A i \in 1 .. Len(p) + Len(r) : q[i] = IF i <= Len(p) THEN p[i] ELSE r[i - Len(p)]
  BY <1>1, <1>3, ConcatProperties
<1>5. DOMAIN q = 1 .. Len(p) + Len(r) /\ DOMAIN r = 1 .. Len(r) /\ DOMAIN p = 1 .. Len(p)
  BY <1>1, <1>3, <1>4, LenProperties
<1>6. \A i \in DOMAIN p : \E m \in Clients : p[i] = [do |-> "pass", of |-> cl(m)]
  <2>1. \A i \in DOMAIN p : p[i] \in PassSteps
    BY <1>1, <1>5, ElementOfSeq
  <2> QED
    BY <2>1 DEF PassSteps
<1>7. ASSUME NEW ch \in Channels
      PROVE  /\ Mentions(q, ch) <=> Mentions(r, ch)
             /\ Lists(q, ch) <=> Lists(r, ch)
  <2>1. \A i \in DOMAIN q : \/ q[i].do = "pass" /\ q[i].of \notin {ch, cc(ch)}
                            \/ i - Len(p) \in DOMAIN r /\ q[i] = r[i - Len(p)]
    <3> SUFFICES ASSUME NEW i \in DOMAIN q
                 PROVE  \/ q[i].do = "pass" /\ q[i].of \notin {ch, cc(ch)}
                        \/ i - Len(p) \in DOMAIN r /\ q[i] = r[i - Len(p)]
      OBVIOUS
    <3>1. CASE i <= Len(p)
      <4>1. i \in DOMAIN p /\ q[i] = p[i]
        BY <1>4, <1>5, <3>1
      <4>2. PICK m \in Clients : p[i] = [do |-> "pass", of |-> cl(m)]
        BY <1>6, <4>1
      <4> QED
        BY <4>1, <4>2, LocksDiffer
    <3>2. CASE ~(i <= Len(p))
      BY <1>4, <1>5, <3>2
    <3> QED
      BY <3>1, <3>2
  <2>2. \A j \in DOMAIN r : j + Len(p) \in DOMAIN q /\ q[j + Len(p)] = r[j]
    BY <1>4, <1>5
  <2>3. Mentions(q, ch) <=> Mentions(r, ch)
    BY <2>1, <2>2 DEF Mentions
  <2>4. \A i \in DOMAIN q : q[i] = [do |-> "list", of |-> ch] => q[i].do # "pass"
    OBVIOUS
  <2>5. Lists(q, ch) <=> Lists(r, ch)
    BY <2>1, <2>2, <2>4 DEF Lists
  <2> QED
    BY <2>3, <2>5
<1>8. CASE p = <<>>
  BY <1>1, <1>3, <1>4, <1>7, <1>8, ConcatEmptySeq DEF Scripts
<1>9. CASE p # <<>>
  <2>1. Len(p) > 0 /\ 1 \in DOMAIN p
    BY <1>1, <1>4, <1>5, <1>9
  <2>2. q # <<>> /\ q[1] = p[1]
    BY <1>4, <2>1
  <2>3. Head(q) = p[1]
    BY <1>4, <2>2
  <2>4. PICK m \in Clients : p[1] = [do |-> "pass", of |-> cl(m)]
    BY <1>6, <2>1
  <2>5. /\ Tail(p) \in Seq(PassSteps) /\ Len(Tail(p)) = Len(p) - 1
        /\ \A i \in 1 .. Len(Tail(p)) : Tail(p)[i] = p[i + 1]
    BY <1>1, <1>9, HeadTailProperties
  <2>6. Tail(p) \in Seq(S)
    BY <1>2, <2>5, SeqMonotonic
  <2>7. /\ Tail(p) \o r \in Seq(S) /\ Len(Tail(p) \o r) = Len(Tail(p)) + Len(r)
        /\ \A i \in 1 .. Len(Tail(p)) + Len(r) : (Tail(p) \o r)[i] =
             IF i <= Len(Tail(p)) THEN Tail(p)[i] ELSE r[i - Len(Tail(p))]
    BY <1>3, <2>6, ConcatProperties
  <2>8. /\ Tail(q) \in Seq(S) /\ Len(Tail(q)) = Len(q) - 1
        /\ \A i \in 1 .. Len(Tail(q)) : Tail(q)[i] = q[i + 1]
    BY <1>4, <2>2, HeadTailProperties
  <2>9. Tail(q) = Tail(p) \o r
    <3>1. Len(Tail(q)) = Len(Tail(p) \o r)
      BY <1>4, <2>5, <2>7, <2>8
    <3>2. ASSUME NEW i \in 1 .. Len(Tail(q))
          PROVE  Tail(q)[i] = (Tail(p) \o r)[i]
      <4>1. i \in Nat /\ i + 1 \in 1 .. Len(p) + Len(r) /\ Tail(q)[i] = q[i + 1]
            /\ i \in 1 .. Len(Tail(p)) + Len(r)
        BY <1>4, <2>1, <2>5, <2>8
      <4>2. CASE i + 1 <= Len(p)
        BY <1>4, <2>5, <2>7, <4>1, <4>2
      <4>3. CASE ~(i + 1 <= Len(p))
        <5>1. Tail(q)[i] = r[i + 1 - Len(p)]
          BY <1>4, <4>1, <4>3
        <5>2. ~(i <= Len(Tail(p))) /\ i + 1 - Len(p) = i - Len(Tail(p))
          BY <1>4, <2>5, <4>1, <4>3
        <5> QED
          BY <2>7, <4>1, <5>1, <5>2
      <4> QED
        BY <4>2, <4>3
    <3> QED
      BY <2>7, <2>8, <3>1, <3>2, SeqEqual
  <2>10. Passing(Tail(q), r)
    BY <2>5, <2>9 DEF Passing
  <2>11. Head(q).do = "pass" /\ Head(q).of = cl(m)
    BY <2>3, <2>4
  <2> QED
    BY <1>4, <1>7, <2>2, <2>10, <2>11 DEF Scripts
<1> QED
  BY <1>8, <1>9

-----------------------------------------------------------------------------
(***************************************************************************)
(* What the scripts of the goroutines come to, step by step.               *)
(***************************************************************************)
RelayEnd(ch)  == Then("runlock", cc(ch), <<>>)
RelaySend(ch) == Then("send", ch, RelayEnd(ch))
RelayLock(ch) == Then("rlock", cc(ch), RelaySend(ch))
RelayFind(ch) == Then("pass", mu, RelayLock(ch))

JoinEnd(r)     == Then("runlock", mu, r)
JoinFind(n)    == Then("find", n, JoinEnd(<<>>))
JoinRead(n)    == Then("rlock", mu, JoinFind(n))
JoinPass(c, n) == Then("pass", cl(c), JoinRead(n))

AddEnd(ch, r)     == Then("unlock", cc(ch), r)
AddTypes(ch, r)   == Then("types", ch, AddEnd(ch, r))
AddSend(ch, r)    == Then("send", ch, AddTypes(ch, r))
AddEnter(ch, r)   == Then("enter", ch, AddSend(ch, r))
AddPass(c, ch, r) == Then("pass", cl(c), AddEnter(ch, r))
AddLock(c, ch, r) == Then("lock", cc(ch), AddPass(c, ch, r))

MapsEnd         == Then("unlock", mu, <<>>)
Listing(ch)     == Then("list", ch, MapsEnd)
Creating(c, ch) == Then("lock", mu, AddLock(c, ch, Listing(ch)))

Deleting(c)   == Then("delete", c, MapsEnd)
DeletePass(c) == Then("pass", cl(c), Deleting(c))
DeleteLock(c) == Then("lock", mu, DeletePass(c))

LeaveEnd(c, ch)   == Then("unlock", cc(ch), DeleteLock(c))
LeaveQuit(c, ch)  == Then("quit", ch, LeaveEnd(c, ch))
LeaveSend(c, ch)  == Then("send", ch, LeaveQuit(c, ch))
Leaving(c, ch)    == Then("leave", ch, LeaveSend(c, ch))
LeavePass(c, ch)  == Then("pass", cl(c), Leaving(c, ch))
LeaveLock(c, ch)  == Then("lock", cc(ch), LeavePass(c, ch))
UnlistEnd(c, ch)  == Then("unlock", mu, LeaveEnd(c, ch))
Unlisting(c, ch)  == Then("unlist", ch, UnlistEnd(c, ch))
UnlistLock(c, ch) == Then("lock", mu, Unlisting(c, ch))

ServerEnd     == Then("unlock", s, <<>>)
TearEnd(c)    == Then("unlock", cl(c), ServerEnd)
Closing(c)    == Then("close", c, TearEnd(c))
TearClient(c) == Then("lock", cl(c), Closing(c))
TearLock(c)   == Then("lock", s, TearClient(c))

AcceptEnd      == Then("unlock", mu, ServerEnd)
Registering(c) == Then("register", c, AcceptEnd)
AcceptPass(c)  == Then("pass", cl(c), Registering(c))
AcceptMaps(c)  == Then("lock", mu, AcceptPass(c))
AcceptLock(c)  == Then("lock", s, AcceptMaps(c))

LEMMA InThings ==
  /\ s \in Things /\ mu \in Things
  /\ \A ch \in Channels : ch \in Things /\ cc(ch) \in Things
  /\ \A c \in Clients : c \in Things /\ cl(c) \in Things
  /\ \A n \in Names : n \in Things
BY LockTypes DEF Things

LEMMA ThenIsScript ==
  ASSUME NEW d \in Deeds, NEW x \in Things, NEW r \in Scripts
  PROVE  Then(d, x, r) \in Scripts
BY StepLeads DEF Leads

LEMMA RelayLeads ==
  ASSUME NEW ch \in Channels
  PROVE  /\ Leads(RelayEnd(ch), "runlock", cc(ch), <<>>)
         /\ Leads(RelaySend(ch), "send", ch, RelayEnd(ch))
         /\ Leads(RelayLock(ch), "rlock", cc(ch), RelaySend(ch))
         /\ Leads(RelayFind(ch), "pass", mu, RelayLock(ch))
<1>1. Leads(RelayEnd(ch), "runlock", cc(ch), <<>>)
  BY InThings, EmptyScript, StepLeads DEF Deeds, RelayEnd
<1>2. Leads(RelaySend(ch), "send", ch, RelayEnd(ch))
  <2>1. RelayEnd(ch) \in Scripts
    BY <1>1 DEF Leads
  <2> QED
    BY <2>1, InThings, StepLeads DEF Deeds, RelaySend
<1>3. Leads(RelayLock(ch), "rlock", cc(ch), RelaySend(ch))
  <2>1. RelaySend(ch) \in Scripts
    BY <1>2 DEF Leads
  <2> QED
    BY <2>1, InThings, StepLeads DEF Deeds, RelayLock
<1>4. Leads(RelayFind(ch), "pass", mu, RelayLock(ch))
  <2>1. RelayLock(ch) \in Scripts
    BY <1>3 DEF Leads
  <2> QED
    BY <2>1, InThings, StepLeads DEF Deeds, RelayFind
<1> QED
  BY <1>1, <1>2, <1>3, <1>4

LEMMA JoinLeads ==
  ASSUME NEW c \in Clients, NEW n \in Names
  PROVE  /\ \A r \in Scripts : Leads(JoinEnd(r), "runlock", mu, r)
         /\ Leads(JoinFind(n), "find", n, JoinEnd(<<>>))
         /\ Leads(JoinRead(n), "rlock", mu, JoinFind(n))
         /\ Leads(JoinPass(c, n), "pass", cl(c), JoinRead(n))
<1>1. \A r \in Scripts : Leads(JoinEnd(r), "runlock", mu, r)
  BY InThings, StepLeads DEF Deeds, JoinEnd
<1>2. Leads(JoinFind(n), "find", n, JoinEnd(<<>>))
  <2>1. JoinEnd(<<>>) \in Scripts
    BY <1>1, EmptyScript DEF Leads
  <2> QED
    BY <2>1, InThings, StepLeads DEF Deeds, JoinFind
<1>3. Leads(JoinRead(n), "rlock", mu, JoinFind(n))
  <2>1. JoinFind(n) \in Scripts
    BY <1>2 DEF Leads
  <2> QED
    BY <2>1, InThings, StepLeads DEF Deeds, JoinRead
<1>4. Leads(JoinPass(c, n), "pass", cl(c), JoinRead(n))
  <2>1. JoinRead(n) \in Scripts
    BY <1>3 DEF Leads
  <2> QED
    BY <2>1, InThings, StepLeads DEF Deeds, JoinPass
<1> QED
  BY <1>1, <1>2, <1>3, <1>4

LEMMA AddLeads ==
  ASSUME NEW c \in Clients, NEW ch \in Channels, NEW r \in Scripts
  PROVE  /\ Leads(AddEnd(ch, r), "unlock", cc(ch), r)
         /\ Leads(AddTypes(ch, r), "types", ch, AddEnd(ch, r))
         /\ Leads(AddSend(ch, r), "send", ch, AddTypes(ch, r))
         /\ Leads(AddEnter(ch, r), "enter", ch, AddSend(ch, r))
         /\ Leads(AddPass(c, ch, r), "pass", cl(c), AddEnter(ch, r))
         /\ Leads(AddLock(c, ch, r), "lock", cc(ch), AddPass(c, ch, r))
<1>1. Leads(AddEnd(ch, r), "unlock", cc(ch), r)
  BY InThings, StepLeads DEF Deeds, AddEnd
<1>2. Leads(AddTypes(ch, r), "types", ch, AddEnd(ch, r))
  <2>1. AddEnd(ch, r) \in Scripts
    BY <1>1 DEF Leads
  <2> QED
    BY <2>1, InThings, StepLeads DEF Deeds, AddTypes
<1>3. Leads(AddSend(ch, r), "send", ch, AddTypes(ch, r))
  <2>1. AddTypes(ch, r) \in Scripts
    BY <1>2 DEF Leads
  <2> QED
    BY <2>1, InThings, StepLeads DEF Deeds, AddSend
<1>4. Leads(AddEnter(ch, r), "enter", ch, AddSend(ch, r))
  <2>1. AddSend(ch, r) \in Scripts
    BY <1>3 DEF Leads
  <2> QED
    BY <2>1, InThings, StepLeads DEF Deeds, AddEnter
<1>5. Leads(AddPass(c, ch, r), "pass", cl(c), AddEnter(ch, r))
  <2>1. AddEnter(ch, r) \in Scripts
    BY <1>4 DEF Leads
  <2> QED
    BY <2>1, InThings, StepLeads DEF Deeds, AddPass
<1>6. Leads(AddLock(c, ch, r), "lock", cc(ch), AddPass(c, ch, r))
  <2>1. AddPass(c, ch, r) \in Scripts
    BY <1>5 DEF Leads
  <2> QED
    BY <2>1, InThings, StepLeads DEF Deeds, AddLock
<1> QED
  BY <1>1, <1>2, <1>3, <1>4, <1>5, <1>6

LEMMA MapsLeads ==
  ASSUME NEW c \in Clients
  PROVE  /\ Leads(MapsEnd, "unlock", mu, <<>>)
         /\ Leads(Deleting(c), "delete", c, MapsEnd)
         /\ Leads(DeletePass(c), "pass", cl(c), Deleting(c))
         /\ Leads(DeleteLock(c), "lock", mu, DeletePass(c))
         /\ \A ch \in Channels :
              /\ Leads(Listing(ch), "list", ch, MapsEnd)
              /\ Leads(Creating(c, ch), "lock", mu, AddLock(c, ch, Listing(ch)))
<1>1. Leads(MapsEnd, "unlock", mu, <<>>)
  BY InThings, EmptyScript, StepLeads DEF Deeds, MapsEnd
<1>2. MapsEnd \in Scripts
  BY <1>1 DEF Leads
<1>3. Leads(Deleting(c), "delete", c, MapsEnd)
  BY <1>2, InThings, StepLeads DEF Deeds, Deleting
<1>4. Leads(DeletePass(c), "pass", cl(c), Deleting(c))
  <2>1. Deleting(c) \in Scripts
    BY <1>3 DEF Leads
  <2> QED
    BY <2>1, InThings, StepLeads DEF Deeds, DeletePass
<1>5. Leads(DeleteLock(c), "lock", mu, DeletePass(c))
  <2>1. DeletePass(c) \in Scripts
    BY <1>4 DEF Leads
  <2> QED
    BY <2>1, InThings, StepLeads DEF Deeds, DeleteLock
<1>6. ASSUME NEW ch \in Channels
      PROVE  /\ Leads(Listing(ch), "list", ch, MapsEnd)
             /\ Leads(Creating(c, ch), "lock", mu, AddLock(c, ch, Listing(ch)))
  <2>1. Leads(Listing(ch), "list", ch, MapsEnd)
    BY <1>2, InThings, StepLeads DEF Deeds, Listing
  <2>2. Listing(ch) \in Scripts
    BY <2>1 DEF Leads
  <2>3. AddLock(c, ch, Listing(ch)) \in Scripts
    BY <2>2, AddLeads DEF Leads
  <2> QED
    BY <2>1, <2>3, InThings, StepLeads DEF Deeds, Creating
<1> QED
  BY <1>1, <1>3, <1>4, <1>5, <1>6

LEMMA LeaveLeads ==
  ASSUME NEW c \in Clients, NEW ch \in Channels
  PROVE  /\ Leads(LeaveEnd(c, ch), "unlock", cc(ch), DeleteLock(c))
         /\ Leads(LeaveQuit(c, ch), "quit", ch, LeaveEnd(c, ch))
         /\ Leads(LeaveSend(c, ch), "send", ch, LeaveQuit(c, ch))
         /\ Leads(Leaving(c, ch), "leave", ch, LeaveSend(c, ch))
         /\ Leads(LeavePass(c, ch), "pass", cl(c), Leaving(c, ch))
         /\ Leads(LeaveLock(c, ch), "lock", cc(ch), LeavePass(c, ch))
         /\ Leads(UnlistEnd(c, ch), "unlock", mu, LeaveEnd(c, ch))
         /\ Leads(Unlisting(c, ch), "unlist", ch, UnlistEnd(c, ch))
         /\ Leads(UnlistLock(c, ch), "lock", mu, Unlisting(c, ch))
<1>1. Leads(LeaveEnd(c, ch), "unlock", cc(ch), DeleteLock(c))
  <2>1. DeleteLock(c) \in Scripts
    BY MapsLeads DEF Leads
  <2> QED
    BY <2>1, InThings, StepLeads DEF Deeds, LeaveEnd
<1>2. LeaveEnd(c, ch) \in Scripts
  BY <1>1 DEF Leads
<1>3. Leads(LeaveQuit(c, ch), "quit", ch, LeaveEnd(c, ch))
  BY <1>2, InThings, StepLeads DEF Deeds, LeaveQuit
<1>4. Leads(LeaveSend(c, ch), "send", ch, LeaveQuit(c, ch))
  <2>1. LeaveQuit(c, ch) \in Scripts
    BY <1>3 DEF Leads
  <2> QED
    BY <2>1, InThings, StepLeads DEF Deeds, LeaveSend
<1>5. Leads(Leaving(c, ch), "leave", ch, LeaveSend(c, ch))
  <2>1. LeaveSend(c, ch) \in Scripts
    BY <1>4 DEF Leads
  <2> QED
    BY <2>1, InThings, StepLeads DEF Deeds, Leaving
<1>6. Leads(LeavePass(c, ch), "pass", cl(c), Leaving(c, ch))
  <2>1. Leaving(c, ch) \in Scripts
    BY <1>5 DEF Leads
  <2> QED
    BY <2>1, InThings, StepLeads DEF Deeds, LeavePass
<1>7. Leads(LeaveLock(c, ch), "lock", cc(ch), LeavePass(c, ch))
  <2>1. LeavePass(c, ch) \in Scripts
    BY <1>6 DEF Leads
  <2> QED
    BY <2>1, InThings, StepLeads DEF Deeds, LeaveLock
<1>8. Leads(UnlistEnd(c, ch), "unlock", mu, LeaveEnd(c, ch))
  BY <1>2, InThings, StepLeads DEF Deeds, UnlistEnd
<1>9. Leads(Unlisting(c, ch), "unlist", ch, UnlistEnd(c, ch))
  <2>1. UnlistEnd(c, ch) \in Scripts
    BY <1>8 DEF Leads
  <2> QED
    BY <2>1, InThings, StepLeads DEF Deeds, Unlisting
<1>10. Leads(UnlistLock(c, ch), "lock", mu, Unlisting(c, ch))
  <2>1. Unlisting(c, ch) \in Scripts
    BY <1>9 DEF Leads
  <2> QED
    BY <2>1, InThings, StepLeads DEF Deeds, UnlistLock
<1> QED
  BY <1>1, <1>3, <1>4, <1>5, <1>6, <1>7, <1>8, <1>9, <1>10

LEMMA ServerLeads ==
  ASSUME NEW c \in Clients
  PROVE  /\ Leads(ServerEnd, "unlock", s, <<>>)
         /\ Leads(TearEnd(c), "unlock", cl(c), ServerEnd)
         /\ Leads(Closing(c), "close", c, TearEnd(c))
         /\ Leads(TearClient(c), "lock", cl(c), Closing(c))
         /\ Leads(TearLock(c), "lock", s, TearClient(c))
         /\ Leads(AcceptEnd, "unlock", mu, ServerEnd)
         /\ Leads(Registering(c), "register", c, AcceptEnd)
         /\ Leads(AcceptPass(c), "pass", cl(c), Registering(c))
         /\ Leads(AcceptMaps(c), "lock", mu, AcceptPass(c))
         /\ Leads(AcceptLock(c), "lock", s, AcceptMaps(c))
<1>1. Leads(ServerEnd, "unlock", s, <<>>)
  BY InThings, EmptyScript, StepLeads DEF Deeds, ServerEnd
<1>2. ServerEnd \in Scripts
  BY <1>1 DEF Leads
<1>3. Leads(TearEnd(c), "unlock", cl(c), ServerEnd)
  BY <1>2, InThings, StepLeads DEF Deeds, TearEnd
<1>4. Leads(Closing(c), "close", c, TearEnd(c))
  <2>1. TearEnd(c) \in Scripts
    BY <1>3 DEF Leads
  <2> QED
    BY <2>1, InThings, StepLeads DEF Deeds, Closing
<1>5. Leads(TearClient(c), "lock", cl(c), Closing(c))
  <2>1. Closing(c) \in Scripts
    BY <1>4 DEF Leads
  <2> QED
    BY <2>1, InThings, StepLeads DEF Deeds, TearClient
<1>6. Leads(TearLock(c), "lock", s, TearClient(c))
  <2>1. TearClient(c) \in Scripts
    BY <1>5 DEF Leads
  <2> QED
    BY <2>1, InThings, StepLeads DEF Deeds, TearLock
<1>7. Leads(AcceptEnd, "unlock", mu, ServerEnd)
  BY <1>2, InThings, StepLeads DEF Deeds, AcceptEnd
<1>8. Leads(Registering(c), "register", c, AcceptEnd)
  <2>1. AcceptEnd \in Scripts
    BY <1>7 DEF Leads
  <2> QED
    BY <2>1, InThings, StepLeads DEF Deeds, Registering
<1>9. Leads(AcceptPass(c), "pass", cl(c), Registering(c))
  <2>1. Registering(c) \in Scripts
    BY <1>8 DEF Leads
  <2> QED
    BY <2>1, InThings, StepLeads DEF Deeds, AcceptPass
<1>10. Leads(AcceptMaps(c), "lock", mu, AcceptPass(c))
  <2>1. AcceptPass(c) \in Scripts
    BY <1>9 DEF Leads
  <2> QED
    BY <2>1, InThings, StepLeads DEF Deeds, AcceptMaps
<1>11. Leads(AcceptLock(c), "lock", s, AcceptMaps(c))
  <2>1. AcceptMaps(c) \in Scripts
    BY <1>10 DEF Leads
  <2> QED
    BY <2>1, InThings, StepLeads DEF Deeds, AcceptLock
<1> QED
  BY <1>1, <1>3, <1>4, <1>5, <1>6, <1>7, <1>8, <1>9, <1>10, <1>11

-----------------------------------------------------------------------------
(***************************************************************************)
(* The channels that scripts have to do with.                              *)
(***************************************************************************)
\* A script that has to do with no channel but ch, and one that does not list any.
Only(q, ch)    == \A dh \in Channels : Mentions(q, dh) <=> dh = ch
Nothing(q)     == \A dh \in Channels : ~Mentions(q, dh)
ListsOnly(q, ch) == \A dh \in Channels : Lists(q, dh) <=> dh = ch
ListsNothing(q)  == \A dh \in Channels : ~Lists(q, dh)

LEMMA NoChannels ==
  \A dh \in Channels :
    /\ mu \notin {dh, cc(dh)} /\ s \notin {dh, cc(dh)}
    /\ \A c \in Clients : cl(c) \notin {dh, cc(dh)} /\ c \notin {dh, cc(dh)}
    /\ \A n \in Names : n \notin {dh, cc(dh)}
    /\ \A ch \in Channels : /\ ch \in {dh, cc(dh)} <=> dh = ch
                            /\ cc(ch) \in {dh, cc(dh)} <=> dh = ch
BY LocksDiffer, LockTypes, LockAssumption

LEMMA RelayMentions ==
  ASSUME NEW ch \in Channels
  PROVE  \A q \in {RelayEnd(ch), RelaySend(ch), RelayLock(ch), RelayFind(ch)} :
           Only(q, ch) /\ ListsNothing(q)
<1>1. Only(RelayEnd(ch), ch) /\ ListsNothing(RelayEnd(ch))
  BY RelayLeads, EmptyScript, NoChannels DEF Leads, Only, ListsNothing
<1>2. Only(RelaySend(ch), ch) /\ ListsNothing(RelaySend(ch))
  BY <1>1, RelayLeads, NoChannels DEF Leads, Only, ListsNothing
<1>3. Only(RelayLock(ch), ch) /\ ListsNothing(RelayLock(ch))
  BY <1>2, RelayLeads, NoChannels DEF Leads, Only, ListsNothing
<1>4. Only(RelayFind(ch), ch) /\ ListsNothing(RelayFind(ch))
  BY <1>3, RelayLeads, NoChannels DEF Leads, Only, ListsNothing
<1> QED
  BY <1>1, <1>2, <1>3, <1>4

LEMMA JoinMentions ==
  ASSUME NEW c \in Clients, NEW n \in Names
  PROVE  /\ \A q \in {JoinEnd(<<>>), JoinFind(n), JoinRead(n), JoinPass(c, n)} :
              Nothing(q) /\ ListsNothing(q)
         /\ \A r \in Scripts, ch \in Channels :
              /\ Only(r, ch) => Only(JoinEnd(r), ch)
              /\ ListsOnly(r, ch) => ListsOnly(JoinEnd(r), ch)
              /\ ListsNothing(r) => ListsNothing(JoinEnd(r))
<1>1. ASSUME NEW r \in Scripts, NEW dh \in Channels
      PROVE  /\ Mentions(JoinEnd(r), dh) <=> Mentions(r, dh)
             /\ Lists(JoinEnd(r), dh) <=> Lists(r, dh)
  BY JoinLeads, NoChannels DEF Leads
<1>2. Nothing(JoinEnd(<<>>)) /\ ListsNothing(JoinEnd(<<>>))
  BY <1>1, EmptyScript DEF Nothing, ListsNothing
<1>3. Nothing(JoinFind(n)) /\ ListsNothing(JoinFind(n))
  BY <1>2, JoinLeads, NoChannels DEF Leads, Nothing, ListsNothing
<1>4. Nothing(JoinRead(n)) /\ ListsNothing(JoinRead(n))
  BY <1>3, JoinLeads, NoChannels DEF Leads, Nothing, ListsNothing
<1>5. Nothing(JoinPass(c, n)) /\ ListsNothing(JoinPass(c, n))
  BY <1>4, JoinLeads, NoChannels DEF Leads, Nothing, ListsNothing
<1> QED
  BY <1>1, <1>2, <1>3, <1>4, <1>5 DEF Only, ListsOnly, ListsNothing

LEMMA AddMentions ==
  ASSUME NEW c \in Clients, NEW ch \in Channels, NEW r \in Scripts,
         Nothing(r) \/ Only(r, ch)
  PROVE  \A q \in {AddEnd(ch, r), AddTypes(ch, r), AddSend(ch, r), AddEnter(ch, r),
                   AddPass(c, ch, r), AddLock(c, ch, r)} :
           /\ Only(q, ch)
           /\ \A dh \in Channels : Lists(q, dh) <=> Lists(r, dh)
<1> DEFINE Fine(q) == Only(q, ch) /\ \A dh \in Channels : Lists(q, dh) <=> Lists(r, dh)
<1>1. Fine(AddEnd(ch, r))
  BY AddLeads, NoChannels DEF Leads, Only, Nothing
<1>2. Fine(AddTypes(ch, r))
  BY <1>1, AddLeads, NoChannels DEF Leads, Only
<1>3. Fine(AddSend(ch, r))
  BY <1>2, AddLeads, NoChannels DEF Leads, Only
<1>4. Fine(AddEnter(ch, r))
  BY <1>3, AddLeads, NoChannels DEF Leads, Only
<1>5. Fine(AddPass(c, ch, r))
  BY <1>4, AddLeads, NoChannels DEF Leads, Only
<1>6. Fine(AddLock(c, ch, r))
  BY <1>5, AddLeads, NoChannels DEF Leads, Only
<1> QED
  BY <1>1, <1>2, <1>3, <1>4, <1>5, <1>6

LEMMA MapsMentions ==
  ASSUME NEW c \in Clients
  PROVE  /\ \A q \in {<<>>, MapsEnd, Deleting(c), DeletePass(c), DeleteLock(c)} :
              Nothing(q) /\ ListsNothing(q)
         /\ \A ch \in Channels : \A q \in {Listing(ch), Creating(c, ch)} :
              Only(q, ch) /\ ListsOnly(q, ch)
<1>0. Nothing(<<>>) /\ ListsNothing(<<>>)
  BY EmptyScript DEF Nothing, ListsNothing
<1>1. Nothing(MapsEnd) /\ ListsNothing(MapsEnd)
  BY <1>0, MapsLeads, NoChannels DEF Leads, Nothing, ListsNothing
<1>2. Nothing(Deleting(c)) /\ ListsNothing(Deleting(c))
  BY <1>1, MapsLeads, NoChannels DEF Leads, Nothing, ListsNothing
<1>3. Nothing(DeletePass(c)) /\ ListsNothing(DeletePass(c))
  BY <1>2, MapsLeads, NoChannels DEF Leads, Nothing, ListsNothing
<1>4. Nothing(DeleteLock(c)) /\ ListsNothing(DeleteLock(c))
  BY <1>3, MapsLeads, NoChannels DEF Leads, Nothing, ListsNothing
<1>5. ASSUME NEW ch \in Channels
      PROVE  /\ Only(Listing(ch), ch) /\ ListsOnly(Listing(ch), ch)
             /\ Only(Creating(c, ch), ch) /\ ListsOnly(Creating(c, ch), ch)
  <2>1. Only(Listing(ch), ch) /\ ListsOnly(Listing(ch), ch) /\ Listing(ch) \in Scripts
    BY <1>1, MapsLeads, NoChannels DEF Leads, Nothing, ListsNothing, Only, ListsOnly
  <2>2. LET q == AddLock(c, ch, Listing(ch)) IN Only(q, ch) /\ ListsOnly(q, ch)
    BY <2>1, AddMentions DEF ListsOnly
  <2> QED
    BY <2>1, <2>2, MapsLeads, NoChannels DEF Leads, Only, ListsOnly
<1> QED
  BY <1>0, <1>1, <1>2, <1>3, <1>4, <1>5

LEMMA LeaveMentions ==
  ASSUME NEW c \in Clients, NEW ch \in Channels
  PROVE  \A q \in {LeaveEnd(c, ch), LeaveQuit(c, ch), LeaveSend(c, ch), Leaving(c, ch),
                   LeavePass(c, ch), LeaveLock(c, ch), UnlistEnd(c, ch), Unlisting(c, ch),
                   UnlistLock(c, ch)} :
           Only(q, ch) /\ ListsNothing(q)
<1> DEFINE Fine(q) == Only(q, ch) /\ ListsNothing(q)
<1>0. Nothing(DeleteLock(c)) /\ ListsNothing(DeleteLock(c))
  BY MapsMentions
<1>1. Fine(LeaveEnd(c, ch))
  <2>1. Leads(LeaveEnd(c, ch), "unlock", cc(ch), DeleteLock(c))
    BY LeaveLeads
  <2> QED
    BY <1>0, <2>1, NoChannels DEF Leads, Only, Nothing, ListsNothing
<1>2. Fine(LeaveQuit(c, ch))
  BY <1>1, LeaveLeads, NoChannels DEF Leads, Only, ListsNothing
<1>3. Fine(LeaveSend(c, ch))
  BY <1>2, LeaveLeads, NoChannels DEF Leads, Only, ListsNothing
<1>4. Fine(Leaving(c, ch))
  BY <1>3, LeaveLeads, NoChannels DEF Leads, Only, ListsNothing
<1>5. Fine(LeavePass(c, ch))
  BY <1>4, LeaveLeads, NoChannels DEF Leads, Only, ListsNothing
<1>6. Fine(LeaveLock(c, ch))
  BY <1>5, LeaveLeads, NoChannels DEF Leads, Only, ListsNothing
<1>7. Fine(UnlistEnd(c, ch))
  BY <1>1, LeaveLeads, NoChannels DEF Leads, Only, ListsNothing
<1>8. Fine(Unlisting(c, ch))
  BY <1>7, LeaveLeads, NoChannels DEF Leads, Only, ListsNothing
<1>9. Fine(UnlistLock(c, ch))
  BY <1>8, LeaveLeads, NoChannels DEF Leads, Only, ListsNothing
<1> QED
  BY <1>1, <1>2, <1>3, <1>4, <1>5, <1>6, <1>7, <1>8, <1>9

LEMMA ServerMentions ==
  ASSUME NEW c \in Clients
  PROVE  \A q \in {<<>>, ServerEnd, TearEnd(c), Closing(c), TearClient(c), TearLock(c),
                   AcceptEnd, Registering(c), AcceptPass(c), AcceptMaps(c), AcceptLock(c)} :
           Nothing(q)
<1>0. Nothing(<<>>)
  BY EmptyScript DEF Nothing
<1>1. Nothing(ServerEnd)
  BY <1>0, ServerLeads, NoChannels DEF Leads, Nothing
<1>2. Nothing(TearEnd(c))
  BY <1>1, ServerLeads, NoChannels DEF Leads, Nothing
<1>3. Nothing(Closing(c))
  BY <1>2, ServerLeads, NoChannels DEF Leads, Nothing
<1>4. Nothing(TearClient(c))
  BY <1>3, ServerLeads, NoChannels DEF Leads, Nothing
<1>5. Nothing(TearLock(c))
  BY <1>4, ServerLeads, NoChannels DEF Leads, Nothing
<1>6. Nothing(AcceptEnd)
  BY <1>1, ServerLeads, NoChannels DEF Leads, Nothing
<1>7. Nothing(Registering(c))
  BY <1>6, ServerLeads, NoChannels DEF Leads, Nothing
<1>8. Nothing(AcceptPass(c))
  BY <1>7, ServerLeads, NoChannels DEF Leads, Nothing
<1>9. Nothing(AcceptMaps(c))
  BY <1>8, ServerLeads, NoChannels DEF Leads, Nothing
<1>10. Nothing(AcceptLock(c))
  BY <1>9, ServerLeads, NoChannels DEF Leads, Nothing
<1> QED
  BY <1>0, <1>1, <1>2, <1>3, <1>4, <1>5, <1>6, <1>7, <1>8, <1>9, <1>10

-----------------------------------------------------------------------------
(***************************************************************************)
(* The scripts of the model are these.                                     *)
(***************************************************************************)
LEMMA Regroups ==
  /\ \A x, y, z \in Scripts : (x \o y) \o z = x \o (y \o z)
  /\ \A x, y \in Scripts : x \o y \in Scripts
  /\ \A x \in Scripts : x \o <<>> = x /\ <<>> \o x = x
<1>1. \A x, y, z \in Scripts : (x \o y) \o z = x \o (y \o z)
  <2> SUFFICES ASSUME NEW x \in Scripts, NEW y \in Scripts, NEW z \in Scripts
               PROVE  (x \o y) \o z = x \o (y \o z)
    OBVIOUS
  <2> QED
    BY ConcatAssociative DEF Scripts
<1>2. \A x, y \in Scripts : x \o y \in Scripts
  BY ConcatProperties DEF Scripts
<1>3. \A x \in Scripts : x \o <<>> = x /\ <<>> \o x = x
  BY ConcatEmptySeq DEF Scripts
<1> QED
  BY <1>1, <1>2, <1>3

\* The same of an operator that the provers do not look into.
Cat(x, y) == x \o y

LEMMA CatRegroups ==
  ASSUME NEW x \in Scripts, NEW y \in Scripts, NEW z \in Scripts
  PROVE  Cat(x, y) \in Scripts /\ Cat(Cat(x, y), z) = Cat(x, Cat(y, z))
BY Regroups DEF Cat

LEMMA CatThree ==
  ASSUME NEW a \in Scripts, NEW b \in Scripts, NEW d \in Scripts, NEW r \in Scripts
  PROVE  Cat(Cat(a, b), d) \in Scripts /\ Cat(Cat(Cat(a, b), d), r) = Cat(a, Cat(b, Cat(d, r)))
<1>1. Cat(a, b) \in Scripts /\ Cat(d, r) \in Scripts
  BY CatRegroups
<1> QED
  BY <1>1, CatRegroups

LEMMA CatFour ==
  ASSUME NEW a \in Scripts, NEW b \in Scripts, NEW d \in Scripts, NEW e \in Scripts,
         NEW r \in Scripts
  PROVE  /\ Cat(Cat(Cat(a, b), d), e) \in Scripts
         /\ Cat(Cat(Cat(Cat(a, b), d), e), r) = Cat(a, Cat(b, Cat(d, Cat(e, r))))
<1>1. Cat(Cat(a, b), d) \in Scripts /\ Cat(e, r) \in Scripts
  BY CatThree, CatRegroups
<1>2. Cat(Cat(Cat(Cat(a, b), d), e), r) = Cat(Cat(Cat(a, b), d), Cat(e, r))
  BY <1>1, CatRegroups
<1>3. @ = Cat(a, Cat(b, Cat(d, Cat(e, r))))
  BY <1>1, CatThree
<1> QED
  BY <1>1, <1>2, <1>3, CatRegroups

LEMMA StepIsScript ==
  ASSUME NEW d \in Deeds, NEW x \in Things
  PROVE  Step(d, x) \in Scripts
<1>1. [do |-> d, of |-> x] \in [do : Deeds, of : Things]
  OBVIOUS
<1> QED
  BY <1>1 DEF Step, Scripts

LEMMA StepThen ==
  ASSUME NEW d \in Deeds, NEW x \in Things, NEW b \in Scripts, NEW r \in Scripts
  PROVE  /\ Step(d, x) \o r = Then(d, x, r)
         /\ (Step(d, x) \o b) \o r = Then(d, x, b \o r)
BY StepIsScript, Regroups DEF Then

LEMMA HoldThen ==
  ASSUME NEW l \in Locks, NEW b \in Scripts, NEW r \in Scripts
  PROVE  /\ Hold(l, b) \in Scripts /\ Read(l, b) \in Scripts
         /\ Hold(l, b) \o r = Then("lock", l, b \o Then("unlock", l, r))
         /\ Read(l, b) \o r = Then("rlock", l, b \o Then("runlock", l, r))
<1>1. l \in Things /\ {"lock", "unlock", "rlock", "runlock"} \subseteq Deeds
  BY DEF Things, Deeds
<1>2. /\ Step("lock", l) \in Scripts /\ Step("unlock", l) \in Scripts
      /\ Step("rlock", l) \in Scripts /\ Step("runlock", l) \in Scripts
  BY <1>1, StepIsScript
<1>3. ASSUME NEW x \in Scripts, NEW y \in Scripts
      PROVE  (x \o b) \o y \in Scripts /\ ((x \o b) \o y) \o r = x \o (b \o (y \o r))
  <2>1. Cat(Cat(x, b), y) \in Scripts /\ Cat(Cat(Cat(x, b), y), r) = Cat(x, Cat(b, Cat(y, r)))
    BY CatThree
  <2> QED
    BY <2>1 DEF Cat
<1> QED
  BY <1>2, <1>3 DEF Hold, Read, Then

\* The channel's part of a join.
LEMMA AddIs ==
  ASSUME NEW c \in Clients, NEW ch \in Channels, NEW r \in Scripts
  PROVE  AddScript(ch, c) \in Scripts /\ AddScript(ch, c) \o r = AddLock(c, ch, r)
<1> DEFINE P == Step("pass", cl(c))
           E == Step("enter", ch)
           D == Step("send", ch)
           T == Step("types", ch)
           B == ((P \o E) \o D) \o T
<1>1. {"pass", "enter", "send", "types"} \subseteq Deeds
  BY DEF Deeds
<1>2. P \in Scripts /\ E \in Scripts /\ D \in Scripts /\ T \in Scripts
  BY <1>1, InThings, StepIsScript
<1>3. AddScript(ch, c) = Hold(cc(ch), B)
  BY DEF AddScript, Pass
<1>4. AddEnd(ch, r) \in Scripts
  BY AddLeads DEF Leads
<1> HIDE DEF P, E, D, T
<1>5. /\ Cat(Cat(Cat(P, E), D), T) \in Scripts
      /\ Cat(Cat(Cat(Cat(P, E), D), T), AddEnd(ch, r))
           = Cat(P, Cat(E, Cat(D, Cat(T, AddEnd(ch, r)))))
  BY <1>2, <1>4, CatFour
<1>6. B \in Scripts /\ B \o AddEnd(ch, r) = P \o (E \o (D \o (T \o AddEnd(ch, r))))
  BY <1>5 DEF Cat
<1>7. B \o AddEnd(ch, r) = AddPass(c, ch, r)
  BY <1>6 DEF P, E, D, T, AddPass, AddEnter, AddSend, AddTypes, Then
<1>8. Hold(cc(ch), B) \o r = Then("lock", cc(ch), B \o AddEnd(ch, r))
  BY <1>6, LockTypes, HoldThen DEF AddEnd
<1>9. Hold(cc(ch), B) \in Scripts
  BY <1>6, LockTypes, HoldThen
<1> QED
  BY <1>3, <1>7, <1>8, <1>9 DEF AddLock

LEMMA CreateIs ==
  ASSUME NEW c \in Clients, NEW ch \in Channels
  PROVE  CreateScript(ch, c) = Creating(c, ch)
<1>1. Step("list", ch) \in Scripts /\ AddScript(ch, c) \in Scripts
  BY InThings, StepIsScript, AddIs, EmptyScript DEF Deeds
<1>2. AddScript(ch, c) \o Step("list", ch) \in Scripts
  BY <1>1, Regroups
<1>3. CreateScript(ch, c) = Hold(mu, AddScript(ch, c) \o Step("list", ch)) \o <<>>
  BY <1>2, LockTypes, HoldThen, EmptyScript, Regroups DEF CreateScript
<1>4. @ = Then("lock", mu, (AddScript(ch, c) \o Step("list", ch)) \o MapsEnd)
  BY <1>2, LockTypes, HoldThen, EmptyScript DEF MapsEnd
<1>5. MapsEnd \in Scripts /\ Listing(ch) \in Scripts
  BY MapsLeads DEF Leads
<1>6. (AddScript(ch, c) \o Step("list", ch)) \o MapsEnd = AddScript(ch, c) \o Listing(ch)
  BY <1>1, <1>5, Regroups DEF Listing, Then
<1>7. @ = AddLock(c, ch, Listing(ch))
  BY <1>5, AddIs
<1> QED
  BY <1>3, <1>4, <1>6, <1>7 DEF Creating

\* A join goes on with a channel that it has found, or with a new one.
LEMMA FindIs ==
  ASSUME NEW c \in Clients, NEW ch \in Channels
  PROVE  /\ AddThen(JoinEnd(<<>>), ch, c) = JoinEnd(AddLock(c, ch, <<>>))
         /\ JoinEnd(<<>>) \o CreateScript(ch, c) = JoinEnd(Creating(c, ch))
<1>1. \A r \in Scripts : JoinEnd(<<>>) \o r = JoinEnd(r)
  <2>1. Step("runlock", mu) \in Scripts
    BY InThings, StepIsScript DEF Deeds
  <2> QED
    BY <2>1, Regroups DEF JoinEnd, Then
<1>2. AddScript(ch, c) \in Scripts /\ AddScript(ch, c) = AddLock(c, ch, <<>>)
  <2>1. AddScript(ch, c) \in Scripts /\ AddScript(ch, c) \o <<>> = AddLock(c, ch, <<>>)
    BY AddIs, EmptyScript
  <2> QED
    BY <2>1, Regroups
<1>3. CreateScript(ch, c) \in Scripts
  BY CreateIs, MapsLeads DEF Leads
<1> QED
  BY <1>1, <1>2, <1>3, CreateIs DEF AddThen

LEMMA UnlistIs ==
  ASSUME NEW c \in Clients, NEW ch \in Channels
  PROVE  Hold(mu, Step("unlist", ch)) \o LeaveEnd(c, ch) = UnlistLock(c, ch)
<1>1. Step("unlist", ch) \in Scripts
  BY InThings, StepIsScript DEF Deeds
<1>2. LeaveEnd(c, ch) \in Scripts
  BY LeaveLeads DEF Leads
<1> QED
  BY <1>1, <1>2, LockTypes, HoldThen DEF UnlistLock, Unlisting, UnlistEnd, Then

LEMMA DeleteIs ==
  ASSUME NEW c \in Clients
  PROVE  /\ Hold(mu, Pass(cl(c)) \o Step("delete", c)) = DeleteLock(c)
         /\ DeleteLock(c) \in Scripts
<1> DEFINE P == Step("pass", cl(c))
           D == Step("delete", c)
<1>1. P \in Scripts /\ D \in Scripts
  BY InThings, StepIsScript DEF Deeds
<1>2. MapsEnd \in Scripts /\ DeleteLock(c) \in Scripts
  BY MapsLeads DEF Leads
<1>3. P \o D \in Scripts /\ (P \o D) \o MapsEnd = P \o (D \o MapsEnd)
  BY <1>1, <1>2, Regroups
<1>4. Hold(mu, P \o D) = Hold(mu, P \o D) \o <<>>
  BY <1>3, LockTypes, HoldThen, EmptyScript, Regroups
<1>5. @ = Then("lock", mu, (P \o D) \o MapsEnd)
  BY <1>3, LockTypes, HoldThen, EmptyScript DEF MapsEnd
<1> QED
  BY <1>2, <1>3, <1>4, <1>5 DEF Pass, DeleteLock, DeletePass, Deleting, Then

LEMMA LeaveIs ==
  ASSUME NEW c \in Clients
  PROVE  /\ at[c] = None => LeaveScript(c) = DeleteLock(c)
         /\ at[c] \in Channels => LeaveScript(c) = LeaveLock(c, at[c])
<1>1. CASE at[c] = None
  <2>1. at[c] \notin Channels
    BY <1>1, LockAssumption
  <2> QED
    BY <1>1, <2>1, DeleteIs, Regroups DEF LeaveScript
<1>2. CASE at[c] \in Channels
  <2> DEFINE ch == at[c]
             P == Step("pass", cl(c))
             L == Step("leave", ch)
             D == Step("send", ch)
             Q == Step("quit", ch)
             B == ((P \o L) \o D) \o Q
             r == DeleteLock(c)
             e == LeaveEnd(c, ch)
  <2>1. P \in Scripts /\ L \in Scripts /\ D \in Scripts /\ Q \in Scripts
    BY <1>2, InThings, StepIsScript DEF Deeds
  <2>2. r \in Scripts /\ e \in Scripts
    BY <1>2, DeleteIs, LeaveLeads DEF Leads
  <2>3. LeaveScript(c) = Hold(cc(ch), B) \o r
    <3>1. at[c] # None
      BY <1>2, LockAssumption
    <3> QED
      BY <3>1, DeleteIs DEF LeaveScript, Pass
  <2> HIDE DEF P, L, D, Q
  <2>a. /\ Cat(Cat(Cat(P, L), D), Q) \in Scripts
        /\ Cat(Cat(Cat(Cat(P, L), D), Q), e) = Cat(P, Cat(L, Cat(D, Cat(Q, e))))
    <3> HIDE DEF e
    <3> QED
      BY <2>1, <2>2, CatFour
  <2>4. B \in Scripts
    BY <2>a DEF Cat
  <2>5. Hold(cc(ch), B) \o r = Then("lock", cc(ch), B \o e)
    BY <1>2, <2>2, <2>4, LockTypes, HoldThen DEF LeaveEnd
  <2> HIDE DEF e
  <2>6. B \o e = P \o (L \o (D \o (Q \o e)))
    BY <2>a DEF Cat
  <2>7. B \o e = LeavePass(c, ch)
    BY <2>6 DEF e, P, L, D, Q, LeavePass, Leaving, LeaveSend, LeaveQuit, Then
  <2> QED
    BY <1>2, <2>3, <2>5, <2>7, LockAssumption DEF LeaveLock
<1> QED
  BY <1>1, <1>2

LEMMA JoinIs ==
  ASSUME NEW c \in Clients, NEW n \in Names
  PROVE  JoinScript(c, n) = JoinPass(c, n)
<1>1. Step("find", n) \in Scripts
  BY InThings, StepIsScript DEF Deeds
<1>2. Read(mu, Step("find", n)) = Read(mu, Step("find", n)) \o <<>>
  BY <1>1, LockTypes, HoldThen, EmptyScript, Regroups
<1>3. @ = JoinRead(n)
  BY <1>1, LockTypes, HoldThen, EmptyScript DEF JoinRead, JoinFind, JoinEnd, Then
<1> QED
  BY <1>2, <1>3 DEF JoinScript, JoinPass, Then, Pass

LEMMA RelayIs ==
  ASSUME NEW c \in Clients, at[c] \in Channels
  PROVE  RelayScript(c) = RelayFind(at[c])
<1>1. Step("send", at[c]) \in Scripts /\ cc(at[c]) \in Locks
  BY InThings, LockTypes, StepIsScript DEF Deeds
<1>2. Read(cc(at[c]), Step("send", at[c])) = Read(cc(at[c]), Step("send", at[c])) \o <<>>
  BY <1>1, HoldThen, EmptyScript, Regroups
<1>3. @ = RelayLock(at[c])
  BY <1>1, HoldThen, EmptyScript DEF RelayLock, RelaySend, RelayEnd, Then
<1> QED
  BY <1>2, <1>3 DEF RelayScript, RelayFind, Then, Pass

LEMMA TearIs ==
  ASSUME NEW c \in Clients
  PROVE  TeardownScript(c) = TearLock(c)
<1>1. Step("close", c) \in Scripts /\ cl(c) \in Locks /\ s \in Locks
  BY InThings, LockTypes, StepIsScript DEF Deeds
<1>2. Hold(cl(c), Step("close", c)) \in Scripts /\ ServerEnd \in Scripts
  BY <1>1, HoldThen, EmptyScript, ServerLeads DEF Leads
<1>3. TeardownScript(c) = TeardownScript(c) \o <<>>
  BY <1>1, <1>2, HoldThen, EmptyScript, Regroups DEF TeardownScript
<1>4. @ = Then("lock", s, Hold(cl(c), Step("close", c)) \o ServerEnd)
  BY <1>1, <1>2, HoldThen, EmptyScript DEF TeardownScript, ServerEnd
<1>5. Hold(cl(c), Step("close", c)) \o ServerEnd = TearClient(c)
  BY <1>1, <1>2, HoldThen DEF TearClient, Closing, TearEnd, Then
<1> QED
  BY <1>3, <1>4, <1>5 DEF TearLock

LEMMA AcceptIs ==
  ASSUME NEW c \in Clients
  PROVE  AcceptScript(c) = AcceptLock(c)
<1> DEFINE P == Step("pass", cl(c))
           G == Step("register", c)
           H == Hold(mu, P \o G)
<1>1. P \in Scripts /\ G \in Scripts /\ mu \in Locks /\ s \in Locks
  BY InThings, LockTypes, StepIsScript DEF Deeds
<1>2. ServerEnd \in Scripts /\ AcceptEnd \in Scripts
  BY ServerLeads DEF Leads
<1>3. P \o G \in Scripts /\ (P \o G) \o AcceptEnd = P \o (G \o AcceptEnd)
  BY <1>1, <1>2, Regroups
<1>4. H \in Scripts /\ H \o ServerEnd = Then("lock", mu, (P \o G) \o AcceptEnd)
  BY <1>1, <1>2, <1>3, HoldThen DEF AcceptEnd
<1>5. H \o ServerEnd = AcceptMaps(c)
  BY <1>3, <1>4 DEF AcceptMaps, AcceptPass, Registering, Then
<1> HIDE DEF H
<1>6. Hold(s, H) = Hold(s, H) \o <<>>
  BY <1>1, <1>4, HoldThen, EmptyScript, Regroups
<1>7. @ = Then("lock", s, H \o ServerEnd)
  BY <1>1, <1>4, HoldThen, EmptyScript DEF ServerEnd
<1> QED
  BY <1>5, <1>6, <1>7 DEF H, AcceptScript, Pass, AcceptLock

-----------------------------------------------------------------------------
(***************************************************************************)
(* What a goroutine may have left to do, given the locks it holds (W),     *)
(* those it holds for reading (R), and the channel its client is in (a).   *)
(***************************************************************************)
Relaying(c, q, W, R, a) ==
  /\ W = {}
  /\ \E ch \in Channels :
       /\ a = ch
       /\ \/ R = {} /\ q \in {RelayFind(ch), RelayLock(ch)}
          \/ R = {cc(ch)} /\ (q = RelaySend(ch) \/ Passing(q, RelayEnd(ch)))

Joining(c, q, W, R, a) ==
  /\ W = {} /\ a = None
  /\ \/ \E n \in Names :
          \/ R = {} /\ q \in {JoinPass(c, n), JoinRead(n)}
          \/ R = {mu} /\ q = JoinFind(n)
     \/ \E ch \in Channels :
          \/ R = {mu} /\ q \in {JoinEnd(AddLock(c, ch, <<>>)), JoinEnd(Creating(c, ch))}
          \/ R = {} /\ q = Creating(c, ch)

AddingTo(c, q, W, ch, B, r) ==
  \/ W = B /\ q = AddLock(c, ch, r)
  \/ /\ W = B \cup {cc(ch)}
     /\ \/ q \in {AddPass(c, ch, r), AddEnter(ch, r), AddSend(ch, r)}
        \/ Passing(q, AddTypes(ch, r)) \/ Passing(q, AddEnd(ch, r))

Adding(c, q, W, R, a) ==
  /\ R = {}
  /\ \E ch \in Channels :
       /\ a \in {None, ch}
       /\ \/ AddingTo(c, q, W, ch, {}, <<>>)
          \/ AddingTo(c, q, W, ch, {mu}, Listing(ch))
          \/ W = {mu} /\ q = Listing(ch)

Leaves(c, q, W, R, a) ==
  /\ R = {}
  /\ \E ch \in Channels :
       /\ a \in {None, ch}
       /\ \/ W = {} /\ q = LeaveLock(c, ch)
          \/ /\ W = {cc(ch)}
             /\ \/ q \in {LeavePass(c, ch), Leaving(c, ch), LeaveSend(c, ch),
                          UnlistLock(c, ch), LeaveEnd(c, ch)}
                \/ Passing(q, LeaveQuit(c, ch))
          \/ W = {mu, cc(ch)} /\ q \in {Unlisting(c, ch), UnlistEnd(c, ch)}

Ends(c, q, W, R, a) ==
  /\ R = {}
  /\ \/ W = {} /\ q \in {<<>>, DeleteLock(c)}
     \/ W = {mu} /\ q \in {DeletePass(c), Deleting(c), MapsEnd}

ReaderAt(c, q, W, R, a) ==
  \/ Relaying(c, q, W, R, a) \/ Joining(c, q, W, R, a) \/ Adding(c, q, W, R, a)
  \/ Leaves(c, q, W, R, a) \/ Ends(c, q, W, R, a)

TeardownAt(c, q, W, R) ==
  /\ R = {}
  /\ \/ W = {} /\ q \in {<<>>, TearLock(c)}
     \/ W = {s} /\ q \in {TearClient(c), ServerEnd}
     \/ W = {s, cl(c)} /\ q \in {Closing(c), TearEnd(c)}

AcceptorAt(q, W, R) ==
  /\ R = {}
  /\ \/ W = {} /\ q = <<>>
     \/ \E c \in Clients :
          \/ W = {} /\ q = AcceptLock(c)
          \/ W = {s} /\ q \in {AcceptMaps(c), ServerEnd}
          \/ W = {s, mu} /\ q \in {AcceptPass(c), Registering(c), AcceptEnd}

(***************************************************************************)
(* What that means: the scripts are well formed, concern one channel and   *)
(* the locks held, and wait for locks in order.                            *)
(***************************************************************************)
Waiting(q) == q # <<>> /\ Head(q).do \in {"lock", "rlock", "pass"}

InOrder(q, W, R) ==
  Waiting(q) =>
    \/ /\ Head(q).do = "pass" /\ mu \notin R
       /\ \E m \in Clients : Head(q).of = cl(m)
    \/ Head(q).of = mu /\ mu \notin W /\ R = {}
    \/ \E ch \in Channels :
         /\ Head(q).of = cc(ch) /\ R = {}
         /\ W = {} \/ (W = {mu} /\ Lists(q, ch))

Sound(q, W, R, a) ==
  /\ q \in Scripts
  /\ \A l \in W \cup R : l = mu \/ \E ch \in Channels : l = cc(ch) /\ Mentions(q, ch)
  /\ \E x \in Channels \cup {None} :
       a \in {None, x} /\ \A ch \in Channels : Mentions(q, ch) => ch = x
  /\ InOrder(q, W, R)

\* Every step leads from one such place to another.
Moves(c, q, W, R, a) ==
  LET d == Head(q).do
      x == Head(q).of
      r == Tail(q)
  IN /\ d \in Deeds \ {"register", "close"}
     /\ d = "lock" => x \in Locks /\ ReaderAt(c, r, W \cup {x}, R, a)
     /\ d = "rlock" => x \in Locks /\ ReaderAt(c, r, W, R \cup {x}, a)
     /\ d = "pass" => ReaderAt(c, r, W, R, a)
     /\ d = "unlock" => x \in W /\ ReaderAt(c, r, W \ {x}, R, a)
     /\ d = "runlock" => x \in R /\ ReaderAt(c, r, W, R \ {x}, a)
     /\ d \in {"send", "types"} => \A p \in Seq(PassSteps) : ReaderAt(c, p \o r, W, R, a)
     /\ d = "enter" => x \in Channels /\ ReaderAt(c, r, W, R, a) /\ ReaderAt(c, r, W, R, x)
     /\ d = "leave" => ReaderAt(c, r, W, R, None)
     /\ d = "quit" => /\ x \in Channels /\ r = LeaveEnd(c, x)
                      /\ ReaderAt(c, r, W, R, a) /\ ReaderAt(c, UnlistLock(c, x), W, R, a)
     /\ d = "find" =>
          /\ a = None /\ r = JoinEnd(<<>>)
          /\ \A ch \in Channels : /\ ReaderAt(c, JoinEnd(AddLock(c, ch, <<>>)), W, R, a)
                                   /\ ReaderAt(c, JoinEnd(Creating(c, ch)), W, R, a)
     /\ d = "list" => x \in Channels /\ r = MapsEnd /\ ReaderAt(c, r, W, R, a)
     /\ d \in {"unlist", "delete"} => ReaderAt(c, r, W, R, a)

LEMMA RelayingMoves ==
  ASSUME NEW c \in Clients, NEW q, NEW W, NEW R, NEW a, Relaying(c, q, W, R, a)
  PROVE  Sound(q, W, R, a) /\ q # <<>> /\ Moves(c, q, W, R, a)
<1>1. PICK ch \in Channels :
        /\ W = {} /\ a = ch
        /\ \/ R = {} /\ q \in {RelayFind(ch), RelayLock(ch)}
           \/ R = {cc(ch)} /\ (q = RelaySend(ch) \/ Passing(q, RelayEnd(ch)))
  BY DEF Relaying
<1>2. \A l \in {RelayEnd(ch), RelaySend(ch), RelayLock(ch), RelayFind(ch)} : Only(l, ch)
  BY RelayMentions
<1>a. \A r, V, U : Relaying(c, r, V, U, ch) => ReaderAt(c, r, V, U, ch)
  BY DEF ReaderAt
<1>3. CASE R = {} /\ q = RelayFind(ch)
  <2>1. Leads(q, "pass", mu, RelayLock(ch))
    BY <1>3, RelayLeads
  <2>2. Sound(q, W, R, a)
    BY <1>1, <1>2, <1>3, <2>1 DEF Sound, Leads, InOrder, Only
  <2>3. Relaying(c, RelayLock(ch), W, R, ch)
    BY <1>1, <1>3 DEF Relaying
  <2> QED
    BY <1>1, <1>a, <2>1, <2>2, <2>3 DEF Moves, Leads, Deeds
<1>4. CASE R = {} /\ q = RelayLock(ch)
  <2>1. Leads(q, "rlock", cc(ch), RelaySend(ch))
    BY <1>4, RelayLeads
  <2>2. Sound(q, W, R, a)
    BY <1>1, <1>2, <1>4, <2>1 DEF Sound, Leads, InOrder, Only
  <2>3. Relaying(c, RelaySend(ch), W, R \cup {cc(ch)}, ch) /\ cc(ch) \in Locks
    BY <1>1, <1>4, LockTypes DEF Relaying
  <2> QED
    BY <1>1, <1>a, <2>1, <2>2, <2>3 DEF Moves, Leads, Deeds
<1>5. CASE R = {cc(ch)} /\ q = RelaySend(ch)
  <2>1. Leads(q, "send", ch, RelayEnd(ch))
    BY <1>5, RelayLeads
  <2>2. Sound(q, W, R, a)
    BY <1>1, <1>2, <1>5, <2>1 DEF Sound, Leads, InOrder, Only, Waiting
  <2>3. \A p \in Seq(PassSteps) : Relaying(c, p \o RelayEnd(ch), W, R, ch)
    BY <1>1, <1>5 DEF Relaying, Passing
  <2> QED
    BY <1>1, <1>a, <2>1, <2>2, <2>3 DEF Moves, Leads, Deeds
<1>6. CASE R = {cc(ch)} /\ q = RelayEnd(ch)
  <2>1. Leads(q, "runlock", cc(ch), <<>>)
    BY <1>6, RelayLeads
  <2>2. Sound(q, W, R, a)
    BY <1>1, <1>2, <1>6, <2>1 DEF Sound, Leads, InOrder, Only, Waiting
  <2>3. Ends(c, <<>>, W, R \ {cc(ch)}, a)
    BY <1>1, <1>6 DEF Ends
  <2> QED
    BY <1>1, <1>6, <2>1, <2>2, <2>3 DEF Moves, Leads, Deeds, ReaderAt
<1>7. CASE R = {cc(ch)} /\ Passing(q, RelayEnd(ch)) /\ q # RelayEnd(ch)
  <2>1. /\ q \in Scripts /\ q # <<>> /\ Head(q).do = "pass"
        /\ \E m \in Clients : Head(q).of = cl(m)
        /\ Passing(Tail(q), RelayEnd(ch))
        /\ \A dh \in Channels : Mentions(q, dh) <=> Mentions(RelayEnd(ch), dh)
    <3>1. RelayEnd(ch) \in Scripts
      BY RelayLeads DEF Leads
    <3> QED
      BY <1>7, <3>1, PassingLeads
  <2>2. Sound(q, W, R, a)
    BY <1>1, <1>2, <1>7, <2>1, LocksDiffer DEF Sound, InOrder, Only
  <2>3. Relaying(c, Tail(q), W, R, ch)
    BY <1>1, <1>7, <2>1 DEF Relaying
  <2> QED
    BY <1>1, <1>a, <2>1, <2>2, <2>3 DEF Moves, Deeds
<1> QED
  BY <1>1, <1>3, <1>4, <1>5, <1>6, <1>7

LEMMA JoiningMoves ==
  ASSUME NEW c \in Clients, NEW q, NEW W, NEW R, NEW a, Joining(c, q, W, R, a)
  PROVE  Sound(q, W, R, a) /\ q # <<>> /\ Moves(c, q, W, R, a)
<1>1. W = {} /\ a = None
  BY DEF Joining
<1>2. \A r, V, U : Joining(c, r, V, U, a) => ReaderAt(c, r, V, U, a)
  BY DEF ReaderAt
<1>3. ASSUME NEW n \in Names, R = {} /\ q = JoinPass(c, n)
      PROVE  Sound(q, W, R, a) /\ q # <<>> /\ Moves(c, q, W, R, a)
  <2>1. Leads(q, "pass", cl(c), JoinRead(n)) /\ Nothing(q)
    BY <1>3, JoinLeads, JoinMentions
  <2>2. Sound(q, W, R, a)
    BY <1>1, <1>3, <2>1 DEF Sound, Leads, InOrder, Nothing
  <2>3. Joining(c, JoinRead(n), W, R, a)
    BY <1>1, <1>3 DEF Joining
  <2> QED
    BY <1>2, <2>1, <2>2, <2>3 DEF Moves, Leads, Deeds
<1>4. ASSUME NEW n \in Names, R = {} /\ q = JoinRead(n)
      PROVE  Sound(q, W, R, a) /\ q # <<>> /\ Moves(c, q, W, R, a)
  <2>1. Leads(q, "rlock", mu, JoinFind(n)) /\ Nothing(q)
    BY <1>4, JoinLeads, JoinMentions
  <2>2. Sound(q, W, R, a)
    BY <1>1, <1>4, <2>1 DEF Sound, Leads, InOrder, Nothing
  <2>3. Joining(c, JoinFind(n), W, R \cup {mu}, a) /\ mu \in Locks
    BY <1>1, <1>4, LockTypes DEF Joining
  <2> QED
    BY <1>2, <2>1, <2>2, <2>3 DEF Moves, Leads, Deeds
<1>5. ASSUME NEW n \in Names, R = {mu} /\ q = JoinFind(n)
      PROVE  Sound(q, W, R, a) /\ q # <<>> /\ Moves(c, q, W, R, a)
  <2>1. Leads(q, "find", n, JoinEnd(<<>>)) /\ Nothing(q)
    BY <1>5, JoinLeads, JoinMentions
  <2>2. Sound(q, W, R, a)
    BY <1>1, <1>5, <2>1 DEF Sound, Leads, InOrder, Waiting, Nothing
  <2>3. \A ch \in Channels : /\ Joining(c, JoinEnd(AddLock(c, ch, <<>>)), W, R, a)
                             /\ Joining(c, JoinEnd(Creating(c, ch)), W, R, a)
    BY <1>1, <1>5 DEF Joining
  <2> QED
    BY <1>1, <1>2, <2>1, <2>2, <2>3 DEF Moves, Leads, Deeds
<1>6. ASSUME NEW ch \in Channels, R = {mu} /\ q = JoinEnd(AddLock(c, ch, <<>>))
      PROVE  Sound(q, W, R, a) /\ q # <<>> /\ Moves(c, q, W, R, a)
  <2>1. AddLock(c, ch, <<>>) \in Scripts /\ Only(AddLock(c, ch, <<>>), ch)
    BY EmptyScript, AddLeads, AddMentions DEF Leads, Nothing
  <2>2. Leads(q, "runlock", mu, AddLock(c, ch, <<>>))
    <3>1. \E n \in Names : TRUE
      BY DEF Channels
    <3> QED
      BY <1>6, <2>1, <3>1, JoinLeads
  <2>3. Only(q, ch)
    <3>1. \E n \in Names : TRUE
      BY DEF Channels
    <3> QED
      BY <1>6, <2>1, <3>1, JoinMentions
  <2>4. Sound(q, W, R, a)
    BY <1>1, <1>6, <2>2, <2>3 DEF Sound, Leads, InOrder, Waiting, Only
  <2>5. Adding(c, AddLock(c, ch, <<>>), W, R \ {mu}, a)
    BY <1>1, <1>6 DEF Adding, AddingTo
  <2> QED
    BY <1>6, <2>2, <2>4, <2>5 DEF Moves, Leads, Deeds, ReaderAt
<1>7. ASSUME NEW ch \in Channels, R = {mu} /\ q = JoinEnd(Creating(c, ch))
      PROVE  Sound(q, W, R, a) /\ q # <<>> /\ Moves(c, q, W, R, a)
  <2>0. PICK n \in Names : TRUE
    BY <1>7 DEF Channels
  <2>1. Creating(c, ch) \in Scripts /\ Only(Creating(c, ch), ch)
    BY MapsLeads, MapsMentions DEF Leads
  <2>2. Leads(q, "runlock", mu, Creating(c, ch)) /\ Only(q, ch)
    BY <1>7, <2>1, JoinLeads, JoinMentions
  <2>3. Sound(q, W, R, a)
    BY <1>1, <1>7, <2>2 DEF Sound, Leads, InOrder, Waiting, Only
  <2>4. Joining(c, Creating(c, ch), W, R \ {mu}, a)
    BY <1>1, <1>7 DEF Joining
  <2> QED
    BY <1>2, <1>7, <2>2, <2>3, <2>4 DEF Moves, Leads, Deeds
<1>8. ASSUME NEW ch \in Channels, R = {} /\ q = Creating(c, ch)
      PROVE  Sound(q, W, R, a) /\ q # <<>> /\ Moves(c, q, W, R, a)
  <2>1. Leads(q, "lock", mu, AddLock(c, ch, Listing(ch))) /\ Only(q, ch)
    BY <1>8, MapsLeads, MapsMentions
  <2>2. Sound(q, W, R, a)
    BY <1>1, <1>8, <2>1 DEF Sound, Leads, InOrder, Only
  <2>3. Adding(c, AddLock(c, ch, Listing(ch)), W \cup {mu}, R, a) /\ mu \in Locks
    BY <1>1, <1>8, LockTypes DEF Adding, AddingTo
  <2> QED
    BY <2>1, <2>2, <2>3 DEF Moves, Leads, Deeds, ReaderAt
<1> QED
  BY <1>3, <1>4, <1>5, <1>6, <1>7, <1>8 DEF Joining

\* Once for a channel that was found, and once for a new one, under mu.
LEMMA AddingToMoves ==
  ASSUME NEW c \in Clients, NEW q, NEW W, NEW ch \in Channels, NEW B, NEW r,
         NEW a \in {None, ch}, (B = {} /\ r = <<>>) \/ (B = {mu} /\ r = Listing(ch)),
         AddingTo(c, q, W, ch, B, r)
  PROVE  Sound(q, W, {}, a) /\ q # <<>> /\ Moves(c, q, W, {}, a)
<1>1. r \in Scripts /\ (Nothing(r) \/ Only(r, ch)) /\ (B = {mu} => Lists(r, ch))
  <2>1. CASE B = {} /\ r = <<>>
    BY <2>1, EmptyScript DEF Nothing
  <2>2. CASE B = {mu} /\ r = Listing(ch)
    <3>1. Leads(r, "list", ch, MapsEnd) /\ Only(r, ch) /\ ListsOnly(r, ch)
      BY <2>2, MapsLeads, MapsMentions
    <3> QED
      BY <3>1 DEF Leads, ListsOnly
  <2> QED
    BY <2>1, <2>2
<1>2. \A p, V : \A e \in {None, ch} : AddingTo(c, p, V, ch, B, r) => ReaderAt(c, p, V, {}, e)
  BY DEF ReaderAt, Adding
<1>3. \A e \in {None, ch} : ReaderAt(c, r, B, {}, e)
  BY DEF ReaderAt, Ends, Adding
<1>4. \A p \in {AddEnd(ch, r), AddTypes(ch, r), AddSend(ch, r), AddEnter(ch, r),
                AddPass(c, ch, r), AddLock(c, ch, r)} :
        Only(p, ch) /\ (B = {mu} => Lists(p, ch))
  BY <1>1, AddMentions
<1>5. cc(ch) \notin B /\ (B \cup {cc(ch)}) \ {cc(ch)} = B /\ cc(ch) \in Locks
  BY LocksDiffer, LockTypes
<1>6. ASSUME Only(q, ch), q \in Scripts, InOrder(q, W, {}), W \in {B, B \cup {cc(ch)}}
      PROVE  Sound(q, W, {}, a)
  BY <1>6 DEF Sound, Only
<1>7. CASE W = B /\ q = AddLock(c, ch, r)
  <2>1. Leads(q, "lock", cc(ch), AddPass(c, ch, r)) /\ Only(q, ch) /\ (B = {mu} => Lists(q, ch))
    BY <1>1, <1>4, <1>7, AddLeads
  <2>2. Sound(q, W, {}, a)
    BY <1>6, <1>7, <2>1 DEF Leads, InOrder
  <2>3. AddingTo(c, AddPass(c, ch, r), W \cup {cc(ch)}, ch, B, r)
    BY <1>7 DEF AddingTo
  <2> QED
    BY <1>2, <1>5, <2>1, <2>2, <2>3 DEF Moves, Leads, Deeds
<1> DEFINE H == B \cup {cc(ch)}
<1>8. CASE W = H /\ q = AddPass(c, ch, r)
  <2>1. Leads(q, "pass", cl(c), AddEnter(ch, r)) /\ Only(q, ch)
    BY <1>1, <1>4, <1>8, AddLeads
  <2>2. Sound(q, W, {}, a)
    BY <1>6, <1>8, <2>1 DEF Leads, InOrder
  <2>3. AddingTo(c, AddEnter(ch, r), W, ch, B, r)
    BY <1>8 DEF AddingTo
  <2> QED
    BY <1>2, <2>1, <2>2, <2>3 DEF Moves, Leads, Deeds
<1>9. CASE W = H /\ q = AddEnter(ch, r)
  <2>1. Leads(q, "enter", ch, AddSend(ch, r)) /\ Only(q, ch)
    BY <1>1, <1>4, <1>9, AddLeads
  <2>2. Sound(q, W, {}, a)
    BY <1>6, <1>9, <2>1 DEF Leads, InOrder, Waiting
  <2>3. AddingTo(c, AddSend(ch, r), W, ch, B, r)
    BY <1>9 DEF AddingTo
  <2> QED
    BY <1>2, <2>1, <2>2, <2>3 DEF Moves, Leads, Deeds
<1>10. CASE W = H /\ q = AddSend(ch, r)
  <2>1. Leads(q, "send", ch, AddTypes(ch, r)) /\ Only(q, ch)
    BY <1>1, <1>4, <1>10, AddLeads
  <2>2. Sound(q, W, {}, a)
    BY <1>6, <1>10, <2>1 DEF Leads, InOrder, Waiting
  <2>3. \A p \in Seq(PassSteps) : AddingTo(c, p \o AddTypes(ch, r), W, ch, B, r)
    BY <1>10 DEF AddingTo, Passing
  <2> QED
    BY <1>2, <2>1, <2>2, <2>3 DEF Moves, Leads, Deeds
<1>11. CASE W = H /\ q = AddTypes(ch, r)
  <2>1. Leads(q, "types", ch, AddEnd(ch, r)) /\ Only(q, ch)
    BY <1>1, <1>4, <1>11, AddLeads
  <2>2. Sound(q, W, {}, a)
    BY <1>6, <1>11, <2>1 DEF Leads, InOrder, Waiting
  <2>3. \A p \in Seq(PassSteps) : AddingTo(c, p \o AddEnd(ch, r), W, ch, B, r)
    BY <1>11 DEF AddingTo, Passing
  <2> QED
    BY <1>2, <2>1, <2>2, <2>3 DEF Moves, Leads, Deeds
<1>12. CASE W = H /\ q = AddEnd(ch, r)
  <2>1. Leads(q, "unlock", cc(ch), r) /\ Only(q, ch)
    BY <1>1, <1>4, <1>12, AddLeads
  <2>2. Sound(q, W, {}, a)
    BY <1>6, <1>12, <2>1 DEF Leads, InOrder, Waiting
  <2>3. cc(ch) \in W /\ W \ {cc(ch)} = B
    BY <1>5, <1>12
  <2> QED
    BY <1>3, <2>1, <2>2, <2>3 DEF Moves, Leads, Deeds
<1>13. ASSUME NEW e \in {AddTypes(ch, r), AddEnd(ch, r)}, W = H, Passing(q, e), q # e
       PROVE  Sound(q, W, {}, a) /\ q # <<>> /\ Moves(c, q, W, {}, a)
  <2>1. e \in Scripts /\ Only(e, ch)
    BY <1>1, <1>4, AddLeads DEF Leads
  <2>2. /\ q \in Scripts /\ q # <<>> /\ Head(q).do = "pass"
        /\ \E m \in Clients : Head(q).of = cl(m)
        /\ Passing(Tail(q), e)
        /\ \A dh \in Channels : Mentions(q, dh) <=> Mentions(e, dh)
    BY <1>13, <2>1, PassingLeads
  <2>3. Only(q, ch)
    BY <2>1, <2>2 DEF Only
  <2>4. Sound(q, W, {}, a)
    BY <1>6, <1>13, <2>2, <2>3 DEF InOrder
  <2>5. AddingTo(c, Tail(q), W, ch, B, r)
    BY <1>13, <2>2 DEF AddingTo
  <2> QED
    BY <1>2, <2>2, <2>4, <2>5 DEF Moves, Deeds
<1> QED
  BY <1>7, <1>8, <1>9, <1>10, <1>11, <1>12, <1>13 DEF AddingTo

LEMMA AddingMoves ==
  ASSUME NEW c \in Clients, NEW q, NEW W, NEW R, NEW a, Adding(c, q, W, R, a)
  PROVE  Sound(q, W, R, a) /\ q # <<>> /\ Moves(c, q, W, R, a)
<1>1. PICK ch \in Channels :
        /\ R = {} /\ a \in {None, ch}
        /\ \/ AddingTo(c, q, W, ch, {}, <<>>)
           \/ AddingTo(c, q, W, ch, {mu}, Listing(ch))
           \/ W = {mu} /\ q = Listing(ch)
  BY DEF Adding
<1>2. CASE AddingTo(c, q, W, ch, {}, <<>>)
  BY <1>1, <1>2, AddingToMoves
<1>3. CASE AddingTo(c, q, W, ch, {mu}, Listing(ch))
  BY <1>1, <1>3, AddingToMoves
<1>4. CASE W = {mu} /\ q = Listing(ch)
  <2>1. Leads(q, "list", ch, MapsEnd) /\ Only(q, ch)
    BY <1>4, MapsLeads, MapsMentions
  <2>2. Sound(q, W, R, a)
    BY <1>1, <1>4, <2>1 DEF Sound, Leads, InOrder, Waiting, Only
  <2>3. Ends(c, MapsEnd, W, R, a)
    BY <1>1, <1>4 DEF Ends
  <2> QED
    BY <2>1, <2>2, <2>3 DEF Moves, Leads, Deeds, ReaderAt
<1> QED
  BY <1>1, <1>2, <1>3, <1>4

LEMMA LeavesMoves ==
  ASSUME NEW c \in Clients, NEW q, NEW W, NEW R, NEW a, Leaves(c, q, W, R, a)
  PROVE  Sound(q, W, R, a) /\ q # <<>> /\ Moves(c, q, W, R, a)
<1>1. PICK ch \in Channels :
        /\ R = {} /\ a \in {None, ch}
        /\ \/ W = {} /\ q = LeaveLock(c, ch)
           \/ /\ W = {cc(ch)}
              /\ \/ q \in {LeavePass(c, ch), Leaving(c, ch), LeaveSend(c, ch),
                           UnlistLock(c, ch), LeaveEnd(c, ch)}
                 \/ Passing(q, LeaveQuit(c, ch))
           \/ W = {mu, cc(ch)} /\ q \in {Unlisting(c, ch), UnlistEnd(c, ch)}
  BY DEF Leaves
<1>2. \A r, V, e : Leaves(c, r, V, R, e) => ReaderAt(c, r, V, R, e)
  BY DEF ReaderAt
<1>3. ASSUME Only(q, ch), q \in Scripts, InOrder(q, W, R)
      PROVE  Sound(q, W, R, a)
  BY <1>1, <1>3 DEF Sound, Only
<1>4. cc(ch) \in Locks /\ mu \in Locks /\ cc(ch) # mu
  BY LocksDiffer, LockTypes
<1> DEFINE H == {cc(ch)}
<1>5. CASE W = {} /\ q = LeaveLock(c, ch)
  <2>1. Leads(q, "lock", cc(ch), LeavePass(c, ch)) /\ Only(q, ch)
    BY <1>5, LeaveLeads, LeaveMentions
  <2>2. Sound(q, W, R, a)
    BY <1>1, <1>3, <1>4, <1>5, <2>1 DEF Leads, InOrder
  <2>3. Leaves(c, LeavePass(c, ch), W \cup {cc(ch)}, R, a)
    BY <1>1, <1>4, <1>5 DEF Leaves
  <2> QED
    BY <1>1, <1>2, <1>4, <1>5, <2>1, <2>2, <2>3 DEF Moves, Leads, Deeds
<1>6. CASE W = H /\ q = LeavePass(c, ch)
  <2>1. Leads(q, "pass", cl(c), Leaving(c, ch)) /\ Only(q, ch)
    BY <1>6, LeaveLeads, LeaveMentions
  <2>2. Sound(q, W, R, a)
    BY <1>1, <1>3, <1>4, <1>6, <2>1 DEF Leads, InOrder
  <2>3. Leaves(c, Leaving(c, ch), W, R, a)
    BY <1>1, <1>4, <1>6 DEF Leaves
  <2> QED
    BY <1>1, <1>2, <1>4, <1>6, <2>1, <2>2, <2>3 DEF Moves, Leads, Deeds
<1>7. CASE W = H /\ q = Leaving(c, ch)
  <2>1. Leads(q, "leave", ch, LeaveSend(c, ch)) /\ Only(q, ch)
    BY <1>7, LeaveLeads, LeaveMentions
  <2>2. Sound(q, W, R, a)
    BY <1>1, <1>3, <1>4, <1>7, <2>1 DEF Leads, InOrder, Waiting
  <2>3. Leaves(c, LeaveSend(c, ch), W, R, None)
    BY <1>1, <1>4, <1>7 DEF Leaves
  <2> QED
    BY <1>1, <1>2, <1>4, <1>7, <2>1, <2>2, <2>3 DEF Moves, Leads, Deeds
<1>8. CASE W = H /\ q = LeaveSend(c, ch)
  <2>1. Leads(q, "send", ch, LeaveQuit(c, ch)) /\ Only(q, ch)
    BY <1>8, LeaveLeads, LeaveMentions
  <2>2. Sound(q, W, R, a)
    BY <1>1, <1>3, <1>4, <1>8, <2>1 DEF Leads, InOrder, Waiting
  <2>3. \A p \in Seq(PassSteps) : Leaves(c, p \o LeaveQuit(c, ch), W, R, a)
    BY <1>1, <1>4, <1>8 DEF Leaves, Passing
  <2> QED
    BY <1>1, <1>2, <1>4, <1>8, <2>1, <2>2, <2>3 DEF Moves, Leads, Deeds
<1>9. CASE W = H /\ q = LeaveQuit(c, ch)
  <2>1. Leads(q, "quit", ch, LeaveEnd(c, ch)) /\ Only(q, ch)
    BY <1>9, LeaveLeads, LeaveMentions
  <2>2. Sound(q, W, R, a)
    BY <1>1, <1>3, <1>4, <1>9, <2>1 DEF Leads, InOrder, Waiting
  <2>3. Leaves(c, LeaveEnd(c, ch), W, R, a) /\ Leaves(c, UnlistLock(c, ch), W, R, a)
    BY <1>1, <1>4, <1>9 DEF Leaves
  <2> QED
    BY <1>1, <1>2, <1>4, <1>9, <2>1, <2>2, <2>3 DEF Moves, Leads, Deeds
<1>10. CASE W = H /\ q = UnlistLock(c, ch)
  <2>1. Leads(q, "lock", mu, Unlisting(c, ch)) /\ Only(q, ch)
    BY <1>10, LeaveLeads, LeaveMentions
  <2>2. Sound(q, W, R, a)
    BY <1>1, <1>3, <1>4, <1>10, <2>1 DEF Leads, InOrder
  <2>3. Leaves(c, Unlisting(c, ch), W \cup {mu}, R, a)
    BY <1>1, <1>4, <1>10 DEF Leaves
  <2> QED
    BY <1>1, <1>2, <1>4, <1>10, <2>1, <2>2, <2>3 DEF Moves, Leads, Deeds
<1>11. CASE W = {mu, cc(ch)} /\ q = Unlisting(c, ch)
  <2>1. Leads(q, "unlist", ch, UnlistEnd(c, ch)) /\ Only(q, ch)
    BY <1>11, LeaveLeads, LeaveMentions
  <2>2. Sound(q, W, R, a)
    BY <1>1, <1>3, <1>4, <1>11, <2>1 DEF Leads, InOrder, Waiting
  <2>3. Leaves(c, UnlistEnd(c, ch), W, R, a)
    BY <1>1, <1>4, <1>11 DEF Leaves
  <2> QED
    BY <1>1, <1>2, <1>4, <1>11, <2>1, <2>2, <2>3 DEF Moves, Leads, Deeds
<1>12. CASE W = {mu, cc(ch)} /\ q = UnlistEnd(c, ch)
  <2>1. Leads(q, "unlock", mu, LeaveEnd(c, ch)) /\ Only(q, ch)
    BY <1>12, LeaveLeads, LeaveMentions
  <2>2. Sound(q, W, R, a)
    BY <1>1, <1>3, <1>4, <1>12, <2>1 DEF Leads, InOrder, Waiting
  <2>3. mu \in W /\ W \ {mu} = H /\ Leaves(c, LeaveEnd(c, ch), W \ {mu}, R, a)
    BY <1>1, <1>4, <1>12 DEF Leaves
  <2> QED
    BY <1>1, <1>2, <1>4, <1>12, <2>1, <2>2, <2>3 DEF Moves, Leads, Deeds
<1>13. CASE W = H /\ q = LeaveEnd(c, ch)
  <2>1. Leads(q, "unlock", cc(ch), DeleteLock(c)) /\ Only(q, ch)
    BY <1>13, LeaveLeads, LeaveMentions
  <2>2. Sound(q, W, R, a)
    BY <1>1, <1>3, <1>4, <1>13, <2>1 DEF Leads, InOrder, Waiting
  <2>3. cc(ch) \in W /\ Ends(c, DeleteLock(c), W \ {cc(ch)}, R, a)
    BY <1>1, <1>4, <1>13 DEF Ends
  <2> QED
    BY <1>1, <1>2, <1>4, <1>13, <2>1, <2>2, <2>3 DEF Moves, Leads, Deeds, ReaderAt
<1>14. CASE W = H /\ Passing(q, LeaveQuit(c, ch)) /\ q # LeaveQuit(c, ch)
  <2>1. LeaveQuit(c, ch) \in Scripts /\ Only(LeaveQuit(c, ch), ch)
    BY LeaveLeads, LeaveMentions DEF Leads
  <2>2. /\ q \in Scripts /\ q # <<>> /\ Head(q).do = "pass"
        /\ \E m \in Clients : Head(q).of = cl(m)
        /\ Passing(Tail(q), LeaveQuit(c, ch))
        /\ \A dh \in Channels : Mentions(q, dh) <=> Mentions(LeaveQuit(c, ch), dh)
    BY <1>14, <2>1, PassingLeads
  <2>3. Only(q, ch)
    BY <2>1, <2>2 DEF Only
  <2>4. Sound(q, W, R, a)
    BY <1>1, <1>3, <2>2, <2>3 DEF InOrder
  <2>5. Leaves(c, Tail(q), W, R, a)
    BY <1>1, <1>14, <2>2 DEF Leaves
  <2> QED
    BY <1>2, <2>2, <2>4, <2>5 DEF Moves, Deeds
<1> QED
  BY <1>1, <1>5, <1>6, <1>7, <1>8, <1>9, <1>10, <1>11, <1>12, <1>13, <1>14

LEMMA EndsMoves ==
  ASSUME NEW c \in Clients, NEW q, NEW W, NEW R, NEW a \in Channels \cup {None},
         Ends(c, q, W, R, a)
  PROVE  Sound(q, W, R, a) /\ (q # <<>> => Moves(c, q, W, R, a))
<1>1. R = {} /\ mu \in Locks
  BY LockTypes DEF Ends
<1>2. \A r, V : Ends(c, r, V, R, a) => ReaderAt(c, r, V, R, a)
  BY DEF ReaderAt
<1>3. ASSUME Nothing(q), q \in Scripts, InOrder(q, W, R)
      PROVE  Sound(q, W, R, a)
  BY <1>1, <1>3 DEF Sound, Nothing, Ends
<1>4. CASE W = {} /\ q = <<>>
  <2>1. Nothing(q) /\ q \in Scripts
    BY <1>4, EmptyScript DEF Nothing
  <2> QED
    BY <1>3, <1>4, <2>1 DEF InOrder, Waiting
<1>5. CASE W = {} /\ q = DeleteLock(c)
  <2>1. Leads(q, "lock", mu, DeletePass(c)) /\ Nothing(q)
    BY <1>5, MapsLeads, MapsMentions
  <2>2. Sound(q, W, R, a)
    BY <1>1, <1>3, <1>5, <2>1 DEF Leads, InOrder
  <2>3. Ends(c, DeletePass(c), W \cup {mu}, R, a)
    BY <1>1, <1>5 DEF Ends
  <2> QED
    BY <1>1, <1>2, <1>5, <2>1, <2>2, <2>3 DEF Moves, Leads, Deeds
<1>6. CASE W = {mu} /\ q = DeletePass(c)
  <2>1. Leads(q, "pass", cl(c), Deleting(c)) /\ Nothing(q)
    BY <1>6, MapsLeads, MapsMentions
  <2>2. Sound(q, W, R, a)
    BY <1>1, <1>3, <1>6, <2>1 DEF Leads, InOrder
  <2>3. Ends(c, Deleting(c), W, R, a)
    BY <1>1, <1>6 DEF Ends
  <2> QED
    BY <1>1, <1>2, <1>6, <2>1, <2>2, <2>3 DEF Moves, Leads, Deeds
<1>7. CASE W = {mu} /\ q = Deleting(c)
  <2>1. Leads(q, "delete", c, MapsEnd) /\ Nothing(q)
    BY <1>7, MapsLeads, MapsMentions
  <2>2. Sound(q, W, R, a)
    BY <1>1, <1>3, <1>7, <2>1 DEF Leads, InOrder, Waiting
  <2>3. Ends(c, MapsEnd, W, R, a)
    BY <1>1, <1>7 DEF Ends
  <2> QED
    BY <1>1, <1>2, <1>7, <2>1, <2>2, <2>3 DEF Moves, Leads, Deeds
<1>8. CASE W = {mu} /\ q = MapsEnd
  <2>1. Leads(q, "unlock", mu, <<>>) /\ Nothing(q)
    BY <1>8, MapsLeads, MapsMentions
  <2>2. Sound(q, W, R, a)
    BY <1>1, <1>3, <1>8, <2>1 DEF Leads, InOrder, Waiting
  <2>3. mu \in W /\ Ends(c, <<>>, W \ {mu}, R, a)
    BY <1>1, <1>8 DEF Ends
  <2> QED
    BY <1>1, <1>2, <1>8, <2>1, <2>2, <2>3 DEF Moves, Leads, Deeds
<1> QED
  BY <1>4, <1>5, <1>6, <1>7, <1>8 DEF Ends

LEMMA ReaderMoves ==
  ASSUME NEW c \in Clients, NEW q, NEW W, NEW R, NEW a \in Channels \cup {None},
         ReaderAt(c, q, W, R, a)
  PROVE  Sound(q, W, R, a) /\ (q # <<>> => Moves(c, q, W, R, a))
<1>1. CASE Relaying(c, q, W, R, a)
  BY <1>1, RelayingMoves
<1>2. CASE Joining(c, q, W, R, a)
  BY <1>2, JoiningMoves
<1>3. CASE Adding(c, q, W, R, a)
  BY <1>3, AddingMoves
<1>4. CASE Leaves(c, q, W, R, a)
  BY <1>4, LeavesMoves
<1>5. CASE Ends(c, q, W, R, a)
  BY <1>5, EndsMoves
<1> QED
  BY <1>1, <1>2, <1>3, <1>4, <1>5 DEF ReaderAt

TeardownSound(c, q, W, R) ==
  /\ q \in Scripts /\ Nothing(q) /\ R = {} /\ W \subseteq {s, cl(c)}
  /\ Waiting(q) => \/ W = {} /\ Head(q).of = s
                   \/ W = {s} /\ Head(q).do = "lock" /\ Head(q).of = cl(c)

TeardownNext(c, q, W, R) ==
  LET d == Head(q).do
      x == Head(q).of
      r == Tail(q)
  IN /\ d \in {"lock", "unlock", "close"}
     /\ d = "lock" => x \in Locks /\ TeardownAt(c, r, W \cup {x}, R)
     /\ d = "unlock" => x \in W /\ TeardownAt(c, r, W \ {x}, R)
     /\ d = "close" => TeardownAt(c, r, W, R)

AcceptorSound(q, W, R) ==
  /\ q \in Scripts /\ Nothing(q) /\ R = {} /\ W \subseteq {s, mu}
  /\ Waiting(q) => \/ W = {} /\ Head(q).of = s
                   \/ W = {s} /\ Head(q).of = mu
                   \/ /\ W = {s, mu} /\ Head(q).do = "pass"
                      /\ \E m \in Clients : Head(q).of = cl(m)

AcceptorNext(q, W, R) ==
  LET d == Head(q).do
      x == Head(q).of
      r == Tail(q)
  IN /\ d \in {"lock", "unlock", "pass", "register"}
     /\ d = "lock" => x \in Locks /\ AcceptorAt(r, W \cup {x}, R)
     /\ d = "unlock" => x \in W /\ AcceptorAt(r, W \ {x}, R)
     /\ d \in {"pass", "register"} => AcceptorAt(r, W, R)

LEMMA TeardownMoves ==
  ASSUME NEW c \in Clients, NEW q, NEW W, NEW R, TeardownAt(c, q, W, R)
  PROVE  TeardownSound(c, q, W, R) /\ (q # <<>> => TeardownNext(c, q, W, R))
<1>1. R = {} /\ s \in Locks /\ cl(c) \in Locks /\ s # cl(c)
  BY LocksDiffer, LockTypes DEF TeardownAt
<1>2. CASE W = {} /\ q = <<>>
  BY <1>1, <1>2, EmptyScript DEF TeardownSound, Waiting, Nothing
<1>3. CASE W = {} /\ q = TearLock(c)
  <2>1. Leads(q, "lock", s, TearClient(c)) /\ Nothing(q)
    BY <1>3, ServerLeads, ServerMentions
  <2>2. TeardownSound(c, q, W, R)
    BY <1>1, <1>3, <2>1 DEF Leads, TeardownSound
  <2>3. TeardownAt(c, TearClient(c), W \cup {s}, R)
    BY <1>1, <1>3 DEF TeardownAt
  <2> QED
    BY <1>1, <1>3, <2>1, <2>2, <2>3 DEF Leads, TeardownNext
<1>4. CASE W = {s} /\ q = TearClient(c)
  <2>1. Leads(q, "lock", cl(c), Closing(c)) /\ Nothing(q)
    BY <1>4, ServerLeads, ServerMentions
  <2>2. TeardownSound(c, q, W, R)
    BY <1>1, <1>4, <2>1 DEF Leads, TeardownSound
  <2>3. TeardownAt(c, Closing(c), W \cup {cl(c)}, R)
    BY <1>1, <1>4 DEF TeardownAt
  <2> QED
    BY <1>1, <1>4, <2>1, <2>2, <2>3 DEF Leads, TeardownNext
<1>5. CASE W = {s, cl(c)} /\ q = Closing(c)
  <2>1. Leads(q, "close", c, TearEnd(c)) /\ Nothing(q)
    BY <1>5, ServerLeads, ServerMentions
  <2>2. TeardownSound(c, q, W, R)
    BY <1>1, <1>5, <2>1 DEF Leads, TeardownSound, Waiting
  <2>3. TeardownAt(c, TearEnd(c), W, R)
    BY <1>1, <1>5 DEF TeardownAt
  <2> QED
    BY <1>1, <1>5, <2>1, <2>2, <2>3 DEF Leads, TeardownNext
<1>6. CASE W = {s, cl(c)} /\ q = TearEnd(c)
  <2>1. Leads(q, "unlock", cl(c), ServerEnd) /\ Nothing(q)
    BY <1>6, ServerLeads, ServerMentions
  <2>2. TeardownSound(c, q, W, R)
    BY <1>1, <1>6, <2>1 DEF Leads, TeardownSound, Waiting
  <2>3. cl(c) \in W /\ W \ {cl(c)} = {s} /\ TeardownAt(c, ServerEnd, {s}, R)
    BY <1>1, <1>6 DEF TeardownAt
  <2> QED
    BY <1>1, <1>6, <2>1, <2>2, <2>3 DEF Leads, TeardownNext
<1>7. CASE W = {s} /\ q = ServerEnd
  <2>1. Leads(q, "unlock", s, <<>>) /\ Nothing(q)
    BY <1>7, ServerLeads, ServerMentions
  <2>2. TeardownSound(c, q, W, R)
    BY <1>1, <1>7, <2>1 DEF Leads, TeardownSound, Waiting
  <2>3. s \in W /\ W \ {s} = {} /\ TeardownAt(c, <<>>, {}, R)
    BY <1>1, <1>7 DEF TeardownAt
  <2> QED
    BY <1>1, <1>7, <2>1, <2>2, <2>3 DEF Leads, TeardownNext
<1> QED
  BY <1>2, <1>3, <1>4, <1>5, <1>6, <1>7 DEF TeardownAt

LEMMA AcceptorMoves ==
  ASSUME NEW q, NEW W, NEW R, AcceptorAt(q, W, R)
  PROVE  AcceptorSound(q, W, R) /\ (q # <<>> => AcceptorNext(q, W, R))
<1>1. R = {} /\ s \in Locks /\ mu \in Locks /\ s # mu
  BY LocksDiffer, LockTypes DEF AcceptorAt
<1>2. CASE W = {} /\ q = <<>>
  BY <1>1, <1>2, EmptyScript DEF AcceptorSound, Waiting, Nothing
<1>3. ASSUME NEW c \in Clients, W = {}, q = AcceptLock(c)
      PROVE  AcceptorSound(q, W, R) /\ q # <<>> /\ AcceptorNext(q, W, R)
  <2>1. Leads(q, "lock", s, AcceptMaps(c)) /\ Nothing(q)
    BY <1>3, ServerLeads, ServerMentions
  <2>2. AcceptorSound(q, W, R)
    BY <1>1, <1>3, <2>1 DEF Leads, AcceptorSound
  <2>3. AcceptorAt(AcceptMaps(c), W \cup {s}, R)
    BY <1>1, <1>3 DEF AcceptorAt
  <2> QED
    BY <1>1, <1>3, <2>1, <2>2, <2>3 DEF Leads, AcceptorNext
<1>4. ASSUME NEW c \in Clients, W = {s}, q = AcceptMaps(c)
      PROVE  AcceptorSound(q, W, R) /\ q # <<>> /\ AcceptorNext(q, W, R)
  <2>1. Leads(q, "lock", mu, AcceptPass(c)) /\ Nothing(q)
    BY <1>4, ServerLeads, ServerMentions
  <2>2. AcceptorSound(q, W, R)
    BY <1>1, <1>4, <2>1 DEF Leads, AcceptorSound
  <2>3. AcceptorAt(AcceptPass(c), W \cup {mu}, R)
    BY <1>1, <1>4 DEF AcceptorAt
  <2> QED
    BY <1>1, <1>4, <2>1, <2>2, <2>3 DEF Leads, AcceptorNext
<1>5. ASSUME NEW c \in Clients, W = {s, mu}, q = AcceptPass(c)
      PROVE  AcceptorSound(q, W, R) /\ q # <<>> /\ AcceptorNext(q, W, R)
  <2>1. Leads(q, "pass", cl(c), Registering(c)) /\ Nothing(q)
    BY <1>5, ServerLeads, ServerMentions
  <2>2. AcceptorSound(q, W, R)
    BY <1>1, <1>5, <2>1 DEF Leads, AcceptorSound
  <2>3. AcceptorAt(Registering(c), W, R)
    BY <1>1, <1>5 DEF AcceptorAt
  <2> QED
    BY <1>1, <1>5, <2>1, <2>2, <2>3 DEF Leads, AcceptorNext
<1>6. ASSUME NEW c \in Clients, W = {s, mu}, q = Registering(c)
      PROVE  AcceptorSound(q, W, R) /\ q # <<>> /\ AcceptorNext(q, W, R)
  <2>1. Leads(q, "register", c, AcceptEnd) /\ Nothing(q)
    BY <1>6, ServerLeads, ServerMentions
  <2>2. AcceptorSound(q, W, R)
    BY <1>1, <1>6, <2>1 DEF Leads, AcceptorSound, Waiting
  <2>3. AcceptorAt(AcceptEnd, W, R)
    BY <1>1, <1>6 DEF AcceptorAt
  <2> QED
    BY <1>1, <1>6, <2>1, <2>2, <2>3 DEF Leads, AcceptorNext
<1>7. ASSUME NEW c \in Clients, W = {s, mu}, q = AcceptEnd
      PROVE  AcceptorSound(q, W, R) /\ q # <<>> /\ AcceptorNext(q, W, R)
  <2>1. Leads(q, "unlock", mu, ServerEnd) /\ Nothing(q)
    BY <1>7, ServerLeads, ServerMentions
  <2>2. AcceptorSound(q, W, R)
    BY <1>1, <1>7, <2>1 DEF Leads, AcceptorSound, Waiting
  <2>3. mu \in W /\ W \ {mu} = {s} /\ AcceptorAt(ServerEnd, {s}, R)
    BY <1>1, <1>7 DEF AcceptorAt
  <2> QED
    BY <1>1, <1>7, <2>1, <2>2, <2>3 DEF Leads, AcceptorNext
<1>8. ASSUME NEW c \in Clients, W = {s}, q = ServerEnd
      PROVE  AcceptorSound(q, W, R) /\ q # <<>> /\ AcceptorNext(q, W, R)
  <2>1. Leads(q, "unlock", s, <<>>) /\ Nothing(q)
    BY <1>8, ServerLeads, ServerMentions
  <2>2. AcceptorSound(q, W, R)
    BY <1>1, <1>8, <2>1 DEF Leads, AcceptorSound, Waiting
  <2>3. s \in W /\ W \ {s} = {} /\ AcceptorAt(<<>>, {}, R)
    BY <1>1, <1>8 DEF AcceptorAt
  <2> QED
    BY <1>1, <1>8, <2>1, <2>2, <2>3 DEF Leads, AcceptorNext
<1> QED
  BY <1>2, <1>3, <1>4, <1>5, <1>6, <1>7, <1>8 DEF AcceptorAt

-----------------------------------------------------------------------------
(***************************************************************************)
(* The inductive invariant.                                                *)
(***************************************************************************)
Owns(t)   == {l \in Locks : owner[l] = t}
Shares(t) == {l \in Locks : t \in readers[l]}

\* What the goroutine t has left to do fits the locks that it holds; f is at.
Fit(t, q, W, R, f) ==
  /\ \A c \in Clients : t = reader(c) => ReaderAt(c, q, W, R, f[c])
  /\ \A c \in Clients : t = teardown(c) => TeardownAt(c, q, W, R)
  /\ t = acceptor => AcceptorAt(q, W, R)
Fits == \A t \in Threads : Fit(t, script[t], Owns(t), Shares(t), at)

\* Who is announced waits in Lock, and nobody has the lock.
PendingInv ==
  \A l \in Locks : pending[l] # None =>
    owner[l] = None /\ Does(pending[l], "lock") /\ What(pending[l]) = l

NamedInv == \A n \in Names : channels[n] # None => channels[n].name = n

\* Nobody else has to do with a channel that a goroutine will list.
PrivateInv ==
  \A c \in Clients, ch \in Channels : Lists(script[reader(c)], ch) =>
    /\ \A n \in Names : channels[n] # ch
    /\ \A e \in Clients \ {c} : at[e] # ch /\ ~Mentions(script[reader(e)], ch)

IInv == TypeOK /\ Fits /\ PendingInv /\ NamedInv /\ PrivateInv

LEMMA ThreadsDiffer ==
  /\ acceptor \in Threads /\ None \notin Threads
  /\ \A c \in Clients : /\ reader(c) \in Threads /\ teardown(c) \in Threads
                        /\ acceptor \notin {reader(c), teardown(c)}
  /\ \A c, e \in Clients : /\ reader(c) # teardown(e)
                           /\ reader(c) = reader(e) => c = e
                           /\ teardown(c) = teardown(e) => c = e
  /\ \A t \in Threads : \/ t = acceptor
                        \/ \E c \in Clients : t = reader(c) \/ t = teardown(c)
<1>1. \A c, e : /\ reader(c).role = "reader" /\ reader(c).of = c
                /\ teardown(e).role = "teardown" /\ teardown(e).of = e
                /\ acceptor.role = "acceptor"
  BY DEF reader, teardown, acceptor
<1>2. None \notin Threads
  BY LockAssumption
<1>3. /\ \A c : reader(c) # acceptor /\ teardown(c) # acceptor
      /\ \A c, e : /\ reader(c) # teardown(e)
                   /\ reader(c) = reader(e) => c = e
                   /\ teardown(c) = teardown(e) => c = e
  BY <1>1
<1>4. /\ acceptor \in Threads
      /\ \A c \in Clients : reader(c) \in Threads /\ teardown(c) \in Threads
      /\ \A t \in Threads : \/ t = acceptor
                            \/ \E c \in Clients : t = reader(c) \/ t = teardown(c)
  BY DEF Threads
<1> QED
  BY <1>2, <1>3, <1>4

LEMMA TailLess ==
  ASSUME NEW q \in Scripts, q # <<>>
  PROVE  /\ Tail(q) \in Scripts
         /\ \A ch \in Channels : /\ Mentions(Tail(q), ch) => Mentions(q, ch)
                                 /\ Lists(Tail(q), ch) => Lists(q, ch)
<1>1. /\ Tail(q) \in Scripts /\ Len(Tail(q)) = Len(q) - 1 /\ Len(q) \in Nat
      /\ \A i \in 1 .. Len(Tail(q)) : Tail(q)[i] = q[i + 1]
  BY HeadTailProperties, LenProperties DEF Scripts
<1>2. DOMAIN q = 1 .. Len(q) /\ DOMAIN Tail(q) = 1 .. Len(Tail(q))
  BY <1>1, LenProperties DEF Scripts
<1>3. \A i \in DOMAIN Tail(q) : i + 1 \in DOMAIN q /\ Tail(q)[i] = q[i + 1]
  BY <1>1, <1>2
<1> QED
  BY <1>1, <1>3 DEF Mentions, Lists

LEMMA ListsMentions ==
  ASSUME NEW q \in Scripts, NEW ch \in Channels, Lists(q, ch)
  PROVE  Mentions(q, ch)
BY DEF Lists, Mentions

\* What the steps that have to do with locks lead to, for every goroutine.
LEMMA FitMoves ==
  ASSUME NEW t \in Threads, NEW q, NEW W, NEW R, NEW f \in [Clients -> Channels \cup {None}],
         Fit(t, q, W, R, f)
  PROVE  /\ q \in Scripts
         /\ q # <<>> =>
              LET d == Head(q).do
                  x == Head(q).of
                  r == Tail(q)
              IN /\ d = "lock" => x \in Locks /\ Fit(t, r, W \cup {x}, R, f)
                 /\ d = "rlock" => x \in Locks /\ Fit(t, r, W, R \cup {x}, f)
                 /\ d = "pass" => Fit(t, r, W, R, f)
                 /\ d = "unlock" => x \in W /\ Fit(t, r, W \ {x}, R, f)
                 /\ d = "runlock" => x \in R /\ Fit(t, r, W, R \ {x}, f)
<1>1. CASE \E c \in Clients : t = reader(c)
  <2>1. PICK c \in Clients : t = reader(c)
    BY <1>1
  <2>2. \A p, V, U : Fit(t, p, V, U, f) <=> ReaderAt(c, p, V, U, f[c])
    BY <2>1, ThreadsDiffer DEF Fit
  <2>3. Sound(q, W, R, f[c]) /\ (q # <<>> => Moves(c, q, W, R, f[c]))
    BY <2>2, ReaderMoves
  <2> QED
    BY <2>2, <2>3 DEF Sound, Moves
<1>2. CASE \E c \in Clients : t = teardown(c)
  <2>1. PICK c \in Clients : t = teardown(c)
    BY <1>2
  <2>2. \A p, V, U : Fit(t, p, V, U, f) <=> TeardownAt(c, p, V, U)
    BY <2>1, ThreadsDiffer DEF Fit
  <2>3. TeardownSound(c, q, W, R) /\ (q # <<>> => TeardownNext(c, q, W, R))
    BY <2>2, TeardownMoves
  <2> QED
    BY <2>2, <2>3 DEF TeardownSound, TeardownNext
<1>3. CASE t = acceptor
  <2>1. \A p, V, U : Fit(t, p, V, U, f) <=> AcceptorAt(p, V, U)
    BY <1>3, ThreadsDiffer DEF Fit
  <2>2. AcceptorSound(q, W, R) /\ (q # <<>> => AcceptorNext(q, W, R))
    BY <2>1, AcceptorMoves
  <2> QED
    BY <2>1, <2>2 DEF AcceptorSound, AcceptorNext
<1> QED
  BY <1>1, <1>2, <1>3, ThreadsDiffer

LEMMA Continues ==
  ASSUME TypeOK, NEW t \in Threads, NEW b \in Scripts, Continue(t, b)
  PROVE  /\ script' \in [Threads -> Scripts] /\ script'[t] = b
         /\ \A u \in Threads \ {t} : script'[u] = script[u]
<1>1. script \in [Threads -> Scripts]
  BY DEF TypeOK, Scripts
<1> QED
  BY <1>1 DEF Continue

LEMMA FitsStays ==
  ASSUME IInv, NEW t \in Threads, NEW b \in Scripts, Continue(t, b),
         \A u \in Threads \ {t} : Owns(u)' = Owns(u) /\ Shares(u)' = Shares(u),
         \A c \in Clients : reader(c) # t => at'[c] = at[c],
         NEW W, NEW R, W = Owns(t)', R = Shares(t)', Fit(t, b, W, R, at')
  PROVE  Fits'
<1>1. script'[t] = b /\ \A u \in Threads \ {t} : script'[u] = script[u]
  BY Continues DEF IInv
<1>2. ASSUME NEW u \in Threads, u # t
      PROVE  Fit(u, script'[u], Owns(u)', Shares(u)', at')
  <2>1. Fit(u, script[u], Owns(u), Shares(u), at)
    BY DEF IInv, Fits
  <2>2. script'[u] = script[u] /\ Owns(u)' = Owns(u) /\ Shares(u)' = Shares(u)
    BY <1>1, <1>2
  <2>3. Fit(u, script[u], Owns(u), Shares(u), at')
    BY <1>2, <2>1 DEF Fit
  <2> QED
    BY <2>2, <2>3
<1>3. Fit(t, script'[t], Owns(t)', Shares(t)', at')
  BY <1>1
<1>4. \A u \in Threads : Fit(u, script'[u], Owns(u)', Shares(u)', at')
  BY <1>2, <1>3
<1> QED
  BY <1>4 DEF Fits

LEMMA PendingStays ==
  ASSUME IInv, NEW t \in Threads, NEW b \in Scripts, Continue(t, b), ~Does(t, "lock"),
         pending' = pending, \A l \in Locks : owner'[l] \in {owner[l], None}
  PROVE  PendingInv'
<1>1. \A u \in Threads \ {t} : script'[u] = script[u]
  BY Continues DEF IInv
<1>2. ASSUME NEW l \in Locks, pending[l] # None
      PROVE  /\ owner'[l] = None /\ script'[pending[l]] # <<>>
             /\ Head(script'[pending[l]]).do = "lock" /\ Head(script'[pending[l]]).of = l
  <2>1. owner[l] = None /\ Does(pending[l], "lock") /\ What(pending[l]) = l
    BY <1>2 DEF IInv, PendingInv
  <2>2. pending[l] \in Threads /\ pending[l] # t
    BY <1>2, <2>1 DEF IInv, TypeOK
  <2> QED
    BY <1>1, <2>1, <2>2 DEF Does, Busy, What
<1> QED
  BY <1>2 DEF PendingInv, Does, Busy, What

\* The channels that a goroutine may go on to: those its script has to do with, those in
\* the global map, and the one its client is in.
Near(t, ch) == \/ Mentions(script[t], ch)
               \/ \E n \in Names : channels[n] = ch
               \/ \E c \in Clients : t = reader(c) /\ at[c] = ch

LEMMA PrivateStays ==
  ASSUME IInv, NEW t \in Threads, NEW b \in Scripts, Continue(t, b),
         \A ch \in Channels : /\ Mentions(b, ch) => Near(t, ch)
                              /\ Lists(b, ch) => Lists(script[t], ch),
         \A n \in Names : \/ channels'[n] \in {channels[n], None}
                          \/ /\ \E e \in Clients : t = reader(e)
                             /\ Mentions(script[t], channels'[n]) /\ ListsNothing(b),
         \A c \in Clients : \/ at'[c] \in {at[c], None}
                            \/ t = reader(c) /\ Mentions(script[t], at'[c])
  PROVE  PrivateInv'
<1>1. script'[t] = b /\ \A u \in Threads \ {t} : script'[u] = script[u]
  BY Continues DEF IInv
<1>2. None \notin Channels
  BY LockAssumption
<1>3. ASSUME NEW c \in Clients, NEW ch \in Channels, Lists(script'[reader(c)], ch)
      PROVE  /\ \A n \in Names : channels'[n] # ch
             /\ \A e \in Clients \ {c} : at'[e] # ch /\ ~Mentions(script'[reader(e)], ch)
  <2>1. Lists(script[reader(c)], ch)
    BY <1>1, <1>3, ThreadsDiffer
  <2>2. /\ \A n \in Names : channels[n] # ch
        /\ \A e \in Clients \ {c} : at[e] # ch /\ ~Mentions(script[reader(e)], ch)
    BY <2>1 DEF IInv, PrivateInv
  <2>3. ASSUME NEW n \in Names
        PROVE  channels'[n] # ch
    <3>1. CASE channels'[n] \in {channels[n], None}
      BY <1>2, <2>2, <3>1
    <3>2. CASE /\ \E e \in Clients : t = reader(e)
               /\ Mentions(script[t], channels'[n]) /\ ListsNothing(b)
      <4>1. t # reader(c)
        BY <1>1, <1>3, <3>2 DEF ListsNothing
      <4> QED
        BY <2>2, <3>2, <4>1
    <3> QED
      BY <3>1, <3>2
  <2>4. ASSUME NEW e \in Clients, e # c
        PROVE  at'[e] # ch
    BY <1>2, <2>2, <2>4
  <2>5. ASSUME NEW e \in Clients, e # c
        PROVE  ~Mentions(script'[reader(e)], ch)
    <3>1. CASE t = reader(e)
      <4>1. ~Near(t, ch)
        BY <2>2, <2>5, <3>1, ThreadsDiffer DEF Near
      <4> QED
        BY <1>1, <3>1, <4>1
    <3>2. CASE t # reader(e)
      BY <1>1, <2>2, <2>5, <3>2, ThreadsDiffer
    <3> QED
      BY <3>1, <3>2
  <2> QED
    BY <2>3, <2>4, <2>5
<1> QED
  BY <1>3 DEF PrivateInv

-----------------------------------------------------------------------------
(***************************************************************************)
(* The steps that have to do with locks.                                   *)
(***************************************************************************)
\* A goroutine that is not done with its script.
LEMMA Busily ==
  ASSUME IInv, NEW t \in Threads, Busy(t)
  PROVE  /\ script[t] \in Scripts /\ Rest(t) \in Scripts
         /\ \A ch \in Channels : /\ Mentions(Rest(t), ch) => Mentions(script[t], ch)
                                 /\ Lists(Rest(t), ch) => Lists(script[t], ch)
         /\ at \in [Clients -> Channels \cup {None}]
         /\ Does(t, "lock") =>
              What(t) \in Locks /\ Fit(t, Rest(t), Owns(t) \cup {What(t)}, Shares(t), at)
         /\ Does(t, "rlock") =>
              What(t) \in Locks /\ Fit(t, Rest(t), Owns(t), Shares(t) \cup {What(t)}, at)
         /\ Does(t, "pass") => Fit(t, Rest(t), Owns(t), Shares(t), at)
         /\ Does(t, "unlock") =>
              What(t) \in Owns(t) /\ Fit(t, Rest(t), Owns(t) \ {What(t)}, Shares(t), at)
         /\ Does(t, "runlock") =>
              What(t) \in Shares(t) /\ Fit(t, Rest(t), Owns(t), Shares(t) \ {What(t)}, at)
<1>1. script[t] \in Scripts /\ script[t] # <<>> /\ at \in [Clients -> Channels \cup {None}]
  BY DEF IInv, TypeOK, Scripts, Busy
<1>2. Fit(t, script[t], Owns(t), Shares(t), at)
  BY DEF IInv, Fits
<1> DEFINE q == script[t]
<1>3. LET d == Head(q).do
          x == Head(q).of
          r == Tail(q)
      IN /\ d = "lock" => x \in Locks /\ Fit(t, r, Owns(t) \cup {x}, Shares(t), at)
         /\ d = "rlock" => x \in Locks /\ Fit(t, r, Owns(t), Shares(t) \cup {x}, at)
         /\ d = "pass" => Fit(t, r, Owns(t), Shares(t), at)
         /\ d = "unlock" => x \in Owns(t) /\ Fit(t, r, Owns(t) \ {x}, Shares(t), at)
         /\ d = "runlock" => x \in Shares(t) /\ Fit(t, r, Owns(t), Shares(t) \ {x}, at)
  BY <1>1, <1>2, FitMoves
<1> QED
  BY <1>1, <1>3, TailLess DEF Does, What, Rest

\* A script that goes on as it is has to do with no new channel.
LEMMA GoesOn ==
  ASSUME IInv, NEW t \in Threads, Busy(t), Goes(t), UNCHANGED <<channels, at>>
  PROVE  PrivateInv' /\ NamedInv' /\ script' \in [Threads -> Scripts]
<1>1. Rest(t) \in Scripts /\ Continue(t, Rest(t))
  BY Busily DEF Goes
<1>2. \A ch \in Channels : /\ Mentions(Rest(t), ch) => Near(t, ch)
                           /\ Lists(Rest(t), ch) => Lists(script[t], ch)
  BY Busily DEF Near
<1>3. PrivateInv'
  BY <1>1, <1>2, PrivateStays
<1>4. NamedInv'
  BY DEF IInv, NamedInv
<1> QED
  BY <1>1, <1>3, <1>4, Continues DEF IInv

LEMMA AnnounceKeeps ==
  ASSUME IInv, NEW t \in Threads, Announce(t)
  PROVE  IInv'
<1>1. What(t) \in Locks
  BY Busily DEF Announce, Does
<1>2. TypeOK'
  BY <1>1 DEF IInv, TypeOK, Announce, dataVars
<1>3. Fits'
  BY DEF IInv, Fits, Fit, Owns, Shares, Announce, dataVars
<1>4. PendingInv'
  <2>1. ASSUME NEW l \in Locks, pending'[l] # None
        PROVE  owner[l] = None /\ Does(pending'[l], "lock") /\ What(pending'[l]) = l
    <3>1. CASE l = What(t)
      BY <3>1 DEF Announce, IInv, TypeOK
    <3>2. CASE l # What(t)
      <4>1. pending'[l] = pending[l]
        BY <3>2 DEF Announce, IInv, TypeOK
      <4> QED
        BY <2>1, <4>1 DEF IInv, PendingInv
    <3> QED
      BY <3>1, <3>2
  <2>2. script' = script /\ owner' = owner
    BY DEF Announce
  <2> QED
    BY <2>1, <2>2 DEF PendingInv, Does, Busy, What
<1>5. NamedInv' /\ PrivateInv'
  BY DEF IInv, NamedInv, PrivateInv, Announce, dataVars
<1> QED
  BY <1>2, <1>3, <1>4, <1>5 DEF IInv

LEMMA AcquireKeeps ==
  ASSUME IInv, NEW t \in Threads, Acquire(t)
  PROVE  IInv'
<1> DEFINE l == What(t)
<1>1. /\ Busy(t) /\ Does(t, "lock") /\ l \in Locks /\ Rest(t) \in Scripts
      /\ Fit(t, Rest(t), Owns(t) \cup {l}, Shares(t), at)
  BY Busily DEF Acquire, Does
<1>2. /\ owner[l] = None /\ pending[l] = t /\ t # None
      /\ owner \in [Locks -> Threads \cup {None}] /\ pending \in [Locks -> Threads \cup {None}]
  BY <1>1, ThreadsDiffer DEF Acquire, IInv, TypeOK, PendingInv
<1>3. /\ owner' = [owner EXCEPT ![l] = t] /\ pending' = [pending EXCEPT ![l] = None]
      /\ readers' = readers /\ at' = at /\ channels' = channels /\ Goes(t)
  BY DEF Acquire, dataVars
<1> HIDE DEF l
<1>4. PrivateInv' /\ NamedInv' /\ script' \in [Threads -> Scripts]
  BY <1>1, <1>3, GoesOn
<1>5. TypeOK'
  <2>1. owner' \in [Locks -> Threads \cup {None}] /\ pending' \in [Locks -> Threads \cup {None}]
    BY <1>2, <1>3
  <2> QED
    BY <1>4, <2>1 DEF IInv, TypeOK, Acquire, dataVars, Scripts
<1>6. Owns(t)' = Owns(t) \cup {l} /\ \A u \in Threads \ {t} : Owns(u)' = Owns(u)
  BY <1>1, <1>2, <1>3, ThreadsDiffer DEF Owns
<1>7. \A u \in Threads : Shares(u)' = Shares(u)
  BY <1>3 DEF Shares
<1>8. Fits'
  BY <1>1, <1>3, <1>6, <1>7, FitsStays DEF Goes
<1>9. PendingInv'
  <2>1. \A u \in Threads \ {t} : script'[u] = script[u]
    BY <1>1, <1>3, Continues DEF IInv, Goes
  <2>2. ASSUME NEW k \in Locks, pending'[k] # None
        PROVE  /\ owner'[k] = None /\ script'[pending'[k]] # <<>>
               /\ Head(script'[pending'[k]]).do = "lock" /\ Head(script'[pending'[k]]).of = k
    <3>1. k # l /\ pending'[k] = pending[k] /\ owner'[k] = owner[k]
      BY <1>2, <1>3, <2>2
    <3>2. owner[k] = None /\ Does(pending[k], "lock") /\ What(pending[k]) = k
      BY <2>2, <3>1 DEF IInv, PendingInv
    <3>3. pending[k] \in Threads /\ pending[k] # t
      BY <1>2, <2>2, <3>1, <3>2 DEF l
    <3> QED
      BY <2>1, <3>1, <3>2, <3>3 DEF Does, Busy, What
  <2> QED
    BY <2>2 DEF PendingInv, Does, Busy, What
<1> QED
  BY <1>4, <1>5, <1>8, <1>9 DEF IInv

LEMMA AcquireReadKeeps ==
  ASSUME IInv, NEW t \in Threads, AcquireRead(t)
  PROVE  IInv'
<1> DEFINE l == What(t)
<1>1. /\ Busy(t) /\ Does(t, "rlock") /\ ~Does(t, "lock") /\ l \in Locks /\ Rest(t) \in Scripts
      /\ Fit(t, Rest(t), Owns(t), Shares(t) \cup {l}, at)
  BY Busily DEF AcquireRead, Does
<1>2. /\ readers' = [readers EXCEPT ![l] = @ \cup {t}] /\ owner' = owner /\ pending' = pending
      /\ at' = at /\ channels' = channels /\ Goes(t)
  BY DEF AcquireRead, dataVars
<1>3. readers \in [Locks -> SUBSET Threads]
  BY DEF IInv, TypeOK
<1> HIDE DEF l
<1>4. PrivateInv' /\ NamedInv' /\ script' \in [Threads -> Scripts]
  BY <1>1, <1>2, GoesOn
<1>5. TypeOK'
  <2>1. readers' \in [Locks -> SUBSET Threads]
    BY <1>1, <1>2, <1>3
  <2> QED
    BY <1>4, <2>1 DEF IInv, TypeOK, AcquireRead, dataVars, Scripts
<1>6. Shares(t)' = Shares(t) \cup {l} /\ \A u \in Threads \ {t} : Shares(u)' = Shares(u)
  BY <1>1, <1>2, <1>3 DEF Shares
<1>7. \A u \in Threads : Owns(u)' = Owns(u)
  BY <1>2 DEF Owns
<1>8. Fits'
  BY <1>1, <1>2, <1>6, <1>7, FitsStays DEF Goes
<1>9. PendingInv'
  BY <1>1, <1>2, PendingStays DEF Goes
<1> QED
  BY <1>4, <1>5, <1>8, <1>9 DEF IInv

LEMMA PassByKeeps ==
  ASSUME IInv, NEW t \in Threads, PassBy(t)
  PROVE  IInv'
<1>1. /\ Busy(t) /\ ~Does(t, "lock") /\ Rest(t) \in Scripts
      /\ Fit(t, Rest(t), Owns(t), Shares(t), at)
  BY Busily DEF PassBy, Does
<1>2. /\ owner' = owner /\ pending' = pending /\ readers' = readers
      /\ at' = at /\ channels' = channels /\ Goes(t)
  BY DEF PassBy, lockVars, dataVars
<1>3. PrivateInv' /\ NamedInv' /\ script' \in [Threads -> Scripts]
  BY <1>1, <1>2, GoesOn
<1>4. TypeOK'
  BY <1>3 DEF IInv, TypeOK, PassBy, lockVars, dataVars, Scripts
<1>5. \A u \in Threads : Owns(u)' = Owns(u) /\ Shares(u)' = Shares(u)
  BY <1>2 DEF Owns, Shares
<1>6. Fits'
  BY <1>1, <1>2, <1>5, FitsStays DEF Goes
<1>7. PendingInv'
  BY <1>1, <1>2, PendingStays DEF Goes
<1> QED
  BY <1>3, <1>4, <1>6, <1>7 DEF IInv

LEMMA ReleaseKeeps ==
  ASSUME IInv, NEW t \in Threads, Release(t)
  PROVE  IInv'
<1> DEFINE l == What(t)
<1>1. /\ owner \in [Locks -> Threads \cup {None}] /\ readers \in [Locks -> SUBSET Threads]
      /\ None \notin Threads
  BY ThreadsDiffer DEF IInv, TypeOK
<1>2. /\ pending' = pending /\ at' = at /\ channels' = channels
      /\ Goes(t) /\ Busy(t) /\ ~Does(t, "lock")
  BY DEF Release, dataVars, Does
<1>3. PrivateInv' /\ NamedInv' /\ script' \in [Threads -> Scripts] /\ Rest(t) \in Scripts
  BY <1>2, GoesOn, Busily
<1>4. CASE /\ Does(t, "unlock") /\ owner' = [owner EXCEPT ![l] = None] /\ readers' = readers
  <2>1. l \in Owns(t) /\ l \in Locks /\ Fit(t, Rest(t), Owns(t) \ {l}, Shares(t), at)
    BY <1>2, <1>4, Busily DEF Owns
  <2> HIDE DEF l
  <2>2. owner' \in [Locks -> Threads \cup {None}]
    BY <1>1, <1>4
  <2>3. TypeOK'
    BY <1>3, <1>4, <2>2 DEF IInv, TypeOK, Release, dataVars, Scripts
  <2>4. Owns(t)' = Owns(t) \ {l} /\ \A u \in Threads \ {t} : Owns(u)' = Owns(u)
    BY <1>1, <1>4, <2>1 DEF Owns
  <2>5. \A u \in Threads : Shares(u)' = Shares(u)
    BY <1>4 DEF Shares
  <2>6. Fits'
    BY <1>2, <1>3, <2>1, <2>4, <2>5, FitsStays DEF Goes
  <2>7. \A k \in Locks : owner'[k] \in {owner[k], None}
    BY <1>1, <1>4
  <2>8. PendingInv'
    BY <1>2, <1>3, <2>7, PendingStays DEF Goes
  <2> QED
    BY <1>3, <2>3, <2>6, <2>8 DEF IInv
<1>5. CASE /\ Does(t, "runlock") /\ readers' = [readers EXCEPT ![l] = @ \ {t}] /\ owner' = owner
  <2>1. l \in Shares(t) /\ l \in Locks /\ Fit(t, Rest(t), Owns(t), Shares(t) \ {l}, at)
    BY <1>2, <1>5, Busily DEF Shares
  <2> HIDE DEF l
  <2>2. readers' \in [Locks -> SUBSET Threads]
    BY <1>1, <1>5
  <2>3. TypeOK'
    BY <1>3, <1>5, <2>2 DEF IInv, TypeOK, Release, dataVars, Scripts
  <2>4. Shares(t)' = Shares(t) \ {l} /\ \A u \in Threads \ {t} : Shares(u)' = Shares(u)
    BY <1>1, <1>5, <2>1 DEF Shares
  <2>5. \A u \in Threads : Owns(u)' = Owns(u)
    BY <1>5 DEF Owns
  <2>6. Fits'
    BY <1>2, <1>3, <2>1, <2>4, <2>5, FitsStays DEF Goes
  <2>7. PendingInv'
    BY <1>2, <1>3, <1>5, PendingStays DEF Goes
  <2> QED
    BY <1>3, <2>3, <2>6, <2>7 DEF IInv
<1> QED
  BY <1>4, <1>5 DEF Release

-----------------------------------------------------------------------------
(***************************************************************************)
(* What is done under the locks, but for Find.                             *)
(***************************************************************************)
LEMMA PassesAre ==
  ASSUME NEW S \in SUBSET Clients, NEW q \in AnyOrder(S)
  PROVE  Passes(q) \in Seq(PassSteps)
<1>1. IsFiniteSet(S)
  BY LockAssumption, FS_Subset
<1>2. Cardinality(S) \in Nat
  BY <1>1, FS_CardinalityType
<1>3. q \in [1 .. Cardinality(S) -> S]
  BY DEF AnyOrder, SetToSeqs
<1>4. Passes(q) \in [1 .. Cardinality(S) -> PassSteps]
  BY <1>3 DEF Passes, PassSteps
<1> QED
  BY <1>2, <1>4, SeqDef

LEMMA HeadMentions ==
  ASSUME NEW q \in Scripts, q # <<>>, NEW ch \in Channels, Head(q).of = ch
  PROVE  Mentions(q, ch)
<1>1. 1 \in DOMAIN q /\ Head(q) = q[1]
  BY LenProperties DEF Scripts
<1> QED
  BY <1>1 DEF Mentions

\* A step that leaves the locks alone.
LEMMA DeedKeeps ==
  ASSUME IInv, NEW t \in Threads, NEW b \in Scripts, Continue(t, b), ~Does(t, "lock"),
         UNCHANGED lockVars,
         there' \subseteq Clients, live' \subseteq Clients, quit' \subseteq Channels,
         panicked' \in BOOLEAN, channels' \in [Names -> Channels \cup {None}],
         at' \in [Clients -> Channels \cup {None}],
         \A c \in Clients : reader(c) # t => at'[c] = at[c],
         Fit(t, b, Owns(t), Shares(t), at'), NamedInv', PrivateInv'
  PROVE  IInv'
<1>1. owner' = owner /\ pending' = pending /\ readers' = readers
  BY DEF lockVars
<1>2. script' \in [Threads -> Scripts]
  BY Continues DEF IInv
<1>3. TypeOK'
  BY <1>1, <1>2 DEF IInv, TypeOK, Scripts
<1>4. \A u \in Threads : Owns(u)' = Owns(u) /\ Shares(u)' = Shares(u)
  BY <1>1 DEF Owns, Shares
<1>5. Fits'
  BY <1>4, FitsStays
<1>6. PendingInv'
  BY <1>1, PendingStays
<1> QED
  BY <1>3, <1>5, <1>6 DEF IInv

LEMMA ReaderPlace ==
  ASSUME IInv, NEW c \in Clients
  PROVE  LET t == reader(c)
         IN /\ Sound(script[t], Owns(t), Shares(t), at[c])
            /\ Busy(t) => Moves(c, script[t], Owns(t), Shares(t), at[c])
            /\ \A q, W, R, f : Fit(t, q, W, R, f) <=> ReaderAt(c, q, W, R, f[c])
            /\ at[c] \in Channels \cup {None} /\ t \in Threads
<1> DEFINE t == reader(c)
<1>1. at[c] \in Channels \cup {None} /\ t \in Threads
  BY ThreadsDiffer DEF IInv, TypeOK
<1>2. \A q, W, R, f : Fit(t, q, W, R, f) <=> ReaderAt(c, q, W, R, f[c])
  BY ThreadsDiffer DEF Fit
<1>3. ReaderAt(c, script[t], Owns(t), Shares(t), at[c])
  BY <1>1, <1>2 DEF IInv, Fits
<1> HIDE DEF t
<1>4. /\ Sound(script[t], Owns(t), Shares(t), at[c])
      /\ Busy(t) => Moves(c, script[t], Owns(t), Shares(t), at[c])
  BY <1>1, <1>3, ReaderMoves DEF Busy
<1> QED
  BY <1>1, <1>2, <1>4 DEF t

\* ... of a reader that leaves the global maps alone, too, and goes on where it is.
LEMMA ReaderKeeps ==
  ASSUME IInv, NEW c \in Clients, NEW b \in Scripts, Continue(reader(c), b),
         ~Does(reader(c), "lock"), UNCHANGED lockVars, channels' = channels,
         there' \subseteq Clients, live' = live, quit' \subseteq Channels,
         panicked' \in BOOLEAN, NEW a \in Channels \cup {None}, at' = [at EXCEPT ![c] = a],
         a \in {at[c], None} \/ Mentions(script[reader(c)], a),
         \A ch \in Channels : /\ Mentions(b, ch) => Near(reader(c), ch)
                              /\ Lists(b, ch) => Lists(script[reader(c)], ch),
         ReaderAt(c, b, Owns(reader(c)), Shares(reader(c)), a)
  PROVE  IInv'
<1> DEFINE t == reader(c)
<1>1. at \in [Clients -> Channels \cup {None}] /\ t \in Threads
  BY ThreadsDiffer DEF IInv, TypeOK
<1>2. /\ at' \in [Clients -> Channels \cup {None}] /\ at'[c] = a
      /\ \A e \in Clients \ {c} : at'[e] = at[e]
  BY <1>1
<1>3. \A e \in Clients : reader(e) # t => at'[e] = at[e]
  BY <1>2
<1>4. Fit(t, b, Owns(t), Shares(t), at')
  BY <1>2, ReaderPlace
<1> HIDE DEF t
<1>5. PrivateInv'
  <2>1. \A e \in Clients : \/ at'[e] \in {at[e], None}
                           \/ t = reader(e) /\ Mentions(script[t], at'[e])
    BY <1>2 DEF t
  <2>2. \A ch \in Channels : /\ Mentions(b, ch) => Near(t, ch)
                             /\ Lists(b, ch) => Lists(script[t], ch)
    BY DEF t
  <2>3. Continue(t, b)
    BY DEF t
  <2> QED
    BY <1>1, <2>1, <2>2, <2>3, PrivateStays
<1>6. NamedInv'
  BY DEF IInv, NamedInv
<1>7. live' \subseteq Clients /\ channels' \in [Names -> Channels \cup {None}]
  BY DEF IInv, TypeOK
<1>8. Continue(t, b) /\ ~Does(t, "lock")
  BY DEF t
<1> QED
  BY <1>1, <1>2, <1>3, <1>4, <1>5, <1>6, <1>7, <1>8, DeedKeeps

\* A reader that is not done, with the step it takes, from what it goes on with.
LEMMA ReaderDoes ==
  ASSUME IInv, NEW c \in Clients, NEW d, Does(reader(c), d), d # "lock"
  PROVE  LET t == reader(c)
         IN /\ t \in Threads /\ Busy(t) /\ ~Does(t, "lock")
            /\ script[t] \in Scripts /\ script[t] # <<>> /\ Rest(t) \in Scripts
            /\ Head(script[t]).do = d /\ Head(script[t]).of = What(t)
            /\ Tail(script[t]) = Rest(t)
            /\ Moves(c, script[t], Owns(t), Shares(t), at[c])
            /\ at[c] \in Channels \cup {None} /\ at = [at EXCEPT ![c] = at[c]]
            /\ there \subseteq Clients /\ quit \subseteq Channels /\ panicked \in BOOLEAN
            /\ \A ch \in Channels : /\ Mentions(Rest(t), ch) => Near(t, ch)
                                    /\ Lists(Rest(t), ch) => Lists(script[t], ch)
<1>1. Busy(reader(c)) /\ ~Does(reader(c), "lock") /\ script[reader(c)] # <<>>
  BY DEF Does, Busy
<1>2. reader(c) \in Threads
  BY ThreadsDiffer
<1>3. /\ at[c] \in Channels \cup {None} /\ at = [at EXCEPT ![c] = at[c]]
      /\ there \subseteq Clients /\ quit \subseteq Channels /\ panicked \in BOOLEAN
  BY DEF IInv, TypeOK
<1>4. Moves(c, script[reader(c)], Owns(reader(c)), Shares(reader(c)), at[c])
  BY <1>1, ReaderPlace
<1> QED
  BY <1>1, <1>2, <1>3, <1>4, Busily DEF Does, What, Rest, Near

LEMMA PassingKeeps ==
  ASSUME IInv, NEW c \in Clients, NEW d \in {"send", "types"}, Does(reader(c), d),
         NEW p \in Seq(PassSteps), Continue(reader(c), p \o Rest(reader(c))),
         UNCHANGED <<lockVars, dataVars>>
  PROVE  IInv'
<1> DEFINE t == reader(c)
           b == p \o Rest(t)
<1>1. /\ t \in Threads /\ ~Does(t, "lock") /\ Rest(t) \in Scripts
      /\ Head(script[t]).do = d /\ Tail(script[t]) = Rest(t)
      /\ Moves(c, script[t], Owns(t), Shares(t), at[c])
      /\ at[c] \in Channels \cup {None} /\ at = [at EXCEPT ![c] = at[c]]
      /\ there \subseteq Clients /\ quit \subseteq Channels /\ panicked \in BOOLEAN
      /\ \A ch \in Channels : /\ Mentions(Rest(t), ch) => Near(t, ch)
                              /\ Lists(Rest(t), ch) => Lists(script[t], ch)
  BY ReaderDoes
<1>2. ReaderAt(c, b, Owns(t), Shares(t), at[c])
  BY <1>1 DEF Moves
<1>3. b \in Scripts /\ \A ch \in Channels : /\ Mentions(b, ch) => Near(t, ch)
                                            /\ Lists(b, ch) => Lists(script[t], ch)
  <2>1. Passing(b, Rest(t))
    BY DEF Passing
  <2> QED
    BY <1>1, <2>1, PassingLeads
<1>4. /\ there' = there /\ live' = live /\ channels' = channels /\ at' = at /\ quit' = quit
      /\ panicked' = panicked /\ UNCHANGED lockVars /\ Continue(t, b)
  BY DEF dataVars
<1> HIDE DEF t, b
<1>5. at' = [at EXCEPT ![c] = at[c]] /\ at[c] \in {at[c], None}
  BY <1>1, <1>4
<1> QED
  BY <1>1, <1>2, <1>3, <1>4, <1>5, ReaderKeeps DEF t

LEMMA SendKeeps ==
  ASSUME IInv, NEW c \in Clients, NEW ch \in Channels, Send(c, ch)
  PROVE  IInv'
<1>1. PICK D \in SUBSET Recipients(c, ch) : \E q \in AnyOrder(D) :
        Continue(reader(c), Passes(q) \o Rest(reader(c)))
  BY DEF Send
<1>2. PICK q \in AnyOrder(D) : Continue(reader(c), Passes(q) \o Rest(reader(c)))
  BY <1>1
<1>3. Passes(q) \in Seq(PassSteps)
  <2>1. D \in SUBSET Clients
    BY DEF Recipients, Members
  <2> QED
    BY <2>1, PassesAre
<1> QED
  BY <1>2, <1>3, PassingKeeps DEF Send

LEMMA TypesKeeps ==
  ASSUME IInv, NEW c \in Clients, NEW ch \in Channels, Types(c, ch)
  PROVE  IInv'
<1>1. PICK q \in AnyOrder(Members(ch) \ {c}), self \in {<<>>, Pass(cl(c))} :
        Continue(reader(c), Passes(q) \o self \o Rest(reader(c)))
  BY DEF Types
<1>2. Passes(q) \in Seq(PassSteps)
  <2>1. Members(ch) \ {c} \in SUBSET Clients
    BY DEF Members
  <2> QED
    BY <2>1, PassesAre
<1>3. self \in Seq(PassSteps)
  <2>1. [do |-> "pass", of |-> cl(c)] \in PassSteps
    BY DEF PassSteps
  <2>2. \A e \in PassSteps : <<e>> \in Seq(PassSteps) /\ <<>> \in Seq(PassSteps)
    OBVIOUS
  <2>3. Pass(cl(c)) \in Seq(PassSteps)
    BY <2>1, <2>2 DEF Pass, Step
  <2> QED
    BY <2>1, <2>2, <2>3
<1>4. Passes(q) \o self \in Seq(PassSteps)
  BY <1>2, <1>3, ConcatProperties
<1> QED
  BY <1>1, <1>4, PassingKeeps DEF Types

LEMMA EnterKeeps ==
  ASSUME IInv, NEW c \in Clients, NEW ch \in Channels, Enter(c, ch)
  PROVE  IInv'
<1> DEFINE t == reader(c)
           b == Rest(t)
<1>1. /\ t \in Threads /\ Busy(t) /\ ~Does(t, "lock") /\ b \in Scripts
      /\ script[t] \in Scripts /\ script[t] # <<>>
      /\ Head(script[t]).do = "enter" /\ Head(script[t]).of = ch /\ Tail(script[t]) = b
      /\ Moves(c, script[t], Owns(t), Shares(t), at[c])
      /\ at[c] \in Channels \cup {None} /\ at = [at EXCEPT ![c] = at[c]]
      /\ there \subseteq Clients /\ quit \subseteq Channels /\ panicked \in BOOLEAN
      /\ \A dh \in Channels : /\ Mentions(b, dh) => Near(t, dh)
                              /\ Lists(b, dh) => Lists(script[t], dh)
  BY ReaderDoes DEF Enter
<1>2. ReaderAt(c, b, Owns(t), Shares(t), at[c]) /\ ReaderAt(c, b, Owns(t), Shares(t), ch)
  BY <1>1 DEF Moves
<1>3. /\ UNCHANGED lockVars /\ channels' = channels /\ there' = there /\ live' = live
      /\ quit' = quit /\ Continue(t, b)
  BY DEF Enter, Goes
<1>4. Mentions(script[t], ch)
  BY <1>1, HeadMentions
<1>5. panicked' \in BOOLEAN /\ (at' = [at EXCEPT ![c] = ch] \/ at' = at)
  BY <1>1 DEF Enter
<1> HIDE DEF t, b
<1>6. CASE at' = [at EXCEPT ![c] = ch]
  BY <1>1, <1>2, <1>3, <1>4, <1>5, <1>6, ReaderKeeps DEF t
<1>7. CASE at' = at
  <2>1. at' = [at EXCEPT ![c] = at[c]] /\ at[c] \in {at[c], None}
    BY <1>1, <1>7
  <2> QED
    BY <1>1, <1>2, <1>3, <1>5, <2>1, ReaderKeeps DEF t
<1> QED
  BY <1>5, <1>6, <1>7

LEMMA LeaveKeeps ==
  ASSUME IInv, NEW c \in Clients, NEW ch \in Channels, Leave(c, ch)
  PROVE  IInv'
<1> DEFINE t == reader(c)
           b == Rest(t)
<1>1. /\ ~Does(t, "lock") /\ b \in Scripts
      /\ Head(script[t]).do = "leave" /\ Tail(script[t]) = b
      /\ Moves(c, script[t], Owns(t), Shares(t), at[c])
      /\ there \subseteq Clients /\ quit \subseteq Channels /\ panicked \in BOOLEAN
      /\ \A dh \in Channels : /\ Mentions(b, dh) => Near(t, dh)
                              /\ Lists(b, dh) => Lists(script[t], dh)
  BY ReaderDoes DEF Leave
<1>2. ReaderAt(c, b, Owns(t), Shares(t), None)
  BY <1>1 DEF Moves
<1>3. /\ UNCHANGED lockVars /\ channels' = channels /\ there' = there /\ live' = live
      /\ quit' = quit /\ panicked' = panicked /\ Continue(t, b) /\ at' = [at EXCEPT ![c] = None]
  BY DEF Leave, Goes
<1> HIDE DEF t, b
<1> QED
  BY <1>1, <1>2, <1>3, ReaderKeeps DEF t

LEMMA QuitKeeps ==
  ASSUME IInv, NEW c \in Clients, NEW ch \in Channels, Quit(c, ch)
  PROVE  IInv'
<1> DEFINE t == reader(c)
<1>1. /\ ~Does(t, "lock") /\ Rest(t) \in Scripts /\ script[t] \in Scripts /\ script[t] # <<>>
      /\ Head(script[t]).do = "quit" /\ Head(script[t]).of = ch /\ Tail(script[t]) = Rest(t)
      /\ Moves(c, script[t], Owns(t), Shares(t), at[c])
      /\ at[c] \in Channels \cup {None} /\ at = [at EXCEPT ![c] = at[c]]
      /\ there \subseteq Clients /\ quit \subseteq Channels /\ panicked \in BOOLEAN
      /\ \A dh \in Channels : /\ Mentions(Rest(t), dh) => Near(t, dh)
                              /\ Lists(Rest(t), dh) => Lists(script[t], dh)
  BY ReaderDoes DEF Quit
<1>2. /\ ReaderAt(c, Rest(t), Owns(t), Shares(t), at[c]) /\ Rest(t) = LeaveEnd(c, ch)
      /\ ReaderAt(c, UnlistLock(c, ch), Owns(t), Shares(t), at[c])
  BY <1>1 DEF Moves
<1>3. /\ UNCHANGED lockVars /\ channels' = channels /\ there' = there /\ live' = live
      /\ panicked' = panicked /\ at' = at
  BY DEF Quit
<1>4. /\ UnlistLock(c, ch) \in Scripts
      /\ Hold(mu, Step("unlist", ch)) \o Rest(t) = UnlistLock(c, ch)
  BY <1>2, UnlistIs, LeaveLeads DEF Leads
<1>5. \A dh \in Channels : /\ Mentions(UnlistLock(c, ch), dh) => Near(t, dh)
                           /\ ~Lists(UnlistLock(c, ch), dh)
  <2>1. Mentions(script[t], ch)
    BY <1>1, HeadMentions
  <2>2. Only(UnlistLock(c, ch), ch) /\ ListsNothing(UnlistLock(c, ch))
    BY LeaveMentions
  <2> QED
    BY <2>1, <2>2 DEF Near, Only, ListsNothing
<1>6. quit' \subseteq Channels /\ (Continue(t, UnlistLock(c, ch)) \/ Continue(t, Rest(t)))
  BY <1>1, <1>4 DEF Quit, Goes
<1> HIDE DEF t
<1>7. at' = [at EXCEPT ![c] = at[c]] /\ at[c] \in {at[c], None}
  BY <1>1, <1>3
<1>8. CASE Continue(t, UnlistLock(c, ch))
  BY <1>1, <1>2, <1>3, <1>4, <1>5, <1>6, <1>7, <1>8, ReaderKeeps DEF t
<1>9. CASE Continue(t, Rest(t))
  BY <1>1, <1>2, <1>3, <1>6, <1>7, <1>9, ReaderKeeps DEF t
<1> QED
  BY <1>6, <1>8, <1>9

LEMMA DeleteKeeps ==
  ASSUME IInv, NEW c \in Clients, Delete(c)
  PROVE  IInv'
<1> DEFINE t == reader(c)
           b == Rest(t)
<1>1. /\ ~Does(t, "lock") /\ b \in Scripts
      /\ Head(script[t]).do = "delete" /\ Tail(script[t]) = b
      /\ Moves(c, script[t], Owns(t), Shares(t), at[c])
      /\ at[c] \in Channels \cup {None} /\ at = [at EXCEPT ![c] = at[c]]
      /\ there \subseteq Clients /\ quit \subseteq Channels /\ panicked \in BOOLEAN
      /\ \A dh \in Channels : /\ Mentions(b, dh) => Near(t, dh)
                              /\ Lists(b, dh) => Lists(script[t], dh)
  BY ReaderDoes DEF Delete
<1>2. ReaderAt(c, b, Owns(t), Shares(t), at[c])
  BY <1>1 DEF Moves
<1>3. /\ UNCHANGED lockVars /\ channels' = channels /\ there' \subseteq Clients /\ live' = live
      /\ quit' = quit /\ panicked' = panicked /\ Continue(t, b) /\ at' = at
  BY <1>1 DEF Delete, Goes
<1> HIDE DEF t, b
<1>4. at' = [at EXCEPT ![c] = at[c]] /\ at[c] \in {at[c], None}
  BY <1>1, <1>3
<1> QED
  BY <1>1, <1>2, <1>3, <1>4, ReaderKeeps DEF t

LEMMA ListAsKeeps ==
  ASSUME IInv, NEW c \in Clients, NEW ch \in Channels, List(c, ch) \/ Unlist(c, ch)
  PROVE  IInv'
<1> DEFINE t == reader(c)
           b == Rest(t)
<1>1. PICK d \in {"list", "unlist"}, entry \in {ch, None} :
        ListAs(c, d, ch, entry) /\ (d = "unlist" => entry = None)
  BY DEF List, Unlist
<1>2. /\ t \in Threads /\ ~Does(t, "lock") /\ b \in Scripts
      /\ script[t] \in Scripts /\ script[t] # <<>>
      /\ Head(script[t]).do = d /\ Head(script[t]).of = ch /\ Tail(script[t]) = b
      /\ Moves(c, script[t], Owns(t), Shares(t), at[c])
      /\ \A dh \in Channels : /\ Mentions(b, dh) => Near(t, dh)
                              /\ Lists(b, dh) => Lists(script[t], dh)
  BY <1>1, ReaderDoes DEF ListAs
<1>3. ReaderAt(c, b, Owns(t), Shares(t), at[c]) /\ (d = "list" => b = MapsEnd)
  BY <1>2 DEF Moves
<1>4. /\ UNCHANGED lockVars /\ there' = there /\ live' = live /\ quit' = quit
      /\ panicked' = panicked /\ at' = at /\ channels' = [channels EXCEPT ![ch.name] = entry]
      /\ Continue(t, b)
  BY <1>1 DEF ListAs, Goes
<1> HIDE DEF t, b
<1>5. ch.name \in Names
  BY DEF Channels
<1>6. channels \in [Names -> Channels \cup {None}] /\ at \in [Clients -> Channels \cup {None}]
  BY DEF IInv, TypeOK
<1>7. channels' \in [Names -> Channels \cup {None}]
  BY <1>4, <1>5, <1>6
<1>8. NamedInv'
  BY <1>4, <1>5, <1>6 DEF IInv, NamedInv
<1>9. Mentions(script[t], ch)
  BY <1>2, HeadMentions
<1>10. PrivateInv'
  <2>1. d = "list" => ListsNothing(b)
    BY <1>3, MapsMentions
  <2>2. \A n \in Names : \/ channels'[n] \in {channels[n], None}
                         \/ /\ \E e \in Clients : t = reader(e)
                            /\ Mentions(script[t], channels'[n]) /\ ListsNothing(b)
    BY <1>1, <1>4, <1>5, <1>6, <1>9, <2>1 DEF t
  <2>3. \A e \in Clients : at'[e] \in {at[e], None}
    BY <1>4
  <2> QED
    BY <1>2, <1>4, <2>2, <2>3, PrivateStays
<1>11. Fit(t, b, Owns(t), Shares(t), at')
  BY <1>3, <1>4, ReaderPlace DEF t
<1>12. /\ there' \subseteq Clients /\ live' \subseteq Clients /\ quit' \subseteq Channels
       /\ panicked' \in BOOLEAN /\ at' \in [Clients -> Channels \cup {None}]
       /\ \A e \in Clients : at'[e] = at[e]
  BY <1>4, <1>6 DEF IInv, TypeOK
<1> QED
  BY <1>2, <1>4, <1>7, <1>8, <1>10, <1>11, <1>12, DeedKeeps

-----------------------------------------------------------------------------
(***************************************************************************)
(* Find: a channel that exists, or one that nobody has seen.  There always *)
(* is one, as every other client has to do with one channel at most.       *)
(***************************************************************************)
LEMMA HeadOrTail ==
  ASSUME NEW q \in Scripts, q # <<>>, NEW ch \in Channels, Mentions(q, ch)
  PROVE  Head(q).of \in {ch, cc(ch)} \/ Mentions(Tail(q), ch)
<1>1. /\ Len(Tail(q)) = Len(q) - 1 /\ Len(q) \in Nat /\ Tail(q) \in Scripts
      /\ \A i \in 1 .. Len(Tail(q)) : Tail(q)[i] = q[i + 1]
  BY HeadTailProperties, LenProperties DEF Scripts
<1>2. DOMAIN q = 1 .. Len(q) /\ DOMAIN Tail(q) = 1 .. Len(Tail(q)) /\ Head(q) = q[1]
  BY <1>1, LenProperties DEF Scripts
<1>3. PICK i \in DOMAIN q : q[i].of \in {ch, cc(ch)}
  BY DEF Mentions
<1>4. CASE i = 1
  BY <1>2, <1>3, <1>4
<1>5. CASE i # 1
  <2>1. i - 1 \in DOMAIN Tail(q) /\ Tail(q)[i - 1] = q[i]
    BY <1>1, <1>2, <1>5
  <2> QED
    BY <1>3, <2>1 DEF Mentions
<1> QED
  BY <1>4, <1>5

\* A client, or its reader, has to do with the channel.
Has(e, ch) == at[e] = ch \/ Mentions(script[reader(e)], ch)

LEMMA HasOne ==
  ASSUME IInv, NEW e \in Clients, NEW ch \in Channels, NEW dh \in Channels,
         Has(e, ch), Has(e, dh)
  PROVE  ch = dh
<1>1. PICK x \in Channels \cup {None} :
        /\ at[e] \in {None, x}
        /\ \A c \in Channels : Mentions(script[reader(e)], c) => c = x
  BY ReaderPlace DEF Sound
<1> QED
  BY <1>1, LockAssumption DEF Has

LEMMA OthersMentionNothing ==
  ASSUME IInv, NEW t \in Threads, \A c \in Clients : t # reader(c)
  PROVE  Nothing(script[t])
<1>1. Fit(t, script[t], Owns(t), Shares(t), at)
  BY DEF IInv, Fits
<1>2. CASE t = acceptor
  <2>1. AcceptorAt(script[t], Owns(t), Shares(t))
    BY <1>1, <1>2 DEF Fit
  <2> QED
    BY <2>1, AcceptorMoves DEF AcceptorSound
<1>3. ASSUME NEW c \in Clients, t = teardown(c)
      PROVE  Nothing(script[t])
  <2>1. TeardownAt(c, script[t], Owns(t), Shares(t))
    BY <1>1, <1>3 DEF Fit
  <2> QED
    BY <2>1, TeardownMoves DEF TeardownSound
<1> QED
  BY <1>2, <1>3, ThreadsDiffer

LEMMA FreshIs ==
  ASSUME IInv, NEW c \in Clients, NEW n \in Names, channels[n] = None,
         Does(reader(c), "find"), What(reader(c)) = n
  PROVE  Fresh(n) \in Channels /\ Fresh(n).name = n /\ Unseen(Fresh(n))
<1> DEFINE chan(g) == [name |-> n, gen |-> g]
<1>1. \A g \in Generations : chan(g) \in Channels /\ chan(g).name = n
  BY DEF Channels
<1>2. \A g, h : chan(g) = chan(h) => g = h
  <2>1. \A g : chan(g).gen = g
    OBVIOUS
  <2> QED
    BY <2>1
<1> HIDE DEF chan
<1>3. /\ script[reader(c)] \in Scripts /\ script[reader(c)] # <<>>
      /\ Head(script[reader(c)]).of = n /\ Tail(script[reader(c)]) = JoinEnd(<<>>)
      /\ at[c] = None
  <2>1. /\ script[reader(c)] \in Scripts /\ script[reader(c)] # <<>>
        /\ Head(script[reader(c)]).do = "find" /\ Head(script[reader(c)]).of = What(reader(c))
        /\ Moves(c, script[reader(c)], Owns(reader(c)), Shares(reader(c)), at[c])
    BY ReaderDoes
  <2> QED
    BY <2>1 DEF Moves
<1>4. \A ch \in Channels : ~Has(c, ch)
  <2>1. ASSUME NEW ch \in Channels, Mentions(script[reader(c)], ch)
        PROVE  FALSE
    <3>1. n \in {ch, cc(ch)} \/ Mentions(JoinEnd(<<>>), ch)
      BY <1>3, <2>1, HeadOrTail
    <3> QED
      BY <3>1, JoinMentions, NoChannels DEF Nothing
  <2> QED
    BY <1>3, <2>1, LockAssumption DEF Has
<1>5. ASSUME NEW ch \in Channels, ch.name = n, ~Unseen(ch)
      PROVE  \E e \in Clients \ {c} : Has(e, ch)
  <2>1. ASSUME NEW m \in Names, channels[m] = ch
        PROVE  FALSE
    <3>1. m = n
      BY <1>5, <2>1, LockAssumption DEF IInv, NamedInv
    <3> QED
      BY <2>1, <3>1, LockAssumption
  <2>2. ASSUME NEW t \in Threads, NEW i \in DOMAIN script[t], script[t][i].of \in {ch, cc(ch)}
        PROVE  \E e \in Clients : Has(e, ch)
    <3>1. Mentions(script[t], ch)
      BY <2>2 DEF Mentions
    <3>2. \E e \in Clients : t = reader(e)
      BY <3>1, OthersMentionNothing DEF Nothing
    <3> QED
      BY <3>1, <3>2 DEF Has
  <2>3. \E e \in Clients : Has(e, ch)
    BY <1>5, <2>1, <2>2 DEF Unseen, Has
  <2> QED
    BY <1>4, <2>3
<1>6. SUFFICES ASSUME \A ch \in Channels : ch.name = n => ~Unseen(ch)
               PROVE  FALSE
  BY DEF Fresh
<1>7. \A g \in Generations : \E e \in Clients \ {c} : Has(e, chan(g))
  BY <1>1, <1>5, <1>6
<1> DEFINE f == [g \in Generations |-> CHOOSE e \in Clients \ {c} : Has(e, chan(g))]
<1>8. \A g \in Generations : f[g] \in Clients \ {c} /\ Has(f[g], chan(g))
  BY <1>7
<1>9. f \in [Generations -> Clients \ {c}]
  BY <1>8
<1> HIDE DEF f
<1>10. \A g, h \in Generations : f[g] = f[h] => g = h
  BY <1>1, <1>2, <1>8, HasOne
<1>11. f \in Injection(Generations, Clients \ {c})
  BY <1>9, <1>10, Fun_IsInj
<1>12. /\ IsFiniteSet(Clients) /\ IsFiniteSet(Clients \ {c}) /\ Cardinality(Clients) \in Nat
       /\ Cardinality(Clients \ {c}) = Cardinality(Clients) - 1
  BY LockAssumption, FS_RemoveElement, FS_CardinalityType
<1>13. IsFiniteSet(Generations) /\ Cardinality(Generations) <= Cardinality(Clients \ {c})
  BY <1>11, <1>12, FS_Injection
<1>14. Cardinality(Generations) \in Nat /\ Cardinality(Generations) >= Cardinality(Clients)
  BY <1>13, LockAssumption, FS_CardinalityType
<1> QED
  BY <1>12, <1>13, <1>14

LEMMA FindKeeps ==
  ASSUME IInv, NEW c \in Clients, NEW n \in Names, Find(c, n)
  PROVE  IInv'
<1> DEFINE t == reader(c)
<1>1. /\ t \in Threads /\ ~Does(t, "lock") /\ script[t] \in Scripts
      /\ Head(script[t]).do = "find" /\ Tail(script[t]) = Rest(t)
      /\ Moves(c, script[t], Owns(t), Shares(t), at[c])
      /\ there \subseteq Clients /\ quit \subseteq Channels /\ panicked \in BOOLEAN
  BY ReaderDoes DEF Find
<1>2. /\ at[c] = None /\ Rest(t) = JoinEnd(<<>>)
      /\ \A ch \in Channels :
           /\ ReaderAt(c, JoinEnd(AddLock(c, ch, <<>>)), Owns(t), Shares(t), at[c])
           /\ ReaderAt(c, JoinEnd(Creating(c, ch)), Owns(t), Shares(t), at[c])
  BY <1>1 DEF Moves
<1>3. /\ UNCHANGED lockVars /\ channels' = channels /\ there' = there /\ live' = live
      /\ panicked' = panicked /\ at' = at
  BY DEF Find
<1>4. channels \in [Names -> Channels \cup {None}] /\ at \in [Clients -> Channels \cup {None}]
  BY DEF IInv, TypeOK
<1>5. CASE /\ channels[n] # None /\ Continue(t, AddThen(Rest(t), channels[n], c))
           /\ quit' = quit
  <2> DEFINE ch == channels[n]
             b == JoinEnd(AddLock(c, ch, <<>>))
  <2>1. ch \in Channels
    BY <1>4, <1>5
  <2>2. Continue(t, b)
    BY <1>2, <1>5, <2>1, FindIs
  <2>3. /\ AddLock(c, ch, <<>>) \in Scripts
        /\ Only(AddLock(c, ch, <<>>), ch) /\ ListsNothing(AddLock(c, ch, <<>>))
    <3>1. Nothing(<<>>) /\ ListsNothing(<<>>)
      BY MapsMentions
    <3> HIDE DEF ch
    <3>2. AddLock(c, ch, <<>>) \in Scripts
      BY <2>1, EmptyScript, AddLeads DEF Leads
    <3>3. /\ Only(AddLock(c, ch, <<>>), ch)
          /\ \A dh \in Channels : Lists(AddLock(c, ch, <<>>), dh) <=> Lists(<<>>, dh)
      BY <2>1, <3>1, EmptyScript, AddMentions
    <3> QED
      BY <3>1, <3>2, <3>3 DEF ListsNothing
  <2>4. b \in Scripts /\ Only(b, ch) /\ ListsNothing(b)
    BY <2>1, <2>3, JoinLeads, JoinMentions DEF Leads
  <2>5. \A dh \in Channels : /\ Mentions(b, dh) => Near(t, dh)
                             /\ Lists(b, dh) => Lists(script[t], dh)
    BY <2>4 DEF Near, Only, ListsNothing
  <2>6. ReaderAt(c, b, Owns(t), Shares(t), at[c])
    BY <1>2, <2>1
  <2>7. /\ at' = [at EXCEPT ![c] = at[c]]
        /\ at[c] \in {at[c], None} /\ at[c] \in Channels \cup {None}
    BY <1>3, <1>4
  <2> HIDE DEF t, b
  <2> QED
    BY <1>1, <1>3, <1>5, <2>2, <2>4, <2>5, <2>6, <2>7, ReaderKeeps DEF t
<1>6. CASE /\ channels[n] = None /\ Continue(t, Rest(t) \o CreateScript(Fresh(n), c))
           /\ quit' = quit \ {Fresh(n)}
  <2> DEFINE ch == Fresh(n)
             b == JoinEnd(Creating(c, ch))
  <2>1. ch \in Channels /\ Unseen(ch)
    BY <1>6, FreshIs DEF Find
  <2> HIDE DEF ch
  <2>2. Continue(t, b)
    BY <1>2, <1>6, <2>1, FindIs DEF ch
  <2>3. /\ Creating(c, ch) \in Scripts /\ Only(Creating(c, ch), ch)
        /\ ListsOnly(Creating(c, ch), ch)
    BY <2>1, MapsLeads, MapsMentions DEF Leads
  <2>4. b \in Scripts /\ Only(b, ch) /\ ListsOnly(b, ch)
    BY <2>1, <2>3, JoinLeads, JoinMentions DEF Leads
  <2>5. /\ \A m \in Names : channels[m] # ch
        /\ \A e \in Clients : at[e] # ch /\ ~Mentions(script[reader(e)], ch)
    BY <2>1, ThreadsDiffer DEF Unseen, Mentions
  <2>6. script'[t] = b /\ \A u \in Threads \ {t} : script'[u] = script[u]
    BY <1>1, <2>2, <2>4, Continues DEF IInv
  <2> HIDE DEF b
  <2>7. PrivateInv'
    <3>1. ASSUME NEW e \in Clients, NEW dh \in Channels, Lists(script'[reader(e)], dh)
          PROVE  /\ \A m \in Names : channels[m] # dh
                 /\ \A f \in Clients \ {e} : at[f] # dh /\ ~Mentions(script'[reader(f)], dh)
      <4>1. CASE e = c
        <5>1. dh = ch
          BY <2>4, <2>6, <3>1, <4>1 DEF ListsOnly
        <5>2. \A f \in Clients \ {e} : script'[reader(f)] = script[reader(f)]
          BY <2>6, <4>1, ThreadsDiffer
        <5> QED
          BY <2>5, <5>1, <5>2
      <4>2. CASE e # c
        <5>1. reader(e) \in Threads /\ reader(e) # t
          BY <4>2, ThreadsDiffer
        <5>2. Lists(script[reader(e)], dh) /\ script[reader(e)] \in Scripts
          BY <2>6, <3>1, <5>1 DEF IInv, TypeOK, Scripts
        <5>3. dh # ch
          BY <2>5, <5>2, ListsMentions
        <5>4. /\ \A m \in Names : channels[m] # dh
              /\ \A f \in Clients \ {e} : at[f] # dh /\ ~Mentions(script[reader(f)], dh)
          BY <5>2 DEF IInv, PrivateInv
        <5>5. ASSUME NEW f \in Clients \ {e}
              PROVE  ~Mentions(script'[reader(f)], dh)
          <6>1. CASE f = c
            BY <2>4, <2>6, <5>3, <6>1 DEF Only
          <6>2. CASE f # c
            BY <2>6, <5>4, <6>2, ThreadsDiffer
          <6> QED
            BY <6>1, <6>2
        <5> QED
          BY <5>4, <5>5
      <4> QED
        BY <4>1, <4>2
    <3> QED
      BY <1>3, <3>1 DEF PrivateInv
  <2>8. NamedInv'
    BY <1>3 DEF IInv, NamedInv
  <2>9. Fit(t, b, Owns(t), Shares(t), at')
    BY <1>2, <1>3, <2>1, ReaderPlace DEF b
  <2>10. /\ there' \subseteq Clients /\ live' \subseteq Clients /\ quit' \subseteq Channels
         /\ panicked' \in BOOLEAN /\ \A e \in Clients : at'[e] = at[e]
         /\ channels' \in [Names -> Channels \cup {None}]
         /\ at' \in [Clients -> Channels \cup {None}]
    BY <1>1, <1>3, <1>4, <1>6 DEF IInv, TypeOK
  <2> HIDE DEF t
  <2> QED
    BY <1>1, <1>3, <2>2, <2>4, <2>7, <2>8, <2>9, <2>10, DeedKeeps
<1> QED
  BY <1>5, <1>6 DEF Find

-----------------------------------------------------------------------------
(***************************************************************************)
(* The acceptor and the teardowns, and how operations begin.               *)
(***************************************************************************)
LEMMA ServerKeeps ==
  ASSUME IInv, NEW t \in Threads, Busy(t), ~Does(t, "lock"), Goes(t),
         UNCHANGED <<lockVars, channels, at, quit, panicked>>,
         there' \subseteq Clients, live' \subseteq Clients,
         Fit(t, Rest(t), Owns(t), Shares(t), at)
  PROVE  IInv'
<1>1. PrivateInv' /\ NamedInv'
  BY GoesOn
<1>2. Rest(t) \in Scripts /\ Continue(t, Rest(t))
  BY Busily DEF Goes
<1>3. at' = at /\ Fit(t, Rest(t), Owns(t), Shares(t), at')
  OBVIOUS
<1>4. /\ quit' \subseteq Channels /\ panicked' \in BOOLEAN
      /\ channels' \in [Names -> Channels \cup {None}]
      /\ at' \in [Clients -> Channels \cup {None}]
  BY DEF IInv, TypeOK
<1> QED
  BY <1>1, <1>2, <1>3, <1>4, DeedKeeps

LEMMA RegisterKeeps ==
  ASSUME IInv, NEW c \in Clients, Register(c)
  PROVE  IInv'
<1>1. Busy(acceptor) /\ ~Does(acceptor, "lock") /\ acceptor \in Threads
  BY ThreadsDiffer DEF Register, Does
<1>2. Fit(acceptor, Rest(acceptor), Owns(acceptor), Shares(acceptor), at)
  <2>1. AcceptorAt(script[acceptor], Owns(acceptor), Shares(acceptor))
    BY <1>1 DEF IInv, Fits, Fit
  <2>2. AcceptorAt(Rest(acceptor), Owns(acceptor), Shares(acceptor))
    BY <2>1, AcceptorMoves DEF AcceptorNext, Register, Does, Busy, Rest
  <2> QED
    BY <2>2, ThreadsDiffer DEF Fit
<1>3. there' \subseteq Clients /\ live' \subseteq Clients
  BY DEF Register, IInv, TypeOK
<1> QED
  BY <1>1, <1>2, <1>3, ServerKeeps DEF Register

LEMMA CloseConnKeeps ==
  ASSUME IInv, NEW c \in Clients, CloseConn(c)
  PROVE  IInv'
<1> DEFINE t == teardown(c)
<1>1. Busy(t) /\ ~Does(t, "lock") /\ t \in Threads
  BY ThreadsDiffer DEF CloseConn, Does
<1>2. Fit(t, Rest(t), Owns(t), Shares(t), at)
  <2>1. TeardownAt(c, script[t], Owns(t), Shares(t))
    BY <1>1 DEF IInv, Fits, Fit
  <2>2. TeardownAt(c, Rest(t), Owns(t), Shares(t))
    BY <2>1, TeardownMoves DEF TeardownNext, CloseConn, Does, Busy, Rest
  <2> QED
    BY <2>2, ThreadsDiffer DEF Fit
<1>3. there' \subseteq Clients /\ live' \subseteq Clients
  BY DEF CloseConn, IInv, TypeOK
<1> QED
  BY <1>1, <1>2, <1>3, ServerKeeps DEF CloseConn

\* Nobody holds a lock between operations.
LEMMA IdleHoldsNothing ==
  ASSUME IInv, NEW t \in Threads, ~Busy(t)
  PROVE  Owns(t) = {} /\ Shares(t) = {}
<1>1. Fit(t, <<>>, Owns(t), Shares(t), at) /\ script[t] = <<>>
  BY DEF IInv, Fits, Busy
<1>2. ASSUME NEW c \in Clients, t = reader(c)
      PROVE  Owns(t) = {} /\ Shares(t) = {}
  <2>1. Ends(c, <<>>, Owns(t), Shares(t), at[c])
    BY <1>1, <1>2, RelayingMoves, JoiningMoves, AddingMoves, LeavesMoves DEF Fit, ReaderAt
  <2>2. <<>> \notin {DeletePass(c), Deleting(c), MapsEnd}
    BY MapsLeads DEF Leads
  <2> QED
    BY <2>1, <2>2 DEF Ends
<1>3. ASSUME NEW c \in Clients, t = teardown(c)
      PROVE  Owns(t) = {} /\ Shares(t) = {}
  <2>1. TeardownAt(c, <<>>, Owns(t), Shares(t))
    BY <1>1, <1>3 DEF Fit
  <2>2. <<>> \notin {TearClient(c), ServerEnd, Closing(c), TearEnd(c)}
    BY ServerLeads DEF Leads
  <2> QED
    BY <2>1, <2>2 DEF TeardownAt
<1>4. CASE t = acceptor
  <2>1. AcceptorAt(<<>>, Owns(t), Shares(t))
    BY <1>1, <1>4 DEF Fit
  <2>2. \A c \in Clients :
          <<>> \notin {AcceptMaps(c), ServerEnd, AcceptPass(c), Registering(c), AcceptEnd}
    BY ServerLeads DEF Leads
  <2> QED
    BY <2>1, <2>2 DEF AcceptorAt
<1> QED
  BY <1>2, <1>3, <1>4, ThreadsDiffer

LEMMA BeginKeeps ==
  ASSUME IInv, NEW t \in Threads, NEW b \in Scripts, Begin(t, b), Fit(t, b, {}, {}, at),
         \A ch \in Channels : (Mentions(b, ch) => Near(t, ch)) /\ ~Lists(b, ch)
  PROVE  IInv'
<1>1. ~Busy(t) /\ ~Does(t, "lock") /\ Continue(t, b) /\ UNCHANGED <<lockVars, dataVars>>
  BY DEF Begin, Does
<1>2. Owns(t) = {} /\ Shares(t) = {}
  BY <1>1, IdleHoldsNothing
<1>3. /\ there' = there /\ live' = live /\ channels' = channels /\ at' = at /\ quit' = quit
      /\ panicked' = panicked
  BY <1>1 DEF dataVars
<1>4. PrivateInv'
  BY <1>1, <1>3, PrivateStays
<1>5. NamedInv'
  BY <1>3 DEF IInv, NamedInv
<1>6. /\ there' \subseteq Clients /\ live' \subseteq Clients /\ quit' \subseteq Channels
      /\ panicked' \in BOOLEAN /\ channels' \in [Names -> Channels \cup {None}]
      /\ at' \in [Clients -> Channels \cup {None}] /\ Fit(t, b, Owns(t), Shares(t), at')
  BY <1>2, <1>3 DEF IInv, TypeOK
<1> QED
  BY <1>1, <1>3, <1>4, <1>5, <1>6, DeedKeeps

LEMMA AcceptsKeeps ==
  ASSUME IInv, NEW c \in Clients, Accepts(c)
  PROVE  IInv'
<1>1. Begin(acceptor, AcceptLock(c))
  BY AcceptIs DEF Accepts
<1>2. AcceptLock(c) \in Scripts /\ \A ch \in Channels : ~Mentions(AcceptLock(c), ch)
  BY ServerLeads, ServerMentions DEF Leads, Nothing
<1>3. Fit(acceptor, AcceptLock(c), {}, {}, at)
  BY ThreadsDiffer DEF Fit, AcceptorAt
<1> QED
  BY <1>1, <1>2, <1>3, ListsMentions, ThreadsDiffer, BeginKeeps

LEMMA TearsDownKeeps ==
  ASSUME IInv, NEW c \in Clients, TearsDown(c)
  PROVE  IInv'
<1>1. Begin(teardown(c), TearLock(c))
  BY TearIs DEF TearsDown
<1>2. TearLock(c) \in Scripts /\ \A ch \in Channels : ~Mentions(TearLock(c), ch)
  BY ServerLeads, ServerMentions DEF Leads, Nothing
<1>3. Fit(teardown(c), TearLock(c), {}, {}, at)
  BY ThreadsDiffer DEF Fit, TeardownAt
<1> QED
  BY <1>1, <1>2, <1>3, ListsMentions, ThreadsDiffer, BeginKeeps

LEMMA ReadsKeeps ==
  ASSUME IInv, NEW c \in Clients, Reads(c)
  PROVE  IInv'
<1> DEFINE t == reader(c)
<1>1. at[c] \in Channels \cup {None} /\ t \in Threads
  BY ThreadsDiffer DEF IInv, TypeOK
<1>2. ASSUME NEW b \in Scripts, Begin(t, b), ReaderAt(c, b, {}, {}, at[c]),
             \A ch \in Channels : (Mentions(b, ch) => ch = at[c]) /\ ~Lists(b, ch)
      PROVE  IInv'
  <2>1. Fit(t, b, {}, {}, at)
    BY <1>2, ReaderPlace
  <2>2. \A ch \in Channels : (Mentions(b, ch) => Near(t, ch)) /\ ~Lists(b, ch)
    BY <1>2 DEF Near
  <2> QED
    BY <1>1, <1>2, <2>1, <2>2, BeginKeeps
<1>3. CASE InChannel(c) /\ Begin(t, RelayScript(c))
  <2>1. at[c] \in Channels
    BY <1>1, <1>3 DEF InChannel
  <2> DEFINE b == RelayFind(at[c])
  <2>2. Begin(t, b) /\ b \in Scripts /\ Only(b, at[c]) /\ ListsNothing(b)
    BY <1>3, <2>1, RelayIs, RelayLeads, RelayMentions DEF Leads
  <2>3. ReaderAt(c, b, {}, {}, at[c])
    BY <2>1 DEF ReaderAt, Relaying
  <2> HIDE DEF b, t
  <2> QED
    BY <1>2, <2>2, <2>3 DEF Only, ListsNothing
<1>4. ASSUME NEW n \in Names, ~InChannel(c), Begin(t, JoinScript(c, n))
      PROVE  IInv'
  <2> DEFINE b == JoinPass(c, n)
  <2>1. Begin(t, b) /\ b \in Scripts /\ Nothing(b) /\ ListsNothing(b)
    BY <1>4, JoinIs, JoinLeads, JoinMentions DEF Leads
  <2>2. ReaderAt(c, b, {}, {}, at[c])
    BY <1>4 DEF ReaderAt, Joining, InChannel
  <2> HIDE DEF b, t
  <2> QED
    BY <1>2, <2>1, <2>2 DEF Nothing, ListsNothing
<1>5. CASE Begin(t, LeaveScript(c))
  <2>1. CASE at[c] = None
    <3> DEFINE b == DeleteLock(c)
    <3>1. Begin(t, b) /\ b \in Scripts /\ Nothing(b) /\ ListsNothing(b)
      BY <1>5, <2>1, LeaveIs, DeleteIs, MapsMentions
    <3>2. ReaderAt(c, b, {}, {}, at[c])
      BY DEF ReaderAt, Ends
    <3> HIDE DEF b, t
    <3> QED
      BY <1>2, <3>1, <3>2 DEF Nothing, ListsNothing
  <2>2. CASE at[c] \in Channels
    <3> DEFINE b == LeaveLock(c, at[c])
    <3>1. Begin(t, b) /\ b \in Scripts /\ Only(b, at[c]) /\ ListsNothing(b)
      BY <1>5, <2>2, LeaveIs, LeaveLeads, LeaveMentions DEF Leads
    <3>2. ReaderAt(c, b, {}, {}, at[c])
      BY <2>2 DEF ReaderAt, Leaves
    <3> HIDE DEF b, t
    <3> QED
      BY <1>2, <3>1, <3>2 DEF Only, ListsNothing
  <2> QED
    BY <1>1, <2>1, <2>2
<1> QED
  BY <1>3, <1>4, <1>5 DEF Reads

-----------------------------------------------------------------------------
(***************************************************************************)
(* The invariant holds, and the locks are typed.                           *)
(***************************************************************************)
LEMMA Initially == Init => IInv
<1> SUFFICES ASSUME Init
             PROVE  IInv
  OBVIOUS
<1>1. /\ script = [t \in Threads |-> <<>>] /\ owner = [l \in Locks |-> None] /\ pending = owner
      /\ readers = [l \in Locks |-> {}] /\ there = {} /\ live = {}
      /\ channels = [n \in Names |-> None] /\ at = [c \in Clients |-> None]
      /\ quit = {} /\ panicked = FALSE
  BY DEF Init
<1>2. TypeOK
  <2>1. script \in [Threads -> Scripts]
    BY <1>1, EmptyScript
  <2>2. /\ owner \in [Locks -> Threads \cup {None}] /\ readers \in [Locks -> SUBSET Threads]
        /\ channels \in [Names -> Channels \cup {None}]
        /\ at \in [Clients -> Channels \cup {None}]
    BY <1>1
  <2> QED
    BY <1>1, <2>1, <2>2 DEF TypeOK, Scripts
<1>3. Fits
  <2>1. ASSUME NEW t \in Threads
        PROVE  Fit(t, script[t], Owns(t), Shares(t), at)
    <3>1. script[t] = <<>> /\ Owns(t) = {} /\ Shares(t) = {}
      BY <1>1, ThreadsDiffer DEF Owns, Shares
    <3>2. \A c \in Clients : ReaderAt(c, <<>>, {}, {}, at[c]) /\ TeardownAt(c, <<>>, {}, {})
      BY DEF ReaderAt, Ends, TeardownAt
    <3>3. AcceptorAt(<<>>, {}, {})
      BY DEF AcceptorAt
    <3> QED
      BY <3>1, <3>2, <3>3 DEF Fit
  <2> QED
    BY <2>1 DEF Fits
<1>4. PendingInv /\ NamedInv
  BY <1>1 DEF PendingInv, NamedInv
<1>5. PrivateInv
  BY <1>1, EmptyScript, ThreadsDiffer DEF PrivateInv
<1> QED
  BY <1>2, <1>3, <1>4, <1>5 DEF IInv

LEMMA Stutters == IInv /\ UNCHANGED vars => IInv'
<1> SUFFICES ASSUME IInv, UNCHANGED vars
             PROVE  IInv'
  OBVIOUS
<1>1. /\ script' = script /\ owner' = owner /\ pending' = pending /\ readers' = readers
      /\ there' = there /\ live' = live /\ channels' = channels /\ at' = at
      /\ quit' = quit /\ panicked' = panicked
  BY DEF vars, lockVars, dataVars
<1>2. TypeOK'
  BY <1>1 DEF IInv, TypeOK
<1>3. Fits'
  BY <1>1 DEF IInv, Fits, Fit, Owns, Shares
<1>4. PendingInv'
  BY <1>1 DEF IInv, PendingInv, Does, Busy, What
<1>5. NamedInv' /\ PrivateInv'
  BY <1>1 DEF IInv, NamedInv, PrivateInv
<1> QED
  BY <1>2, <1>3, <1>4, <1>5 DEF IInv

LEMMA Preserved == IInv /\ [Next]_vars => IInv'
<1> SUFFICES ASSUME IInv, [Next]_vars
             PROVE  IInv'
  OBVIOUS
<1>1. ASSUME NEW t \in Threads, Waits(t) \/ Release(t)
      PROVE  IInv'
  BY <1>1, AnnounceKeeps, AcquireKeeps, AcquireReadKeeps, PassByKeeps, ReleaseKeeps DEF Waits
<1>2. ASSUME NEW c \in Clients, Under(c)
      PROVE  IInv'
  <2>1. ASSUME NEW ch \in Channels,
               \/ Send(c, ch) \/ Types(c, ch) \/ Enter(c, ch) \/ Leave(c, ch)
               \/ Quit(c, ch) \/ List(c, ch) \/ Unlist(c, ch)
        PROVE  IInv'
    BY <2>1, SendKeeps, TypesKeeps, EnterKeeps, LeaveKeeps, QuitKeeps, ListAsKeeps
  <2>2. ASSUME NEW n \in Names, Find(c, n)
        PROVE  IInv'
    BY <2>2, FindKeeps
  <2>3. CASE Delete(c)
    BY <2>3, DeleteKeeps
  <2> QED
    BY <1>2, <2>1, <2>2, <2>3 DEF Under
<1>3. ASSUME NEW c \in Clients,
             Register(c) \/ CloseConn(c) \/ Accepts(c) \/ TearsDown(c) \/ Reads(c)
      PROVE  IInv'
  BY <1>3, RegisterKeeps, CloseConnKeeps, AcceptsKeeps, TearsDownKeeps, ReadsKeeps
<1>4. CASE UNCHANGED vars
  BY <1>4, Stutters
<1> QED
  BY <1>1, <1>2, <1>3, <1>4 DEF Next

\* What every goroutine has left to do fits the locks it holds and the channel its client
\* is in, over accept, the teardowns, and the relay, join and leave of every client.
THEOREM Invariance == Spec => []IInv
<1>1. Init => IInv
  BY Initially
<1>2. IInv /\ [Next]_vars => IInv'
  BY Preserved
<1> QED
  BY <1>1, <1>2, PTL DEF Spec

\* The variables, and with them the state of every mutex, keep their types.
THEOREM TypeCorrect == Spec => []TypeOK
<1>1. IInv => TypeOK
  BY DEF IInv
<1> QED
  BY <1>1, Invariance, PTL

-----------------------------------------------------------------------------
(***************************************************************************)
(* Who waits for whom.                                                     *)
(***************************************************************************)
WaitsAtAll(t) == Does(t, "lock") \/ Does(t, "rlock") \/ Does(t, "pass")

\* A wait is for the lock of a client, mu, the lock of a channel, or that of the Server.
LEMMA WaitKinds ==
  ASSUME IInv, NEW t \in Threads, WaitsAtAll(t)
  PROVE  \/ /\ Does(t, "pass") /\ mu \notin Shares(t)
            /\ \E m \in Clients : What(t) = cl(m)
         \/ What(t) = mu /\ mu \notin Owns(t) /\ Shares(t) = {}
         \/ \E c \in Clients, ch \in Channels :
              /\ t = reader(c) /\ What(t) = cc(ch) /\ Shares(t) = {}
              /\ Owns(t) = {} \/ (Owns(t) = {mu} /\ Lists(script[t], ch))
         \/ What(t) = s /\ Owns(t) = {} /\ Shares(t) = {}
         \/ \E m \in Clients : /\ t = teardown(m) /\ Does(t, "lock") /\ What(t) = cl(m)
                               /\ Owns(t) = {s} /\ Shares(t) = {}
<1>1. Waiting(script[t])
  BY DEF WaitsAtAll, Does, Busy, Waiting
<1>2. Fit(t, script[t], Owns(t), Shares(t), at)
  BY DEF IInv, Fits
<1>3. ASSUME NEW c \in Clients, t = reader(c)
      PROVE  \/ /\ Does(t, "pass") /\ mu \notin Shares(t)
                /\ \E m \in Clients : What(t) = cl(m)
             \/ What(t) = mu /\ mu \notin Owns(t) /\ Shares(t) = {}
             \/ \E ch \in Channels :
                  /\ What(t) = cc(ch) /\ Shares(t) = {}
                  /\ Owns(t) = {} \/ (Owns(t) = {mu} /\ Lists(script[t], ch))
  <2>1. InOrder(script[t], Owns(t), Shares(t))
    BY <1>3, ReaderPlace DEF Sound
  <2> QED
    BY <1>1, <2>1 DEF InOrder, Waiting, Does, Busy, What
<1>4. ASSUME NEW m \in Clients, t = teardown(m)
      PROVE  /\ Shares(t) = {}
             /\ \/ What(t) = s /\ Owns(t) = {}
                \/ Does(t, "lock") /\ What(t) = cl(m) /\ Owns(t) = {s}
  <2>1. TeardownSound(m, script[t], Owns(t), Shares(t))
    BY <1>2, <1>4, TeardownMoves DEF Fit
  <2> QED
    BY <1>1, <2>1 DEF TeardownSound, Waiting, Does, Busy, What
<1>5. CASE t = acceptor
  <2>1. AcceptorSound(script[t], Owns(t), Shares(t))
    BY <1>2, <1>5, AcceptorMoves DEF Fit
  <2>2. /\ Shares(t) = {}
        /\ \/ What(t) = s /\ Owns(t) = {}
           \/ What(t) = mu /\ Owns(t) = {s}
           \/ Does(t, "pass") /\ \E m \in Clients : What(t) = cl(m)
    BY <1>1, <2>1 DEF AcceptorSound, Waiting, Does, Busy, What
  <2> QED
    BY <2>2, LocksDiffer
<1> QED
  BY <1>3, <1>4, <1>5, ThreadsDiffer

LEMMA WaitsForLocks ==
  ASSUME IInv, NEW t \in Threads, WaitsAtAll(t)
  PROVE  What(t) \in Locks
BY WaitKinds, LockTypes

LEMMA HoldKinds ==
  ASSUME IInv, NEW t \in Threads
  PROVE  /\ \A m \in Clients : /\ cl(m) \in Owns(t) => t = teardown(m) /\ ~WaitsAtAll(t)
                               /\ cl(m) \notin Shares(t)
         /\ \A ch \in Channels : cc(ch) \in Owns(t) \cup Shares(t) =>
              \E c \in Clients : t = reader(c) /\ Mentions(script[t], ch)
         /\ s \notin Shares(t)
<1>1. Fit(t, script[t], Owns(t), Shares(t), at)
  BY DEF IInv, Fits
<1>2. ASSUME NEW c \in Clients, t = reader(c)
      PROVE  /\ \A m \in Clients : cl(m) \notin Owns(t) \cup Shares(t)
             /\ \A ch \in Channels :
                  cc(ch) \in Owns(t) \cup Shares(t) => Mentions(script[t], ch)
             /\ s \notin Shares(t)
  <2>1. \A l \in Owns(t) \cup Shares(t) :
          l = mu \/ \E ch \in Channels : l = cc(ch) /\ Mentions(script[t], ch)
    BY <1>2, ReaderPlace DEF Sound
  <2> QED
    BY <2>1, LocksDiffer
<1>3. ASSUME NEW e \in Clients, t = teardown(e)
      PROVE  /\ Shares(t) = {} /\ \A ch \in Channels : cc(ch) \notin Owns(t)
             /\ \A m \in Clients : cl(m) \in Owns(t) => m = e /\ ~WaitsAtAll(t)
  <2>1. TeardownSound(e, script[t], Owns(t), Shares(t))
    BY <1>1, <1>3, TeardownMoves DEF Fit
  <2>2. Owns(t) \subseteq {s, cl(e)} /\ Shares(t) = {}
    BY <2>1 DEF TeardownSound
  <2>3. WaitsAtAll(t) => Owns(t) \in {{}, {s}}
    BY <2>1 DEF TeardownSound, Waiting, WaitsAtAll, Does, Busy
  <2> QED
    BY <2>2, <2>3, LocksDiffer
<1>4. CASE t = acceptor
  <2>1. AcceptorSound(script[t], Owns(t), Shares(t))
    BY <1>1, <1>4, AcceptorMoves DEF Fit
  <2> QED
    BY <2>1, LocksDiffer DEF AcceptorSound
<1> QED
  BY <1>2, <1>3, <1>4, ThreadsDiffer

\* Who is awaited holds the lock, or is announced and waits for its readers.
LEMMA AwaitedIs ==
  ASSUME IInv, NEW t \in Threads, NEW u \in Awaited(t)
  PROVE  /\ u \in Threads /\ WaitsAtAll(t)
         /\ \/ What(t) \in Owns(u) \/ What(t) \in Shares(u)
            \/ /\ u # t /\ WaitsAtAll(u) /\ Does(u, "lock") /\ What(u) = What(t)
               /\ \A v \in Awaited(u) : v \in Threads /\ What(t) \in Shares(v)
<1>1. /\ owner \in [Locks -> Threads \cup {None}] /\ pending \in [Locks -> Threads \cup {None}]
      /\ readers \in [Locks -> SUBSET Threads]
  BY DEF IInv, TypeOK
<1>2. WaitsAtAll(t)
  BY DEF Awaited, WaitsAtAll
<1> DEFINE l == What(t)
<1>3. l \in Locks
  BY <1>2, WaitsForLocks
<1>4. CASE Does(t, "lock") /\ pending[l] = t
  <2>1. u \in readers[l]
    BY <1>4 DEF Awaited
  <2> QED
    BY <1>1, <1>2, <1>3, <2>1 DEF Shares
<1>5. CASE ~(Does(t, "lock") /\ pending[l] = t)
  <2>1. u \in {owner[l], pending[l]} \ {None}
    BY <1>2, <1>5 DEF Awaited, WaitsAtAll
  <2>2. u \in Threads
    BY <1>1, <1>3, <2>1
  <2>3. CASE u = owner[l]
    BY <1>2, <1>3, <2>2, <2>3 DEF Owns
  <2>4. CASE u = pending[l]
    <3>1. Does(u, "lock") /\ What(u) = l
      BY <1>3, <2>1, <2>4 DEF IInv, PendingInv
    <3>2. u # t
      BY <1>5, <2>4, <3>1
    <3>3. Awaited(u) = readers[l]
      BY <2>4, <3>1 DEF Awaited
    <3>4. \A v \in Awaited(u) : v \in Threads /\ l \in Shares(v)
      BY <1>1, <1>3, <3>3 DEF Shares
    <3> QED
      BY <1>2, <2>2, <3>1, <3>2, <3>4 DEF WaitsAtAll
  <2> QED
    BY <2>1, <2>3, <2>4
<1> QED
  BY <1>4, <1>5

\* A goroutine that waits for nobody; one that waits only for such; and so on.
Free(t)   == Awaited(t) = {}
Brief(t)  == \A u \in Awaited(t) : Free(u)
Longer(t) == \A u \in Awaited(t) : Brief(u)

\* A client's lock is held only by its teardown, in conn.Close.
LEMMA AtClient ==
  ASSUME IInv, NEW t \in Threads, NEW m \in Clients, WaitsAtAll(t), What(t) = cl(m)
  PROVE  \A u \in Awaited(t) : u = teardown(m) /\ u # t /\ Free(u)
<1>1. SUFFICES ASSUME NEW u \in Awaited(t)
               PROVE  u = teardown(m) /\ u # t /\ Free(u)
  OBVIOUS
<1>2. CASE cl(m) \in Owns(u) \/ cl(m) \in Shares(u)
  <2>1. u = teardown(m) /\ ~WaitsAtAll(u)
    BY <1>2, AwaitedIs, HoldKinds
  <2>2. Free(u)
    BY <2>1 DEF Free, Awaited, WaitsAtAll
  <2> QED
    BY <2>1, <2>2
<1>3. CASE /\ u # t /\ WaitsAtAll(u) /\ Does(u, "lock") /\ What(u) = cl(m)
           /\ \A v \in Awaited(u) : v \in Threads /\ cl(m) \in Shares(v)
  <2>1. u \in Threads /\ ~Does(u, "pass")
    BY <1>3, AwaitedIs DEF Does
  <2>2. \E e \in Clients : u = teardown(e) /\ cl(m) = cl(e)
    BY <1>3, <2>1, WaitKinds, LocksDiffer
  <2>3. Free(u)
    BY <1>3, HoldKinds DEF Free
  <2> QED
    BY <1>3, <2>2, <2>3, LocksDiffer
<1> QED
  BY <1>2, <1>3, AwaitedIs

\* The holder of mu waits for nobody but such a teardown: nobody else knows a channel
\* that is new.
LEMMA HoldsMaps ==
  ASSUME IInv, NEW t \in Threads, mu \in Owns(t) \cup Shares(t)
  PROVE  \A u \in Awaited(t) : Free(u) /\ \E m \in Clients : u = teardown(m)
<1>1. SUFFICES ASSUME NEW u \in Awaited(t)
               PROVE  Free(u) /\ \E m \in Clients : u = teardown(m)
  OBVIOUS
<1>2. WaitsAtAll(t) /\ u \in Threads
  BY AwaitedIs
<1>3. CASE \E m \in Clients : What(t) = cl(m)
  BY <1>2, <1>3, AtClient
<1>4. ASSUME NEW c \in Clients, NEW ch \in Channels, t = reader(c), What(t) = cc(ch),
             Shares(t) = {}, Owns(t) = {mu}, Lists(script[t], ch)
      PROVE  FALSE
  <2>1. \A e \in Clients : u = reader(e) /\ u # t => ~Mentions(script[u], ch)
    BY <1>4, ThreadsDiffer DEF IInv, PrivateInv
  <2>2. u # t /\ Mentions(script[u], ch)
    <3>1. CASE cc(ch) \in Owns(u) \/ cc(ch) \in Shares(u)
      BY <1>2, <1>4, <3>1, HoldKinds, LocksDiffer
    <3>2. CASE u # t /\ WaitsAtAll(u) /\ Does(u, "lock") /\ What(u) = cc(ch)
      <4>1. script[u] \in Scripts /\ script[u] # <<>> /\ Head(script[u]).of = cc(ch)
        BY <1>2, <3>2 DEF IInv, TypeOK, Scripts, Does, Busy, What
      <4>2. 1 \in DOMAIN script[u] /\ Head(script[u]) = script[u][1]
        BY <4>1, LenProperties DEF Scripts
      <4> QED
        BY <3>2, <4>1, <4>2 DEF Mentions
    <3> QED
      BY <1>4, <3>1, <3>2, AwaitedIs
  <2>3. \E e \in Clients : u = reader(e)
    BY <1>2, <2>2, OthersMentionNothing DEF Nothing
  <2> QED
    BY <2>1, <2>2, <2>3
<1> QED
  BY <1>2, <1>3, <1>4, WaitKinds, LocksDiffer

LEMMA AtMaps ==
  ASSUME IInv, NEW t \in Threads, WaitsAtAll(t), What(t) = mu
  PROVE  Longer(t)
<1>1. SUFFICES ASSUME NEW u \in Awaited(t)
               PROVE  Brief(u)
  BY DEF Longer
<1>2. CASE mu \in Owns(u) \/ mu \in Shares(u)
  BY <1>2, AwaitedIs, HoldsMaps DEF Brief
<1>3. CASE \A v \in Awaited(u) : v \in Threads /\ mu \in Shares(v)
  <2>1. ASSUME NEW v \in Awaited(u)
        PROVE  Free(v)
    <3>1. v \in Threads /\ mu \in Shares(v)
      BY <1>3
    <3>2. ~WaitsAtAll(v)
      BY <3>1, WaitKinds
    <3> QED
      BY <3>2 DEF Free, Awaited, WaitsAtAll
  <2> QED
    BY <2>1 DEF Brief
<1> QED
  BY <1>2, <1>3, AwaitedIs

LEMMA Grows ==
  ASSUME NEW t
  PROVE  /\ Free(t) => Brief(t) /\ Longer(t)
         /\ Brief(t) => Longer(t)
BY DEF Free, Brief, Longer

\* Who holds the lock of a channel or of the Server waits for mu, or for a client's lock.
LEMMA HoldsOther ==
  ASSUME IInv, NEW t \in Threads, NEW l \in Locks, l \in Owns(t) \cup Shares(t),
         l = s \/ \E ch \in Channels : l = cc(ch)
  PROVE  Longer(t) /\ (l \in Shares(t) => Brief(t))
<1>1. CASE ~WaitsAtAll(t)
  <2>1. Free(t)
    BY <1>1 DEF Free, Awaited, WaitsAtAll
  <2> QED
    BY <2>1, Grows
<1>2. CASE WaitsAtAll(t) /\ \E m \in Clients : What(t) = cl(m)
  <2>1. Brief(t)
    BY <1>2, AtClient DEF Brief
  <2> QED
    BY <2>1, Grows
<1>3. CASE WaitsAtAll(t) /\ What(t) = mu /\ Shares(t) = {}
  BY <1>3, AtMaps
<1>4. l # mu
  BY LocksDiffer
<1> QED
  BY <1>1, <1>2, <1>3, <1>4, WaitKinds

LEMMA AtOther ==
  ASSUME IInv, NEW t \in Threads, WaitsAtAll(t),
         What(t) = s \/ \E ch \in Channels : What(t) = cc(ch)
  PROVE  \A u \in Awaited(t) : Longer(u)
<1>1. SUFFICES ASSUME NEW u \in Awaited(t)
               PROVE  Longer(u)
  OBVIOUS
<1>2. What(t) \in Locks
  BY WaitsForLocks
<1>3. CASE What(t) \in Owns(u) \cup Shares(u)
  BY <1>2, <1>3, AwaitedIs, HoldsOther
<1>4. CASE \A v \in Awaited(u) : v \in Threads /\ What(t) \in Shares(v)
  BY <1>2, <1>4, HoldsOther DEF Longer
<1> QED
  BY <1>3, <1>4, AwaitedIs

LEMMA AllWaitsEnd ==
  ASSUME IInv, NEW t \in Threads
  PROVE  \A u \in Awaited(t) : Longer(u)
<1>1. SUFFICES ASSUME NEW u \in Awaited(t)
               PROVE  Longer(u)
  OBVIOUS
<1>2. WaitsAtAll(t)
  BY AwaitedIs
<1>3. CASE \E m \in Clients : What(t) = cl(m)
  BY <1>2, <1>3, AtClient, Grows
<1>4. CASE What(t) = mu
  BY <1>2, <1>4, AtMaps, Grows DEF Longer
<1>5. CASE What(t) = s \/ \E ch \in Channels : What(t) = cc(ch)
  BY <1>2, <1>5, AtOther
<1> QED
  BY <1>2, <1>3, <1>4, <1>5, WaitKinds

\* Whatever locks accept, the teardowns and the relay, join and leave of any number of
\* clients hold and wait for, they never wait for one another.
THEOREM NoDeadlock == Spec => []NoWaitCycle
<1>1. ASSUME IInv
      PROVE  NoWaitCycle
  <2>1. SUFFICES ASSUME NEW S \in (SUBSET Threads) \ {{}}, \A t \in S : Awaited(t) \cap S # {}
                 PROVE  FALSE
    BY DEF NoWaitCycle
  <2>2. PICK t \in S : t \in Threads
    BY <2>1
  <2>3. PICK u \in S : u \in Awaited(t)
    BY <2>1, <2>2
  <2>4. Longer(u)
    BY <1>1, <2>2, <2>3, AllWaitsEnd
  <2>5. PICK v \in S : v \in Awaited(u)
    BY <2>1
  <2>6. PICK w \in S : w \in Awaited(v)
    BY <2>1
  <2>7. Free(w)
    BY <2>4, <2>5, <2>6 DEF Longer, Brief
  <2> QED
    BY <2>1, <2>7 DEF Free
<1> QED
  BY <1>1, Invariance, PTL

\* Whoever holds the lock of the global maps waits at most for the conn.Close of a
\* teardown, which waits for nobody: a join that creates its channel under mu, too.
THEOREM MapsCorrect == Spec => []MapsWaitOnlyForCloses
<1>1. ASSUME IInv
      PROVE  MapsWaitOnlyForCloses
  <2>1. ASSUME NEW t \in Threads, Holds(t, mu), NEW u \in Awaited(t)
        PROVE  u.role = "teardown" /\ Awaited(u) = {}
    <3>1. mu \in Owns(t) \cup Shares(t)
      BY <2>1, LockTypes DEF Holds, Owns, Shares
    <3>2. Free(u) /\ \E m \in Clients : u = teardown(m)
      BY <1>1, <3>1, HoldsMaps
    <3> QED
      BY <3>2 DEF Free, teardown
  <2> QED
    BY <2>1 DEF MapsWaitOnlyForCloses
<1> QED
  BY <1>1, Invariance, PTL

=============================================================================
