-------------------------- MODULE ClientConnProofs --------------------------
(***************************************************************************)
(* Proofs about ClientConn, for any number of senders and any capacity:    *)
(* its invariants, and that it implements Mailbox.                         *)
(***************************************************************************)
EXTENDS ClientConn, FiniteSetTheorems, SequenceTheorems, TLAPS

Message == Nat \ {Sentinel}

(***************************************************************************)
(* What is in the queue.  f[i] is the number of the last message up to the *)
(* i-th entry of q: markers repeat it, messages are the next one.          *)
(***************************************************************************)
Tallies(f, q, low, high) ==
  /\ f \in [0 .. Len(q) -> 0 .. high]
  /\ f[0] = low /\ f[Len(q)] = high
  /\ \A i \in 1 .. Len(q) :
       \/ q[i] = Sentinel /\ f[i] = f[i - 1]
       \/ q[i] # Sentinel /\ q[i] = f[i] /\ f[i] = f[i - 1] + 1

\* The first marker of q comes after message n.
FirstMarker(f, q, n) ==
  \E i \in 1 .. Len(q) :
    /\ q[i] = Sentinel /\ f[i] = n
    /\ \A j \in 1 .. i - 1 : q[j] # Sentinel

LEMMA AppendMessage ==
  ASSUME NEW q \in Seq(Nat), NEW low \in Nat, NEW high \in Nat, NEW f,
         Tallies(f, q, low, high)
  PROVE  \E g : /\ Tallies(g, Append(q, high + 1), low, high + 1)
                /\ \A n : FirstMarker(f, q, n) => FirstMarker(g, Append(q, high + 1), n)
<1> DEFINE p == Append(q, high + 1)
           g == [i \in 0 .. Len(q) + 1 |-> IF i = Len(q) + 1 THEN high + 1 ELSE f[i]]
<1>1. /\ Len(q) \in Nat /\ Len(p) = Len(q) + 1 /\ p[Len(q) + 1] = high + 1
      /\ \A i \in 1 .. Len(q) : p[i] = q[i]
  BY AppendProperties, LenProperties
<1>2. /\ \A i \in 0 .. Len(q) : g[i] = f[i] /\ f[i] \in 0 .. high
      /\ g[Len(q) + 1] = high + 1
  BY <1>1 DEF Tallies
<1> HIDE DEF p
<1>3. g \in [0 .. Len(p) -> 0 .. high + 1]
  BY <1>1 DEF Tallies
<1> HIDE DEF g
<1>4. \A i \in 1 .. Len(p) :
        \/ p[i] = Sentinel /\ g[i] = g[i - 1]
        \/ p[i] # Sentinel /\ p[i] = g[i] /\ g[i] = g[i - 1] + 1
  <2> TAKE i \in 1 .. Len(p)
  <2>1. CASE i = Len(q) + 1
    BY <1>1, <1>2, <2>1 DEF Tallies, Sentinel
  <2>2. CASE i # Len(q) + 1
    <3>1. i \in 1 .. Len(q) /\ i \in 0 .. Len(q) /\ i - 1 \in 0 .. Len(q)
      BY <1>1, <2>2
    <3> QED
      BY <1>1, <1>2, <3>1 DEF Tallies
  <2> QED
    BY <2>1, <2>2
<1>5. Tallies(g, p, low, high + 1)
  BY <1>1, <1>2, <1>3, <1>4 DEF Tallies
<1>6. ASSUME NEW n, FirstMarker(f, q, n)
      PROVE  FirstMarker(g, p, n)
  <2>1. PICK i \in 1 .. Len(q) :
          q[i] = Sentinel /\ f[i] = n /\ \A j \in 1 .. i - 1 : q[j] # Sentinel
    BY <1>6 DEF FirstMarker
  <2>2. i \in 1 .. Len(p) /\ i \in 0 .. Len(q) /\ \A j \in 1 .. i - 1 : j \in 1 .. Len(q)
    BY <1>1
  <2> QED
    BY <1>1, <1>2, <2>1, <2>2 DEF FirstMarker
<1> QED
  BY <1>5, <1>6 DEF p

LEMMA AppendMarker ==
  ASSUME NEW q \in Seq(Nat), NEW low \in Nat, NEW high \in Nat, NEW f,
         Tallies(f, q, low, high)
  PROVE  \E g : /\ Tallies(g, Append(q, Sentinel), low, high)
                /\ \A n : FirstMarker(f, q, n) => FirstMarker(g, Append(q, Sentinel), n)
                /\ (\A i \in 1 .. Len(q) : q[i] # Sentinel)
                     => FirstMarker(g, Append(q, Sentinel), high)
<1> DEFINE p == Append(q, Sentinel)
           g == [i \in 0 .. Len(q) + 1 |-> IF i = Len(q) + 1 THEN high ELSE f[i]]
<1>1. /\ Len(q) \in Nat /\ Len(p) = Len(q) + 1 /\ p[Len(q) + 1] = Sentinel
      /\ \A i \in 1 .. Len(q) : p[i] = q[i]
  BY AppendProperties, LenProperties DEF Sentinel
<1>2. /\ \A i \in 0 .. Len(q) : g[i] = f[i] /\ f[i] \in 0 .. high
      /\ g[Len(q) + 1] = high
  BY <1>1 DEF Tallies
<1> HIDE DEF p
<1>3. g \in [0 .. Len(p) -> 0 .. high]
  BY <1>1 DEF Tallies
<1> HIDE DEF g
<1>4. \A i \in 1 .. Len(p) :
        \/ p[i] = Sentinel /\ g[i] = g[i - 1]
        \/ p[i] # Sentinel /\ p[i] = g[i] /\ g[i] = g[i - 1] + 1
  <2> TAKE i \in 1 .. Len(p)
  <2>1. CASE i = Len(q) + 1
    BY <1>1, <1>2, <2>1 DEF Tallies
  <2>2. CASE i # Len(q) + 1
    <3>1. i \in 1 .. Len(q) /\ i \in 0 .. Len(q) /\ i - 1 \in 0 .. Len(q)
      BY <1>1, <2>2
    <3> QED
      BY <1>1, <1>2, <3>1 DEF Tallies
  <2> QED
    BY <2>1, <2>2
<1>5. Tallies(g, p, low, high)
  BY <1>1, <1>2, <1>3, <1>4 DEF Tallies
<1>6. ASSUME NEW n, FirstMarker(f, q, n)
      PROVE  FirstMarker(g, p, n)
  <2>1. PICK i \in 1 .. Len(q) :
          q[i] = Sentinel /\ f[i] = n /\ \A j \in 1 .. i - 1 : q[j] # Sentinel
    BY <1>6 DEF FirstMarker
  <2>2. i \in 1 .. Len(p) /\ i \in 0 .. Len(q) /\ \A j \in 1 .. i - 1 : j \in 1 .. Len(q)
    BY <1>1
  <2> QED
    BY <1>1, <1>2, <2>1, <2>2 DEF FirstMarker
<1>7. ASSUME \A i \in 1 .. Len(q) : q[i] # Sentinel
      PROVE  FirstMarker(g, p, high)
  <2>1. Len(q) + 1 \in 1 .. Len(p) /\ \A j \in 1 .. (Len(q) + 1) - 1 : p[j] # Sentinel
    BY <1>1, <1>7
  <2> QED
    BY <1>1, <1>2, <2>1 DEF FirstMarker
<1> QED
  BY <1>5, <1>6, <1>7 DEF p

LEMMA TakeHead ==
  ASSUME NEW q \in Seq(Nat), q # <<>>, NEW low \in Nat, NEW high \in Nat, NEW f,
         Tallies(f, q, low, high)
  PROVE  /\ Head(q) # Sentinel => Head(q) = low + 1 /\ low + 1 <= high
         /\ \A n : Head(q) = Sentinel /\ FirstMarker(f, q, n) => n = low
         /\ \E g :
              /\ Tallies(g, Tail(q), IF Head(q) = Sentinel THEN low ELSE low + 1, high)
              /\ \A n : Head(q) # Sentinel /\ FirstMarker(f, q, n)
                          => FirstMarker(g, Tail(q), n)
<1> DEFINE p == Tail(q)
           g == [i \in 0 .. Len(q) - 1 |-> f[i + 1]]
<1>1. /\ Len(q) \in Nat /\ Len(q) >= 1 /\ Len(p) = Len(q) - 1 /\ Head(q) = q[1]
      /\ \A i \in 1 .. Len(p) : p[i] = q[i + 1]
  BY HeadTailProperties, LenProperties, EmptySeq
<1>2. \A i \in 0 .. Len(p) : g[i] = f[i + 1]
  BY <1>1
<1> HIDE DEF p
<1>3. g \in [0 .. Len(p) -> 0 .. high]
  BY <1>1 DEF Tallies
<1> HIDE DEF g
<1>4. 1 \in 1 .. Len(q) /\ f[1] \in 0 .. high /\ f[0] = low
  BY <1>1 DEF Tallies
<1>5. /\ Head(q) = Sentinel => f[1] = low
      /\ Head(q) # Sentinel => Head(q) = low + 1 /\ f[1] = low + 1
  BY <1>1, <1>4 DEF Tallies
<1>6. ASSUME NEW n, FirstMarker(f, q, n), Head(q) = Sentinel
      PROVE  n = low
  <2>1. PICK i \in 1 .. Len(q) :
          q[i] = Sentinel /\ f[i] = n /\ \A j \in 1 .. i - 1 : q[j] # Sentinel
    BY <1>6 DEF FirstMarker
  <2>2. i = 1
    <3>1. i > 1 => 1 \in 1 .. i - 1
      OBVIOUS
    <3> QED
      BY <1>1, <1>6, <2>1, <3>1
  <2> QED
    BY <1>5, <1>6, <2>1, <2>2
<1>7. ASSUME NEW n, FirstMarker(f, q, n), Head(q) # Sentinel
      PROVE  FirstMarker(g, p, n)
  <2>1. PICK i \in 1 .. Len(q) :
          q[i] = Sentinel /\ f[i] = n /\ \A j \in 1 .. i - 1 : q[j] # Sentinel
    BY <1>7 DEF FirstMarker
  <2>2. i - 1 \in 1 .. Len(p) /\ i - 1 \in 0 .. Len(p)
    BY <1>1, <1>7, <2>1
  <2>3. \A j \in 1 .. (i - 1) - 1 : p[j] # Sentinel
    <3> TAKE j \in 1 .. (i - 1) - 1
    <3>1. j + 1 \in 1 .. i - 1 /\ j \in 1 .. Len(p)
      BY <1>1
    <3> QED
      BY <1>1, <2>1, <3>1
  <2>4. p[i - 1] = q[i] /\ g[i - 1] = f[i]
    <3>1. (i - 1) + 1 = i
      OBVIOUS
    <3> QED
      BY <1>1, <1>2, <2>2, <3>1
  <2> QED
    BY <2>1, <2>2, <2>3, <2>4 DEF FirstMarker
<1>8. \A i \in 1 .. Len(p) :
        \/ p[i] = Sentinel /\ g[i] = g[i - 1]
        \/ p[i] # Sentinel /\ p[i] = g[i] /\ g[i] = g[i - 1] + 1
  <2> TAKE i \in 1 .. Len(p)
  <2>1. /\ i + 1 \in 1 .. Len(q) /\ i \in 0 .. Len(p) /\ i - 1 \in 0 .. Len(p)
        /\ (i - 1) + 1 = i /\ (i + 1) - 1 = i
    BY <1>1
  <2>2. \/ q[i + 1] = Sentinel /\ f[i + 1] = f[i]
        \/ q[i + 1] # Sentinel /\ q[i + 1] = f[i + 1] /\ f[i + 1] = f[i] + 1
    BY <2>1 DEF Tallies
  <2>3. p[i] = q[i + 1] /\ g[i] = f[i + 1] /\ g[i - 1] = f[i]
    BY <1>1, <1>2, <2>1
  <2> QED
    BY <2>2, <2>3
<1>9. g[0] = f[1] /\ g[Len(p)] = high
  <2>1. 0 \in 0 .. Len(p) /\ Len(p) \in 0 .. Len(p) /\ Len(p) + 1 = Len(q)
    BY <1>1
  <2> QED
    BY <1>2, <2>1 DEF Tallies
<1>10. Tallies(g, p, IF Head(q) = Sentinel THEN low ELSE low + 1, high)
  BY <1>3, <1>5, <1>8, <1>9 DEF Tallies
<1> QED
  BY <1>4, <1>5, <1>6, <1>7, <1>10 DEF p

-----------------------------------------------------------------------------
(***************************************************************************)
(* The inductive invariant.                                                *)
(***************************************************************************)
\* Messages are numbered as they are accepted.
Numbered ==
  /\ \A i \in 1 .. Len(accepted) : accepted[i] = i
  /\ \A i \in 1 .. Len(wire) : wire[i] = i
  /\ \A i \in 1 .. Len(bw) : bw[i] = Len(wire) + i
  /\ promised # Nothing => /\ Len(promised) <= Len(accepted)
                           /\ \A i \in 1 .. Len(promised) : promised[i] = i

\* The queue holds what is accepted and has not gone to bw, and the first marker is
\* where CloseGracefully has put it.
Contents ==
  /\ \E f :
       /\ Tallies(f, sd, Len(wire) + Len(bw), Len(accepted))
       /\ promised # Nothing /\ writer # "done" => FirstMarker(f, sd, Len(promised))
  /\ promised = Nothing => \A i \in 1 .. Len(sd) : sd[i] # Sentinel

\* The writer ends because of an error, of the marker, or of the closed queue.
Finished ==
  writer = "done" =>
    \/ failed
    \/ promised # Nothing /\ wire = promised
    \/ promised = Nothing /\ sdClosed

\* The context, the connection and the queue are closed in this order.
Closing ==
  /\ sdClosed => teardown = "done"
  /\ teardown # "run" => ctxDone

\* Each drop belongs to a call of Send, made or to be made by the handler.
Dropping == {p \in Procs : sending[p] = "drop"}
Budget == dropped + Cardinality(Dropping) + todo.n <= sends

QueueInv == Numbered /\ Contents /\ Finished /\ NothingStranded
CloseInv == Closing /\ WriterDeathCancels /\ HopelessIsKicked

IInv == TypeOK /\ Budget /\ QueueInv /\ CloseInv

LEMMA StepCases ==
  ASSUME Step
  PROVE  \/ Handshake \/ Return \/ Reply \/ EndHandler \/ CloseGracefully \/ Leave
         \/ \E h \in Handlers, more \in 0 .. MaxBuffered : Read(h, more)
         \/ Take \/ Spill \/ CheckQueue \/ FlushDrained \/ FlushTimer \/ WriteFails
         \/ TakeSentinel \/ WriterEnds \/ TimerFires
         \/ Ping \/ Cancel \/ CloseConn \/ CloseQueue
         \/ \E p \in Procs : CountDrop(p) \/ Kick(p)
         \/ \E p \in Senders : Receive(p)
BY DEF Step, Reader, Writer, Sending

LEMMA Sends ==
  ASSUME NEW p, Send(p)
  PROVE  \/ /\ HasRoom
            /\ accepted' = Append(accepted, Len(accepted) + 1)
            /\ sd' = Append(sd, Len(accepted) + 1)
            /\ UNCHANGED <<ctxDone, sending>>
         \/ /\ UNCHANGED <<sd, accepted, sending>>
            /\ ctxDone' = ctxDone \/ ctxDone' = TRUE
         \/ /\ sending' = [sending EXCEPT ![p] = "drop"] /\ sending[p] = "idle"
            /\ UNCHANGED <<sd, accepted, ctxDone>>
BY DEF Send

-----------------------------------------------------------------------------
(***************************************************************************)
(* The queue.                                                              *)
(***************************************************************************)
LEMMA WritesOut ==
  ASSUME TypeOK, Numbered, NEW k \in 0 .. Len(bw), WriteOut(k)
  PROVE  /\ wire' \in Seq(Message) /\ bw' \in Seq(Message)
         /\ Len(wire') = Len(wire) + k /\ Len(bw') = Len(bw) - k
         /\ \A i \in 1 .. Len(wire') : wire'[i] = i
         /\ \A i \in 1 .. Len(bw') : bw'[i] = Len(wire') + i
<1> DEFINE out == SubSeq(bw, 1, k)
           kept == SubSeq(bw, k + 1, Len(bw))
<1>1. bw \in Seq(Message) /\ wire \in Seq(Message) /\ Len(bw) \in Nat /\ Len(wire) \in Nat
  BY DEF TypeOK, Message
<1>2. \A i \in 1 .. Len(bw) : bw[i] \in Message
  BY <1>1, ElementOfSeq
<1>3. /\ out \in Seq(Message) /\ Len(out) = k
      /\ \A i \in 1 .. k : out[i] = bw[i]
  <2>1. \A i \in 1 .. k : bw[i] \in Message
    BY <1>1, <1>2
  <2> QED
    BY <2>1, SubSeqProperties, Z3
<1>4. /\ kept \in Seq(Message) /\ Len(kept) = Len(bw) - k
      /\ \A i \in 1 .. Len(bw) - k : kept[i] = bw[k + i]
  <2>1. \A i \in k + 1 .. Len(bw) : bw[i] \in Message
    BY <1>1, <1>2
  <2> QED
    BY <1>1, <2>1, SubSeqProperties, Z3
<1> HIDE DEF out, kept
<1>5. /\ wire' \in Seq(Message) /\ Len(wire') = Len(wire) + k
      /\ \A i \in 1 .. Len(wire) + k :
           wire'[i] = IF i <= Len(wire) THEN wire[i] ELSE out[i - Len(wire)]
  <2>1. wire' = wire \o out
    BY DEF WriteOut, out
  <2>2. /\ wire \o out \in Seq(Message) /\ Len(wire \o out) = Len(wire) + Len(out)
        /\ \A i \in 1 .. Len(wire) + Len(out) :
             (wire \o out)[i] = IF i <= Len(wire) THEN wire[i] ELSE out[i - Len(wire)]
    BY <1>1, <1>3, ConcatProperties, Zenon
  <2> QED
    BY <1>3, <2>1, <2>2
<1>6. bw' = kept
  BY DEF WriteOut, kept
<1>7. \A i \in 1 .. Len(wire') : wire'[i] = i
  <2> TAKE i \in 1 .. Len(wire')
  <2>1. CASE i <= Len(wire)
    BY <1>1, <1>5, <2>1 DEF Numbered
  <2>2. CASE ~(i <= Len(wire))
    <3>1. i - Len(wire) \in 1 .. k /\ i - Len(wire) \in 1 .. Len(bw)
      BY <1>1, <1>5, <2>2
    <3>2. out[i - Len(wire)] = Len(wire) + (i - Len(wire))
      BY <1>3, <3>1 DEF Numbered
    <3> QED
      BY <1>1, <1>5, <2>2, <3>2
  <2> QED
    BY <2>1, <2>2
<1>8. \A i \in 1 .. Len(bw') : bw'[i] = Len(wire') + i
  <2> TAKE i \in 1 .. Len(bw')
  <2>1. k + i \in 1 .. Len(bw) /\ i \in 1 .. Len(bw) - k
    BY <1>1, <1>4, <1>6
  <2>2. bw[k + i] = Len(wire) + (k + i)
    BY <2>1 DEF Numbered
  <2> QED
    BY <1>1, <1>4, <1>5, <1>6, <2>1, <2>2
<1> QED
  BY <1>4, <1>5, <1>6, <1>7, <1>8

\* What a flush, a partial one or a failed one leaves of the invariant.
LEMMA WriteKeeps ==
  ASSUME IInv, NEW k \in 0 .. Len(bw), WriteOut(k),
         UNCHANGED <<sd, accepted, promised>>, writer' = "done" \/ writer # "done"
  PROVE  Numbered' /\ Contents'
<1>1. /\ Len(wire') = Len(wire) + k /\ Len(bw') = Len(bw) - k
      /\ \A i \in 1 .. Len(wire') : wire'[i] = i
      /\ \A i \in 1 .. Len(bw') : bw'[i] = Len(wire') + i
      /\ Len(wire) \in Nat /\ Len(bw) \in Nat
  BY WritesOut DEF IInv, QueueInv, TypeOK
<1>2. Numbered'
  BY <1>1 DEF IInv, QueueInv, Numbered
<1>3. Len(wire') + Len(bw') = Len(wire) + Len(bw)
  BY <1>1
<1>4. Contents'
  BY <1>3 DEF IInv, QueueInv, Contents
<1> QED
  BY <1>2, <1>4

\* A step that leaves the queue and what is written alone.
LEMMA Unmoved ==
  ASSUME IInv, UNCHANGED <<sd, accepted, promised, writerVars>>, sdClosed => sdClosed'
  PROVE  QueueInv'
BY DEF IInv, QueueInv, Numbered, Contents, Finished, NothingStranded, writerVars

LEMMA SendKeeps ==
  ASSUME IInv, NEW p, Send(p)
  PROVE  QueueInv'
<1>1. UNCHANGED <<sdClosed, writerVars, promised>>
  BY DEF Send
<1>2. CASE UNCHANGED <<sd, accepted>>
  BY <1>1, <1>2, Unmoved
<1>3. CASE /\ accepted' = Append(accepted, Len(accepted) + 1)
           /\ sd' = Append(sd, Len(accepted) + 1)
  <2>1. accepted \in Seq(Message) /\ sd \in Seq(Nat) /\ Len(accepted) \in Nat
    BY DEF IInv, TypeOK, Message
  <2>2. Len(accepted) + 1 \in Message
    BY <2>1 DEF Message, Sentinel
  <2>3. /\ Len(accepted') = Len(accepted) + 1
        /\ \A i \in 1 .. Len(accepted) : accepted'[i] = accepted[i]
        /\ accepted'[Len(accepted) + 1] = Len(accepted) + 1
    BY <1>3, <2>1, <2>2, AppendProperties
  <2>4. \A i \in 1 .. Len(accepted') : accepted'[i] = i
    BY <2>1, <2>3 DEF IInv, QueueInv, Numbered
  <2>5. promised # Nothing => Len(promised) \in Nat
    BY DEF IInv, TypeOK
  <2>6. Numbered'
    BY <1>1, <2>1, <2>3, <2>4, <2>5 DEF IInv, QueueInv, Numbered, writerVars
  <2>7. PICK f : /\ Tallies(f, sd, Len(wire) + Len(bw), Len(accepted))
                 /\ promised # Nothing /\ writer # "done"
                      => FirstMarker(f, sd, Len(promised))
    BY DEF IInv, QueueInv, Contents
  <2>8. Len(wire) + Len(bw) \in Nat
    BY DEF IInv, TypeOK
  <2>9. \E g : /\ Tallies(g, sd', Len(wire) + Len(bw), Len(accepted) + 1)
               /\ \A n : FirstMarker(f, sd, n) => FirstMarker(g, sd', n)
    BY <1>3, <2>1, <2>7, <2>8, AppendMessage
  <2>10. promised = Nothing => \A i \in 1 .. Len(sd') : sd'[i] # Sentinel
    <3>1. /\ Len(sd') = Len(sd) + 1 /\ Len(sd) \in Nat
          /\ \A i \in 1 .. Len(sd) : sd'[i] = sd[i]
          /\ sd'[Len(sd) + 1] # Sentinel
      BY <1>3, <2>1, <2>2, AppendProperties, LenProperties DEF Message
    <3> QED
      BY <3>1 DEF IInv, QueueInv, Contents
  <2>11. Contents'
    BY <1>1, <2>3, <2>7, <2>9, <2>10 DEF Contents, writerVars
  <2>12. sd' # <<>>
    BY <1>3, <2>1, AppendProperties
  <2> QED
    BY <1>1, <2>6, <2>11, <2>12
       DEF IInv, QueueInv, Finished, NothingStranded, writerVars
<1> QED
  BY <1>2, <1>3, Sends

LEMMA GracefulKeeps ==
  ASSUME IInv, CloseGracefully
  PROVE  QueueInv'
<1>1. UNCHANGED <<sdClosed, accepted, writerVars>>
  BY DEF CloseGracefully
<1>2. CASE UNCHANGED <<sd, promised>>
  BY <1>1, <1>2, Unmoved
<1>3. CASE /\ HasRoom
           /\ sd' = Append(sd, Sentinel)
           /\ promised' = IF promised = Nothing THEN accepted ELSE promised
  <2>1. sd \in Seq(Nat) /\ accepted \in Seq(Message) /\ Len(accepted) \in Nat
    BY DEF IInv, TypeOK, Message
  <2>2. promised' # Nothing
    <3>1. ~(-1 \in Message) /\ Nothing[1] = -1 /\ Len(Nothing) = 1
      BY DEF Message, Nothing
    <3>2. \A i \in 1 .. Len(accepted) : accepted[i] \in Message
      BY <2>1, ElementOfSeq, Zenon
    <3>3. accepted # Nothing
      BY <3>1, <3>2
    <3> QED
      BY <1>3, <3>3
  <2>3. Numbered'
    BY <1>1, <1>3, <2>1 DEF IInv, QueueInv, Numbered, writerVars
  <2>4. PICK f : /\ Tallies(f, sd, Len(wire) + Len(bw), Len(accepted))
                 /\ promised # Nothing /\ writer # "done"
                      => FirstMarker(f, sd, Len(promised))
    BY DEF IInv, QueueInv, Contents
  <2>5. Len(wire) + Len(bw) \in Nat
    BY DEF IInv, TypeOK
  <2>6. PICK g : /\ Tallies(g, sd', Len(wire) + Len(bw), Len(accepted))
                 /\ \A n : FirstMarker(f, sd, n) => FirstMarker(g, sd', n)
                 /\ (\A i \in 1 .. Len(sd) : sd[i] # Sentinel)
                      => FirstMarker(g, sd', Len(accepted))
    BY <1>3, <2>1, <2>4, <2>5, AppendMarker
  <2>7. writer # "done" => FirstMarker(g, sd', Len(promised'))
    BY <1>3, <2>4, <2>6 DEF IInv, QueueInv, Contents
  <2>8. Contents'
    BY <1>1, <2>2, <2>6, <2>7 DEF Contents, writerVars
  <2>9. sd' # <<>>
    BY <1>3, <2>1, AppendProperties DEF Sentinel
  <2>10. Finished'
    BY <1>1, <1>3 DEF IInv, QueueInv, Finished, HasRoom, writerVars
  <2> QED
    BY <1>1, <2>3, <2>8, <2>9, <2>10 DEF IInv, QueueInv, NothingStranded, writerVars
<1> QED
  BY <1>2, <1>3 DEF CloseGracefully

LEMMA TakeKeeps ==
  ASSUME IInv, Take
  PROVE  QueueInv'
<1>1. /\ sd \in Seq(Nat) /\ sd # <<>> /\ Head(sd) # Sentinel
      /\ bw \in Seq(Message) /\ Len(bw) \in Nat /\ Len(wire) \in Nat
      /\ Len(accepted) \in Nat
  BY DEF IInv, TypeOK, Take, Message
<1>2. /\ bw' = Append(bw, Head(sd)) /\ sd' = Tail(sd)
      /\ writer = "select" /\ writer' = "written"
      /\ UNCHANGED <<wire, accepted, promised>>
  BY DEF Take, writerOthers
<1>3. PICK f : /\ Tallies(f, sd, Len(wire) + Len(bw), Len(accepted))
               /\ promised # Nothing => FirstMarker(f, sd, Len(promised))
  BY <1>2 DEF IInv, QueueInv, Contents
<1>4. /\ Head(sd) = Len(wire) + Len(bw) + 1
      /\ \E g : /\ Tallies(g, Tail(sd), Len(wire) + Len(bw) + 1, Len(accepted))
                /\ \A n : FirstMarker(f, sd, n) => FirstMarker(g, Tail(sd), n)
  <2>1. Len(wire) + Len(bw) \in Nat
    BY <1>1
  <2> QED
    BY <1>1, <1>3, <2>1, TakeHead
<1>5. Head(sd) \in Message
  BY <1>1, HeadTailProperties DEF Message
<1>6. /\ Len(bw') = Len(bw) + 1
      /\ \A i \in 1 .. Len(bw) : bw'[i] = bw[i]
      /\ bw'[Len(bw) + 1] = Head(sd)
  BY <1>1, <1>2, <1>5, AppendProperties
<1>7. \A i \in 1 .. Len(bw') : bw'[i] = Len(wire) + i
  <2> TAKE i \in 1 .. Len(bw')
  <2>1. CASE i = Len(bw) + 1
    BY <1>1, <1>4, <1>6, <2>1
  <2>2. CASE i # Len(bw) + 1
    <3>1. i \in 1 .. Len(bw)
      BY <1>1, <1>6, <2>2
    <3> QED
      BY <1>6, <3>1 DEF IInv, QueueInv, Numbered
  <2> QED
    BY <2>1, <2>2
<1>8. Numbered'
  BY <1>2, <1>7 DEF IInv, QueueInv, Numbered
<1>9. Len(wire') + Len(bw') = Len(wire) + Len(bw) + 1
  BY <1>1, <1>2, <1>6
<1>10. promised = Nothing => \A i \in 1 .. Len(sd') : sd'[i] # Sentinel
  <2>1. Len(Tail(sd)) = Len(sd) - 1 /\ Len(sd) \in Nat
        /\ \A i \in 1 .. Len(Tail(sd)) : Tail(sd)[i] = sd[i + 1]
    BY <1>1, HeadTailProperties, LenProperties
  <2> QED
    BY <1>2, <2>1 DEF IInv, QueueInv, Contents
<1>11. Contents'
  BY <1>2, <1>3, <1>4, <1>9, <1>10 DEF Contents
<1> QED
  BY <1>2, <1>8, <1>11 DEF QueueInv, Finished, NothingStranded

LEMMA MarkerKeeps ==
  ASSUME IInv, TakeSentinel
  PROVE  QueueInv'
<1>1. /\ sd \in Seq(Nat) /\ sd # <<>> /\ Head(sd) = Sentinel
      /\ Len(bw) \in Nat /\ Len(wire) \in Nat /\ Len(accepted) \in Nat
  BY DEF IInv, TypeOK, TakeSentinel
<1>2. /\ sd' = Tail(sd) /\ writer = "select" /\ writer' = "done"
      /\ UNCHANGED <<accepted, promised>>
  BY DEF TakeSentinel, writerOthers
<1>3. PICK f : /\ Tallies(f, sd, Len(wire) + Len(bw), Len(accepted))
               /\ promised # Nothing => FirstMarker(f, sd, Len(promised))
  BY <1>2 DEF IInv, QueueInv, Contents
<1>4. /\ \A n : FirstMarker(f, sd, n) => n = Len(wire) + Len(bw)
      /\ \E g : Tallies(g, Tail(sd), Len(wire) + Len(bw), Len(accepted))
  <2>1. Len(wire) + Len(bw) \in Nat
    BY <1>1
  <2> QED
    BY <1>1, <1>3, <2>1, TakeHead
<1>5. promised # Nothing /\ Len(promised) = Len(wire) + Len(bw)
  <2>1. 1 \in 1 .. Len(sd) /\ sd[1] = Sentinel
    BY <1>1
  <2> QED
    BY <1>3, <1>4, <2>1 DEF IInv, QueueInv, Contents
<1>6. PICK k \in 0 .. Len(bw) : /\ WriteOut(k)
                                /\ k = Len(bw) \/ failed' = TRUE
  BY <1>1 DEF TakeSentinel, LastFlush, NotFlushed, Flushed
<1>7. /\ wire' \in Seq(Message) /\ Len(wire') = Len(wire) + k /\ Len(bw') = Len(bw) - k
      /\ \A i \in 1 .. Len(wire') : wire'[i] = i
      /\ \A i \in 1 .. Len(bw') : bw'[i] = Len(wire') + i
  BY <1>6, WritesOut DEF IInv, QueueInv
<1>8. Numbered'
  BY <1>2, <1>7 DEF IInv, QueueInv, Numbered
<1>9. Contents'
  <2>1. Len(wire') + Len(bw') = Len(wire) + Len(bw)
    BY <1>1, <1>7
  <2> QED
    BY <1>2, <1>4, <1>5, <2>1 DEF Contents
<1>10. failed' \/ wire' = promised
  <2>1. CASE k = Len(bw)
    <3>1. promised \in Seq(Message) /\ \A i \in 1 .. Len(promised) : promised[i] = i
      BY <1>5 DEF IInv, TypeOK, QueueInv, Numbered, Message
    <3>2. Len(wire') = Len(promised)
      BY <1>1, <1>5, <1>7, <2>1
    <3> QED
      BY <1>7, <3>1, <3>2, SeqEqual
  <2> QED
    BY <1>6, <2>1
<1> QED
  BY <1>2, <1>5, <1>8, <1>9, <1>10 DEF QueueInv, Finished, NothingStranded

LEMMA QueueStep ==
  ASSUME IInv, Step
  PROVE  QueueInv'
<1> USE DEF writerOthers
<1>1. CASE Handshake \/ Return \/ EndHandler \/ Leave
  BY <1>1, Unmoved DEF Handshake, Return, EndHandler, Leave, readerOthers, queueVars
<1>2. CASE Reply \/ Ping \/ \E p \in Senders : Receive(p)
  BY <1>2, SendKeeps DEF Reply, Ping, Receive
<1>3. ASSUME NEW h, NEW more, Read(h, more)
      PROVE  QueueInv'
  BY <1>3, Unmoved DEF Read
<1>4. CASE Spill
  <2>1. PICK k \in 1 .. Len(bw) : WriteOut(k)
    BY <1>4 DEF Spill
  <2>2. k \in 0 .. Len(bw) /\ writer = "written" /\ writer' = writer
        /\ UNCHANGED <<sd, accepted, promised>>
    BY <1>4 DEF Spill
  <2>3. Numbered' /\ Contents'
    BY <2>1, <2>2, WriteKeeps
  <2> QED
    BY <2>2, <2>3 DEF QueueInv, Finished, NothingStranded
<1>5. CASE CheckQueue
  BY <1>5 DEF CheckQueue, Drained, Toggled, IInv, QueueInv, Numbered, Contents, Finished,
     NothingStranded
<1>6. CASE FlushDrained \/ FlushTimer
  <2>1. /\ WriteOut(Len(bw)) /\ Len(bw) \in 0 .. Len(bw)
        /\ writer' = "select" /\ writer # "done" /\ UNCHANGED <<sd, accepted, promised>>
    BY <1>6 DEF FlushDrained, FlushTimer, Flushed, IInv, TypeOK
  <2>2. Numbered' /\ Contents'
    BY <2>1, WriteKeeps
  <2>3. Len(bw') = 0 /\ bw' \in Seq(Message)
    BY <2>1, WritesOut DEF IInv, QueueInv, TypeOK
  <2>4. bw' = <<>>
    BY <2>3, EmptySeq
  <2> QED
    BY <2>1, <2>2, <2>4 DEF QueueInv, Finished, NothingStranded
<1>7. CASE WriteFails
  <2>1. PICK k \in 0 .. Len(bw) - 1 : WriteOut(k)
    BY <1>7 DEF WriteFails, NotFlushed
  <2>2. k \in 0 .. Len(bw) /\ writer' = "done" /\ failed'
        /\ UNCHANGED <<sd, accepted, promised>>
    BY <1>7, <2>1 DEF WriteFails, NotFlushed
  <2>3. Numbered' /\ Contents'
    BY <2>1, <2>2, WriteKeeps
  <2> QED
    BY <2>2, <2>3 DEF QueueInv, Finished, NothingStranded
<1>8. CASE WriterEnds
  <2>1. promised = Nothing
    <3>1. Len(sd) = 0 /\ writer # "done"
      BY <1>8 DEF WriterEnds
    <3> QED
      BY <3>1 DEF IInv, QueueInv, Contents, FirstMarker
  <2> QED
    BY <1>8, <2>1 DEF WriterEnds, IInv, QueueInv, Numbered, Contents, Finished,
       NothingStranded
<1>9. CASE TimerFires
  BY <1>9 DEF TimerFires, IInv, QueueInv, Numbered, Contents, Finished, NothingStranded
<1>10. CASE Cancel \/ CloseConn \/ CloseQueue \/ \E p \in Procs : CountDrop(p) \/ Kick(p)
  BY <1>10, Unmoved DEF Cancel, CloseConn, CloseQueue, QueueClosed, CountDrop, Kick, queueVars
<1> QED
  BY <1>1, <1>2, <1>3, <1>4, <1>5, <1>6, <1>7, <1>8, <1>9, <1>10, StepCases,
     GracefulKeeps, TakeKeeps, MarkerKeeps

-----------------------------------------------------------------------------
(***************************************************************************)
(* Closing, and the counts.                                                *)
(***************************************************************************)
LEMMA SendCloses ==
  ASSUME IInv, NEW p \in Procs, Send(p), UNCHANGED teardown
  PROVE  CloseInv'
<1>1. /\ UNCHANGED <<sdClosed, dropped, writer, teardown>>
      /\ ctxDone => ctxDone'
      /\ \A q \in Procs : sending[q] = "kick" => sending'[q] = "kick"
  <2>1. UNCHANGED <<sdClosed, dropped, writer, teardown>> /\ sending[p] = "idle"
    BY DEF Send, writerVars
  <2>2. ctxDone => ctxDone'
    BY Sends
  <2>3. sending' = sending \/ sending' = [sending EXCEPT ![p] = "drop"]
    BY Sends
  <2>4. \A q \in Procs : sending[q] = "kick" => sending'[q] = "kick"
    BY <2>1, <2>3 DEF IInv, TypeOK
  <2> QED
    BY <2>1, <2>2, <2>4
<1> QED
  BY <1>1 DEF IInv, CloseInv, Closing, WriterDeathCancels, HopelessIsKicked

\* Each count is one more than the last, so that no multiple of DropKick is missed.
LEMMA CountCloses ==
  ASSUME IInv, NEW p \in Procs, CountDrop(p)
  PROVE  CloseInv'
<1>1. /\ UNCHANGED <<ctxDone, sdClosed, writer, teardown>>
      /\ dropped' = dropped + 1 /\ dropped \in Nat
      /\ sending[p] = "drop"
      /\ sending' = [sending EXCEPT ![p] = IF Kicks(dropped') THEN "kick" ELSE "idle"]
  BY DEF CountDrop, writerVars, IInv, TypeOK
<1>2. DropKick \in Nat \ {0} /\ sending \in [Procs -> {"idle", "drop", "kick"}]
  BY ClientConnAssumption DEF IInv, TypeOK
<1>3. HopelessIsKicked'
  <2>1. CASE dropped >= DropKick
    <3>1. \A q \in Procs : sending[q] = "kick" => sending'[q] = "kick"
      BY <1>1, <1>2
    <3> QED
      BY <1>1, <2>1, <3>1 DEF IInv, CloseInv, HopelessIsKicked
  <2>2. CASE dropped + 1 = DropKick
    <3>1. Kicks(dropped')
      BY <1>1, <1>2, <2>2 DEF Kicks
    <3> QED
      BY <1>1, <1>2, <3>1 DEF HopelessIsKicked
  <2>3. CASE ~(dropped + 1 >= DropKick)
    BY <1>1, <1>2, <2>3 DEF HopelessIsKicked
  <2> QED
    BY <1>1, <1>2, <2>1, <2>2, <2>3
<1> QED
  BY <1>1, <1>3 DEF IInv, CloseInv, Closing, WriterDeathCancels

LEMMA CloseStep ==
  ASSUME IInv, Step
  PROVE  CloseInv'
<1> TypeOK /\ CloseInv
  BY DEF IInv
<1>1. ASSUME UNCHANGED <<sdClosed, dropped, sending, writer, teardown>>, ctxDone => ctxDone'
      PROVE  CloseInv'
  BY <1>1 DEF CloseInv, Closing, WriterDeathCancels, HopelessIsKicked
<1>2. CASE Handshake \/ Return \/ EndHandler \/ CloseGracefully \/ Leave \/ Cancel
  BY <1>1, <1>2 DEF Handshake, Return, EndHandler, CloseGracefully, Leave, Cancel,
     readerOthers, queueVars, writerVars, TypeOK
<1>3. ASSUME NEW h, NEW more, Read(h, more)
      PROVE  CloseInv'
  BY <1>1, <1>3 DEF Read, writerVars
<1>4. CASE Reply \/ Ping \/ \E p \in Senders : Receive(p)
  BY <1>4, SendCloses DEF Reply, Ping, Receive, Procs
<1>5. CASE Take \/ Spill \/ CheckQueue \/ FlushDrained \/ FlushTimer \/ TimerFires
  <2>1. /\ UNCHANGED <<sdClosed, dropped, sending, teardown, ctxDone>>
        /\ writer' # "done"
    BY <1>5 DEF Take, Spill, CheckQueue, FlushDrained, FlushTimer, TimerFires, writerOthers
  <2> QED
    BY <2>1 DEF CloseInv, Closing, WriterDeathCancels, HopelessIsKicked
<1>6. CASE WriteFails \/ TakeSentinel
  <2>1. UNCHANGED <<sdClosed, dropped, sending, teardown>> /\ ctxDone' = TRUE
    BY <1>6 DEF WriteFails, TakeSentinel, WriterCloses, writerOthers
  <2> QED
    BY <2>1 DEF CloseInv, Closing, WriterDeathCancels, HopelessIsKicked
<1>7. CASE WriterEnds
  <2>1. UNCHANGED <<sdClosed, dropped, sending, teardown, ctxDone>> /\ sdClosed
    BY <1>7 DEF WriterEnds, writerOthers
  <2> QED
    BY <2>1 DEF CloseInv, Closing, WriterDeathCancels, HopelessIsKicked
<1>8. CASE CloseConn \/ CloseQueue
  BY <1>8 DEF CloseConn, CloseQueue, QueueClosed, queueVars, writerVars, CloseInv, Closing,
     WriterDeathCancels, HopelessIsKicked
<1>9. ASSUME NEW p \in Procs, Kick(p)
      PROVE  CloseInv'
  BY <1>9 DEF Kick, writerVars, CloseInv, Closing, WriterDeathCancels, HopelessIsKicked
<1> QED
  BY <1>2, <1>3, <1>4, <1>5, <1>6, <1>7, <1>8, <1>9, CountCloses, StepCases

LEMMA Drops ==
  /\ IsFiniteSet(Procs)
  /\ IsFiniteSet(Dropping) /\ Cardinality(Dropping) \in Nat
  /\ (IsFiniteSet(Dropping) /\ Cardinality(Dropping) \in Nat)'
<1>1. IsFiniteSet(Procs)
  <2>1. IsFiniteSet(Senders \cup {"reader"})
    BY ClientConnAssumption, FS_AddElement
  <2>2. Procs = (Senders \cup {"reader"}) \cup {"pinger"}
    BY DEF Procs
  <2> QED
    BY <2>1, <2>2, FS_AddElement
<1>2. Dropping \in SUBSET Procs /\ Dropping' \in SUBSET Procs
  BY DEF Dropping
<1> QED
  BY <1>1, <1>2, FS_Subset, FS_CardinalityType

\* A call of Send adds at most one drop to those that will be counted.
LEMMA SendBudget ==
  ASSUME TypeOK, NEW p \in Procs, Send(p)
  PROVE  /\ dropped' = dropped
         /\ Cardinality(Dropping') <= Cardinality(Dropping) + 1
<1>1. CASE sending' = sending
  BY <1>1, Drops DEF Dropping, Send
<1>2. CASE sending' = [sending EXCEPT ![p] = "drop"]
  <2>1. Dropping' = Dropping \cup {p}
    BY <1>2 DEF Dropping, TypeOK
  <2> QED
    BY <2>1, Drops, FS_AddElement DEF Send
<1> QED
  BY <1>1, <1>2, Sends DEF Send

LEMMA BudgetStep ==
  ASSUME IInv, Step
  PROVE  Budget'
<1> TypeOK /\ Budget
  BY DEF IInv
<1>1. dropped \in Nat /\ sends \in Nat /\ todo.n \in Nat /\ Cardinality(Dropping) \in Nat
  BY Drops, ClientConnAssumption DEF TypeOK
<1>2. ASSUME UNCHANGED <<dropped, sending, sends, todo>>
      PROVE  Budget'
  BY <1>2 DEF Budget, Dropping
<1>3. CASE \/ Handshake \/ Return \/ EndHandler \/ CloseGracefully \/ Leave \/ Cancel
           \/ Take \/ Spill \/ CheckQueue \/ FlushDrained \/ FlushTimer \/ TimerFires
           \/ WriteFails \/ TakeSentinel \/ WriterEnds \/ CloseConn \/ CloseQueue
  BY <1>2, <1>3 DEF Handshake, Return, EndHandler, CloseGracefully, Leave, Cancel, Take,
     Spill, CheckQueue, FlushDrained, FlushTimer, TimerFires, WriteFails, TakeSentinel,
     WriterEnds, CloseConn, CloseQueue, queueVars, readerVars, readerOthers, writerOthers
<1>4. ASSUME NEW h \in Handlers, NEW more, Read(h, more)
      PROVE  Budget'
  <2>1. h.n \in Nat
    BY DEF Handlers, Relays, Joins, Ignored, BadJoin, SentKey, NoKey
  <2>2. sends' = sends + h.n /\ todo' = h /\ UNCHANGED <<dropped, sending>>
    BY <1>4 DEF Read
  <2> QED
    BY <1>1, <2>1, <2>2 DEF Budget, Dropping
<1>5. CASE Reply
  <2>1. /\ todo' = [todo EXCEPT !.n = @ - 1] /\ sends' = sends /\ todo.n > 0
        /\ Send("reader")
    BY <1>5 DEF Reply
  <2>2. todo'.n = todo.n - 1
    BY <2>1 DEF TypeOK
  <2> QED
    BY <1>1, <2>1, <2>2, SendBudget, Drops DEF Budget, Procs
<1>6. ASSUME NEW p \in Procs, Send(p), sends' = sends + 1, todo' = todo
      PROVE  Budget'
  BY <1>1, <1>6, SendBudget, Drops DEF Budget
<1>7. CASE Ping \/ \E p \in Senders : Receive(p)
  BY <1>6, <1>7 DEF Ping, Receive, readerVars, Procs
<1>8. ASSUME NEW p \in Procs, CountDrop(p)
      PROVE  Budget'
  <2>1. Dropping' = Dropping \ {p} /\ p \in Dropping
    BY <1>8 DEF CountDrop, Dropping, TypeOK
  <2>2. Cardinality(Dropping') = Cardinality(Dropping) - 1
    BY <2>1, Drops, FS_RemoveElement
  <2> QED
    BY <1>1, <1>8, <2>2 DEF CountDrop, Budget, readerVars
<1>9. ASSUME NEW p \in Procs, Kick(p)
      PROVE  Budget'
  <2>1. Dropping' = Dropping
    BY <1>9 DEF Kick, Dropping, TypeOK
  <2> QED
    BY <1>9, <2>1 DEF Kick, Budget, readerVars
<1> QED
  BY <1>3, <1>4, <1>5, <1>7, <1>8, <1>9, StepCases

-----------------------------------------------------------------------------
(***************************************************************************)
(* Types, in three parts.                                                  *)
(***************************************************************************)
StateTypes ==
  /\ ctxDone \in BOOLEAN /\ connOpen \in BOOLEAN /\ joined \in BOOLEAN
  /\ sdClosed \in BOOLEAN
  /\ reader \in {"handshake", "read", "handle", "leaving", "gone"}
  /\ writer \in {"select", "written", "flush", "done"}
  /\ timer \in {"off", "armed", "fired"}
  /\ teardown \in {"run", "closed", "done"}
  /\ failed \in BOOLEAN /\ crashed \in BOOLEAN

CountTypes ==
  /\ dropped \in Nat
  /\ buffered \in 0 .. MaxBuffered
  /\ todo \in [n : 0 .. 2, end : {"read", "join", "close", "graceful"}]
  /\ sending \in [Procs -> {"idle", "drop", "kick"}]
  /\ sends \in 0 .. MaxSends

QueueTypes ==
  /\ sd \in Seq(Nat) /\ Len(sd) <= Cap
  /\ bw \in Seq(Message) /\ wire \in Seq(Message) /\ accepted \in Seq(Message)
  /\ promised \in Seq(Message) \cup {Nothing}

LEMMA StateTypeStep ==
  ASSUME TypeOK, Step
  PROVE  StateTypes'
<1> StateTypes
  BY DEF TypeOK, StateTypes
<1>1. CASE Handshake \/ Return \/ EndHandler \/ Leave
  BY <1>1 DEF Handshake, Return, EndHandler, Leave, readerOthers, queueVars, writerVars,
     StateTypes
<1>2. CASE CloseGracefully
  BY <1>2 DEF CloseGracefully, writerVars, StateTypes
<1>3. ASSUME NEW p, Send(p), UNCHANGED <<reader, joined, teardown>>
      PROVE  StateTypes'
  <2>1. UNCHANGED <<connOpen, sdClosed, writer, timer, failed, crashed, reader, joined,
                    teardown>>
    BY <1>3 DEF Send, writerVars
  <2>2. ctxDone' \in BOOLEAN
    BY <1>3, Sends DEF StateTypes
  <2> QED
    BY <2>1, <2>2 DEF StateTypes
<1>4. CASE Reply \/ Ping \/ \E p \in Senders : Receive(p)
  BY <1>3, <1>4 DEF Reply, Ping, Receive, readerVars
<1>5. ASSUME NEW h, NEW more, Read(h, more)
      PROVE  StateTypes'
  BY <1>5 DEF Read, writerVars, StateTypes
<1>6. CASE Take \/ Spill \/ CheckQueue \/ FlushDrained \/ FlushTimer \/ TimerFires
           \/ WriterEnds
  BY <1>6 DEF Take, Spill, CheckQueue, Toggled, FlushDrained, FlushTimer, TimerFires,
     WriterEnds, writerOthers, readerVars, StateTypes
<1>7. CASE WriteFails \/ TakeSentinel
  BY <1>7 DEF WriteFails, TakeSentinel, LastFlush, NotFlushed, WriterCloses, writerOthers,
     readerVars, StateTypes
<1>8. CASE Cancel
  BY <1>8 DEF Cancel, queueVars, readerVars, writerVars, StateTypes
<1>9. CASE CloseConn
  BY <1>9 DEF CloseConn, queueVars, readerVars, writerVars, StateTypes
<1>10. CASE CloseQueue
  BY <1>10 DEF CloseQueue, QueueClosed, readerVars, writerVars, StateTypes
<1>11. ASSUME NEW p \in Procs, CountDrop(p) \/ Kick(p)
       PROVE  StateTypes'
  <2>1. UNCHANGED <<connOpen, joined, sdClosed, reader, writer, timer, teardown, failed,
                    crashed>>
    BY <1>11 DEF CountDrop, Kick, readerVars, writerVars
  <2>2. ctxDone' \in BOOLEAN
    BY <1>11 DEF CountDrop, Kick, StateTypes
  <2> QED
    BY <2>1, <2>2 DEF StateTypes
<1> QED
  BY <1>1, <1>2, <1>4, <1>5, <1>6, <1>7, <1>8, <1>9, <1>10, <1>11, StepCases

LEMMA CountTypeStep ==
  ASSUME TypeOK, Step
  PROVE  CountTypes'
<1> CountTypes
  BY DEF TypeOK, CountTypes
<1> MaxSends \in Nat
  BY ClientConnAssumption
<1>1. ASSUME UNCHANGED <<dropped, buffered, todo, sending, sends>>
      PROVE  CountTypes'
  BY <1>1 DEF CountTypes
<1>2. CASE \/ Handshake \/ Return \/ EndHandler \/ CloseGracefully \/ Leave \/ Cancel
           \/ Take \/ Spill \/ CheckQueue \/ FlushDrained \/ FlushTimer \/ TimerFires
           \/ WriteFails \/ TakeSentinel \/ WriterEnds \/ CloseConn \/ CloseQueue
  BY <1>1, <1>2 DEF Handshake, Return, EndHandler, CloseGracefully, Leave, Cancel, Take,
     Spill, CheckQueue, FlushDrained, FlushTimer, TimerFires, WriteFails, TakeSentinel,
     WriterEnds, CloseConn, CloseQueue, queueVars, readerVars, readerOthers, writerOthers
<1>3. ASSUME NEW h \in Handlers, NEW more \in 0 .. MaxBuffered, Read(h, more)
      PROVE  CountTypes'
  <2>1. h \in [n : 0 .. 2, end : {"read", "join", "close", "graceful"}]
    BY DEF Handlers, Relays, Joins, Ignored, BadJoin, SentKey, NoKey
  <2>2. sends' \in 0 .. MaxSends
    BY <1>3, <2>1 DEF Read, CountTypes
  <2> QED
    BY <1>3, <2>1, <2>2 DEF Read, CountTypes
<1>4. ASSUME NEW p \in Procs, Send(p)
      PROVE  dropped' = dropped /\ sending' \in [Procs -> {"idle", "drop", "kick"}]
  BY <1>4, Sends DEF Send, CountTypes
<1>5. CASE Reply
  <2>1. Send("reader") /\ "reader" \in Procs /\ UNCHANGED <<sends, buffered>>
    BY <1>5 DEF Reply, Procs
  <2>2. todo' \in [n : 0 .. 2, end : {"read", "join", "close", "graceful"}]
    BY <1>5 DEF Reply, CountTypes
  <2> QED
    BY <1>4, <2>1, <2>2 DEF CountTypes
<1>6. CASE Ping \/ \E p \in Senders : Receive(p)
  BY <1>4, <1>6 DEF Ping, Receive, Procs, readerVars, CountTypes
<1>7. ASSUME NEW p \in Procs, CountDrop(p) \/ Kick(p)
      PROVE  CountTypes'
  BY <1>7 DEF CountDrop, Kick, readerVars, CountTypes
<1> QED
  BY <1>2, <1>3, <1>5, <1>6, <1>7, StepCases

LEMMA QueueTypeStep ==
  ASSUME IInv, Step
  PROVE  QueueTypes'
<1> QueueTypes /\ TypeOK /\ Numbered
  BY DEF IInv, QueueInv, TypeOK, QueueTypes, Message
<1>1. ASSUME UNCHANGED <<sd, bw, wire, accepted, promised>>
      PROVE  QueueTypes'
  BY <1>1 DEF QueueTypes
<1>2. CASE \/ Handshake \/ Return \/ EndHandler \/ Leave \/ Cancel \/ CheckQueue
           \/ TimerFires \/ WriterEnds \/ CloseConn \/ CloseQueue
           \/ (\E p \in Procs : CountDrop(p) \/ Kick(p))
  BY <1>1, <1>2 DEF Handshake, Return, EndHandler, Leave, Cancel, CheckQueue, TimerFires,
     WriterEnds, CloseConn, CloseQueue, CountDrop, Kick, queueVars, writerVars,
     readerOthers, writerOthers
<1>3. ASSUME NEW h, NEW more, Read(h, more)
      PROVE  QueueTypes'
  BY <1>1, <1>3 DEF Read, writerVars
<1>4. ASSUME NEW p, Send(p)
      PROVE  QueueTypes'
  <2>1. UNCHANGED <<writerVars, promised>>
    BY <1>4 DEF Send
  <2>2. CASE UNCHANGED <<sd, accepted>>
    BY <1>1, <2>1, <2>2 DEF writerVars
  <2>3. CASE /\ HasRoom
             /\ accepted' = Append(accepted, Len(accepted) + 1)
             /\ sd' = Append(sd, Len(accepted) + 1)
    <3>1. Len(accepted) + 1 \in Message /\ Len(accepted) + 1 \in Nat
      BY DEF QueueTypes, Message, Sentinel
    <3>2. accepted' \in Seq(Message) /\ sd' \in Seq(Nat) /\ Len(sd') = Len(sd) + 1
      BY <2>3, <3>1, AppendProperties DEF QueueTypes
    <3>3. Len(sd') <= Cap
      BY <2>3, <3>2, ClientConnAssumption DEF HasRoom, QueueTypes
    <3> QED
      BY <2>1, <3>2, <3>3 DEF QueueTypes, writerVars
  <2> QED
    BY <1>4, <2>2, <2>3, Sends
<1>5. CASE Reply \/ Ping \/ \E p \in Senders : Receive(p)
  BY <1>4, <1>5 DEF Reply, Ping, Receive
<1>6. CASE CloseGracefully
  <2>1. UNCHANGED <<writerVars, accepted>>
    BY <1>6 DEF CloseGracefully
  <2>2. CASE UNCHANGED <<sd, promised>>
    BY <1>1, <2>1, <2>2 DEF writerVars
  <2>3. CASE HasRoom /\ sd' = Append(sd, Sentinel)
             /\ promised' = IF promised = Nothing THEN accepted ELSE promised
    <3>1. sd' \in Seq(Nat) /\ Len(sd') = Len(sd) + 1
      BY <2>3, AppendProperties DEF QueueTypes, Sentinel
    <3>2. Len(sd') <= Cap
      BY <2>3, <3>1, ClientConnAssumption DEF HasRoom, QueueTypes
    <3> QED
      BY <2>1, <2>3, <3>1, <3>2 DEF QueueTypes, writerVars
  <2> QED
    BY <1>6, <2>2, <2>3 DEF CloseGracefully
<1>7. ASSUME sd # <<>>, sd' = Tail(sd)
      PROVE  sd' \in Seq(Nat) /\ Len(sd') <= Cap /\ Head(sd) \in Nat
  <2>1. Tail(sd) \in Seq(Nat) /\ Len(Tail(sd)) = Len(sd) - 1 /\ Head(sd) \in Nat
    BY <1>7, HeadTailProperties DEF QueueTypes
  <2> QED
    BY <1>7, <2>1, ClientConnAssumption DEF QueueTypes
<1>8. CASE Take
  <2>1. Head(sd) \in Message
    BY <1>7, <1>8 DEF Take, Message
  <2>2. bw' \in Seq(Message)
    BY <1>8, <2>1, AppendProperties DEF Take, QueueTypes
  <2> QED
    BY <1>7, <1>8, <2>2 DEF Take, writerOthers, QueueTypes
<1>9. ASSUME NEW k \in 0 .. Len(bw), WriteOut(k)
      PROVE  wire' \in Seq(Message) /\ bw' \in Seq(Message)
  BY <1>9, WritesOut
<1>10. Len(bw) \in Nat
  BY DEF QueueTypes
<1>11. CASE Spill \/ FlushDrained \/ FlushTimer \/ WriteFails
  <2>1. wire' \in Seq(Message) /\ bw' \in Seq(Message)
    <3>1. \E k \in 0 .. Len(bw) : WriteOut(k)
      BY <1>10, <1>11 DEF Spill, FlushDrained, FlushTimer, WriteFails, Flushed, NotFlushed
    <3> QED
      BY <1>9, <3>1
  <2> QED
    BY <1>11, <2>1 DEF Spill, FlushDrained, FlushTimer, WriteFails, writerOthers, QueueTypes
<1>12. CASE TakeSentinel
  <2>1. wire' \in Seq(Message) /\ bw' \in Seq(Message)
    <3>1. \E k \in 0 .. Len(bw) : WriteOut(k)
      BY <1>10, <1>12 DEF TakeSentinel, LastFlush, Flushed, NotFlushed
    <3> QED
      BY <1>9, <3>1
  <2> QED
    BY <1>7, <1>12, <2>1 DEF TakeSentinel, writerOthers, QueueTypes
<1> QED
  BY <1>2, <1>3, <1>5, <1>6, <1>8, <1>11, <1>12, StepCases

-----------------------------------------------------------------------------
LEMMA IInvInit == Init => IInv
<1> SUFFICES ASSUME Init
             PROVE  IInv
  OBVIOUS
<1> USE ClientConnAssumption DEF Init
<1>1. Budget
  <2>1. Dropping = {}
    BY DEF Dropping
  <2> QED
    BY <2>1, FS_EmptySet DEF Budget, Ignored
<1>2. TypeOK
  <2>1. \A S : <<>> \in Seq(S)
    BY EmptySeq
  <2>2. todo \in [n : 0 .. 2, end : {"read", "join", "close", "graceful"}]
    BY DEF Ignored
  <2>3. sending \in [Procs -> {"idle", "drop", "kick"}]
    OBVIOUS
  <2>4. 0 \in 0 .. MaxSends /\ 0 \in 0 .. MaxBuffered /\ Len(<<>>) <= Cap
    OBVIOUS
  <2> QED
    BY <2>1, <2>2, <2>3, <2>4 DEF TypeOK
<1>3. Numbered
  BY DEF Numbered
<1>4. Contents
  <2> DEFINE f == [i \in 0 .. 0 |-> 0]
  <2>1. Tallies(f, <<>>, 0, 0)
    BY DEF Tallies
  <2> HIDE DEF f
  <2> QED
    BY <2>1 DEF Contents
<1> QED
  BY <1>1, <1>2, <1>3, <1>4 DEF IInv, QueueInv, CloseInv, Finished, NothingStranded, Closing,
     WriterDeathCancels, HopelessIsKicked

LEMMA IInvStep == IInv /\ [Next]_vars => IInv'
<1> SUFFICES ASSUME IInv, [Next]_vars
             PROVE  IInv'
  OBVIOUS
<1>1. CASE Step
  <2>1. TypeOK'
    <3>1. StateTypes' /\ CountTypes' /\ QueueTypes' /\ Budget'
      BY <1>1, StateTypeStep, CountTypeStep, QueueTypeStep, BudgetStep DEF IInv
    <3>2. dropped' <= sends'
      BY <3>1, Drops DEF CountTypes, Budget
    <3>3. dropped' \in 0 .. MaxSends
      BY <3>1, <3>2, ClientConnAssumption DEF CountTypes
    <3> QED
      BY <3>1, <3>3 DEF StateTypes, CountTypes, QueueTypes, TypeOK, Message
  <2> QED
    BY <1>1, <2>1, QueueStep, CloseStep, BudgetStep DEF IInv
<1>2. CASE UNCHANGED vars
  BY <1>2 DEF IInv, QueueInv, CloseInv, TypeOK, Budget, Dropping, Numbered, Contents,
     Finished, NothingStranded, Closing, WriterDeathCancels, HopelessIsKicked, vars,
     queueVars, readerVars, writerVars
<1> QED
  BY <1>1, <1>2 DEF Next

\* The inductive invariant: what the reader, the writer, the teardown and the senders of
\* Client.listen and Client.Send keep true between any two steps.
THEOREM Invariance == Spec => []IInv
<1> QED
  BY IInvInit, IInvStep, PTL DEF Spec

\* Types: the queue never holds more than its capacity, and drops are counted once.
THEOREM TypeCorrect == Spec => []TypeOK
<1>1. IInv => TypeOK
  BY DEF IInv
<1> QED
  BY <1>1, Invariance, PTL

\* CloseGracefully writes out all that was queued before it, if writes succeed:
\* whatever the capacity and the interleaving with other senders.
THEOREM GracefulCloseCorrect == Spec => []GracefulCloseDelivers
<1>1. IInv => GracefulCloseDelivers
  <2> SUFFICES ASSUME IInv
               PROVE  writer = "done" /\ promised # Nothing /\ ~failed => wire = promised
    BY DEF GracefulCloseDelivers
  <2> QED
    BY DEF IInv, QueueInv, Finished
<1> QED
  BY <1>1, Invariance, PTL

\* Senders that count drops at the same time do not miss a multiple of DropKick.
THEOREM KickCorrect == Spec => []HopelessIsKicked
<1>1. IInv => HopelessIsKicked
  BY DEF IInv, CloseInv
<1> QED
  BY <1>1, Invariance, PTL

\* The batch timer's toggling leaves nothing behind.
THEOREM StrandedCorrect == Spec => []NothingStranded
<1>1. IInv => NothingStranded
  BY DEF IInv, QueueInv
<1> QED
  BY <1>1, Invariance, PTL

\* The writer's end closes the client.
THEOREM WriterDeathCorrect == Spec => []WriterDeathCancels
<1>1. IInv => WriterDeathCancels
  BY DEF IInv, CloseInv
<1> QED
  BY <1>1, Invariance, PTL

-----------------------------------------------------------------------------
(***************************************************************************)
(* The refinement of Mailbox.                                              *)
(***************************************************************************)
LEMMA PrefixByElements ==
  ASSUME NEW S, NEW s \in Seq(S), NEW t \in Seq(S), Len(s) <= Len(t),
         \A i \in 1 .. Len(s) : s[i] = t[i]
  PROVE  Delivery!IsPrefix(s, t)
<1>1. Len(s) \in Nat /\ Len(t) \in Nat
  OBVIOUS
<1>2. /\ \A i \in 1 .. Len(s) : s[i] \in S
      /\ \A i \in 1 .. Len(s) : t[i] \in S
  BY <1>1, ElementOfSeq
<1> DEFINE u == SubSeq(s, 1, Len(s))
           v == SubSeq(t, 1, Len(s))
<1>3. /\ u \in Seq(S) /\ Len(u) = Len(s) /\ \A i \in 1 .. Len(s) : u[i] = s[i]
  BY <1>1, <1>2, SubSeqProperties, Z3
<1>4. /\ v \in Seq(S) /\ Len(v) = Len(s) /\ \A i \in 1 .. Len(s) : v[i] = t[i]
  BY <1>1, <1>2, SubSeqProperties, Z3
<1> HIDE DEF u, v
<1>5. \A i \in 1 .. Len(u) : u[i] = v[i]
  BY <1>3, <1>4
<1>6. u = v
  BY <1>3, <1>4, <1>5, SeqEqual
<1> QED
  BY <1>6 DEF Delivery!IsPrefix, u, v

\* What is written is a prefix of what is accepted, and grows.
LEMMA WritesDeliver ==
  ASSUME IInv, NEW k \in 0 .. Len(bw), WriteOut(k), writer # "done", accepted' = accepted
  PROVE  Delivery!Deliver
<1>1. /\ wire \in Seq(Message) /\ accepted \in Seq(Message) /\ wire' \in Seq(Message)
      /\ Len(wire') = Len(wire) + k /\ \A i \in 1 .. Len(wire') : wire'[i] = i
      /\ Len(wire) \in Nat /\ Len(bw) \in Nat /\ Len(accepted) \in Nat
  BY WritesOut DEF IInv, TypeOK, QueueInv, Message
<1>2. Len(wire) + Len(bw) <= Len(accepted)
  <2>1. PICK f : Tallies(f, sd, Len(wire) + Len(bw), Len(accepted))
    BY DEF IInv, QueueInv, Contents
  <2>2. 0 \in 0 .. Len(sd)
    BY DEF IInv, TypeOK
  <2> QED
    BY <1>1, <2>1, <2>2 DEF Tallies
<1>3. Delivery!IsPrefix(wire, wire')
  <2>1. Len(wire) <= Len(wire') /\ \A i \in 1 .. Len(wire) : wire[i] = wire'[i]
    BY <1>1 DEF IInv, QueueInv, Numbered
  <2> QED
    BY <1>1, <2>1, PrefixByElements
<1>4. Delivery!IsPrefix(wire', accepted)
  <2>1. Len(wire') <= Len(accepted)
    BY <1>1, <1>2
  <2> QED
    BY <1>1, <2>1, PrefixByElements DEF IInv, QueueInv, Numbered
<1> QED
  BY <1>3, <1>4 DEF Delivery!Deliver

LEMMA SendTakesOn ==
  ASSUME IInv, NEW p, Send(p)
  PROVE  Delivery!Next \/ UNCHANGED <<accepted, wire, writer>>
<1>1. UNCHANGED <<wire, writer>>
  BY DEF Send, writerVars
<1>2. CASE accepted' = Append(accepted, Len(accepted) + 1)
  <2>1. accepted \in Seq(Message) /\ Len(accepted) + 1 \in Message
    BY DEF IInv, TypeOK, Message, Sentinel
  <2>2. /\ accepted' \in Seq(Message) /\ Len(accepted') = Len(accepted) + 1
        /\ \A i \in 1 .. Len(accepted) : accepted'[i] = accepted[i]
    BY <1>2, <2>1, AppendProperties
  <2>3. Delivery!IsPrefix(accepted, accepted')
    BY <2>1, <2>2, PrefixByElements
  <2> QED
    BY <1>1, <2>3 DEF Delivery!Next, Delivery!TakeOn
<1> QED
  BY <1>1, <1>2, Sends

LEMMA MailboxStep ==
  ASSUME IInv, Step
  PROVE  Delivery!Next \/ UNCHANGED <<accepted, wire, writer = "done">>
<1> USE DEF writerOthers
<1>1. CASE \/ Handshake \/ Return \/ EndHandler \/ CloseGracefully \/ Leave \/ Cancel
           \/ CloseConn \/ CloseQueue
           \/ (\E h \in Handlers, more \in 0 .. MaxBuffered : Read(h, more))
           \/ (\E p \in Procs : CountDrop(p) \/ Kick(p))
  <2>1. UNCHANGED <<accepted, wire, writer>>
    BY <1>1 DEF Handshake, Return, EndHandler, CloseGracefully, Leave, Cancel, CloseConn,
       CloseQueue, Read, CountDrop, Kick, readerOthers, queueVars, writerVars
  <2> QED
    BY <2>1
<1>2. CASE Reply \/ Ping \/ \E p \in Senders : Receive(p)
  <2>1. Delivery!Next \/ UNCHANGED <<accepted, wire, writer>>
    BY <1>2, SendTakesOn DEF Reply, Ping, Receive
  <2> QED
    BY <2>1
<1>3. CASE Take \/ CheckQueue \/ TimerFires
  BY <1>3 DEF Take, CheckQueue, TimerFires
<1>4. Len(bw) \in Nat
  BY DEF IInv, TypeOK
<1>5. CASE Spill \/ FlushDrained \/ FlushTimer
  <2>1. \E k \in 0 .. Len(bw) : WriteOut(k)
    BY <1>4, <1>5 DEF Spill, FlushDrained, FlushTimer, Flushed
  <2>2. writer # "done" /\ writer' # "done" /\ accepted' = accepted
    BY <1>5 DEF Spill, FlushDrained, FlushTimer
  <2> QED
    BY <2>1, <2>2, WritesDeliver DEF Delivery!Next
<1>6. CASE WriteFails \/ TakeSentinel
  <2>1. \E k \in 0 .. Len(bw) : WriteOut(k)
    BY <1>4, <1>6 DEF WriteFails, TakeSentinel, LastFlush, NotFlushed, Flushed
  <2>2. writer # "done" /\ writer' = "done" /\ accepted' = accepted
    BY <1>6 DEF WriteFails, TakeSentinel
  <2> QED
    BY <2>1, <2>2, WritesDeliver DEF Delivery!Next, Delivery!Stop
<1>7. CASE WriterEnds
  BY <1>7 DEF WriterEnds, Delivery!Next, Delivery!Stop
<1> QED
  BY <1>1, <1>2, <1>3, <1>5, <1>6, <1>7, StepCases

\* The queue and the writer are a mailbox: in order, nothing twice, nothing skipped,
\* however senders, timer, failures and closing interleave.
THEOREM ImplementsMailbox == Spec => DeliversInOrder
<1>1. Init => Delivery!Init
  BY DEF Init, Delivery!Init
<1>2. IInv /\ [Next]_vars => [Delivery!Next]_<<accepted, wire, writer = "done">>
  <2> SUFFICES ASSUME IInv, [Next]_vars
               PROVE  Delivery!Next \/ UNCHANGED <<accepted, wire, writer = "done">>
    OBVIOUS
  <2>1. CASE UNCHANGED vars
    BY <2>1 DEF vars, queueVars, writerVars
  <2> QED
    BY <2>1, MailboxStep DEF Next
<1> QED
  BY <1>1, <1>2, Invariance, PTL DEF Spec, DeliversInOrder, Delivery!Spec
=============================================================================
