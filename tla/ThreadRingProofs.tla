---------------------------- MODULE ThreadRingProofs ----------------------------
(***************************************************************************)
(* Proofs about ThreadRing, for every size of the ring, number of threads  *)
(* and number of connections.  RingInv relates the two indices to the      *)
(* number of waiting connections without modular arithmetic: the put index *)
(* is ahead of the get index by that number, or has wrapped once more.     *)
(*                                                                         *)
(* Then proofs about Proto, the records the clients of the other thread    *)
(* server write and read, for every size of the buffers and any calls.     *)
(*                                                                         *)
(* Then proofs about AntBody, the pages mini_ant makes of what arrives, for *)
(* every response its assumption allows, cut into pieces in any way.       *)
(***************************************************************************)
EXTENDS ThreadRing, Proto, AntBody, SequenceTheorems, WellFoundedInduction, TLAPS

TypeInv == TypeOK /\ (mpc = "put" => mconn \in Conn)

Aligned == \/ iput = iget + Len(pending)
           \/ iput = iget + Len(pending) - MAX_THREADS /\ iput >= 1

Roomy == \/ Len(pending) <= MAX_THREADS - 1
         \/ iget = 0 /\ Len(pending) <= MAX_THREADS

Contents == \A k \in DOMAIN pending : fds[SlotOf(k)] = pending[k]

RingInv == ~overrun => Aligned /\ Roomy /\ Contents

LEMMA SeqAppend ==
  ASSUME NEW S, NEW s \in Seq(S), NEW e \in S
  PROVE  /\ Append(s, e) \in Seq(S)
         /\ Len(Append(s, e)) = Len(s) + 1 /\ Len(s) \in Nat
         /\ DOMAIN Append(s, e) = 1..(Len(s) + 1)
         /\ \A i \in 1..Len(s) : Append(s, e)[i] = s[i]
         /\ Append(s, e)[Len(s) + 1] = e
  BY AppendProperties, LenProperties

LEMMA SeqTail ==
  ASSUME NEW S, NEW s \in Seq(S), s # <<>>
  PROVE  /\ Tail(s) \in Seq(S)
         /\ Len(Tail(s)) = Len(s) - 1 /\ Len(s) \in Nat \ {0}
         /\ DOMAIN Tail(s) = 1..(Len(s) - 1)
         /\ \A i \in 1..(Len(s) - 1) : Tail(s)[i] = s[i + 1]
  BY HeadTailProperties, LenProperties, EmptySeq

\* Taking one connection moves the get index and keeps the distance.
LEMMA TakeArithmetic ==
  ASSUME NEW M \in Nat \ {0}, NEW g \in 0..M, NEW u \in 0..M, NEW n \in Nat, n >= 1,
         u = g + n \/ (u = g + n - M /\ u >= 1),
         NEW h \in Int, h = IF g = M THEN 1 ELSE g + 1
  PROVE  u = h + (n - 1) \/ (u = h + (n - 1) - M /\ u >= 1)
<1>1. CASE g = M
  BY <1>1
<1>2. CASE g # M
  BY <1>2
<1> QED BY <1>1, <1>2

LEMMA TypeInvInit == Init => TypeInv
  BY RingAssumption, EmptySeq DEF RingAssumption, Init, TypeInv, TypeOK, Conn, Slots, Worker

LEMMA TypeInvStep == TypeInv /\ [Next]_vars => TypeInv'
<1> SUFFICES ASSUME TypeInv, [Next]_vars PROVE TypeInv'
  OBVIOUS
<1> USE RingAssumption DEF RingAssumption, TypeInv, TypeOK
<1>1. CASE Create
  <2>1. created' \in 0..MAX_THREADS
    BY <1>1 DEF Create, NThreads
  <2>2. wpc' \in [Worker -> {"none", "lock", "wait", "process"}]
    BY <1>1 DEF Create
  <2> QED BY <1>1, <2>1, <2>2 DEF Create
<1>2. CASE Created \/ CreateFails \/ AcceptFails
  BY <1>2 DEF Created, CreateFails, AcceptFails
<1>3. CASE Accept
  BY <1>3 DEF Accept, Conn
<1>4. CASE Put
  <2> DEFINE at == IF iput = MAX_THREADS THEN 0 ELSE iput
  <2>1. at \in Slots /\ iput' = at + 1 /\ fds' = [fds EXCEPT ![at] = mconn] /\ mconn \in Conn
    BY <1>4 DEF Put, Slots
  <2>2. iput' \in 0..MAX_THREADS /\ fds' \in [Slots -> Conn \cup {0}]
    BY <2>1 DEF Slots
  <2>3. pending' \in Seq(Conn)
    BY <1>4, <2>1, SeqAppend DEF Put
  <2>4. wpc' \in [Worker -> {"none", "lock", "wait", "process"}]
    BY <1>4 DEF Put, Signal, Asleep
  <2>5. overrun' \in BOOLEAN
    BY <1>4 DEF Put
  <2> QED BY <1>4, <2>2, <2>3, <2>4, <2>5 DEF Put
<1>5. ASSUME NEW w \in Worker, Sleep(w) \/ Spurious(w) \/ Processed(w) PROVE TypeInv'
  BY <1>5 DEF Sleep, Spurious, Processed
<1>6. ASSUME NEW w \in Worker, Take(w) PROVE TypeInv'
  <2> DEFINE at == IF iget = MAX_THREADS THEN 0 ELSE iget
  <2>1. at \in Slots /\ iget' = at + 1 /\ fds[at] \in Conn \cup {0}
        /\ taken' = Append(taken, fds[at]) /\ wconn' = [wconn EXCEPT ![w] = fds[at]]
    BY <1>6 DEF Take, Slots
  <2>2. iget' \in 0..MAX_THREADS /\ wconn' \in [Worker -> Conn \cup {0}]
    BY <2>1 DEF Slots
  <2>3. taken' \in Seq(Conn \cup {0})
    BY <2>1, SeqAppend
  <2>4. pending' \in Seq(Conn)
    BY <1>6, SeqTail DEF Take
  <2> QED BY <1>6, <2>2, <2>3, <2>4 DEF Take
<1>7. CASE UNCHANGED vars
  BY <1>7 DEF vars
<1> QED BY <1>1, <1>2, <1>3, <1>4, <1>5, <1>6, <1>7 DEF Next, Env, Main, Work, Idle

\* Every variable of the ring server keeps its type; the indices stay in range.
THEOREM RingTypeCorrect == Spec => []TypeOK
<1>1. TypeInv => TypeOK
  BY DEF TypeInv
<1> QED BY <1>1, TypeInvInit, TypeInvStep, PTL DEF Spec

-----------------------------------------------------------------------------

LEMMA RingInvInit == Init => RingInv
  BY EmptySeq, RingAssumption
     DEF RingAssumption, Init, RingInv, Aligned, Roomy, Contents

LEMMA RingInvStep == TypeInv /\ RingInv /\ [Next]_vars => RingInv'
<1> SUFFICES ASSUME TypeInv, RingInv, [Next]_vars, ~overrun' PROVE RingInv'
  BY DEF RingInv
<1>0. /\ iget \in 0..MAX_THREADS /\ iput \in 0..MAX_THREADS /\ MAX_THREADS \in Nat \ {0}
      /\ pending \in Seq(Conn) /\ Len(pending) \in Nat /\ DOMAIN pending = 1..Len(pending)
      /\ fds \in [Slots -> Conn \cup {0}]
  BY RingAssumption, LenProperties DEF RingAssumption, TypeInv, TypeOK
<1> DEFINE p == Len(pending)
<1>1. ASSUME UNCHANGED <<fds, iget, iput, pending, overrun>> PROVE RingInv'
  BY <1>1 DEF RingInv, Aligned, Roomy, Contents, SlotOf
<1>2. CASE Put
  <2> DEFINE at == IF iput = MAX_THREADS THEN 0 ELSE iput
  <2>1. /\ ~overrun /\ ~NoRoom /\ mconn \in Conn /\ iget' = iget
        /\ iput' = at + 1 /\ fds' = [fds EXCEPT ![at] = mconn]
        /\ pending' = Append(pending, mconn)
    BY <1>2 DEF Put, TypeInv
  <2>2. Aligned /\ Roomy /\ Contents
    BY <2>1 DEF RingInv
  <2>3. /\ Len(pending') = p + 1 /\ DOMAIN pending' = 1..(p + 1)
        /\ \A i \in 1..p : pending'[i] = pending[i]
        /\ pending'[p + 1] = mconn
    BY <1>0, <2>1, SeqAppend
  <2>4. p < MAX_THREADS - 1 \/ (iget = 0 /\ p < MAX_THREADS)
    BY <1>0, <2>1 DEF NoRoom
  <2>5. at = SlotOf(p + 1) /\ at \in Slots
    BY <1>0, <2>2, <2>4 DEF Aligned, SlotOf, Slots
  <2>6. Aligned'
    BY <1>0, <2>1, <2>2, <2>3, <2>4, SMTT(30) DEF Aligned
  <2>7. Roomy'
    BY <1>0, <2>1, <2>3, <2>4 DEF Roomy
  <2>8. \A k \in 1..p : SlotOf(k) # SlotOf(p + 1) /\ SlotOf(k) \in Slots
    BY <1>0, <2>4 DEF SlotOf, Slots
  <2>9. Contents'
    <3> SUFFICES ASSUME NEW k \in 1..(p + 1)
                 PROVE  fds'[SlotOf(k)'] = pending'[k]
      BY <2>3 DEF Contents
    <3>1. SlotOf(k)' = SlotOf(k)
      BY <2>1 DEF SlotOf
    <3>2. CASE k = p + 1
      BY <1>0, <2>1, <2>3, <2>5, <3>1, <3>2
    <3>3. CASE k \in 1..p
      <4>1. fds'[SlotOf(k)] = fds[SlotOf(k)]
        BY <1>0, <2>1, <2>5, <2>8, <3>3
      <4> QED BY <1>0, <2>2, <2>3, <3>1, <3>3, <4>1 DEF Contents
    <3> QED BY <1>0, <3>2, <3>3
  <2> QED BY <2>6, <2>7, <2>9 DEF RingInv
<1>3. ASSUME NEW w \in Worker, Take(w) PROVE RingInv'
  <2> DEFINE at == IF iget = MAX_THREADS THEN 0 ELSE iget
  <2>1. ~overrun /\ iput # iget /\ iput' = iput /\ fds' = fds /\ iget' = at + 1
    BY <1>3 DEF Take
  <2>2. Aligned /\ Roomy /\ Contents
    BY <2>1 DEF RingInv
  <2>3. pending # <<>>
    BY <1>0, <2>1, <2>2, EmptySeq DEF Aligned
  <2>a. pending' = Tail(pending)
    BY <1>3, <2>3 DEF Take
  <2>4. /\ Len(pending') = p - 1 /\ DOMAIN pending' = 1..(p - 1) /\ p >= 1
        /\ \A i \in 1..(p - 1) : pending'[i] = pending[i + 1]
    BY <1>0, <2>3, <2>a, SeqTail
  <2>5. Aligned'
    <3>1. iget' = IF iget = MAX_THREADS THEN 1 ELSE iget + 1
      BY <1>0, <2>1
    <3>2. iget' \in Int /\ p \in Nat
      BY <1>0, <3>1
    <3>3. \/ iput = iget' + (p - 1)
          \/ iput = iget' + (p - 1) - MAX_THREADS /\ iput >= 1
      <4>1. p >= 1 /\ (iput = iget + p \/ (iput = iget + p - MAX_THREADS /\ iput >= 1))
        BY <2>2, <2>4 DEF Aligned
      <4> HIDE DEF p
      <4> QED BY <1>0, <3>1, <3>2, <4>1, TakeArithmetic
    <3> QED BY <2>1, <2>4, <3>3 DEF Aligned
  <2>6. Roomy'
    BY <1>0, <2>2, <2>4 DEF Roomy
  <2>7. \A k \in 1..(p - 1) : SlotOf(k)' = SlotOf(k + 1) /\ k + 1 \in 1..p
    BY <1>0, <2>1, <2>2, <2>4 DEF SlotOf, Roomy
  <2>8. Contents'
    BY <1>0, <2>1, <2>2, <2>4, <2>7 DEF Contents
  <2> QED BY <2>5, <2>6, <2>8 DEF RingInv
<1>4. CASE Create \/ Created \/ CreateFails \/ Accept \/ AcceptFails
  BY <1>1, <1>4 DEF Create, Created, CreateFails, Accept, AcceptFails
<1>5. ASSUME NEW w \in Worker, Sleep(w) \/ Spurious(w) \/ Processed(w) PROVE RingInv'
  BY <1>1, <1>5 DEF Sleep, Spurious, Processed
<1>6. CASE UNCHANGED vars
  BY <1>1, <1>6 DEF vars
<1> QED BY <1>2, <1>3, <1>4, <1>5, <1>6 DEF Next, Env, Main, Work, Idle

\* For every size of the ring: as long as no connection was put into a ring
\* without room, iput == iget means that nothing waits, and the slots between
\* iget and iput hold the waiting connections in order.
THEOREM RingIsQueue == Spec => []QueueUntilOverrun
<1>1. TypeInv /\ RingInv => QueueUntilOverrun
  <2> SUFFICES ASSUME TypeInv, RingInv, ~overrun
               PROVE  (iput = iget) <=> (pending = <<>>)
    BY DEF QueueUntilOverrun, RingInv, Contents
  <2>1. /\ iget \in 0..MAX_THREADS /\ iput \in 0..MAX_THREADS
        /\ MAX_THREADS \in Nat \ {0} /\ pending \in Seq(Conn)
    BY RingAssumption DEF RingAssumption, TypeInv, TypeOK
  <2>2. (pending = <<>>) <=> (Len(pending) = 0)
    BY <2>1, EmptySeq
  <2>3. Len(pending) \in Nat /\ Aligned /\ Roomy
    BY <2>1, LenProperties DEF RingInv
  <2> QED BY <2>1, <2>2, <2>3 DEF Aligned, Roomy
<1> QED BY <1>1, TypeInvInit, TypeInvStep, RingInvInit, RingInvStep, PTL DEF Spec

-----------------------------------------------------------------------------
(***************************************************************************)
(* The records of proto.h.  What is in flight is compared with the stream  *)
(* of all bytes ever written: s, in which the frame of record k begins     *)
(* behind p[k] bytes.                                                      *)
(***************************************************************************)

Byte == 0..255
Field == [int : BOOLEAN, bytes : Seq(Byte)]
Record == [fields : Seq(Field), data : Seq(Byte)]

\* q is what s has behind off bytes.
Part(q, s, off) ==
  off + Len(q) <= Len(s) /\ \A i \in 1..Len(q) : q[i] = s[off + i]

LEMMA SeqFacts ==
  ASSUME NEW S, NEW q \in Seq(S)
  PROVE  /\ Len(q) \in Nat /\ DOMAIN q = 1..Len(q)
         /\ \A i \in 1..Len(q) : q[i] \in S
         /\ q = <<>> <=> Len(q) = 0
  BY LenProperties, ElementOfSeq, EmptySeq

LEMMA ConcatFacts ==
  ASSUME NEW S, NEW a \in Seq(S), NEW b \in Seq(S)
  PROVE  /\ a \o b \in Seq(S) /\ Len(a \o b) = Len(a) + Len(b)
         /\ \A i \in 1..Len(a) : (a \o b)[i] = a[i]
         /\ \A i \in 1..Len(b) : (a \o b)[Len(a) + i] = b[i]
<1>1. PICK c \in Seq(S) : c = a \o b
  BY ConcatProperties
<1>2. /\ Len(a) \in Nat /\ Len(b) \in Nat /\ Len(c) = Len(a) + Len(b)
      /\ \A i \in 1..(Len(a) + Len(b)) : c[i] = IF i <= Len(a) THEN a[i] ELSE b[i - Len(a)]
  BY <1>1, ConcatProperties, LenProperties
<1>3. \A i \in 1..Len(a) : c[i] = a[i]
  BY <1>2
<1>4. ASSUME NEW i \in 1..Len(b) PROVE c[Len(a) + i] = b[i]
  <2>1. Len(a) + i \in 1..(Len(a) + Len(b)) /\ ~(Len(a) + i <= Len(a)) /\ (Len(a) + i) - Len(a) = i
    BY <1>2
  <2> QED
    BY <1>2, <2>1
<1> QED
  BY <1>1, <1>2, <1>3, <1>4

\* A sequence in two pieces, at k.
LEMMA CutFacts ==
  ASSUME NEW S, NEW q \in Seq(S), NEW k \in 0..Len(q)
  PROVE  /\ SubSeq(q, 1, k) \in Seq(S) /\ Len(SubSeq(q, 1, k)) = k
         /\ \A i \in 1..k : SubSeq(q, 1, k)[i] = q[i]
         /\ SubSeq(q, k + 1, Len(q)) \in Seq(S) /\ Len(SubSeq(q, k + 1, Len(q))) = Len(q) - k
         /\ \A i \in 1..(Len(q) - k) : SubSeq(q, k + 1, Len(q))[i] = q[k + i]
<1>1. PICK a : a = SubSeq(q, 1, k)
  OBVIOUS
<1>2. PICK b : b = SubSeq(q, k + 1, Len(q))
  OBVIOUS
<1>3. Len(q) \in Nat /\ k \in Nat /\ k <= Len(q)
  BY SeqFacts
<1>4. a \in Seq(S) /\ Len(a) = k /\ \A i \in 1..k : a[i] = q[i]
  BY <1>1, <1>3, SubSeqProperties
<1>5. b \in Seq(S) /\ Len(b) = Len(q) - k /\ \A i \in 1..(Len(q) - k) : b[i] = q[k + i]
  BY <1>2, <1>3, SubSeqProperties
<1> QED
  BY <1>1, <1>2, <1>4, <1>5

LEMMA SameSeq ==
  ASSUME NEW S, NEW a \in Seq(S), NEW b \in Seq(S), Len(a) = Len(b),
         \A i \in 1..Len(a) : a[i] = b[i]
  PROVE  a = b
  BY SeqEqual

LEMMA PartCut ==
  ASSUME NEW S, NEW q \in Seq(S), NEW s \in Seq(S), NEW off \in Nat, Part(q, s, off), NEW k \in 0..Len(q)
  PROVE  Part(SubSeq(q, 1, k), s, off) /\ Part(SubSeq(q, k + 1, Len(q)), s, off + k)
<1>1. PICK a \in Seq(S) : a = SubSeq(q, 1, k)
  BY CutFacts
<1>2. PICK b \in Seq(S) : b = SubSeq(q, k + 1, Len(q))
  BY CutFacts
<1>3. /\ Len(a) = k /\ \A i \in 1..k : a[i] = q[i]
      /\ Len(b) = Len(q) - k /\ \A i \in 1..(Len(q) - k) : b[i] = q[k + i]
  BY <1>1, <1>2, CutFacts
<1>4. Len(q) \in Nat /\ Len(s) \in Nat /\ k \in Nat /\ k <= Len(q)
  BY SeqFacts
<1>5. off + Len(q) <= Len(s) /\ \A i \in 1..Len(q) : q[i] = s[off + i]
  BY DEF Part
<1>6. Part(a, s, off)
  <2>1. off + k <= Len(s) /\ \A i \in 1..k : i \in 1..Len(q)
    BY <1>4, <1>5
  <2> QED
    BY <1>3, <1>5, <2>1 DEF Part
<1>7. ASSUME NEW i \in 1..(Len(q) - k) PROVE b[i] = s[(off + k) + i]
  <2>1. k + i \in 1..Len(q) /\ off + (k + i) = (off + k) + i
    BY <1>4
  <2> QED
    BY <1>3, <1>5, <2>1
<1>8. Part(b, s, off + k)
  BY <1>3, <1>4, <1>5, <1>7 DEF Part
<1> QED
  BY <1>1, <1>2, <1>6, <1>8

LEMMA PartJoin ==
  ASSUME NEW S, NEW a \in Seq(S), NEW b \in Seq(S), NEW s \in Seq(S), NEW off \in Nat
  PROVE  Part(a \o b, s, off) <=> Part(a, s, off) /\ Part(b, s, off + Len(a))
<1>1. PICK c \in Seq(S) : c = a \o b
  BY ConcatFacts
<1>2. /\ Len(c) = Len(a) + Len(b)
      /\ \A i \in 1..Len(a) : c[i] = a[i]
      /\ \A i \in 1..Len(b) : c[Len(a) + i] = b[i]
  BY <1>1, ConcatFacts
<1>3. Len(a) \in Nat /\ Len(b) \in Nat /\ Len(s) \in Nat
  BY SeqFacts
<1>4. ASSUME Part(c, s, off) PROVE Part(a, s, off) /\ Part(b, s, off + Len(a))
  <2>1. off + Len(c) <= Len(s) /\ \A i \in 1..Len(c) : c[i] = s[off + i]
    BY <1>4 DEF Part
  <2>2. Part(a, s, off)
    BY <1>2, <1>3, <2>1 DEF Part
  <2>3. ASSUME NEW i \in 1..Len(b) PROVE b[i] = s[(off + Len(a)) + i]
    <3>1. Len(a) + i \in 1..Len(c) /\ off + (Len(a) + i) = (off + Len(a)) + i
      BY <1>2, <1>3
    <3> QED
      BY <1>2, <2>1, <3>1
  <2> QED
    BY <1>2, <1>3, <2>1, <2>2, <2>3 DEF Part
<1>5. ASSUME Part(a, s, off), Part(b, s, off + Len(a)) PROVE Part(c, s, off)
  <2>1. /\ \A i \in 1..Len(a) : a[i] = s[off + i]
        /\ (off + Len(a)) + Len(b) <= Len(s)
        /\ \A i \in 1..Len(b) : b[i] = s[(off + Len(a)) + i]
    BY <1>5 DEF Part
  <2>2. ASSUME NEW i \in 1..Len(c) PROVE c[i] = s[off + i]
    <3>1. CASE i <= Len(a)
      BY <1>2, <1>3, <2>1, <3>1
    <3>2. CASE ~(i <= Len(a))
      <4>1. PICK j \in 1..Len(b) : j = i - Len(a)
        <5>1. i \in Nat /\ i <= Len(a) + Len(b) /\ Len(a) < i
          BY <1>2, <1>3, <3>2
        <5>2. i - Len(a) \in 1..Len(b)
          BY <1>3, <5>1
        <5> QED
          BY <5>2
      <4>2. i = Len(a) + j /\ (off + Len(a)) + j = off + i
        BY <1>3, <4>1
      <4> QED
        BY <1>2, <2>1, <4>2
    <3> QED
      BY <3>1, <3>2
  <2> QED
    BY <1>2, <1>3, <2>1, <2>2 DEF Part
<1> QED
  BY <1>1, <1>4, <1>5

LEMMA PartGrow ==
  ASSUME NEW S, NEW q \in Seq(S), NEW s \in Seq(S), NEW t \in Seq(S), NEW off \in Nat, Part(q, s, off)
  PROVE  Part(q, s \o t, off)
<1>1. PICK c \in Seq(S) : c = s \o t
  BY ConcatFacts
<1>2. Len(c) = Len(s) + Len(t) /\ \A i \in 1..Len(s) : c[i] = s[i]
  BY <1>1, ConcatFacts
<1>3. Len(q) \in Nat /\ Len(s) \in Nat /\ Len(t) \in Nat
  BY SeqFacts
<1>4. off + Len(q) <= Len(s) /\ \A i \in 1..Len(q) : q[i] = s[off + i]
  BY DEF Part
<1>5. \A i \in 1..Len(q) : off + i \in 1..Len(s)
  BY <1>3, <1>4
<1> QED
  BY <1>1, <1>2, <1>3, <1>4, <1>5 DEF Part

LEMMA PartSame ==
  ASSUME NEW S, NEW q \in Seq(S), NEW r \in Seq(S), NEW s, NEW off, Part(q, s, off), Part(r, s, off),
         Len(q) = Len(r)
  PROVE  q = r
<1>1. \A i \in 1..Len(q) : q[i] = r[i]
  BY DEF Part
<1> QED
  BY <1>1, SameSeq

LEMMA ReverseFacts ==
  ASSUME NEW S, NEW q \in Seq(S)
  PROVE  /\ Reverse(q) \in Seq(S) /\ Len(Reverse(q)) = Len(q) /\ Reverse(Reverse(q)) = q
         /\ \A i \in 1..Len(q) : Reverse(q)[i] = q[Len(q) - i + 1]
<1>1. Len(q) \in Nat /\ \A i \in 1..Len(q) : q[i] \in S
  BY SeqFacts
<1>2. \A n \in Nat : \A f \in [1..n -> S] : f \in Seq(S) /\ Len(f) = n
  BY SeqDef, LenProperties
<1>3. PICK r : r = [i \in 1..Len(q) |-> q[(Len(q) - i) + 1]]
  OBVIOUS
<1>4. r \in [1..Len(q) -> S]
  BY <1>1, <1>3
<1>5. r = Reverse(q)
  BY <1>3 DEF Reverse
<1>6. r \in Seq(S) /\ Len(r) = Len(q)
  BY <1>1, <1>2, <1>4
<1>7. PICK u : u = [i \in 1..Len(r) |-> r[(Len(r) - i) + 1]]
  OBVIOUS
<1>8. u = Reverse(r)
  BY <1>7 DEF Reverse
<1>9. \A i \in 1..Len(q) : (Len(q) - i) + 1 \in 1..Len(q) /\ (Len(q) - ((Len(q) - i) + 1)) + 1 = i
  BY <1>1
<1>10. \A i \in 1..Len(q) : u[i] = q[i]
  BY <1>3, <1>6, <1>7, <1>9
<1>11. u \in [1..Len(q) -> S]
  BY <1>1, <1>6, <1>7, <1>10
<1>12. u \in Seq(S) /\ Len(u) = Len(q)
  BY <1>1, <1>2, <1>11
<1>13. u = q
  BY <1>10, <1>12, SameSeq
<1>14. \A i \in 1..Len(q) : r[i] = q[Len(q) - i + 1]
  BY <1>3
<1> QED
  BY <1>5, <1>6, <1>8, <1>13, <1>14

\* Four bytes carry a number.
Small(n) == n \in Nat /\ n < 2147483648

LEMMA WordBack ==
  ASSUME NEW n, Small(n)
  PROVE  /\ htonl(Word(n)) \in Seq(Byte) /\ Len(htonl(Word(n))) = 4
         /\ Number(htonl(htonl(Word(n)))) = n
<1>0. n \in Nat /\ n < 2147483648
  BY SMT DEF Small
<1>1. PICK a : a = n % 256
  OBVIOUS
<1>2. PICK b : b = (n \div 256) % 256
  OBVIOUS
<1>3. PICK c : c = (n \div 65536) % 256
  OBVIOUS
<1>4. PICK d : d = (n \div 16777216) % 256
  OBVIOUS
<1>5. a \in Byte /\ b \in Byte /\ c \in Byte /\ d \in Byte
  BY <1>0, <1>1, <1>2, <1>3, <1>4, SMT DEF Byte
<1>6. a + 256 * b + 65536 * c + 16777216 * d = n
  BY <1>0, <1>1, <1>2, <1>3, <1>4, SMT
<1>7. PICK w : w = Word(n)
  OBVIOUS
<1>8. w = <<a, b, c, d>>
  BY <1>1, <1>2, <1>3, <1>4, <1>7, SMT DEF Word
<1>9. w \in Seq(Byte) /\ Len(w) = 4 /\ w[1] = a /\ w[2] = b /\ w[3] = c /\ w[4] = d
  <2>1. <<a, b, c, d>> \in Seq(Byte) /\ Len(<<a, b, c, d>>) = 4
    BY <1>5, SMT
  <2>2. <<a, b, c, d>>[1] = a /\ <<a, b, c, d>>[2] = b /\ <<a, b, c, d>>[3] = c /\ <<a, b, c, d>>[4] = d
    BY SMT
  <2> QED
    BY <1>8, <2>1, <2>2, SMT
<1>10. Number(w) = n
  BY <1>6, <1>9, SMT DEF Number
<1>11. htonl(w) \in Seq(Byte) /\ Len(htonl(w)) = 4 /\ htonl(htonl(w)) = w
  BY <1>9, ReverseFacts, SMT DEF htonl
<1> QED
  BY <1>7, <1>10, <1>11, SMT

LEMMA NumberType ==
  ASSUME NEW w \in Seq(Byte), Len(w) = 4
  PROVE  Number(htonl(w)) \in Nat
<1>1. PICK r \in Seq(Byte) : r = htonl(w) /\ Len(r) = 4
  BY ReverseFacts DEF htonl
<1>2. \A i \in 1..4 : r[i] \in Byte
  BY <1>1, SeqFacts
<1>3. r[1] \in Byte /\ r[2] \in Byte /\ r[3] \in Byte /\ r[4] \in Byte
  BY <1>2
<1>4. \A b \in Byte : b \in Nat
  BY DEF Byte
<1>5. PICK a \in Nat : a = r[1]
  BY <1>3, <1>4
<1>6. PICK b \in Nat : b = r[2]
  BY <1>3, <1>4
<1>7. PICK c \in Nat : c = r[3]
  BY <1>3, <1>4
<1>8. PICK d \in Nat : d = r[4]
  BY <1>3, <1>4
<1>9. Number(r) = a + 256 * b + 65536 * c + 16777216 * d
  BY <1>5, <1>6, <1>7, <1>8, SMT DEF Number
<1> QED
  BY <1>1, <1>9, SMT

LEMMA NatSet ==
  ASSUME NEW S, S \subseteq Nat, 0 \in S, \A n \in S : n + 1 \in S
  PROVE  S = Nat
<1> SUFFICES ASSUME NEW T, T = {n \in Nat : n \notin S}, T # {} PROVE FALSE
  OBVIOUS
<1>1. \E x \in T : \A y \in T : ~(<<y, x>> \in OpToRel(<, Nat))
  BY WFMin, NatLessThanWellFounded, Zenon
<1>2. PICK x \in T : \A y \in T : ~(y < x)
  BY <1>1 DEF OpToRel
<1>3. x \in Nat /\ x \notin S /\ x # 0
  OBVIOUS
<1>4. x - 1 \in Nat /\ x - 1 < x /\ (x - 1) + 1 = x
  BY <1>3
<1>5. x - 1 \notin T
  BY <1>2, <1>4
<1>6. x - 1 \in S
  BY <1>4, <1>5
<1>7. (x - 1) + 1 \in S
  BY <1>6
<1> QED
  BY <1>3, <1>4, <1>7

\* Inductions over 0..n, upwards and downwards.
LEMMA UpTo ==
  ASSUME NEW n \in Nat, NEW T, T \subseteq 0..n, 0 \in T, \A m \in T : m < n => m + 1 \in T
  PROVE  T = 0..n
<1> DEFINE S == {m \in Nat : m <= n => m \in T}
<1>1. 0 \in S /\ S \subseteq Nat
  OBVIOUS
<1>2. ASSUME NEW m \in S PROVE m + 1 \in S
  <2>1. m \in Nat /\ m + 1 \in Nat /\ (m + 1 <= n => m <= n /\ m < n)
    OBVIOUS
  <2> QED
    BY <2>1
<1>3. S = Nat
  <2> HIDE DEF S
  <2> QED
    BY <1>1, <1>2, NatSet
<1>4. ASSUME NEW k \in 0..n PROVE k \in T
  <2>1. k \in S /\ k <= n
    BY <1>3
  <2> QED
    BY <2>1
<1> QED
  BY <1>4

LEMMA DownTo ==
  ASSUME NEW n \in Nat, NEW T, T \subseteq 0..n, n \in T, \A m \in T : 0 < m => m - 1 \in T
  PROVE  T = 0..n
<1> DEFINE U == {m \in 0..n : n - m \in T}
<1>1. U \subseteq 0..n /\ 0 \in U
  OBVIOUS
<1>2. ASSUME NEW m \in U, m < n PROVE m + 1 \in U
  <2>1. m \in 0..n /\ n - m \in T /\ 0 < n - m /\ (n - m) - 1 = n - (m + 1) /\ m + 1 \in 0..n
    BY <1>2
  <2>2. n - (m + 1) \in T
    BY <2>1
  <2> QED
    BY <2>1, <2>2
<1>3. U = 0..n
  <2> HIDE DEF U
  <2> QED
    BY <1>1, <1>2, UpTo
<1>4. ASSUME NEW k \in 0..n PROVE k \in T
  <2>1. n - k \in 0..n /\ n - (n - k) = k
    OBVIOUS
  <2>2. n - k \in U
    BY <1>3, <2>1
  <2> QED
    BY <2>1, <2>2
<1> QED
  BY <1>4

\* A function over 0..n can be given by its first value and a step.
Recursive(g, V, n, b, G) ==
  g \in [0..n -> V] /\ g[0] = b /\ \A k \in 1..n : g[k] = G[<<g[k - 1], k>>]

LEMMA RecursionExists ==
  ASSUME NEW V, NEW n \in Nat, NEW b \in V, NEW G \in [V \X (1..n) -> V]
  PROVE  \E g : Recursive(g, V, n, b, G)
<1> DEFINE S == {m \in Nat : m <= n => \E g \in [0..m -> V] : g[0] = b /\ \A k \in 1..m : g[k] = G[<<g[k - 1], k>>]}
<1>1. 0 \in S
  <2>1. PICK g : g = [k \in 0..0 |-> b]
    OBVIOUS
  <2>2. g \in [0..0 -> V] /\ g[0] = b /\ \A k \in 1..0 : g[k] = G[<<g[k - 1], k>>]
    BY <2>1
  <2> QED
    BY <2>2
<1>2. ASSUME NEW m \in S PROVE m + 1 \in S
  <2>1. SUFFICES ASSUME m + 1 <= n
                 PROVE  \E h \in [0..(m + 1) -> V] : h[0] = b /\ \A k \in 1..(m + 1) : h[k] = G[<<h[k - 1], k>>]
    OBVIOUS
  <2>2. m \in Nat /\ m <= n /\ m + 1 \in 1..n
    BY <2>1
  <2>3. PICK g \in [0..m -> V] : g[0] = b /\ \A k \in 1..m : g[k] = G[<<g[k - 1], k>>]
    BY <2>2
  <2>4. PICK v \in V : v = G[<<g[m], m + 1>>]
    BY <2>2, <2>3
  <2>5. PICK h : h = [k \in 0..(m + 1) |-> IF k = m + 1 THEN v ELSE g[k]]
    OBVIOUS
  <2>6. h \in [0..(m + 1) -> V]
    BY <2>2, <2>3, <2>4, <2>5
  <2>7. h[m + 1] = v /\ \A k \in 0..m : h[k] = g[k]
    BY <2>2, <2>5
  <2>8. ASSUME NEW k \in 1..(m + 1) PROVE h[k] = G[<<h[k - 1], k>>]
    <3>1. CASE k = m + 1
      <4>1. k - 1 = m /\ m \in 0..m
        BY <2>2, <3>1
      <4>2. h[k - 1] = g[m]
        BY <2>7, <4>1
      <4> QED
        BY <2>4, <2>7, <3>1, <4>2
    <3>2. CASE k # m + 1
      <4>1. k \in 1..m /\ k \in 0..m /\ k - 1 \in 0..m
        BY <2>2, <3>2
      <4>2. h[k] = g[k] /\ h[k - 1] = g[k - 1]
        BY <2>7, <4>1
      <4> QED
        BY <2>3, <4>1, <4>2
    <3> QED
      BY <3>1, <3>2
  <2>9. h[0] = b
    BY <2>2, <2>3, <2>7
  <2> QED
    BY <2>6, <2>8, <2>9
<1>3. S = Nat
  <2> HIDE DEF S
  <2>1. S \subseteq Nat
    BY DEF S
  <2> QED
    BY <1>1, <1>2, <2>1, NatSet
<1>4. PICK g \in [0..n -> V] : g[0] = b /\ \A k \in 1..n : g[k] = G[<<g[k - 1], k>>]
  <2>1. n \in S
    BY <1>3
  <2> QED
    BY <2>1
<1> QED
  BY <1>4 DEF Recursive
\* What the bytes of a field are in a record.
Coded(f) == IF f.int /\ Len(f.bytes) \in {2, 4, 8} THEN Reverse(f.bytes) ELSE f.bytes

LEMMA CodedFacts ==
  ASSUME NEW f \in Field
  PROVE  /\ f.bytes \in Seq(Byte) /\ Coded(f) \in Seq(Byte) /\ Len(Coded(f)) = Len(f.bytes)
         /\ f.bytes = IF f.int /\ Len(f.bytes) \in {2, 4, 8} THEN Reverse(Coded(f)) ELSE Coded(f)
<1>1. f.bytes \in Seq(Byte)
  BY DEF Field
<1>2. /\ Reverse(f.bytes) \in Seq(Byte) /\ Len(Reverse(f.bytes)) = Len(f.bytes)
      /\ Reverse(Reverse(f.bytes)) = f.bytes
  BY <1>1, ReverseFacts
<1>3. CASE f.int /\ Len(f.bytes) \in {2, 4, 8}
  BY <1>1, <1>2, <1>3, Zenon DEF Coded
<1>4. CASE ~(f.int /\ Len(f.bytes) \in {2, 4, 8})
  BY <1>1, <1>4, Zenon DEF Coded
<1> QED
  BY <1>3, <1>4

\* The field was taken: its length and its bytes are behind what was there.
Takes(b, f, c) ==
  /\ c = b \o htonl(Word(Len(Coded(f)))) \o Coded(f)
  /\ Len(b) + Len(f.bytes) <= OutLen

LEMMA PushIs ==
  ASSUME NEW b \in Seq(Byte), NEW f \in Field
  PROVE  Push(b, f) = b \/ Takes(b, f, Push(b, f))
<1>1. PICK c \in Seq(Byte) : c = Coded(f) /\ Len(c) = Len(f.bytes)
  BY CodedFacts
<1>2. Push(b, f) = proto_encode(b, OutLen, c)
  <2>1. CASE f.int
    BY <1>1, <2>1, Zenon DEF Push, proto_encode_int, Coded
  <2>2. CASE ~f.int
    BY <1>1, <2>2, Zenon DEF Push, Coded
  <2> QED
    BY <2>1, <2>2
<1>3. CASE OutLen < Len(c) \/ OutLen < Len(b) + Len(c)
  BY <1>2, <1>3, Zenon DEF proto_encode
<1>4. CASE ~(OutLen < Len(c) \/ OutLen < Len(b) + Len(c))
  <2>1. Push(b, f) = b \o htonl(Word(Len(c))) \o c
    BY <1>2, <1>4, Zenon DEF proto_encode
  <2>2. Len(b) \in Nat /\ Len(c) \in Nat /\ OutLen \in Nat
    BY SeqFacts, ProtoAssumption, SMT DEF ProtoAssumption
  <2>3. Len(b) + Len(c) <= OutLen
    BY <1>4, <2>2, SMT
  <2> QED
    BY <1>1, <2>1, <2>3, Zenon DEF Takes
<1> QED
  BY <1>3, <1>4

LEMMA TakesFacts ==
  ASSUME NEW b \in Seq(Byte), NEW f \in Field, NEW c, Takes(b, f, c)
  PROVE  /\ c \in Seq(Byte) /\ Len(c) = Len(b) + 4 + Len(f.bytes) /\ Len(c) <= OutLen + 4
         /\ Number(htonl(htonl(Word(Len(Coded(f)))))) = Len(f.bytes)
         /\ htonl(Word(Len(Coded(f)))) \in Seq(Byte) /\ Len(htonl(Word(Len(Coded(f))))) = 4
<1>1. PICK d \in Seq(Byte) : d = Coded(f) /\ Len(d) = Len(f.bytes)
  BY CodedFacts
<1>2. PICK n \in Nat : n = Len(d)
  BY SeqFacts
<1>3. OutLen \in Nat /\ OutLen + 4 < 2147483648 /\ Len(b) \in Nat
  BY ProtoAssumption, SeqFacts, SMT DEF ProtoAssumption
<1>4. Len(b) + n <= OutLen
  BY <1>1, <1>2, SMT DEF Takes
<1>5. Small(n)
  BY <1>3, <1>4, SMT DEF Small
<1>6. PICK h \in Seq(Byte) : h = htonl(Word(n)) /\ Len(h) = 4 /\ Number(htonl(h)) = n
  BY <1>5, WordBack, SMT
<1>7. PICK e \in Seq(Byte) : e = b \o h /\ Len(e) = Len(b) + Len(h)
  BY ConcatFacts, Zenon
<1>8. PICK a \in Seq(Byte) : a = e \o d /\ Len(a) = Len(e) + Len(d)
  BY ConcatFacts, Zenon
<1>12. Len(a) = Len(b) + 4 + n
  BY <1>2, <1>3, <1>6, <1>7, <1>8, SMT
<1>9. c = a
  BY <1>1, <1>2, <1>6, <1>7, <1>8, Zenon DEF Takes
<1>10. Len(b) + 4 + n <= OutLen + 4
  BY <1>3, <1>4, SMT
<1>11. htonl(Word(Len(Coded(f)))) = h
  BY <1>1, <1>2, <1>6, Zenon
<1> QED
  <2>1. c \in Seq(Byte) /\ Len(c) = Len(b) + 4 + n /\ Len(c) <= OutLen + 4
    BY <1>8, <1>9, <1>10, <1>12, SMT
  <2> QED
    BY <1>1, <1>2, <1>6, <1>11, <2>1, Zenon

LEMMA PushedIs ==
  ASSUME NEW fields \in Seq(Field)
  PROVE  /\ Pushed(fields) \in [0..Len(fields) -> Seq(Byte)] /\ Pushed(fields)[0] = <<>>
         /\ \A k \in 1..Len(fields) : Pushed(fields)[k] = Push(Pushed(fields)[k - 1], fields[k])
<1>1. PICK n \in Nat : n = Len(fields) /\ \A k \in 1..n : fields[k] \in Field
  BY SeqFacts
<1>2. PICK G : G = [x \in Seq(Byte) \X (1..n) |-> Push(x[1], fields[x[2]])]
  OBVIOUS
<1>3. ASSUME NEW b \in Seq(Byte), NEW k \in 1..n PROVE Push(b, fields[k]) \in Seq(Byte)
  BY <1>1, PushIs, TakesFacts
<1>4. G \in [Seq(Byte) \X (1..n) -> Seq(Byte)]
  BY <1>2, <1>3
<1>5. \A b \in Seq(Byte) : \A k \in 1..n : G[<<b, k>>] = Push(b, fields[k])
  BY <1>2
<1>6. PICK empty \in Seq(Byte) : empty = <<>>
  <2>1. <<>> \in Seq(Byte)
    OBVIOUS
  <2> QED
    BY <2>1, Zenon
<1>7. PICK g \in [0..n -> Seq(Byte)] : g[0] = empty /\ \A k \in 1..n : g[k] = G[<<g[k - 1], k>>]
  <2>1. \E g : Recursive(g, Seq(Byte), n, empty, G)
    BY <1>4, RecursionExists
  <2> QED
    BY <2>1 DEF Recursive
<1>8. \A k \in 1..n : g[k] = Push(g[k - 1], fields[k])
  <2>2. \A k \in 1..n : k - 1 \in 0..n
    BY <1>1
  <2> QED
    BY <1>5, <1>7, <2>2
<1> DEFINE Eq(h) == h = [k \in 0..Len(fields) |-> IF k = 0 THEN <<>> ELSE Push(h[k - 1], fields[k])]
<1>9. Eq(g)
  <2>1. \A k \in 0..n : g[k] = IF k = 0 THEN <<>> ELSE Push(g[k - 1], fields[k])
    BY <1>1, <1>6, <1>7, <1>8
  <2> QED
    BY <1>1, <2>1
<1>10. Pushed(fields) = CHOOSE h : Eq(h)
  BY DEF Pushed
<1>11. Eq(Pushed(fields))
  <2> HIDE DEF Eq
  <2> QED
    BY <1>9, <1>10
<1>12. PICK h : h = Pushed(fields)
  OBVIOUS
<1>13. h = [k \in 0..n |-> IF k = 0 THEN <<>> ELSE Push(h[k - 1], fields[k])]
  BY <1>1, <1>11, <1>12
<1>14. DOMAIN h = 0..n /\ \A k \in 0..n : h[k] = IF k = 0 THEN <<>> ELSE Push(h[k - 1], fields[k])
  BY <1>13
<1>15. h[0] = <<>>
  <2>1. 0 \in 0..n
    OBVIOUS
  <2>2. h[0] = IF 0 = 0 THEN <<>> ELSE Push(h[0 - 1], fields[0])
    BY <1>14, <2>1, Zenon
  <2> QED
    BY <2>2, Zenon
<1>16. \A k \in 1..n : h[k] = Push(h[k - 1], fields[k])
  <2>1. \A k \in 1..n : k \in 0..n /\ k # 0
    OBVIOUS
  <2> QED
    BY <1>14, <2>1, Zenon
<1>17. h \in [0..n -> Seq(Byte)]
  <2> DEFINE T == {m \in 0..n : h[m] \in Seq(Byte)}
  <2>1. T \subseteq 0..n /\ 0 \in T
    <3>1. h[0] \in Seq(Byte)
      BY <1>6, <1>15, Zenon
    <3> QED
      BY <3>1
  <2>2. ASSUME NEW m \in T, m < n PROVE m + 1 \in T
    <3>1. h[m] \in Seq(Byte) /\ m + 1 \in 1..n /\ (m + 1) - 1 = m
      BY <2>2
    <3>2. h[m + 1] = Push(h[m], fields[m + 1])
      BY <1>16, <3>1
    <3>3. h[m + 1] \in Seq(Byte)
      BY <1>3, <3>1, <3>2, Zenon
    <3>4. m + 1 \in 0..n
      BY <3>1
    <3> QED
      BY <3>3, <3>4
  <2>3. T = 0..n
    <3> HIDE DEF T
    <3> QED
      BY <2>1, <2>2, UpTo
  <2>4. \A k \in 0..n : h[k] \in Seq(Byte)
    BY <2>3
  <2>5. h = [k \in 0..n |-> h[k]]
    BY <1>13, Zenon
  <2> QED
    BY <2>4, <2>5
<1> QED
  BY <1>1, <1>12, <1>15, <1>16, <1>17, Zenon
LEMMA EndsIs ==
  ASSUME NEW fields \in Seq(Field)
  PROVE  /\ Ends(fields) \in [0..Len(fields) -> Nat] /\ Ends(fields)[0] = 0
         /\ \A k \in 1..Len(fields) : Ends(fields)[k] = Ends(fields)[k - 1] + 4 + Len(fields[k].bytes)
<1>1. PICK n \in Nat : n = Len(fields) /\ \A k \in 1..n : fields[k] \in Field
  BY SeqFacts
<1>2. ASSUME NEW k \in 1..n PROVE Len(fields[k].bytes) \in Nat
  BY <1>1, CodedFacts, SeqFacts
<1>3. PICK l \in [1..n -> Nat] : \A k \in 1..n : l[k] = Len(fields[k].bytes)
  <2>1. [k \in 1..n |-> Len(fields[k].bytes)] \in [1..n -> Nat]
    BY <1>2
  <2> QED
    BY <2>1
<1>4. \A b \in Nat : \A k \in 1..n : b + 4 + Len(fields[k].bytes) \in Nat
  <2>1. \A b \in Nat : \A k \in 1..n : b + 4 + l[k] \in Nat
    BY <1>3
  <2> QED
    BY <1>3, <2>1, Zenon
<1>5. PICK G \in [Nat \X (1..n) -> Nat] : \A b \in Nat : \A k \in 1..n : G[<<b, k>>] = b + 4 + l[k]
  <2>1. PICK G : G = [x \in Nat \X (1..n) |-> x[1] + 4 + l[x[2]]]
    OBVIOUS
  <2>2. G \in [Nat \X (1..n) -> Nat]
    BY <1>3, <2>1
  <2>3. \A b \in Nat : \A k \in 1..n : G[<<b, k>>] = b + 4 + l[k]
    BY <2>1
  <2> QED
    BY <2>2, <2>3
<1>6. \A b \in Nat : \A k \in 1..n : G[<<b, k>>] = b + 4 + Len(fields[k].bytes)
  BY <1>3, <1>5, Zenon
<1>7. PICK g \in [0..n -> Nat] : g[0] = 0 /\ \A k \in 1..n : g[k] = G[<<g[k - 1], k>>]
  <2>1. \E g : Recursive(g, Nat, n, 0, G)
    BY <1>5, RecursionExists
  <2> QED
    BY <2>1 DEF Recursive
<1>8. \A k \in 1..n : g[k] = g[k - 1] + 4 + Len(fields[k].bytes)
  <2>1. \A k \in 1..n : k - 1 \in 0..n
    OBVIOUS
  <2>2. \A k \in 0..n : g[k] \in Nat
    BY <1>7
  <2> QED
    BY <1>6, <1>7, <2>1, <2>2, Zenon
<1> DEFINE Eq(h) == h = [k \in 0..Len(fields) |-> IF k = 0 THEN 0 ELSE h[k - 1] + 4 + Len(fields[k].bytes)]
<1>9. Eq(g)
  <2>1. \A k \in 0..n : g[k] = IF k = 0 THEN 0 ELSE g[k - 1] + 4 + Len(fields[k].bytes)
    BY <1>1, <1>7, <1>8
  <2> QED
    BY <1>1, <2>1
<1>10. Ends(fields) = CHOOSE h : Eq(h)
  BY DEF Ends
<1>11. Eq(Ends(fields))
  <2> HIDE DEF Eq
  <2> QED
    BY <1>9, <1>10
<1>12. PICK h : h = Ends(fields)
  OBVIOUS
<1>13. h = [k \in 0..n |-> IF k = 0 THEN 0 ELSE h[k - 1] + 4 + Len(fields[k].bytes)]
  BY <1>1, <1>11, <1>12
<1>14. DOMAIN h = 0..n /\ \A k \in 0..n : h[k] = IF k = 0 THEN 0 ELSE h[k - 1] + 4 + Len(fields[k].bytes)
  BY <1>13
<1>15. h[0] = 0
  <2>1. 0 \in 0..n
    OBVIOUS
  <2>2. h[0] = IF 0 = 0 THEN 0 ELSE h[0 - 1] + 4 + Len(fields[0].bytes)
    BY <1>14, <2>1, Zenon
  <2> QED
    BY <2>2, Zenon
<1>16. \A k \in 1..n : h[k] = h[k - 1] + 4 + Len(fields[k].bytes)
  <2>1. \A k \in 1..n : k \in 0..n /\ k # 0
    OBVIOUS
  <2> QED
    BY <1>14, <2>1, Zenon
<1>17. h \in [0..n -> Nat]
  <2> DEFINE T == {m \in 0..n : h[m] \in Nat}
  <2>1. T \subseteq 0..n /\ 0 \in T
    BY <1>15
  <2>2. ASSUME NEW m \in T, m < n PROVE m + 1 \in T
    <3>1. h[m] \in Nat /\ m + 1 \in 1..n /\ (m + 1) - 1 = m
      BY <2>2
    <3>2. h[m + 1] = h[m] + 4 + Len(fields[m + 1].bytes)
      BY <1>16, <3>1
    <3>3. h[m + 1] \in Nat
      BY <1>4, <3>1, <3>2, Zenon
    <3>4. m + 1 \in 0..n
      BY <3>1
    <3> QED
      BY <3>3, <3>4
  <2>3. T = 0..n
    <3> HIDE DEF T
    <3> QED
      BY <2>1, <2>2, UpTo
  <2>4. \A k \in 0..n : h[k] \in Nat
    BY <2>3
  <2>5. h = [k \in 0..n |-> h[k]]
    BY <1>13, Zenon
  <2> QED
    BY <2>4, <2>5
<1> QED
  BY <1>1, <1>12, <1>15, <1>16, <1>17, Zenon

\* The record of a call.
Made(fields) == Pushed(fields)[Len(fields)]

\* A record's length fits a uint32_t with room to spare.
LEMMA MadeFacts ==
  ASSUME NEW fields \in Seq(Field)
  PROVE  Made(fields) \in Seq(Byte) /\ Small(Len(Made(fields)))
<1>1. PICK g : g = Pushed(fields)
  OBVIOUS
<1>2. PICK n \in Nat : n = Len(fields) /\ \A k \in 1..n : fields[k] \in Field
  BY SeqFacts
<1>3. g \in [0..n -> Seq(Byte)] /\ g[0] = <<>> /\ \A k \in 1..n : g[k] = Push(g[k - 1], fields[k])
  BY <1>1, <1>2, PushedIs
<1>4. OutLen \in Nat /\ OutLen + 4 < 2147483648
  BY ProtoAssumption, SMT DEF ProtoAssumption
<1> DEFINE T == {m \in 0..n : Len(g[m]) <= OutLen + 4}
<1>5. T \subseteq 0..n /\ 0 \in T
  <2>1. Len(g[0]) = 0
    BY <1>3, Zenon, EmptySeq
  <2> QED
    BY <1>4, <2>1, SMT
<1>6. ASSUME NEW m \in T, m < n PROVE m + 1 \in T
  <2>1. m \in 0..n /\ m + 1 \in 1..n /\ m + 1 \in 0..n /\ (m + 1) - 1 = m /\ Len(g[m]) <= OutLen + 4
    BY <1>6
  <2>2. g[m] \in Seq(Byte) /\ fields[m + 1] \in Field /\ g[m + 1] = Push(g[m], fields[m + 1])
    BY <1>2, <1>3, <2>1
  <2>3. Len(g[m + 1]) <= OutLen + 4
    <3>1. CASE g[m + 1] = g[m]
      BY <2>1, <3>1, Zenon
    <3>2. CASE Takes(g[m], fields[m + 1], g[m + 1])
      BY <2>2, <3>2, TakesFacts, Zenon
    <3> QED
      BY <2>2, <3>1, <3>2, PushIs, Zenon
  <2> QED
    BY <2>1, <2>3
<1>7. T = 0..n
  <2> HIDE DEF T
  <2> QED
    BY <1>5, <1>6, UpTo
<1>8. n \in T
  BY <1>7
<1>9. PICK d \in Seq(Byte) : d = g[n]
  BY <1>3
<1>10. Len(d) \in Nat /\ Len(d) <= OutLen + 4
  BY <1>8, <1>9, SeqFacts
<1>11. Small(Len(d))
  BY <1>4, <1>10, SMT DEF Small
<1> QED
  BY <1>1, <1>2, <1>9, <1>11, Zenon DEF Made

LEMMA PartIs ==
  ASSUME NEW S, NEW q \in Seq(S), NEW s \in Seq(S), NEW off \in Nat, Part(q, s, off)
  PROVE  SubSeq(s, off + 1, off + Len(q)) = q
<1>1. PICK n \in Nat : n = Len(q)
  BY SeqFacts
<1>2. Len(s) \in Nat /\ off + n <= Len(s) /\ \A i \in 1..n : q[i] = s[off + i]
  BY <1>1, SeqFacts DEF Part
<1>3. PICK c : c = SubSeq(s, off + 1, off + n)
  OBVIOUS
<1>4. c \in Seq(S) /\ Len(c) = n /\ \A i \in 1..n : c[i] = s[off + i]
  <2>1. off + 1 \in 1..(Len(s) + 1) /\ off + n \in (off + 1 - 1)..Len(s)
    BY <1>2
  <2>2. /\ c \in Seq(S)
        /\ Len(c) = IF off + 1 <= off + n THEN off + n - (off + 1) + 1 ELSE 0
        /\ \A i \in 1..(off + n - (off + 1) + 1) : c[i] = s[off + 1 + i - 1]
    BY <1>2, <1>3, <2>1, SubSeqProperties
  <2>3. off + n - (off + 1) + 1 = n /\ \A i \in 1..n : off + 1 + i - 1 = off + i
    OBVIOUS
  <2> QED
    BY <2>2, <2>3
<1>5. c = q
  BY <1>1, <1>2, <1>4, SameSeq
<1> QED
  BY <1>1, <1>3, <1>5

LEMMA Decoded ==
  ASSUME NEW D \in Seq(Byte), NEW off \in Nat, NEW h \in Seq(Byte), NEW c \in Seq(Byte), Len(h) = 4,
         Number(htonl(h)) = Len(c), Part(h, D, off), Part(c, D, off + 4)
  PROVE  proto_decode(D, off, Len(c)) = c
<1>1. SubSeq(D, off + 1, off + 4) = h
  BY PartIs
<1>2. SubSeq(D, off + 5, off + 4 + Len(c)) = c
  <2>1. SubSeq(D, (off + 4) + 1, (off + 4) + Len(c)) = c
    BY PartIs
  <2>2. (off + 4) + 1 = off + 5
    OBVIOUS
  <2> QED
    BY <2>1, <2>2
<1>3. off < Len(D) /\ Len(D) \in Nat /\ Len(c) \in Nat
  BY SeqFacts DEF Part
<1>4. ~(off >= Len(D) \/ Number(htonl(h)) > Len(c))
  BY <1>3
<1> QED
  BY <1>1, <1>2, <1>4 DEF proto_decode

\* When a record has the length of all its fields, every field was taken.
LEMMA FieldsBack ==
  ASSUME NEW fields \in Seq(Field), NEW D, D = Made(fields), Len(D) = Ends(fields)[Len(fields)],
         NEW f \in 1..Len(fields)
  PROVE  Pop(D, Ends(fields)[f - 1], fields[f]) = fields[f].bytes
<1>1. PICK n \in Nat : n = Len(fields) /\ \A k \in 1..n : fields[k] \in Field
  BY SeqFacts
<1>2. PICK g \in [0..n -> Seq(Byte)] :
        g = Pushed(fields) /\ g[0] = <<>> /\ \A k \in 1..n : g[k] = Push(g[k - 1], fields[k])
  BY <1>1, PushedIs
<1>3. PICK e \in [0..n -> Nat] :
        e = Ends(fields) /\ e[0] = 0 /\ \A k \in 1..n : e[k] = e[k - 1] + 4 + Len(fields[k].bytes)
  BY <1>1, EndsIs
<1>4. D \in Seq(Byte) /\ D = g[n] /\ Len(g[n]) = e[n]
  BY <1>1, <1>2, <1>3, MadeFacts DEF Made
<1>5. ASSUME NEW k \in 1..n
      PROVE  /\ k - 1 \in 0..n /\ k \in 0..n /\ fields[k] \in Field /\ g[k - 1] \in Seq(Byte) /\ g[k] \in Seq(Byte)
             /\ e[k - 1] \in Nat /\ Len(g[k - 1]) \in Nat /\ Len(fields[k].bytes) \in Nat
             /\ g[k] = g[k - 1] \/ Takes(g[k - 1], fields[k], g[k])
  <2>1. k - 1 \in 0..n /\ k \in 0..n
    BY <1>1
  <2>2. fields[k] \in Field /\ g[k - 1] \in Seq(Byte) /\ g[k] \in Seq(Byte) /\ e[k - 1] \in Nat
    BY <1>1, <1>2, <1>3, <2>1
  <2>3. Len(g[k - 1]) \in Nat /\ Len(fields[k].bytes) \in Nat
    BY <2>2, SeqFacts, CodedFacts
  <2>4. g[k] = g[k - 1] \/ Takes(g[k - 1], fields[k], g[k])
    BY <1>2, <2>2, PushIs, Zenon
  <2> QED
    BY <2>1, <2>2, <2>3, <2>4
<1>6. \A k \in 0..n : Len(g[k]) <= e[k]
  <2> DEFINE T == {m \in 0..n : Len(g[m]) <= e[m]}
  <2>1. T \subseteq 0..n /\ 0 \in T
    <3>1. Len(g[0]) = 0
      BY <1>2, Zenon, EmptySeq
    <3> QED
      BY <1>3, <3>1
  <2>2. ASSUME NEW m \in T, m < n PROVE m + 1 \in T
    <3>1. m + 1 \in 1..n /\ m + 1 \in 0..n /\ (m + 1) - 1 = m /\ Len(g[m]) <= e[m]
      BY <2>2
    <3>2. /\ e[m] \in Nat /\ Len(g[m]) \in Nat /\ Len(fields[m + 1].bytes) \in Nat
          /\ g[m] \in Seq(Byte) /\ fields[m + 1] \in Field
          /\ g[m + 1] = g[m] \/ Takes(g[m], fields[m + 1], g[m + 1])
          /\ e[m + 1] = e[m] + 4 + Len(fields[m + 1].bytes)
      BY <1>3, <1>5, <3>1
    <3>3. Len(g[m + 1]) = Len(g[m]) \/ Len(g[m + 1]) = Len(g[m]) + 4 + Len(fields[m + 1].bytes)
      BY <3>2, TakesFacts, Zenon
    <3>4. Len(g[m + 1]) <= e[m + 1]
      <4>1. PICK x \in Nat : x = Len(g[m])
        BY <3>2
      <4>2. PICK y \in Nat : y = e[m]
        BY <3>2
      <4>3. PICK l \in Nat : l = Len(fields[m + 1].bytes)
        BY <3>2
      <4>4. (Len(g[m + 1]) = x \/ Len(g[m + 1]) = x + 4 + l) /\ e[m + 1] = y + 4 + l /\ x <= y
        BY <3>1, <3>2, <3>3, <4>1, <4>2, <4>3, Zenon
      <4> QED
        BY <4>4, SMTT(30)
    <3> QED
      BY <3>1, <3>4
  <2>3. T = 0..n
    <3> HIDE DEF T
    <3> QED
      BY <2>1, <2>2, UpTo
  <2> QED
    BY <2>3
<1>7. \A k \in 0..n : Len(g[k]) = e[k] /\ Part(g[k], D, 0)
  <2> DEFINE T == {m \in 0..n : Len(g[m]) = e[m] /\ Part(g[m], D, 0)}
  <2>1. T \subseteq 0..n /\ n \in T
    <3>1. Part(D, D, 0)
      BY <1>4, SeqFacts DEF Part
    <3> QED
      BY <1>4, <3>1
  <2>2. ASSUME NEW m \in T, 0 < m PROVE m - 1 \in T
    <3>1. m \in 1..n /\ Len(g[m]) = e[m] /\ Part(g[m], D, 0)
      BY <2>2
    <3>2. Len(g[m - 1]) <= e[m - 1]
      BY <1>5, <1>6, <3>1
    <3>3. e[m] = e[m - 1] + 4 + Len(fields[m].bytes)
      BY <1>3, <3>1
    <3>9. PICK x \in Nat : x = Len(g[m - 1])
      BY <1>5, <3>1
    <3>10. PICK y \in Nat : y = e[m - 1]
      BY <1>5, <3>1
    <3>11. PICK l \in Nat : l = Len(fields[m].bytes)
      BY <1>5, <3>1
    <3>12. Len(g[m]) = y + 4 + l /\ x <= y
      BY <3>1, <3>2, <3>3, <3>9, <3>10, <3>11, Zenon
    <3>4. g[m] # g[m - 1]
      <4>1. Len(g[m]) # x
        BY <3>12
      <4> QED
        BY <3>9, <4>1, Zenon
    <3>5. Takes(g[m - 1], fields[m], g[m])
      BY <1>5, <3>1, <3>4, Zenon
    <3>6. Len(g[m - 1]) = e[m - 1]
      <4>1. Len(g[m]) = x + 4 + l
        BY <1>5, <3>1, <3>5, <3>9, <3>11, TakesFacts, Zenon
      <4>2. x = y
        BY <3>12, <4>1
      <4> QED
        BY <3>9, <3>10, <4>2
    <3>7. Part(g[m - 1], D, 0)
      <4>1. PICK b \in Seq(Byte) : b = g[m - 1]
        BY <1>5, <3>1
      <4>2. PICK h \in Seq(Byte) : h = htonl(Word(Len(Coded(fields[m]))))
        BY <1>5, <3>1, <3>5, TakesFacts, Zenon
      <4>3. PICK c \in Seq(Byte) : c = Coded(fields[m])
        BY <1>5, <3>1, CodedFacts, Zenon
      <4>4. g[m] = b \o h \o c
        BY <3>5, <4>1, <4>2, <4>3, Zenon DEF Takes
      <4>5. PICK a \in Seq(Byte) : a = b \o h
        BY ConcatFacts, Zenon
      <4>6. Part(a \o c, D, 0)
        BY <3>1, <4>4, <4>5, Zenon
      <4>7. Part(a, D, 0)
        BY <1>4, <4>6, PartJoin
      <4>8. Part(b, D, 0)
        BY <1>4, <4>5, <4>7, PartJoin
      <4> QED
        BY <4>1, <4>8
    <3>8. m - 1 \in 0..n
      BY <3>1
    <3> QED
      BY <3>6, <3>7, <3>8
  <2>3. T = 0..n
    <3> HIDE DEF T
    <3> QED
      BY <2>1, <2>2, DownTo
  <2> QED
    BY <2>3
<1>8. f \in 1..n
  BY <1>1
<1>9. PICK b \in Seq(Byte) : b = g[f - 1] /\ Len(b) = e[f - 1]
  BY <1>5, <1>7, <1>8
<1>10. Takes(b, fields[f], g[f])
  <2>1. e[f] = e[f - 1] + 4 + Len(fields[f].bytes) /\ Len(g[f]) = e[f]
    BY <1>3, <1>5, <1>7, <1>8
  <2>2. g[f] # g[f - 1]
    BY <1>5, <1>8, <1>9, <2>1, SMTT(30)
  <2> QED
    BY <1>5, <1>8, <1>9, <2>2
<1>11. PICK h \in Seq(Byte) : /\ h = htonl(Word(Len(Coded(fields[f])))) /\ Len(h) = 4
                              /\ Number(htonl(h)) = Len(fields[f].bytes)
  BY <1>5, <1>8, <1>10, TakesFacts, Zenon
<1>12. PICK c \in Seq(Byte) : c = Coded(fields[f]) /\ Len(c) = Len(fields[f].bytes)
  BY <1>5, <1>8, CodedFacts, Zenon
<1>13. Part(h, D, e[f - 1]) /\ Part(c, D, e[f - 1] + 4)
  <2>1. PICK a \in Seq(Byte) : a = b \o h /\ Len(a) = Len(b) + Len(h)
    <3>1. b \o h \in Seq(Byte) /\ Len(b \o h) = Len(b) + Len(h)
      BY ConcatFacts
    <3> QED
      BY <3>1, Zenon
  <2>2. g[f] = a \o c
    BY <1>10, <1>11, <1>12, <2>1, Zenon DEF Takes
  <2>3. Part(a \o c, D, 0)
    BY <1>5, <1>7, <1>8, <2>2
  <2>4. Part(a, D, 0) /\ Part(c, D, 0 + Len(a))
    BY <1>4, <2>3, PartJoin
  <2>5. Part(h, D, 0 + Len(b))
    BY <1>4, <2>1, <2>4, PartJoin
  <2>6. Len(b) \in Nat /\ 0 + Len(b) = e[f - 1] /\ 0 + Len(a) = e[f - 1] + 4
    <3>1. PICK x \in Nat : x = e[f - 1]
      BY <1>5, <1>8
    <3>2. Len(b) = x /\ Len(a) = x + 4
      BY <1>9, <1>11, <2>1, <3>1
    <3>3. Len(b) \in Nat /\ 0 + Len(b) = x /\ 0 + Len(a) = x + 4
      BY <3>2
    <3> QED
      BY <3>1, <3>3, Zenon
  <2> QED
    BY <2>4, <2>5, <2>6
<1>14. proto_decode(D, e[f - 1], Len(fields[f].bytes)) = c
  <2>1. e[f - 1] \in Nat
    BY <1>5, <1>8
  <2>2. proto_decode(D, e[f - 1], Len(c)) = c
    BY <1>4, <1>11, <1>12, <1>13, <2>1, Decoded
  <2> QED
    BY <1>12, <2>2
<1>15. fields[f].bytes = IF fields[f].int /\ Len(fields[f].bytes) \in {2, 4, 8} THEN Reverse(c) ELSE c
  BY <1>5, <1>8, <1>12, CodedFacts, Zenon
<1> QED
  BY <1>3, <1>14, <1>15, Zenon DEF Pop

-----------------------------------------------------------------------------
(* The inductive invariant: what has been read and what is on its way. *)

ProtoTypeOK ==
  /\ reader \in {"readvrec", "readvrec1"} /\ phase \in {"head", "body", "end"} /\ open \in BOOLEAN
  /\ calls \in Seq(Seq(Field)) /\ sent \in Seq(Record) /\ got \in Seq(Seq(Byte))
  /\ wbuf \in Seq(Byte) /\ wire \in Seq(Byte) /\ acc \in Seq(Byte) /\ buf \in Seq(Byte)
  /\ need \in Nat
  /\ phase = "head" => need + Len(acc) = 4
  /\ reader = "readvrec1" => Len(buf) = InLen

\* What was written is what the fields of the calls make.
MadeInv == \A k \in DOMAIN sent : sent[k].data = Made(sent[k].fields)

\* None of the first n records of r is cut off.
Fit(r, n) == \A j \in 1..n : reader = "readvrec" \/ Len(r[j].data) <= InLen

\* The frames of the records r, one behind the other, are s.
Framed(r, s, p) ==
  /\ p[1] = 0 /\ p[Len(r) + 1] = Len(s)
  /\ \A k \in 1..Len(r) : p[k + 1] = p[k] + 4 + Len(r[k].data) /\ Part(PushHead(r[k].data), s, p[k])

\* a was read behind c bytes of s, and w and b are still to be read.
Carries(s, c, a, w, b, o) ==
  /\ Part(a, s, c) /\ Part(w, s, c + Len(a)) /\ Part(b, s, c + Len(a) + Len(w))
  /\ o => c + Len(a) + Len(w) + Len(b) = Len(s)

\* Where the reader is in s.
Reads(s, p) ==
  \/ phase = "head" /\ Carries(s, p[Len(got) + 1], acc, wire, wbuf, open)
  \/ /\ phase = "body" /\ Len(got) < Len(sent)
     /\ Carries(s, p[Len(got) + 1] + 4, acc, wire, wbuf, open)
     /\ need + Len(acc) = Wanted(Len(sent[Len(got) + 1].data)) /\ need + Len(acc) <= Len(buf)

FlightInv ==
  phase # "end" /\ Fit(sent, Len(got)) =>
    /\ Len(got) <= Len(sent)
    /\ \E s \in Seq(Byte) : \E p \in [1..(Len(sent) + 1) -> Nat] : Framed(sent, s, p) /\ Reads(s, p)

DoneInv ==
  \A i \in DOMAIN got : Fit(sent, i - 1) =>
    i \in DOMAIN sent /\ got[i] = SubSeq(sent[i].data, 1, Wanted(Len(sent[i].data)))

ProtoInv == ProtoTypeOK /\ MadeInv /\ FlightInv /\ DoneInv

LEMMA CarriesWrite ==
  ASSUME NEW s \in Seq(Byte), NEW c \in Nat, NEW a \in Seq(Byte), NEW w \in Seq(Byte), NEW b \in Seq(Byte),
         NEW o, Carries(s, c, a, w, b, o), NEW k \in 0..Len(b)
  PROVE  Carries(s, c, a, w \o SubSeq(b, 1, k), SubSeq(b, k + 1, Len(b)), o)
<1>0. /\ SubSeq(b, 1, k) \in Seq(Byte) /\ Len(SubSeq(b, 1, k)) = k
      /\ SubSeq(b, k + 1, Len(b)) \in Seq(Byte) /\ Len(SubSeq(b, k + 1, Len(b))) = Len(b) - k
  BY CutFacts
<1>1. PICK x \in Seq(Byte) : x = SubSeq(b, 1, k) /\ Len(x) = k
  BY <1>0, Zenon
<1>2. PICK y \in Seq(Byte) : y = SubSeq(b, k + 1, Len(b)) /\ Len(y) = Len(b) - k
  BY <1>0, Zenon
<1>3. PICK v : v = w \o x
  OBVIOUS
<1>4. v \in Seq(Byte) /\ Len(v) = Len(w) + Len(x)
  BY <1>3, ConcatFacts
<1>5. PICK la \in Nat : la = Len(a)
  BY SeqFacts
<1>6. PICK lw \in Nat : lw = Len(w)
  BY SeqFacts
<1>7. PICK lb \in Nat : lb = Len(b)
  BY SeqFacts
<1>8. Part(a, s, c) /\ Part(w, s, c + la) /\ Part(b, s, c + la + lw) /\ (o => c + la + lw + lb = Len(s))
  BY <1>5, <1>6, <1>7 DEF Carries
<1>9. Part(x, s, c + la + lw) /\ Part(y, s, (c + la + lw) + k)
  <2>1. c + la + lw \in Nat
    OBVIOUS
  <2> QED
    BY <1>1, <1>2, <1>8, <2>1, PartCut
<1>10. Part(v, s, c + la)
  <2>1. c + la \in Nat
    OBVIOUS
  <2>2. Part(x, s, (c + la) + Len(w))
    BY <1>6, <1>9
  <2> QED
    BY <1>3, <1>8, <2>1, <2>2, PartJoin
<1>11. /\ (c + la + lw) + k = c + la + Len(v)
       /\ (c + la + lw + lb = Len(s) => c + la + Len(v) + Len(y) = Len(s))
  <2>1. Len(v) = lw + k /\ Len(y) = lb - k /\ k \in 0..lb
    BY <1>1, <1>2, <1>4, <1>6, <1>7, Zenon
  <2>2. PICK ls \in Nat : ls = Len(s)
    BY SeqFacts
  <2>3. k \in Int
    BY <2>1
  <2>4. /\ (c + la + lw) + k = c + la + (lw + k)
        /\ (c + la + lw + lb = ls => c + la + (lw + k) + (lb - k) = ls)
    BY <2>3
  <2> QED
    BY <2>1, <2>2, <2>4, Zenon
<1>12. Carries(s, c, a, v, y, o)
  BY <1>5, <1>8, <1>9, <1>10, <1>11, Zenon DEF Carries
<1> QED
  BY <1>1, <1>2, <1>3, <1>12, Zenon

LEMMA CarriesRead ==
  ASSUME NEW s \in Seq(Byte), NEW c \in Nat, NEW a \in Seq(Byte), NEW w \in Seq(Byte), NEW b \in Seq(Byte),
         NEW o, Carries(s, c, a, w, b, o), NEW k \in 0..Len(w)
  PROVE  Carries(s, c, a \o SubSeq(w, 1, k), SubSeq(w, k + 1, Len(w)), b, o)
<1>0. /\ SubSeq(w, 1, k) \in Seq(Byte) /\ Len(SubSeq(w, 1, k)) = k
      /\ SubSeq(w, k + 1, Len(w)) \in Seq(Byte) /\ Len(SubSeq(w, k + 1, Len(w))) = Len(w) - k
  BY CutFacts
<1>1. PICK x \in Seq(Byte) : x = SubSeq(w, 1, k) /\ Len(x) = k
  BY <1>0, Zenon
<1>2. PICK y \in Seq(Byte) : y = SubSeq(w, k + 1, Len(w)) /\ Len(y) = Len(w) - k
  BY <1>0, Zenon
<1>3. PICK v : v = a \o x
  OBVIOUS
<1>4. v \in Seq(Byte) /\ Len(v) = Len(a) + Len(x)
  BY <1>3, ConcatFacts
<1>5. PICK la \in Nat : la = Len(a)
  BY SeqFacts
<1>6. PICK lw \in Nat : lw = Len(w)
  BY SeqFacts
<1>7. PICK lb \in Nat : lb = Len(b)
  BY SeqFacts
<1>8. Part(a, s, c) /\ Part(w, s, c + la) /\ Part(b, s, c + la + lw) /\ (o => c + la + lw + lb = Len(s))
  BY <1>5, <1>6, <1>7 DEF Carries
<1>9. Part(x, s, c + la) /\ Part(y, s, (c + la) + k)
  <2>1. c + la \in Nat
    OBVIOUS
  <2> QED
    BY <1>1, <1>2, <1>8, <2>1, PartCut
<1>10. Part(v, s, c)
  BY <1>3, <1>5, <1>8, <1>9, PartJoin
<1>11. /\ (c + la) + k = c + Len(v) /\ c + la + lw = c + Len(v) + Len(y)
       /\ (c + la + lw + lb = Len(s) => c + Len(v) + Len(y) + lb = Len(s))
  <2>1. Len(v) = la + k /\ Len(y) = lw - k /\ k \in 0..lw
    BY <1>1, <1>2, <1>4, <1>5, <1>6, Zenon
  <2>2. PICK ls \in Nat : ls = Len(s)
    BY SeqFacts
  <2>3. k \in Int
    BY <2>1
  <2>4. /\ (c + la) + k = c + (la + k) /\ c + la + lw = c + (la + k) + (lw - k)
        /\ (c + la + lw + lb = ls => c + (la + k) + (lw - k) + lb = ls)
    BY <2>3
  <2> QED
    BY <2>1, <2>2, <2>4, Zenon
<1>12. Carries(s, c, v, y, b, o)
  BY <1>7, <1>8, <1>9, <1>10, <1>11, Zenon DEF Carries
<1> QED
  BY <1>1, <1>2, <1>3, <1>12, Zenon

\* The reader begins anew behind what it has.
LEMMA CarriesOn ==
  ASSUME NEW s \in Seq(Byte), NEW c \in Nat, NEW a \in Seq(Byte), NEW w \in Seq(Byte), NEW b \in Seq(Byte),
         NEW o, Carries(s, c, a, w, b, o)
  PROVE  c + Len(a) \in Nat /\ Carries(s, c + Len(a), <<>>, w, b, o)
<1>1. PICK e \in Seq(Byte) : e = <<>> /\ Len(e) = 0
  <2>1. <<>> \in Seq(Byte) /\ Len(<<>>) = 0
    OBVIOUS
  <2> QED
    BY <2>1, Zenon
<1>5. PICK la \in Nat : la = Len(a)
  BY SeqFacts
<1>6. PICK lw \in Nat : lw = Len(w)
  BY SeqFacts
<1>7. PICK lb \in Nat : lb = Len(b)
  BY SeqFacts
<1>8. Part(a, s, c) /\ Part(w, s, c + la) /\ Part(b, s, c + la + lw) /\ (o => c + la + lw + lb = Len(s))
  BY <1>5, <1>6, <1>7 DEF Carries
<1>9. Part(e, s, c + la)
  <2>1. Len(s) \in Nat /\ c + la <= Len(s)
    BY <1>5, <1>8, SeqFacts DEF Part
  <2> QED
    BY <1>1, <2>1 DEF Part
<1>10. c + la = c + la + Len(e)
  BY <1>1
<1>11. Carries(s, c + la, e, w, b, o)
  BY <1>6, <1>7, <1>8, <1>9, <1>10, Zenon DEF Carries
<1>12. c + la \in Nat
  OBVIOUS
<1> QED
  BY <1>1, <1>5, <1>11, <1>12, Zenon

LEMMA CarriesClose ==
  ASSUME NEW s \in Seq(Byte), NEW c \in Nat, NEW a \in Seq(Byte), NEW w \in Seq(Byte), NEW b \in Seq(Byte),
         NEW o, Carries(s, c, a, w, b, o)
  PROVE  Carries(s, c, a, w, <<>>, FALSE)
<1>1. PICK e \in Seq(Byte) : e = <<>> /\ Len(e) = 0
  <2>1. <<>> \in Seq(Byte) /\ Len(<<>>) = 0
    OBVIOUS
  <2> QED
    BY <2>1, Zenon
<1>2. Len(s) \in Nat /\ Len(a) \in Nat /\ Len(w) \in Nat /\ Part(a, s, c) /\ Part(w, s, c + Len(a))
  BY SeqFacts DEF Carries
<1>3. Part(e, s, c + Len(a) + Len(w))
  BY <1>1, <1>2 DEF Part
<1> QED
  BY <1>1, <1>2, <1>3, Zenon DEF Carries

\* A frame is appended to everything written.
LEMMA CarriesMore ==
  ASSUME NEW s \in Seq(Byte), NEW c \in Nat, NEW a \in Seq(Byte), NEW w \in Seq(Byte), NEW t \in Seq(Byte),
         Carries(s, c, a, w, <<>>, TRUE)
  PROVE  Carries(s \o t, c, a, w, t, TRUE)
<1>1. PICK v \in Seq(Byte) : v = s \o t
  BY ConcatFacts
<1>2. Len(v) = Len(s) + Len(t) /\ (\A i \in 1..Len(t) : v[Len(s) + i] = t[i])
  BY <1>1, ConcatFacts
<1>3. PICK la \in Nat : la = Len(a)
  BY SeqFacts
<1>4. PICK lw \in Nat : lw = Len(w)
  BY SeqFacts
<1>5. PICK lt \in Nat : lt = Len(t)
  BY SeqFacts
<1>6. Part(a, s, c) /\ Part(w, s, c + la) /\ c + la + lw = Len(s)
  <2>1. Part(a, s, c) /\ Part(w, s, c + la) /\ c + la + lw + Len(<<>>) = Len(s)
    BY <1>3, <1>4, Zenon DEF Carries
  <2>2. Len(<<>>) = 0
    OBVIOUS
  <2>3. c + la + lw + 0 = c + la + lw
    OBVIOUS
  <2> QED
    BY <2>1, <2>2, <2>3, Zenon
<1>7. Part(a, v, c) /\ Part(w, v, c + la)
  <2>1. c + la \in Nat
    OBVIOUS
  <2> QED
    BY <1>1, <1>6, <2>1, PartGrow
<1>8. Part(t, v, c + la + lw)
  <2>1. PICK ls \in Nat : ls = Len(s)
    BY SeqFacts
  <2>2. c + la + lw = ls /\ Len(v) = ls + lt /\ \A i \in 1..lt : v[ls + i] = t[i]
    BY <1>2, <1>5, <1>6, <2>1, Zenon
  <2>3. ls + lt <= ls + lt
    OBVIOUS
  <2>4. ls + Len(t) <= Len(v) /\ \A i \in 1..Len(t) : t[i] = v[ls + i]
    BY <1>5, <2>2, <2>3, Zenon
  <2> QED
    BY <2>2, <2>4, Zenon DEF Part
<1>9. c + la + lw + lt = Len(v)
  BY <1>2, <1>5, <1>6
<1>10. Carries(v, c, a, w, t, TRUE)
  BY <1>3, <1>4, <1>5, <1>7, <1>8, <1>9, Zenon DEF Carries
<1> QED
  BY <1>1, <1>10, Zenon

\* A head is four bytes, whatever the length.
LEMMA HeadType ==
  ASSUME NEW d \in Seq(Byte)
  PROVE  PushHead(d) \in Seq(Byte)
<1>1. PICK n \in Nat : n = Len(d)
  BY SeqFacts
<1>2. n % 256 \in Byte /\ (n \div 256) % 256 \in Byte
  BY SMT DEF Byte
<1>3. (n \div 65536) % 256 \in Byte /\ (n \div 16777216) % 256 \in Byte
  BY SMT DEF Byte
<1>4. Word(n) \in Seq(Byte)
  BY <1>2, <1>3, SMT DEF Word
<1>5. PICK h \in Seq(Byte) : h = htonl(Word(n))
  <2>1. htonl(Word(n)) \in Seq(Byte)
    BY <1>4, ReverseFacts DEF htonl
  <2> QED
    BY <2>1, Zenon
<1>6. h \o d \in Seq(Byte)
  BY ConcatFacts
<1> QED
  BY <1>1, <1>5, <1>6, Zenon DEF PushHead

LEMMA FrameFacts ==
  ASSUME NEW d \in Seq(Byte), Small(Len(d))
  PROVE  /\ PushHead(d) \in Seq(Byte) /\ Len(PushHead(d)) = 4 + Len(d)
         /\ \E h \in Seq(Byte) : PushHead(d) = h \o d /\ Len(h) = 4 /\ Number(htonl(h)) = Len(d)
<1>1. PICK h \in Seq(Byte) : h = htonl(Word(Len(d))) /\ Len(h) = 4 /\ Number(htonl(h)) = Len(d)
  BY WordBack
<1>2. h \o d \in Seq(Byte) /\ Len(h \o d) = Len(h) + Len(d)
  BY ConcatFacts
<1>3. PushHead(d) = h \o d
  BY <1>1, Zenon DEF PushHead
<1> QED
  BY <1>1, <1>2, <1>3, Zenon

LEMMA RecordFacts ==
  ASSUME NEW r \in Seq(Record), NEW k \in 1..Len(r)
  PROVE  r[k] \in Record /\ r[k].fields \in Seq(Field) /\ r[k].data \in Seq(Byte) /\ Len(r[k].data) \in Nat
<1>1. r[k] \in Record
  BY SeqFacts
<1>2. r[k].fields \in Seq(Field) /\ r[k].data \in Seq(Byte)
  BY <1>1 DEF Record
<1> QED
  BY <1>1, <1>2, SeqFacts

LEMMA FramedMore ==
  ASSUME NEW r \in Seq(Record), NEW x \in Record, Small(Len(x.data)), NEW s \in Seq(Byte),
         NEW p \in [1..(Len(r) + 1) -> Nat], Framed(r, s, p)
  PROVE  /\ Append(r, x) \in Seq(Record) /\ Len(Append(r, x)) = Len(r) + 1
         /\ \E q \in [1..(Len(Append(r, x)) + 1) -> Nat] :
              Framed(Append(r, x), s \o PushHead(x.data), q) /\ \A k \in 1..(Len(r) + 1) : q[k] = p[k]
<1>1. PICK n \in Nat : n = Len(r)
  BY SeqFacts
<1>2. PICK y : y = Append(r, x)
  OBVIOUS
<1>3. y \in Seq(Record) /\ Len(y) = n + 1 /\ y[n + 1] = x /\ \A k \in 1..n : y[k] = r[k]
  BY <1>1, <1>2, AppendProperties
<1>4. PICK d \in Seq(Byte) : d = x.data
  BY DEF Record
<1>5. PICK h \in Seq(Byte) : h = PushHead(d) /\ Len(h) = 4 + Len(d)
  BY <1>4, FrameFacts
<1>6. PICK t : t = s \o h
  OBVIOUS
<1>7. t \in Seq(Byte) /\ Len(t) = Len(s) + Len(h) /\ \A i \in 1..Len(h) : t[Len(s) + i] = h[i]
  BY <1>6, ConcatFacts
<1>8. PICK l \in Nat : l = Len(d)
  BY SeqFacts
<1>9. p[1] = 0 /\ p[n + 1] = Len(s) /\ p[n + 1] \in Nat
  BY <1>1 DEF Framed
<1>10. PICK q : q = [k \in 1..(n + 2) |-> IF k = n + 2 THEN p[n + 1] + 4 + l ELSE p[k]]
  OBVIOUS
<1>11. q \in [1..(n + 2) -> Nat] /\ q[n + 2] = p[n + 1] + 4 + l /\ \A k \in 1..(n + 1) : q[k] = p[k]
  <2>1. p[n + 1] + 4 + l \in Nat
    BY <1>9
  <2>2. \A k \in 1..(n + 2) : k # n + 2 => k \in 1..(n + 1)
    OBVIOUS
  <2>3. \A k \in 1..(n + 1) : p[k] \in Nat
    BY <1>1
  <2>4. \A k \in 1..(n + 2) : q[k] \in Nat
    BY <1>10, <2>1, <2>2, <2>3
  <2>5. q \in [1..(n + 2) -> Nat]
    BY <1>10, <2>4
  <2>6. n + 2 \in 1..(n + 2) /\ \A k \in 1..(n + 1) : k \in 1..(n + 2) /\ k # n + 2
    OBVIOUS
  <2> QED
    BY <1>10, <2>5, <2>6, Zenon
<1>12. ASSUME NEW k \in 1..(n + 1)
       PROVE  q[k + 1] = q[k] + 4 + Len(y[k].data) /\ Part(PushHead(y[k].data), t, q[k])
  <2>1. CASE k = n + 1
    <3>1. y[k].data = d /\ q[k] = Len(s) /\ q[k + 1] = Len(s) + 4 + l
      <4>1. k + 1 = n + 2
        BY <2>1
      <4> QED
        BY <1>3, <1>4, <1>9, <1>11, <2>1, <4>1, Zenon
    <3>2. Part(h, t, Len(s))
      <4>1. PICK ls \in Nat : ls = Len(s)
        BY SeqFacts
      <4>2. PICK lh \in Nat : lh = Len(h)
        BY SeqFacts
      <4>3. ls + lh <= ls + lh
        OBVIOUS
      <4>4. ls + Len(h) <= Len(t) /\ \A i \in 1..Len(h) : h[i] = t[ls + i]
        BY <1>7, <4>1, <4>2, <4>3, Zenon
      <4> QED
        BY <4>1, <4>4, Zenon DEF Part
    <3> QED
      BY <1>5, <1>8, <3>1, <3>2, Zenon
  <2>2. CASE k # n + 1
    <3>1. k \in 1..n /\ k \in 1..(n + 1) /\ k + 1 \in 1..(n + 1)
      BY <2>2
    <3>2. y[k] = r[k] /\ q[k] = p[k] /\ q[k + 1] = p[k + 1]
      BY <1>3, <1>11, <3>1
    <3>3. p[k + 1] = p[k] + 4 + Len(r[k].data) /\ Part(PushHead(r[k].data), s, p[k])
      BY <1>1, <3>1 DEF Framed
    <3>4. Part(PushHead(r[k].data), t, p[k])
      <4>1. PICK off \in Nat : off = p[k]
        BY <1>1, <3>1
      <4>2. PICK z : z = PushHead(r[k].data)
        OBVIOUS
      <4>3. Part(z, s, off)
        BY <3>3, <4>1, <4>2
      <4>4. off + Len(z) <= Len(s) /\ \A i \in 1..Len(z) : z[i] = s[off + i]
        BY <4>3 DEF Part
      <4>5. z \in Seq(Byte)
        BY <1>1, <3>1, <4>2, RecordFacts, HeadType
      <4>6. Part(z, t, off)
        BY <1>6, <4>3, <4>5, PartGrow
      <4> QED
        BY <4>1, <4>2, <4>6
    <3> QED
      BY <3>2, <3>3, <3>4, Zenon
  <2> QED
    BY <2>1, <2>2
<1>13. Framed(y, t, q)
  <2>1. q[1] = 0
    <3>1. 1 \in 1..(n + 1)
      OBVIOUS
    <3> QED
      BY <1>9, <1>11, <3>1, Zenon
  <2>2. q[n + 2] = Len(t) /\ (n + 1) + 1 = n + 2
    <3>1. PICK ls \in Nat : ls = Len(s)
      BY SeqFacts
    <3>2. ls + 4 + l = ls + (4 + l) /\ (n + 1) + 1 = n + 2
      OBVIOUS
    <3> QED
      BY <1>5, <1>7, <1>8, <1>9, <1>11, <3>1, <3>2, Zenon
  <2> QED
    BY <1>3, <1>12, <2>1, <2>2, Zenon DEF Framed
<1>14. (n + 1) + 1 = n + 2
  OBVIOUS
<1> QED
  BY <1>1, <1>2, <1>3, <1>4, <1>5, <1>6, <1>11, <1>13, <1>14, Zenon

\* The lengths of the records fit a head.
Smalls(r) == \A k \in 1..Len(r) : Small(Len(r[k].data))

\* a was read where the head of the frame behind n records is, or its body.
HeadRead(r, s, p, n, a) ==
  Framed(r, s, p) /\ Smalls(r) /\ n <= Len(r) /\ Len(a) = 4 /\ Part(a, s, p[n + 1])
BodyRead(r, s, p, n, a) ==
  /\ Framed(r, s, p) /\ Smalls(r) /\ n < Len(r)
  /\ Len(a) <= Len(r[n + 1].data) /\ Part(a, s, p[n + 1] + 4)

\* Four bytes read where a frame begins are the length of its record.
LEMMA HeadIs ==
  ASSUME NEW r \in Seq(Record), NEW s \in Seq(Byte), NEW p \in [1..(Len(r) + 1) -> Nat],
         NEW n \in Nat, NEW a \in Seq(Byte), HeadRead(r, s, p, n, a)
  PROVE  n < Len(r) /\ Number(htonl(a)) = Len(r[n + 1].data)
<1>0. Framed(r, s, p) /\ Smalls(r) /\ n <= Len(r) /\ Len(a) = 4 /\ Part(a, s, p[n + 1])
  BY DEF HeadRead
<1>1. PICK m \in Nat : m = Len(r)
  BY <1>0, SeqFacts
<1>2. PICK off \in Nat : off = p[n + 1]
  BY <1>0, <1>1, SMTT(30)
<1>3. n < m
  <2>1. off + 4 <= Len(s) /\ Len(s) \in Nat /\ p[m + 1] = Len(s)
    BY <1>0, <1>1, <1>2, SeqFacts DEF Part, Framed
  <2>2. n # m
    BY <1>0, <1>2, <2>1
  <2> QED
    BY <1>0, <1>1, <2>2
<1>4. n + 1 \in 1..m
  BY <1>0, <1>3
<1>5. PICK d \in Seq(Byte) : d = r[n + 1].data /\ Small(Len(d))
  BY <1>0, <1>1, <1>4, RecordFacts DEF Smalls
<1>6. PICK h \in Seq(Byte) : PushHead(d) = h \o d /\ Len(h) = 4 /\ Number(htonl(h)) = Len(d)
  BY <1>0, <1>5, FrameFacts
<1>7. Part(h \o d, s, off)
  BY <1>0, <1>1, <1>2, <1>4, <1>5, <1>6, Zenon DEF Framed
<1>8. Part(h, s, off)
  BY <1>0, <1>7, PartJoin
<1>9. a = h
  BY <1>0, <1>2, <1>6, <1>8, PartSame
<1> QED
  BY <1>0, <1>1, <1>3, <1>5, <1>6, <1>9, Zenon

\* Bytes read behind a frame's head are its record's.
LEMMA BodyIs ==
  ASSUME NEW r \in Seq(Record), NEW s \in Seq(Byte), NEW p \in [1..(Len(r) + 1) -> Nat],
         NEW n \in Nat, NEW a \in Seq(Byte), BodyRead(r, s, p, n, a)
  PROVE  /\ a = SubSeq(r[n + 1].data, 1, Len(a))
         /\ p[n + 2] = (p[n + 1] + 4) + Len(r[n + 1].data)
<1>0. /\ Framed(r, s, p) /\ Smalls(r) /\ n < Len(r)
      /\ Len(a) <= Len(r[n + 1].data) /\ Part(a, s, p[n + 1] + 4)
  BY DEF BodyRead
<1>1. PICK m \in Nat : m = Len(r)
  BY <1>0, SeqFacts
<1>2. n + 1 \in 1..m /\ (n + 1) + 1 = n + 2 /\ n + 1 \in 1..(m + 1)
  BY <1>0, <1>1
<1>3. PICK off \in Nat : off = p[n + 1]
  BY <1>0, <1>1, <1>2
<1>4. PICK d \in Seq(Byte) : d = r[n + 1].data /\ Small(Len(d))
  BY <1>0, <1>1, <1>2, RecordFacts DEF Smalls
<1>5. PICK h \in Seq(Byte) : PushHead(d) = h \o d /\ Len(h) = 4
  BY <1>0, <1>4, FrameFacts
<1>6. Part(h \o d, s, off) /\ p[n + 2] = off + 4 + Len(d)
  BY <1>0, <1>1, <1>2, <1>3, <1>4, <1>5, Zenon DEF Framed
<1>7. Part(d, s, off + 4)
  BY <1>0, <1>5, <1>6, PartJoin
<1>8. PICK k \in Nat : k = Len(a)
  BY <1>0, SeqFacts
<1>9. k \in 0..Len(d)
  BY <1>0, <1>4, <1>8, SeqFacts
<1>10. SubSeq(d, 1, k) \in Seq(Byte) /\ Len(SubSeq(d, 1, k)) = k
  BY <1>0, <1>9, CutFacts
<1>11. Part(SubSeq(d, 1, k), s, off + 4)
  <2>1. off + 4 \in Nat
    OBVIOUS
  <2> QED
    BY <1>0, <1>7, <1>9, <2>1, PartCut
<1>12. a = SubSeq(d, 1, k)
  <2>1. PICK c \in Seq(Byte) : c = SubSeq(d, 1, k)
    BY <1>0, <1>10, Zenon
  <2>2. PICK o \in Nat : o = off + 4
    OBVIOUS
  <2>3. Part(a, s, o) /\ Part(c, s, o) /\ Len(a) = Len(c)
    BY <1>0, <1>3, <1>8, <1>10, <1>11, <2>1, <2>2, Zenon
  <2>4. a = c
    BY <1>0, <2>3, PartSame
  <2> QED
    BY <1>0, <2>1, <2>4, Zenon
<1> QED
  BY <1>0, <1>3, <1>4, <1>6, <1>8, <1>12, Zenon

LEMMA SmallerFacts ==
  ASSUME NEW a \in Nat, NEW b \in Nat
  PROVE  Smaller(a, b) \in Nat /\ Smaller(a, b) <= a /\ Smaller(a, b) <= b /\ Smaller(a, b) \in {a, b}
  BY DEF Smaller

LEMMA FunctionSeq ==
  ASSUME NEW S, NEW n \in Nat, NEW f \in [1..n -> S]
  PROVE  f \in Seq(S) /\ Len(f) = n
  BY SeqDef, LenProperties

\* The buffer is as long as what is read into it, and stays at InLen for readvrec1.
LEMMA RoomFacts ==
  ASSUME buf \in Seq(Byte), reader \in {"readvrec", "readvrec1"}, reader = "readvrec1" => Len(buf) = InLen,
         NEW len \in Nat
  PROVE  /\ Room(len) \in Seq(Byte) /\ (reader = "readvrec1" => Len(Room(len)) = InLen)
         /\ Wanted(len) \in Nat /\ Wanted(len) <= len /\ Wanted(len) <= Len(Room(len))
<1>1. PICK m \in Nat : m = Len(buf) /\ \A i \in 1..m : buf[i] \in Byte
  BY SeqFacts
<1>2. InLen \in Nat
  BY ProtoAssumption, SMT DEF ProtoAssumption
<1>3. CASE reader = "readvrec1"
  <2>1. Room(len) = buf /\ Wanted(len) = Smaller(len, InLen)
    BY <1>3, Zenon DEF Room, Wanted
  <2>2. Smaller(len, InLen) \in Nat /\ Smaller(len, InLen) <= len /\ Smaller(len, InLen) <= InLen
    BY <1>2, SmallerFacts
  <2>3. Len(buf) = InLen
    BY <1>3
  <2> QED
    BY <2>1, <2>2, <2>3, Zenon
<1>4. CASE reader = "readvrec"
  <2>1. reader # "readvrec1" /\ Wanted(len) = len
    BY <1>4 DEF Wanted
  <2>2. CASE len <= m
    <3>1. Room(len) = buf
      BY <1>1, <2>2, Zenon DEF Room
    <3> QED
      BY <1>1, <2>1, <2>2, <3>1, SMT
  <2>3. CASE ~(len <= m)
    <3>1. PICK needed \in Nat : needed = (IF len < 2 * m THEN 2 * m ELSE len) /\ len <= needed
      OBVIOUS
    <3>2. PICK f : f = [i \in 1..needed |-> IF i <= m THEN buf[i] ELSE 0]
      OBVIOUS
    <3>3. Room(len) = f
      BY <1>1, <2>1, <2>3, <3>1, <3>2, Zenon DEF Room
    <3>4. f \in [1..needed -> Byte]
      <4>1. 0 \in Byte
        BY DEF Byte
      <4>2. \A i \in 1..needed : (IF i <= m THEN buf[i] ELSE 0) \in Byte
        BY <1>1, <4>1
      <4> QED
        BY <3>2, <4>2
    <3>5. f \in Seq(Byte) /\ Len(f) = needed
      BY <3>4, FunctionSeq
    <3> QED
      BY <2>1, <3>1, <3>3, <3>5, SMT
  <2> QED
    BY <2>2, <2>3
<1> QED
  BY <1>3, <1>4

LEMMA StoreFacts ==
  ASSUME buf \in Seq(Byte), NEW d \in Seq(Byte)
  PROVE  /\ Store(d) \in Seq(Byte) /\ Len(Store(d)) = Len(buf)
         /\ SubSeq(Store(d), 1, Smaller(Len(d), Len(buf))) \in Seq(Byte)
         /\ Len(d) <= Len(buf) => SubSeq(Store(d), 1, Smaller(Len(d), Len(buf))) = d
<1>1. PICK m \in Nat : m = Len(buf) /\ \A i \in 1..m : buf[i] \in Byte
  BY SeqFacts
<1>2. PICK l \in Nat : l = Len(d) /\ \A i \in 1..l : d[i] \in Byte
  BY SeqFacts
<1>3. PICK f : f = [i \in 1..m |-> IF i <= l THEN d[i] ELSE buf[i]]
  OBVIOUS
<1>4. Store(d) = f
  BY <1>1, <1>2, <1>3, Zenon DEF Store
<1>5. f \in [1..m -> Byte]
  <2>1. \A i \in 1..m : (IF i <= l THEN d[i] ELSE buf[i]) \in Byte
    BY <1>1, <1>2
  <2> QED
    BY <1>3, <2>1
<1>6. f \in Seq(Byte) /\ Len(f) = m
  BY <1>5, FunctionSeq
<1>7. PICK k \in 0..m : k = Smaller(l, m) /\ (l <= m => k = l)
  <2>1. Smaller(l, m) \in 0..m /\ (l <= m => Smaller(l, m) = l)
    BY DEF Smaller
  <2> QED
    BY <2>1, Zenon
<1>8. PICK g : g = SubSeq(f, 1, k)
  OBVIOUS
<1>9. g \in Seq(Byte) /\ Len(g) = k /\ \A i \in 1..k : g[i] = f[i]
  BY <1>6, <1>8, CutFacts
<1>10. ASSUME l <= m PROVE g = d
  <2>1. k = l
    BY <1>7, <1>10
  <2>2. \A i \in 1..l : f[i] = d[i]
    BY <1>3, <1>10
  <2>3. \A i \in 1..Len(g) : g[i] = d[i]
    BY <1>9, <2>1, <2>2, Zenon
  <2> QED
    BY <1>2, <1>9, <2>1, <2>3, SameSeq
<1> QED
  BY <1>1, <1>2, <1>4, <1>6, <1>7, <1>8, <1>9, <1>10, Zenon

-----------------------------------------------------------------------------
(* The steps. *)

LEMMA SmallData ==
  ASSUME ProtoTypeOK, MadeInv
  PROVE  Smalls(sent)
<1>1. ASSUME NEW k \in 1..Len(sent) PROVE Small(Len(sent[k].data))
  <2>1. sent \in Seq(Record) /\ DOMAIN sent = 1..Len(sent)
    BY SeqFacts DEF ProtoTypeOK
  <2>2. sent[k].fields \in Seq(Field)
    BY <2>1, RecordFacts
  <2>3. sent[k].data = Made(sent[k].fields)
    BY <2>1, Zenon DEF MadeInv
  <2> QED
    BY <2>2, <2>3, MadeFacts, Zenon
<1> QED
  BY <1>1 DEF Smalls

\* What fits when there is one record more was there before.
LEMMA FitBack ==
  ASSUME ProtoTypeOK, DoneInv, NEW x, NEW n \in 0..Len(got), Fit(Append(sent, x), n), x \in Record
  PROVE  n <= Len(sent) /\ Fit(sent, n)
<1>1. PICK m \in Nat : m = Len(sent)
  BY SeqFacts DEF ProtoTypeOK
<1>2. PICK g \in Nat : g = Len(got) /\ DOMAIN got = 1..g
  BY SeqFacts DEF ProtoTypeOK
<1>3. \A k \in 1..m : Append(sent, x)[k] = sent[k]
  BY <1>1, AppendProperties DEF ProtoTypeOK
<1>4. n \in Nat /\ n <= g
  BY <1>2
<1>5. \A k \in 0..n : k <= m => Fit(sent, k)
  <2>1. ASSUME NEW k \in 0..n, k <= m PROVE Fit(sent, k)
    <3>1. \A j \in 1..k : j \in 1..m /\ j \in 1..n
      BY <1>4, <2>1
    <3> QED
      BY <1>3, <3>1, Zenon DEF Fit
  <2> QED
    BY <2>1
<1> DEFINE T == {k \in 0..n : k <= m}
<1>6. T \subseteq 0..n /\ 0 \in T
  BY <1>4
<1>7. ASSUME NEW k \in T, k < n PROVE k + 1 \in T
  <2>1. k \in 0..n /\ k <= m /\ k + 1 \in 1..g /\ (k + 1) - 1 = k /\ k + 1 \in 0..n
    BY <1>4, <1>7
  <2>2. Fit(sent, k)
    BY <1>5, <2>1
  <2>3. k + 1 \in DOMAIN sent
    BY <1>2, <2>1, <2>2 DEF DoneInv
  <2>4. DOMAIN sent = 1..m
    BY <1>1, SeqFacts DEF ProtoTypeOK
  <2> QED
    BY <2>1, <2>3, <2>4
<1>8. T = 0..n
  <2> HIDE DEF T
  <2> QED
    BY <1>4, <1>6, <1>7, UpTo
<1>9. n \in 0..n /\ n <= m
  <2>1. n \in 0..n
    BY <1>4
  <2>2. \A k \in 0..n : k <= m
    BY <1>8
  <2> QED
    BY <2>1, <2>2
<1> QED
  BY <1>1, <1>5, <1>9

LEMMA InitHolds ==
  ASSUME NEW todo \in Seq(Seq(Field)), ProtoInit(todo)
  PROVE  ProtoInv
<1>1. FirstLen \in Nat /\ InLen \in Nat
  BY ProtoAssumption, SMT DEF ProtoAssumption
<1>2. PICK e : e = <<>>
  OBVIOUS
<1>3. e \in Seq(Byte) /\ e \in Seq(Record) /\ e \in Seq(Seq(Byte)) /\ Len(e) = 0 /\ DOMAIN e = {}
  BY <1>2
<1>4. /\ reader \in {"readvrec", "readvrec1"} /\ calls \in Seq(Seq(Field)) /\ sent = e /\ wbuf = e
      /\ wire = e /\ open = TRUE /\ phase = "head" /\ need = 4 /\ acc = e /\ got = e
      /\ buf = [i \in 1..(IF reader = "readvrec" THEN FirstLen ELSE InLen) |-> 0]
  BY <1>2 DEF ProtoInit
<1>5. buf \in Seq(Byte) /\ (reader = "readvrec1" => Len(buf) = InLen)
  <2>1. PICK n \in Nat : n = (IF reader = "readvrec" THEN FirstLen ELSE InLen)
    BY <1>1
  <2>2. [i \in 1..n |-> 0] \in [1..n -> Byte]
    BY DEF Byte
  <2>3. [i \in 1..n |-> 0] \in Seq(Byte) /\ Len([i \in 1..n |-> 0]) = n
    BY <2>2, FunctionSeq
  <2>4. buf = [i \in 1..n |-> 0]
    BY <1>4, <2>1, Zenon
  <2>5. reader = "readvrec1" => n = InLen
    BY <2>1
  <2> QED
    BY <2>3, <2>4, <2>5, Zenon
<1>6. ProtoTypeOK
  <2>1. need + Len(acc) = 4 /\ need \in Nat
    BY <1>3, <1>4
  <2>2. phase \in {"head", "body", "end"} /\ open \in BOOLEAN
    BY <1>4
  <2> QED
    BY <1>3, <1>4, <1>5, <2>1, <2>2, Zenon DEF ProtoTypeOK
<1>7. MadeInv /\ DoneInv
  BY <1>3, <1>4 DEF MadeInv, DoneInv
<1>8. FlightInv
  <2>1. PICK p : p = [k \in 1..1 |-> 0]
    OBVIOUS
  <2>2. p \in [1..(Len(sent) + 1) -> Nat] /\ p[1] = 0
    BY <1>3, <1>4, <2>1
  <2>3. Framed(sent, e, p)
    BY <1>3, <1>4, <2>2 DEF Framed
  <2>4. Carries(e, 0, e, e, e, TRUE)
    <3>1. Part(e, e, 0)
      BY <1>3 DEF Part
    <3>2. 0 + Len(e) = 0 /\ 0 + Len(e) + Len(e) = 0 /\ 0 + Len(e) + Len(e) + Len(e) = Len(e)
      BY <1>3
    <3> QED
      BY <3>1, <3>2, Zenon DEF Carries
  <2>5. Reads(e, p)
    <3>1. Len(got) + 1 = 1
      BY <1>3, <1>4
    <3> QED
      BY <1>4, <2>2, <2>4, <3>1, Zenon DEF Reads
  <2>6. Len(got) <= Len(sent)
    BY <1>3, <1>4
  <2> QED
    BY <1>3, <2>2, <2>3, <2>5, <2>6, Zenon DEF FlightInv
<1> QED
  BY <1>6, <1>7, <1>8 DEF ProtoInv

LEMMA MakeStep ==
  ASSUME ProtoInv, MakeCall
  PROVE  ProtoInv'
<1>0. ProtoTypeOK /\ MadeInv /\ FlightInv /\ DoneInv
  BY DEF ProtoInv
<1>1. PICK fields \in Seq(Field) : fields = Head(calls)
  BY <1>0, HeadTailProperties DEF ProtoTypeOK, MakeCall
<1>2. PICK d \in Seq(Byte) : d = Made(fields) /\ Small(Len(d))
  BY MadeFacts
<1>3. PICK x \in Record : x = [fields |-> fields, data |-> d]
  BY DEF Record
<1>4. x.fields = fields /\ x.data = d
  BY <1>3
<1>5. /\ open = TRUE /\ wbuf = <<>> /\ sent' = Append(sent, x) /\ wbuf' = PushHead(d)
      /\ calls' = Tail(calls) /\ calls # <<>>
      /\ reader' = reader /\ wire' = wire /\ open' = open /\ phase' = phase /\ need' = need
      /\ acc' = acc /\ buf' = buf /\ got' = got
  <2>1. open /\ open \in BOOLEAN
    BY <1>0 DEF MakeCall, ProtoTypeOK
  <2>2. /\ wbuf = <<>> /\ sent' = Append(sent, [fields |-> Head(calls), data |-> Made(Head(calls))])
        /\ wbuf' = PushHead(Made(Head(calls))) /\ calls' = Tail(calls) /\ calls # <<>>
    BY Zenon DEF MakeCall, Made
  <2>3. /\ reader' = reader /\ wire' = wire /\ open' = open /\ phase' = phase /\ need' = need
        /\ acc' = acc /\ buf' = buf /\ got' = got
    BY DEF MakeCall, readVars
  <2> QED
    BY <1>1, <1>2, <1>3, <2>1, <2>2, <2>3, Zenon
<1>6. PICK m \in Nat : m = Len(sent)
  BY <1>0, SeqFacts DEF ProtoTypeOK
<1>7. /\ sent' \in Seq(Record) /\ Len(sent') = m + 1 /\ DOMAIN sent' = 1..(m + 1)
      /\ sent'[m + 1] = x /\ (\A k \in 1..m : sent'[k] = sent[k]) /\ DOMAIN sent = 1..m
  <2>1. sent \in Seq(Record)
    BY <1>0 DEF ProtoTypeOK
  <2>2. PICK y : y = sent'
    OBVIOUS
  <2>3. y = Append(sent, x)
    BY <1>5, <2>2
  <2>4. y \in Seq(Record) /\ Len(y) = m + 1 /\ y[m + 1] = x /\ \A k \in 1..m : y[k] = sent[k]
    BY <1>6, <2>1, <2>3, AppendProperties
  <2>5. DOMAIN y = 1..(m + 1) /\ DOMAIN sent = 1..m
    BY <1>6, <2>1, <2>4, SeqFacts
  <2> QED
    BY <2>2, <2>4, <2>5
<1>8. ProtoTypeOK'
  <2>1. calls' \in Seq(Seq(Field))
    BY <1>0, <1>5, HeadTailProperties DEF ProtoTypeOK
  <2>2. wbuf' \in Seq(Byte)
    BY <1>2, <1>5, HeadType
  <2> QED
    BY <1>0, <1>5, <1>7, <2>1, <2>2 DEF ProtoTypeOK
<1>9. MadeInv'
  <2>1. ASSUME NEW k \in 1..(m + 1) PROVE sent'[k].data = Made(sent'[k].fields)
    <3>1. CASE k = m + 1
      BY <1>2, <1>4, <1>7, <3>1, Zenon
    <3>2. CASE k # m + 1
      <4>1. k \in 1..m
        BY <3>2
      <4> QED
        BY <1>0, <1>7, <4>1, Zenon DEF MadeInv
    <3> QED
      BY <3>1, <3>2
  <2> QED
    BY <1>7, <2>1, Zenon DEF MadeInv
<1>10. PICK g \in Nat : g = Len(got) /\ DOMAIN got = 1..g
  BY <1>0, SeqFacts DEF ProtoTypeOK
<1>11. ASSUME NEW n \in 0..g, Fit(sent, n)' PROVE n <= m /\ Fit(sent, n)
  <2>1. Fit(Append(sent, x), n)
    BY <1>5, <1>11, Zenon DEF Fit
  <2> QED
    BY <1>0, <1>6, <1>10, <2>1, FitBack
<1>12. DoneInv'
  <2>1. ASSUME NEW i \in 1..g, Fit(sent, i - 1)'
        PROVE  i \in 1..(m + 1) /\ got[i] = SubSeq(sent'[i].data, 1, Wanted(Len(sent[i].data))')
    <3>1. i - 1 \in 0..g
      OBVIOUS
    <3>2. Fit(sent, i - 1)
      BY <1>11, <2>1, <3>1
    <3>3. i \in 1..m /\ got[i] = SubSeq(sent[i].data, 1, Wanted(Len(sent[i].data)))
      BY <1>0, <1>7, <1>10, <3>2, Zenon DEF DoneInv
    <3>5. i \in 1..(m + 1)
      BY <3>3
    <3> QED
      BY <1>5, <1>7, <3>3, <3>5, Zenon DEF Wanted
  <2> QED
    BY <1>5, <1>7, <1>10, <2>1, Zenon DEF DoneInv
<1>13. FlightInv'
  <2>1. SUFFICES ASSUME phase # "end", Fit(sent, g)'
                 PROVE  /\ g <= m + 1
                        /\ \E s \in Seq(Byte) : \E p \in [1..(Len(sent') + 1) -> Nat] : Framed(sent', s, p) /\ Reads(s, p)'
    BY <1>5, <1>7, <1>10, Zenon DEF FlightInv
  <2>2. g <= m /\ Fit(sent, g)
    BY <1>11, <2>1
  <2>3. PICK s \in Seq(Byte), p \in [1..(m + 1) -> Nat] : Framed(sent, s, p) /\ Reads(s, p)
    BY <1>0, <1>6, <1>10, <2>1, <2>2, Zenon DEF FlightInv
  <2>4. PICK t \in Seq(Byte) : t = s \o PushHead(d)
    <3>1. s \o PushHead(d) \in Seq(Byte)
      BY HeadType, ConcatFacts
    <3> QED
      BY <3>1, Zenon
  <2>5. PICK q \in [1..(Len(sent') + 1) -> Nat] : Framed(sent', t, q) /\ \A k \in 1..(m + 1) : q[k] = p[k]
    <3>1. sent \in Seq(Record)
      BY <1>0 DEF ProtoTypeOK
    <3>2. \E q \in [1..(Len(Append(sent, x)) + 1) -> Nat] :
            Framed(Append(sent, x), s \o PushHead(x.data), q) /\ \A k \in 1..(Len(sent) + 1) : q[k] = p[k]
      BY <1>2, <1>4, <1>6, <2>3, <3>1, FramedMore
    <3> QED
      BY <1>4, <1>5, <1>6, <2>4, <3>2, Zenon
  <2>6. g + 1 \in 1..(m + 1) /\ g <= m + 1
    BY <2>2
  <2>7. PICK c \in Nat : c = p[g + 1]
    BY <2>6
  <2>8. q[g + 1] = c
    BY <2>5, <2>6, <2>7
  <2>9. acc \in Seq(Byte) /\ wire \in Seq(Byte) /\ PushHead(d) \in Seq(Byte)
    BY <1>0, HeadType DEF ProtoTypeOK
  <2>10. ASSUME NEW o \in Nat, Carries(s, o, acc, wire, wbuf, open)
         PROVE  Carries(t, o, acc', wire', wbuf', open')
    <3>1. Carries(s, o, acc, wire, <<>>, TRUE)
      BY <1>5, <2>10
    <3>2. Carries(s \o PushHead(d), o, acc, wire, PushHead(d), TRUE)
      BY <2>9, <3>1, CarriesMore
    <3> QED
      BY <1>5, <2>4, <3>2, Zenon
  <2>11. Reads(t, q)'
    <3>1. CASE phase = "head" /\ Carries(s, c, acc, wire, wbuf, open)
      <4>1. Carries(t, c, acc', wire', wbuf', open')
        BY <2>10, <3>1
      <4> QED
        BY <1>5, <1>10, <2>8, <3>1, <4>1, Zenon DEF Reads
    <3>2. CASE /\ phase = "body" /\ g < m
               /\ Carries(s, c + 4, acc, wire, wbuf, open)
               /\ need + Len(acc) = Wanted(Len(sent[g + 1].data)) /\ need + Len(acc) <= Len(buf)
      <4>1. Carries(t, c + 4, acc', wire', wbuf', open')
        <5>1. c + 4 \in Nat
          OBVIOUS
        <5> QED
          BY <2>10, <3>2, <5>1
      <4>2. g + 1 \in 1..m /\ g < m + 1
        BY <3>2
      <4>3. need' + Len(acc') = Wanted(Len(sent[g + 1].data))'
        BY <1>5, <1>7, <3>2, <4>2, Zenon DEF Wanted
      <4> QED
        BY <1>5, <1>7, <1>10, <2>8, <3>2, <4>1, <4>2, <4>3, Zenon DEF Reads
    <3> QED
      BY <1>6, <1>10, <2>3, <2>7, <3>1, <3>2, Zenon DEF Reads
  <2> QED
    BY <2>4, <2>5, <2>6, <2>11, Zenon
<1> QED
  BY <1>8, <1>9, <1>12, <1>13 DEF ProtoInv

\* A step of the writer that only moves bytes keeps what is carried.
LEMMA WriterStep ==
  ASSUME ProtoInv, UNCHANGED <<reader, calls, sent, phase, need, acc, buf, got>>,
         wire' \in Seq(Byte), wbuf' \in Seq(Byte), open' \in BOOLEAN,
         \A s \in Seq(Byte) : \A c \in Nat :
           Carries(s, c, acc, wire, wbuf, open) => Carries(s, c, acc, wire', wbuf', open')
  PROVE  ProtoInv'
<1>1. /\ reader' = reader /\ calls' = calls /\ sent' = sent /\ phase' = phase /\ need' = need
      /\ acc' = acc /\ buf' = buf /\ got' = got
  OBVIOUS
<1>2. ProtoTypeOK /\ MadeInv /\ FlightInv /\ DoneInv
  BY DEF ProtoInv
<1>3. ProtoTypeOK'
  BY <1>1, <1>2 DEF ProtoTypeOK
<1>4. MadeInv' /\ DoneInv'
  BY <1>1, <1>2 DEF MadeInv, DoneInv, Fit, Wanted
<1>5. PICK m \in Nat : m = Len(sent)
  BY <1>2, SeqFacts DEF ProtoTypeOK
<1>6. PICK g \in Nat : g = Len(got)
  BY <1>2, SeqFacts DEF ProtoTypeOK
<1>7. FlightInv'
  <2>1. SUFFICES ASSUME phase # "end", Fit(sent, g)'
                 PROVE  g <= m /\ \E s \in Seq(Byte) : \E p \in [1..(m + 1) -> Nat] : Framed(sent, s, p) /\ Reads(s, p)'
    BY <1>1, <1>5, <1>6, Zenon DEF FlightInv
  <2>2. Fit(sent, g)
    BY <1>1, <2>1, Zenon DEF Fit
  <2>3. g <= m /\ \E s \in Seq(Byte) : \E p \in [1..(m + 1) -> Nat] : Framed(sent, s, p) /\ Reads(s, p)
    BY <1>2, <1>5, <1>6, <2>1, <2>2, Zenon DEF FlightInv
  <2>4. PICK s \in Seq(Byte), p \in [1..(m + 1) -> Nat] : Framed(sent, s, p) /\ Reads(s, p)
    BY <2>3, Zenon
  <2>5. g + 1 \in 1..(m + 1)
    BY <2>3
  <2>6. PICK c \in Nat : c = p[g + 1]
    BY <2>5
  <2>7. Reads(s, p)'
    <3>1. CASE phase = "head" /\ Carries(s, c, acc, wire, wbuf, open)
      BY <1>1, <1>6, <2>6, <3>1, Zenon DEF Reads
    <3>2. CASE /\ phase = "body" /\ g < m
               /\ Carries(s, c + 4, acc, wire, wbuf, open)
               /\ need + Len(acc) = Wanted(Len(sent[g + 1].data)) /\ need + Len(acc) <= Len(buf)
      <4>1. Carries(s, c + 4, acc, wire', wbuf', open')
        <5>1. c + 4 \in Nat
          OBVIOUS
        <5> QED
          BY <3>2, <5>1, Zenon
      <4>2. need' + Len(acc') = Wanted(Len(sent[g + 1].data))'
        BY <1>1, <3>2, Zenon DEF Wanted
      <4> QED
        BY <1>1, <1>5, <1>6, <2>6, <3>2, <4>1, <4>2, Zenon DEF Reads
    <3> QED
      BY <1>5, <1>6, <2>4, <2>6, <3>1, <3>2, Zenon DEF Reads
  <2> QED
    BY <2>3, <2>4, <2>7, Zenon
<1> QED
  BY <1>3, <1>4, <1>7 DEF ProtoInv

LEMMA WriteStep ==
  ASSUME ProtoInv, NEW n \in IoSizes, writen(n)
  PROVE  ProtoInv'
<1>1. UNCHANGED <<reader, calls, sent, phase, need, acc, buf, got>> /\ open' = open
  BY DEF writen, readVars
<1>2. acc \in Seq(Byte) /\ wire \in Seq(Byte) /\ wbuf \in Seq(Byte) /\ open \in BOOLEAN
  BY DEF ProtoInv, ProtoTypeOK
<1>3. n \in Nat /\ Len(wbuf) \in Nat
  BY <1>2, ProtoAssumption, SeqFacts, SMT DEF ProtoAssumption
<1>4. PICK k \in 0..Len(wbuf) : k = Smaller(n, Len(wbuf))
  BY <1>3, SmallerFacts
<1>5. wire' = wire \o SubSeq(wbuf, 1, k) /\ wbuf' = SubSeq(wbuf, k + 1, Len(wbuf))
  BY <1>4, Zenon DEF writen
<1>6. wire' \in Seq(Byte) /\ wbuf' \in Seq(Byte)
  <2>1. PICK x \in Seq(Byte) : x = SubSeq(wbuf, 1, k)
    BY <1>2, CutFacts
  <2>2. PICK y \in Seq(Byte) : y = SubSeq(wbuf, k + 1, Len(wbuf))
    BY <1>2, CutFacts
  <2>3. wire \o x \in Seq(Byte)
    BY <1>2, ConcatFacts
  <2> QED
    BY <1>5, <2>1, <2>2, <2>3, Zenon
<1>7. ASSUME NEW s \in Seq(Byte), NEW c \in Nat, Carries(s, c, acc, wire, wbuf, open)
      PROVE  Carries(s, c, acc, wire', wbuf', open')
  <2>1. Carries(s, c, acc, wire \o SubSeq(wbuf, 1, k), SubSeq(wbuf, k + 1, Len(wbuf)), open)
    BY <1>2, <1>7, CarriesWrite
  <2> QED
    BY <1>1, <1>5, <2>1, Zenon
<1> QED
  BY <1>1, <1>2, <1>6, <1>7, WriterStep

LEMMA CloseStep ==
  ASSUME ProtoInv, CloseWriter
  PROVE  ProtoInv'
<1>1. UNCHANGED <<reader, calls, sent, phase, need, acc, buf, got>> /\ wire' = wire /\ wbuf' = <<>> /\ open' = FALSE
  BY DEF CloseWriter, readVars
<1>2. acc \in Seq(Byte) /\ wire \in Seq(Byte) /\ wbuf \in Seq(Byte)
  BY DEF ProtoInv, ProtoTypeOK
<1>3. <<>> \in Seq(Byte)
  OBVIOUS
<1>4. ASSUME NEW s \in Seq(Byte), NEW c \in Nat, Carries(s, c, acc, wire, wbuf, open)
      PROVE  Carries(s, c, acc, wire', wbuf', open')
  <2>1. Carries(s, c, acc, wire, <<>>, FALSE)
    BY <1>2, <1>4, CarriesClose
  <2> QED
    BY <1>1, <2>1, Zenon
<1>5. wire' \in Seq(Byte) /\ wbuf' \in Seq(Byte) /\ open' \in BOOLEAN
  BY <1>1, <1>2, <1>3, Zenon
<1> QED
  BY <1>1, <1>4, <1>5, WriterStep

LEMMA EndStep ==
  ASSUME ProtoInv, ReadEnd
  PROVE  ProtoInv'
<1>1. /\ reader' = reader /\ calls' = calls /\ sent' = sent /\ wbuf' = wbuf /\ wire' = wire /\ open' = open
      /\ phase' = "end" /\ need' = need /\ acc' = acc /\ buf' = buf /\ got' = got
  BY DEF ReadEnd
<1>2. ProtoTypeOK /\ MadeInv /\ DoneInv
  BY DEF ProtoInv
<1>3. ProtoTypeOK'
  BY <1>1, <1>2 DEF ProtoTypeOK
<1>4. MadeInv' /\ DoneInv'
  BY <1>1, <1>2 DEF MadeInv, DoneInv, Fit, Wanted
<1>5. FlightInv'
  BY <1>1 DEF FlightInv
<1> QED
  BY <1>3, <1>4, <1>5 DEF ProtoInv

\* What one read does to a, w and the bytes still needed.
LEMMA ReadFacts ==
  ASSUME ProtoTypeOK, NEW n \in IoSizes
  PROVE  \E k \in 0..Len(wire) :
           /\ k = Smaller(n, Smaller(need, Len(wire))) /\ k \in Nat /\ k <= need /\ need - k \in Nat
           /\ acc \o SubSeq(wire, 1, k) \in Seq(Byte)
           /\ Len(acc \o SubSeq(wire, 1, k)) = Len(acc) + k /\ Len(acc) \in Nat
           /\ SubSeq(wire, k + 1, Len(wire)) \in Seq(Byte)
<1>1. acc \in Seq(Byte) /\ wire \in Seq(Byte) /\ need \in Nat
  BY DEF ProtoTypeOK
<1>2. PICK lw \in Nat : lw = Len(wire)
  BY <1>1, SeqFacts
<1>3. n \in Nat
  BY ProtoAssumption, SMT DEF ProtoAssumption
<1>4. PICK m \in Nat : m = Smaller(need, lw) /\ m <= need /\ m <= lw
  BY <1>1, SmallerFacts
<1>5. PICK k \in Nat : k = Smaller(n, m) /\ k <= m
  BY <1>3, SmallerFacts
<1>6. k \in 0..lw /\ k <= need /\ need - k \in Nat
  BY <1>1, <1>4, <1>5
<1>7. k \in 0..Len(wire)
  BY <1>2, <1>6
<1>8. PICK x \in Seq(Byte) : x = SubSeq(wire, 1, k) /\ Len(x) = k
  <2>1. SubSeq(wire, 1, k) \in Seq(Byte) /\ Len(SubSeq(wire, 1, k)) = k
    BY <1>1, <1>7, CutFacts
  <2> QED
    BY <2>1, Zenon
<1>9. SubSeq(wire, k + 1, Len(wire)) \in Seq(Byte)
  BY <1>1, <1>7, CutFacts
<1>10. acc \o x \in Seq(Byte) /\ Len(acc \o x) = Len(acc) + Len(x)
  BY <1>1, ConcatFacts
<1>11. Len(acc) \in Nat
  BY <1>1, SeqFacts
<1> QED
  BY <1>2, <1>4, <1>5, <1>6, <1>7, <1>8, <1>9, <1>10, <1>11, Zenon

\* What the reader's position says of a record that is being read.
Here(s, p, g, a, w, b, o) ==
  \/ phase = "head" /\ Carries(s, p[g + 1], a, w, b, o)
  \/ /\ phase = "body" /\ g < Len(sent) /\ Carries(s, p[g + 1] + 4, a, w, b, o)
     /\ need + Len(acc) = Wanted(Len(sent[g + 1].data)) /\ need + Len(acc) <= Len(buf)

LEMMA Read ==
  ASSUME ProtoInv, phase # "end", Fit(sent, Len(got)), NEW k \in 0..Len(wire)
  PROVE  /\ Len(got) \in Nat /\ Len(sent) \in Nat /\ Len(got) <= Len(sent)
         /\ \E s \in Seq(Byte) : \E p \in [1..(Len(sent) + 1) -> Nat] :
              /\ Framed(sent, s, p)
              /\ Here(s, p, Len(got), acc \o SubSeq(wire, 1, k), SubSeq(wire, k + 1, Len(wire)), wbuf, open)
<1>1. ProtoTypeOK /\ FlightInv
  BY DEF ProtoInv
<1>2. PICK m \in Nat : m = Len(sent)
  BY <1>1, SeqFacts DEF ProtoTypeOK
<1>3. PICK g \in Nat : g = Len(got)
  BY <1>1, SeqFacts DEF ProtoTypeOK
<1>4. g <= m /\ \E s \in Seq(Byte) : \E p \in [1..(m + 1) -> Nat] : Framed(sent, s, p) /\ Reads(s, p)
  BY <1>1, <1>2, <1>3, Zenon DEF FlightInv
<1>5. PICK s \in Seq(Byte), p \in [1..(m + 1) -> Nat] : Framed(sent, s, p) /\ Reads(s, p)
  BY <1>4, Zenon
<1>6. g + 1 \in 1..(m + 1)
  BY <1>4
<1>7. PICK c \in Nat : c = p[g + 1]
  BY <1>6
<1>8. acc \in Seq(Byte) /\ wire \in Seq(Byte) /\ wbuf \in Seq(Byte)
  BY <1>1 DEF ProtoTypeOK
<1>9. PICK a : a = acc \o SubSeq(wire, 1, k)
  OBVIOUS
<1>10. PICK w : w = SubSeq(wire, k + 1, Len(wire))
  OBVIOUS
<1>11. ASSUME NEW o \in Nat, Carries(s, o, acc, wire, wbuf, open) PROVE Carries(s, o, a, w, wbuf, open)
  BY <1>8, <1>9, <1>10, <1>11, CarriesRead
<1>12. c + 4 \in Nat
  OBVIOUS
<1>13. Here(s, p, g, a, w, wbuf, open)
  <2>1. CASE phase = "head" /\ Carries(s, c, acc, wire, wbuf, open)
    BY <1>7, <1>11, <2>1, Zenon DEF Here
  <2>2. CASE /\ phase = "body" /\ g < m /\ Carries(s, c + 4, acc, wire, wbuf, open)
             /\ need + Len(acc) = Wanted(Len(sent[g + 1].data)) /\ need + Len(acc) <= Len(buf)
    BY <1>2, <1>7, <1>11, <1>12, <2>2, Zenon DEF Here
  <2> QED
    BY <1>2, <1>3, <1>5, <1>7, <2>1, <2>2, Zenon DEF Reads
<1> QED
  BY <1>2, <1>3, <1>4, <1>5, <1>9, <1>10, <1>13, Zenon

LEMMA PartStep ==
  ASSUME ProtoInv, phase # "end", NEW k \in 0..Len(wire), k \in Nat, need - k \in Nat, Len(acc) \in Nat,
         NEW a \in Seq(Byte), a = acc \o SubSeq(wire, 1, k), Len(a) = Len(acc) + k,
         NEW w \in Seq(Byte), w = SubSeq(wire, k + 1, Len(wire)),
         need' = need - k, acc' = a, wire' = w,
         UNCHANGED <<reader, calls, sent, wbuf, open, phase, buf, got>>
  PROVE  ProtoInv'
<1>1. /\ reader' = reader /\ calls' = calls /\ sent' = sent /\ wbuf' = wbuf /\ open' = open
      /\ phase' = phase /\ buf' = buf /\ got' = got
  OBVIOUS
<1>2. ProtoTypeOK /\ MadeInv /\ DoneInv
  BY DEF ProtoInv
<1>3. need' + Len(acc') = need + Len(acc)
  <2>1. PICK l \in Nat : l = Len(acc)
    OBVIOUS
  <2>2. need \in Nat /\ Len(a) = l + k
    BY <1>2, <2>1 DEF ProtoTypeOK
  <2>3. (need - k) + (l + k) = need + l
    BY <2>2
  <2> QED
    BY <2>1, <2>2, <2>3, Zenon
<1>4. ProtoTypeOK'
  <2>1. need' \in Nat /\ acc' \in Seq(Byte) /\ wire' \in Seq(Byte) /\ (phase' = "head" => need' + Len(acc') = 4)
    BY <1>1, <1>2, <1>3, Zenon DEF ProtoTypeOK
  <2> QED
    BY <1>1, <1>2, <2>1, Zenon DEF ProtoTypeOK
<1>5. MadeInv' /\ DoneInv'
  BY <1>1, <1>2 DEF MadeInv, DoneInv, Fit, Wanted
<1>6. PICK m : m = Len(sent)
  OBVIOUS
<1>7. PICK g : g = Len(got)
  OBVIOUS
<1>8. FlightInv'
  <2>1. SUFFICES ASSUME Fit(sent, g)'
                 PROVE  g <= m /\ \E s \in Seq(Byte) : \E p \in [1..(m + 1) -> Nat] : Framed(sent, s, p) /\ Reads(s, p)'
    BY <1>1, <1>6, <1>7, Zenon DEF FlightInv
  <2>2. Fit(sent, g)
    BY <1>1, <2>1, Zenon DEF Fit
  <2>3. g <= m /\ \E s \in Seq(Byte) : \E p \in [1..(m + 1) -> Nat] :
          Framed(sent, s, p) /\ Here(s, p, g, a, w, wbuf, open)
    BY <1>6, <1>7, <2>2, Read, Zenon
  <2>4. PICK s \in Seq(Byte), p \in [1..(m + 1) -> Nat] : Framed(sent, s, p) /\ Here(s, p, g, a, w, wbuf, open)
    BY <2>3, Zenon
  <2>5. Wanted(Len(sent[g + 1].data))' = Wanted(Len(sent[g + 1].data))
    BY <1>1, Zenon DEF Wanted
  <2>6. Reads(s, p)'
    BY <1>1, <1>3, <1>6, <1>7, <2>4, <2>5, Zenon DEF Here, Reads
  <2> QED
    BY <2>3, <2>4, <2>6, Zenon
<1> QED
  BY <1>4, <1>5, <1>8 DEF ProtoInv

LEMMA HeadStep ==
  ASSUME ProtoInv, phase = "head", NEW k \in 0..Len(wire),
         NEW a \in Seq(Byte), a = acc \o SubSeq(wire, 1, k), Len(a) = 4,
         NEW w \in Seq(Byte), w = SubSeq(wire, k + 1, Len(wire)),
         NEW len, len = Number(htonl(a)),
         buf' = Room(len), need' = Wanted(len), acc' = <<>>, wire' = w,
         phase' = (IF Wanted(len) = 0 THEN "end" ELSE "body"),
         UNCHANGED <<reader, calls, sent, wbuf, open, got>>
  PROVE  ProtoInv'
<1>1. /\ reader' = reader /\ calls' = calls /\ sent' = sent /\ wbuf' = wbuf /\ open' = open /\ got' = got
  OBVIOUS
<1>2. ProtoTypeOK /\ MadeInv /\ DoneInv
  BY DEF ProtoInv
<1>3. len \in Nat
  BY NumberType
<1>4. /\ buf' \in Seq(Byte) /\ (reader = "readvrec1" => Len(buf') = InLen)
      /\ need' \in Nat /\ need' = Wanted(len) /\ need' <= Len(buf')
  <2>1. buf \in Seq(Byte) /\ reader \in {"readvrec", "readvrec1"} /\ (reader = "readvrec1" => Len(buf) = InLen)
    BY <1>2, Zenon DEF ProtoTypeOK
  <2> QED
    BY <1>3, <2>1, RoomFacts
<1>5. phase' \in {"end", "body"}
  OBVIOUS
<1>6. acc' \in Seq(Byte) /\ Len(acc') = 0
  <2>1. <<>> \in Seq(Byte) /\ Len(<<>>) = 0
    OBVIOUS
  <2> QED
    BY <2>1, Zenon
<1>7. ProtoTypeOK'
  <2>1. phase' \in {"head", "body", "end"} /\ phase' # "head"
    BY <1>5
  <2> QED
    BY <1>1, <1>2, <1>4, <1>6, <2>1, Zenon DEF ProtoTypeOK
<1>8. MadeInv' /\ DoneInv'
  BY <1>1, <1>2 DEF MadeInv, DoneInv, Fit, Wanted
<1>9. PICK m \in Nat : m = Len(sent)
  BY <1>2, SeqFacts DEF ProtoTypeOK
<1>10. PICK g \in Nat : g = Len(got)
  BY <1>2, SeqFacts DEF ProtoTypeOK
<1>11. FlightInv'
  <2>1. SUFFICES ASSUME phase' # "end", Fit(sent, g)'
                 PROVE  g <= m /\ \E s \in Seq(Byte) : \E p \in [1..(m + 1) -> Nat] : Framed(sent, s, p) /\ Reads(s, p)'
    BY <1>1, <1>9, <1>10, Zenon DEF FlightInv
  <2>2. Fit(sent, g) /\ phase' = "body" /\ phase # "end" /\ phase # "body"
    BY <1>1, <1>5, <2>1 DEF Fit
  <2>3. g <= m /\ \E s \in Seq(Byte) : \E p \in [1..(m + 1) -> Nat] :
          Framed(sent, s, p) /\ Here(s, p, g, a, w, wbuf, open)
    BY <1>9, <1>10, <2>2, Read, Zenon
  <2>4. PICK s \in Seq(Byte), p \in [1..(m + 1) -> Nat] : Framed(sent, s, p) /\ Here(s, p, g, a, w, wbuf, open)
    BY <2>3, Zenon
  <2>5. PICK c \in Nat : c = p[g + 1]
    <3>1. g + 1 \in 1..(m + 1)
      BY <2>3
    <3> QED
      BY <3>1
  <2>6. Carries(s, c, a, w, wbuf, open)
    BY <2>2, <2>4, <2>5, Zenon DEF Here
  <2>7. g < m /\ len = Len(sent[g + 1].data)
    <3>1. Part(a, s, p[g + 1])
      BY <2>5, <2>6, Zenon DEF Carries
    <3>2. sent \in Seq(Record) /\ Smalls(sent)
      BY <1>2, SmallData DEF ProtoTypeOK
    <3>3. p \in [1..(Len(sent) + 1) -> Nat] /\ g <= Len(sent) /\ Framed(sent, s, p)
      BY <1>9, <2>3, <2>4, Zenon
    <3>4. g < Len(sent) /\ Number(htonl(a)) = Len(sent[g + 1].data)
      <4>1. HeadRead(sent, s, p, g, a)
        BY <3>1, <3>2, <3>3, Zenon DEF HeadRead
      <4>2. \A r \in Seq(Record) : \A t \in Seq(Byte) : \A q \in [1..(Len(r) + 1) -> Nat] : \A n \in Nat :
              \A b \in Seq(Byte) : HeadRead(r, t, q, n, b) => n < Len(r) /\ Number(htonl(b)) = Len(r[n + 1].data)
        BY HeadIs
      <4>3. \A q \in [1..(Len(sent) + 1) -> Nat] : \A n \in Nat :
              \A b \in Seq(Byte) : HeadRead(sent, s, q, n, b) => n < Len(sent) /\ Number(htonl(b)) = Len(sent[n + 1].data)
        BY <3>2, <4>2, Zenon
      <4> QED
        BY <3>3, <4>1, <4>3, Zenon
    <3> QED
      BY <1>9, <3>4, Zenon
  <2>8. Carries(s, c + 4, acc', w, wbuf, open)
    <3>1. wbuf \in Seq(Byte)
      BY <1>2 DEF ProtoTypeOK
    <3>2. Carries(s, c + Len(a), <<>>, w, wbuf, open)
      BY <2>6, <3>1, CarriesOn
    <3> QED
      BY <3>2, Zenon
  <2>9. need' + Len(acc') = Wanted(Len(sent[g + 1].data))' /\ need' + Len(acc') <= Len(buf')
    <3>1. need' + Len(acc') = need'
      BY <1>4, <1>6
    <3>2. Wanted(Len(sent[g + 1].data))' = Wanted(len)
      BY <1>1, <2>7, Zenon DEF Wanted
    <3> QED
      BY <1>4, <3>1, <3>2, Zenon
  <2>10. Reads(s, p)'
    BY <1>1, <1>9, <1>10, <2>2, <2>5, <2>7, <2>8, <2>9, Zenon DEF Reads
  <2> QED
    BY <2>3, <2>4, <2>10, Zenon
<1> QED
  BY <1>7, <1>8, <1>11 DEF ProtoInv

LEMMA BodyStep ==
  ASSUME ProtoInv, phase = "body", NEW k \in 0..Len(wire),
         NEW a \in Seq(Byte), a = acc \o SubSeq(wire, 1, k), Len(a) = need + Len(acc),
         NEW w \in Seq(Byte), w = SubSeq(wire, k + 1, Len(wire)),
         buf' = Store(a), got' = Append(got, SubSeq(Store(a), 1, Smaller(Len(a), Len(buf)))),
         phase' = "head", need' = 4, acc' = <<>>, wire' = w,
         UNCHANGED <<reader, calls, sent, wbuf, open>>
  PROVE  ProtoInv'
<1>1. reader' = reader /\ calls' = calls /\ sent' = sent /\ wbuf' = wbuf /\ open' = open
  OBVIOUS
<1>2. ProtoTypeOK /\ MadeInv /\ DoneInv
  BY DEF ProtoInv
<1>3. PICK x \in Seq(Byte) : /\ x = SubSeq(Store(a), 1, Smaller(Len(a), Len(buf)))
                             /\ (Len(a) <= Len(buf) => x = a)
                             /\ Store(a) \in Seq(Byte) /\ Len(Store(a)) = Len(buf)
  <2>1. buf \in Seq(Byte)
    BY <1>2 DEF ProtoTypeOK
  <2>2. /\ Store(a) \in Seq(Byte) /\ Len(Store(a)) = Len(buf)
        /\ SubSeq(Store(a), 1, Smaller(Len(a), Len(buf))) \in Seq(Byte)
        /\ (Len(a) <= Len(buf) => SubSeq(Store(a), 1, Smaller(Len(a), Len(buf))) = a)
    BY <2>1, StoreFacts, Zenon
  <2> QED
    BY <2>2, Zenon
<1>4. PICK m \in Nat : m = Len(sent) /\ DOMAIN sent = 1..m
  BY <1>2, SeqFacts DEF ProtoTypeOK
<1>5. PICK g \in Nat : g = Len(got) /\ DOMAIN got = 1..g
  BY <1>2, SeqFacts DEF ProtoTypeOK
<1>6. /\ got' \in Seq(Seq(Byte)) /\ Len(got') = g + 1 /\ DOMAIN got' = 1..(g + 1)
      /\ got'[g + 1] = x /\ \A i \in 1..g : got'[i] = got[i]
  <2>1. got \in Seq(Seq(Byte))
    BY <1>2 DEF ProtoTypeOK
  <2>2. PICK y : y = got'
    OBVIOUS
  <2>3. y = Append(got, x)
    BY <1>3, <2>2
  <2>4. y \in Seq(Seq(Byte)) /\ Len(y) = g + 1 /\ y[g + 1] = x /\ \A i \in 1..g : y[i] = got[i]
    BY <1>5, <2>1, <2>3, AppendProperties
  <2>5. DOMAIN y = 1..(g + 1)
    BY <2>4, SeqFacts
  <2> QED
    BY <2>2, <2>4, <2>5
<1>7. acc' \in Seq(Byte) /\ Len(acc') = 0
  <2>1. <<>> \in Seq(Byte) /\ Len(<<>>) = 0
    OBVIOUS
  <2> QED
    BY <2>1, Zenon
<1>8. ProtoTypeOK'
  <2>1. need' \in Nat /\ need' + Len(acc') = 4
    BY <1>7
  <2>2. phase' \in {"head", "body", "end"}
    OBVIOUS
  <2>3. buf' \in Seq(Byte) /\ (reader' = "readvrec1" => Len(buf') = InLen)
    BY <1>1, <1>2, <1>3, Zenon DEF ProtoTypeOK
  <2> QED
    BY <1>1, <1>2, <1>6, <1>7, <2>1, <2>2, <2>3, Zenon DEF ProtoTypeOK
<1>9. MadeInv'
  BY <1>1, <1>2 DEF MadeInv
<1>10. ASSUME Fit(sent, g)
       PROVE  /\ g < m /\ x = SubSeq(sent[g + 1].data, 1, Wanted(Len(sent[g + 1].data)))
              /\ ((reader = "readvrec" \/ Len(sent[g + 1].data) <= InLen) =>
                    \E s \in Seq(Byte) : \E p \in [1..(m + 1) -> Nat] :
                      Framed(sent, s, p) /\ Carries(s, p[g + 2], <<>>, w, wbuf, open))
  <2>1. phase # "end" /\ phase # "head"
    OBVIOUS
  <2>2. g <= m /\ \E s \in Seq(Byte) : \E p \in [1..(m + 1) -> Nat] :
          Framed(sent, s, p) /\ Here(s, p, g, a, w, wbuf, open)
    BY <1>4, <1>5, <1>10, <2>1, Read, Zenon
  <2>3. PICK s \in Seq(Byte), p \in [1..(m + 1) -> Nat] : Framed(sent, s, p) /\ Here(s, p, g, a, w, wbuf, open)
    BY <2>2, Zenon
  <2>4. /\ g < m /\ Carries(s, p[g + 1] + 4, a, w, wbuf, open)
        /\ Len(a) = Wanted(Len(sent[g + 1].data)) /\ Len(a) <= Len(buf)
    BY <1>4, <2>1, <2>3, Zenon DEF Here
  <2>5. g + 1 \in 1..m /\ g + 1 \in 1..(m + 1)
    BY <2>4
  <2>6. PICK d \in Seq(Byte) : d = sent[g + 1].data
    <3>1. sent \in Seq(Record)
      BY <1>2 DEF ProtoTypeOK
    <3>2. sent[g + 1].data \in Seq(Byte)
      BY <1>4, <2>5, <3>1, RecordFacts
    <3> QED
      BY <3>2, Zenon
  <2>7. InLen \in Nat /\ Len(d) \in Nat
    BY ProtoAssumption, SeqFacts, SMT DEF ProtoAssumption
  <2>8. Wanted(Len(d)) <= Len(d) /\ (reader = "readvrec" \/ Len(d) <= InLen => Wanted(Len(d)) = Len(d))
    BY <2>7 DEF Wanted, Smaller
  <2>9. PICK c \in Nat : c = p[g + 1] + 4
    <3>1. p[g + 1] \in Nat
      BY <2>5
    <3> QED
      BY <3>1, SMTT(30)
  <2>10. a = SubSeq(d, 1, Len(a)) /\ p[g + 2] = c + Len(d)
    <3>1. Part(a, s, p[g + 1] + 4)
      BY <2>4, Zenon DEF Carries
    <3>2. sent \in Seq(Record) /\ Smalls(sent)
      BY <1>2, SmallData DEF ProtoTypeOK
    <3>3. p \in [1..(Len(sent) + 1) -> Nat] /\ g < Len(sent) /\ Framed(sent, s, p)
      BY <1>4, <2>3, <2>4, Zenon
    <3>4. Len(a) <= Len(sent[g + 1].data)
      BY <2>4, <2>6, <2>8, Zenon
    <3>5. /\ a = SubSeq(sent[g + 1].data, 1, Len(a))
          /\ p[g + 2] = (p[g + 1] + 4) + Len(sent[g + 1].data)
      <4>1. BodyRead(sent, s, p, g, a)
        BY <3>1, <3>2, <3>3, <3>4, Zenon DEF BodyRead
      <4>2. \A r \in Seq(Record) : \A t \in Seq(Byte) : \A q \in [1..(Len(r) + 1) -> Nat] : \A n \in Nat :
              \A b \in Seq(Byte) : BodyRead(r, t, q, n, b) =>
                /\ b = SubSeq(r[n + 1].data, 1, Len(b))
                /\ q[n + 2] = (q[n + 1] + 4) + Len(r[n + 1].data)
        BY BodyIs
      <4>3. \A q \in [1..(Len(sent) + 1) -> Nat] : \A n \in Nat :
              \A b \in Seq(Byte) : BodyRead(sent, s, q, n, b) =>
                /\ b = SubSeq(sent[n + 1].data, 1, Len(b))
                /\ q[n + 2] = (q[n + 1] + 4) + Len(sent[n + 1].data)
        BY <3>2, <4>2, Zenon
      <4> QED
        BY <3>3, <4>1, <4>3, Zenon
    <3> QED
      BY <2>6, <2>9, <3>5, Zenon
  <2>11. x = a
    BY <1>3, <2>4, Zenon
  <2>12. Carries(s, c + Len(a), <<>>, w, wbuf, open)
    <3>1. wbuf \in Seq(Byte)
      BY <1>2 DEF ProtoTypeOK
    <3>2. Carries(s, c, a, w, wbuf, open)
      BY <2>4, <2>9, Zenon
    <3> QED
      BY <3>1, <3>2, CarriesOn
  <2>13. (reader = "readvrec" \/ Len(sent[g + 1].data) <= InLen) => Carries(s, p[g + 2], <<>>, w, wbuf, open)
    BY <2>4, <2>6, <2>8, <2>10, <2>12, Zenon
  <2>14. x = SubSeq(sent[g + 1].data, 1, Wanted(Len(sent[g + 1].data)))
    BY <2>4, <2>6, <2>10, <2>11, Zenon
  <2> QED
    BY <2>3, <2>4, <2>13, <2>14, Zenon
<1>11. DoneInv'
  <2>1. ASSUME NEW i \in 1..(g + 1), Fit(sent, i - 1)'
        PROVE  i \in 1..m /\ got'[i] = SubSeq(sent'[i].data, 1, Wanted(Len(sent[i].data))')
    <3>4. sent'[i].data = sent[i].data /\ Wanted(Len(sent[i].data))' = Wanted(Len(sent[i].data))
      BY <1>1, Zenon DEF Wanted
    <3>1. Fit(sent, i - 1)
      BY <1>1, <2>1, Zenon DEF Fit
    <3>2. CASE i = g + 1
      <4>1. i - 1 = g
        BY <3>2
      <4>2. g < m /\ x = SubSeq(sent[g + 1].data, 1, Wanted(Len(sent[g + 1].data)))
        BY <1>10, <3>1, <4>1, Zenon
      <4>3. i \in 1..m
        BY <3>2, <4>2
      <4> QED
        BY <1>6, <3>2, <3>4, <4>2, <4>3, Zenon
    <3>3. CASE i # g + 1
      <4>1. i \in 1..g
        BY <3>3
      <4> QED
        BY <1>2, <1>4, <1>5, <1>6, <3>1, <3>4, <4>1, Zenon DEF DoneInv
    <3> QED
      BY <3>2, <3>3
  <2> QED
    BY <1>1, <1>4, <1>6, <2>1, Zenon DEF DoneInv
<1>12. FlightInv'
  <2>1. SUFFICES ASSUME Fit(sent, g + 1)'
                 PROVE  g + 1 <= m /\ \E s \in Seq(Byte) : \E p \in [1..(m + 1) -> Nat] : Framed(sent, s, p) /\ Reads(s, p)'
    BY <1>1, <1>4, <1>6, Zenon DEF FlightInv
  <2>2. /\ Fit(sent, g) /\ (reader = "readvrec" \/ Len(sent[g + 1].data) <= InLen)
    <3>1. \A j \in 1..(g + 1) : reader = "readvrec" \/ Len(sent[j].data) <= InLen
      BY <1>1, <2>1, Zenon DEF Fit
    <3>2. g + 1 \in 1..(g + 1) /\ \A j \in 1..g : j \in 1..(g + 1)
      OBVIOUS
    <3> QED
      BY <3>1, <3>2, Zenon DEF Fit
  <2>3. g < m /\ \E s \in Seq(Byte) : \E p \in [1..(m + 1) -> Nat] :
          Framed(sent, s, p) /\ Carries(s, p[g + 2], <<>>, w, wbuf, open)
    BY <1>10, <2>2, Zenon
  <2>4. PICK s \in Seq(Byte), p \in [1..(m + 1) -> Nat] :
          Framed(sent, s, p) /\ Carries(s, p[g + 2], <<>>, w, wbuf, open)
    BY <2>3, Zenon
  <2>5. Reads(s, p)'
    <3>1. (g + 1) + 1 = g + 2
      OBVIOUS
    <3> QED
      BY <1>1, <1>6, <2>4, <3>1, Zenon DEF Reads
  <2>6. g + 1 <= m
    BY <2>3
  <2> QED
    BY <2>4, <2>5, <2>6, Zenon
<1> QED
  BY <1>8, <1>9, <1>11, <1>12 DEF ProtoInv

LEMMA ReadStep ==
  ASSUME ProtoInv, NEW n \in IoSizes, readn(n)
  PROVE  ProtoInv'
<1>1. ProtoTypeOK
  BY DEF ProtoInv
<1>2. PICK k \in 0..Len(wire) :
        /\ k = Smaller(n, Smaller(need, Len(wire))) /\ k \in Nat /\ k <= need /\ need - k \in Nat
        /\ acc \o SubSeq(wire, 1, k) \in Seq(Byte)
        /\ Len(acc \o SubSeq(wire, 1, k)) = Len(acc) + k /\ Len(acc) \in Nat
        /\ SubSeq(wire, k + 1, Len(wire)) \in Seq(Byte)
  BY <1>1, ReadFacts
<1>3. PICK a \in Seq(Byte) : a = acc \o SubSeq(wire, 1, k) /\ Len(a) = Len(acc) + k
  BY <1>2, Zenon
<1>4. PICK w \in Seq(Byte) : w = SubSeq(wire, k + 1, Len(wire))
  BY <1>2, Zenon
<1>5. PICK len : len = Number(htonl(a))
  OBVIOUS
<1>6. /\ phase # "end" /\ wire' = w
      /\ UNCHANGED <<reader, calls, sent, wbuf, open>>
      /\ \/ k < need /\ need' = need - k /\ acc' = a /\ UNCHANGED <<phase, buf, got>>
         \/ /\ k = need /\ phase = "head"
            /\ buf' = Room(len) /\ need' = Wanted(len) /\ acc' = <<>>
            /\ phase' = (IF Wanted(len) = 0 THEN "end" ELSE "body")
            /\ got' = got
         \/ /\ k = need /\ phase = "body"
            /\ buf' = Store(a) /\ got' = Append(got, SubSeq(Store(a), 1, Smaller(Len(a), Len(buf))))
            /\ phase' = "head" /\ need' = 4 /\ acc' = <<>>
  BY <1>2, <1>3, <1>4, <1>5, Zenon DEF readn
<1>7. CASE k < need /\ need' = need - k /\ acc' = a /\ UNCHANGED <<phase, buf, got>>
  <2>1. UNCHANGED <<reader, calls, sent, wbuf, open, phase, buf, got>>
    BY <1>6, <1>7
  <2> QED
    BY <1>2, <1>3, <1>4, <1>6, <1>7, <2>1, PartStep
<1>8. CASE /\ k = need /\ phase = "head"
           /\ buf' = Room(len) /\ need' = Wanted(len) /\ acc' = <<>>
           /\ phase' = (IF Wanted(len) = 0 THEN "end" ELSE "body")
           /\ got' = got
  <2>1. Len(a) = 4
    <3>1. need + Len(acc) = 4 /\ Len(a) = Len(acc) + need /\ need \in Nat
      BY <1>1, <1>3, <1>8 DEF ProtoTypeOK
    <3>2. PICK l \in Nat : l = Len(acc)
      BY <1>2
    <3>3. l + need = need + l
      BY <3>1
    <3> QED
      BY <3>1, <3>2, <3>3, Zenon
  <2>2. UNCHANGED <<reader, calls, sent, wbuf, open, got>>
    BY <1>6, <1>8
  <2> QED
    BY <1>3, <1>4, <1>5, <1>6, <1>8, <2>1, <2>2, HeadStep
<1>9. CASE /\ k = need /\ phase = "body"
           /\ buf' = Store(a) /\ got' = Append(got, SubSeq(Store(a), 1, Smaller(Len(a), Len(buf))))
           /\ phase' = "head" /\ need' = 4 /\ acc' = <<>>
  <2>1. Len(a) = need + Len(acc)
    <3>1. PICK l \in Nat : l = Len(acc)
      BY <1>2
    <3>2. l + k = k + l
      OBVIOUS
    <3> QED
      BY <1>3, <1>9, <3>1, <3>2, Zenon
  <2> QED
    BY <1>3, <1>4, <1>6, <1>9, <2>1, BodyStep
<1> QED
  BY <1>6, <1>7, <1>8, <1>9, Zenon

\* What the invariant says of the records read.
LEMMA InvArrive ==
  ASSUME ProtoInv
  PROVE  RecordsArrive
<1>1. ProtoTypeOK /\ MadeInv /\ DoneInv
  BY DEF ProtoInv
<1>2. sent \in Seq(Record)
  BY <1>1 DEF ProtoTypeOK
<1>3. ASSUME NEW i \in DOMAIN got, \A j \in 1..(i - 1) : reader = "readvrec" \/ Len(sent[j].data) <= InLen
      PROVE  /\ i \in DOMAIN sent /\ IsPrefix(got[i], sent[i].data)
             /\ Len(got[i]) = Wanted(Len(sent[i].data))
             /\ Complete(sent[i]) /\ got[i] = sent[i].data =>
                  \A f \in DOMAIN sent[i].fields :
                    Pop(got[i], Ends(sent[i].fields)[f - 1], sent[i].fields[f]) = sent[i].fields[f].bytes
  <2>1. Fit(sent, i - 1)
    BY <1>3, Zenon DEF Fit
  <2>2. i \in DOMAIN sent /\ got[i] = SubSeq(sent[i].data, 1, Wanted(Len(sent[i].data)))
    BY <1>1, <2>1, Zenon DEF DoneInv
  <2>3. i \in 1..Len(sent)
    BY <1>2, <2>2, SeqFacts
  <2>4. PICK d \in Seq(Byte) : d = sent[i].data
    BY <1>2, <2>3, RecordFacts
  <2>5. PICK fields \in Seq(Field) : fields = sent[i].fields
    BY <1>2, <2>3, RecordFacts
  <2>6. InLen \in Nat /\ Len(d) \in Nat
    BY ProtoAssumption, SeqFacts, SMT DEF ProtoAssumption
  <2>7. PICK l \in 0..Len(d) : l = Wanted(Len(d))
    <3>1. Wanted(Len(d)) \in 0..Len(d)
      BY <2>6 DEF Wanted, Smaller
    <3> QED
      BY <3>1, Zenon
  <2>8. SubSeq(d, 1, l) \in Seq(Byte) /\ Len(SubSeq(d, 1, l)) = l
    BY CutFacts
  <2>9. PICK x \in Seq(Byte) : x = got[i] /\ x = SubSeq(d, 1, l) /\ Len(x) = l
    BY <2>2, <2>4, <2>7, <2>8, Zenon
  <2>10. IsPrefix(x, d)
    <3>1. SubSeq(x, 1, Len(x)) = x
      <4>1. Part(x, x, 0)
        BY SeqFacts DEF Part
      <4>2. SubSeq(x, 0 + 1, 0 + Len(x)) = x
        BY <4>1, PartIs
      <4>3. 0 + Len(x) = Len(x) /\ 0 + 1 = 1
        BY SeqFacts
      <4> QED
        BY <4>2, <4>3, Zenon
    <3>2. l <= Len(d)
      BY <2>6
    <3> QED
      BY <2>9, <3>1, <3>2, Zenon DEF IsPrefix
  <2>11. ASSUME Complete(sent[i]), x = d, NEW f \in DOMAIN fields
         PROVE  Pop(x, Ends(fields)[f - 1], fields[f]) = fields[f].bytes
    <3>1. d = Made(fields)
      BY <1>1, <2>2, <2>4, <2>5, Zenon DEF MadeInv
    <3>2. Len(d) = Ends(fields)[Len(fields)]
      BY <2>4, <2>5, <2>11, Zenon DEF Complete
    <3>3. f \in 1..Len(fields)
      BY <2>11, SeqFacts
    <3> QED
      BY <2>11, <3>1, <3>2, <3>3, FieldsBack, Zenon
  <2> QED
    BY <2>2, <2>4, <2>5, <2>7, <2>9, <2>10, <2>11, Zenon
<1> QED
  BY <1>3, Zenon DEF RecordsArrive

LEMMA ProtoStutter ==
  ASSUME ProtoInv, UNCHANGED protoVars
  PROVE  ProtoInv'
<1>1. /\ reader' = reader /\ calls' = calls /\ sent' = sent /\ wbuf' = wbuf /\ wire' = wire /\ open' = open
      /\ phase' = phase /\ need' = need /\ acc' = acc /\ buf' = buf /\ got' = got
  BY DEF protoVars
<1> QED
  BY <1>1 DEF ProtoInv, ProtoTypeOK, MadeInv, FlightInv, DoneInv, Fit, Reads, Wanted

\* What a call puts together arrives: for all sizes of the buffers and whatever the
\* writes and reads move, the records read are the ones written, in order, cut off
\* only at readvrec1's buffer, and a call whose fields were all taken is given back
\* field by field (PUSH_..., writen, readvrec and readvrec1, POP_... of proto.h).
THEOREM RecordsArriveInOrder ==
  ASSUME NEW todo \in Seq(Seq(Field))
  PROVE  ProtoSpec(todo) => []RecordsArrive
<1>1. ProtoInit(todo) => ProtoInv
  BY InitHolds
<1>2. ASSUME ProtoInv, [ProtoNext]_protoVars PROVE ProtoInv'
  <2>1. CASE MakeCall
    BY <1>2, <2>1, MakeStep
  <2>2. CASE CloseWriter
    BY <1>2, <2>2, CloseStep
  <2>3. CASE ReadEnd
    BY <1>2, <2>3, EndStep
  <2>4. ASSUME NEW n \in IoSizes, writen(n) PROVE ProtoInv'
    BY <1>2, <2>4, WriteStep
  <2>5. ASSUME NEW n \in IoSizes, readn(n) PROVE ProtoInv'
    BY <1>2, <2>5, ReadStep
  <2>6. CASE UNCHANGED protoVars
    BY <1>2, <2>6, ProtoStutter
  <2> QED
    BY <1>2, <2>1, <2>2, <2>3, <2>4, <2>5, <2>6, Zenon DEF ProtoNext
<1>3. ProtoInv => RecordsArrive
  BY InvArrive
<1> QED
  BY <1>1, <1>2, <1>3, PTL DEF ProtoSpec

-----------------------------------------------------------------------------
(***************************************************************************)
(* The pages of AntBody.  What has arrived and what has not is what the    *)
(* server sends behind some position; http_read_body is at a place of the  *)
(* chunk that begins there, or has as much of the page as comes before it. *)
(***************************************************************************)

Sign == Token \cup {"end"}
HttpInfo == [head : BOOLEAN, filesize : Int, chunksize : Int, linecount : Nat, code : Sign \cup {"0"},
             chunkhead : Nat, page : Seq(Sign)]

\* The pieces of a sequence are in it, one behind the other.
Pieces(ps, s, e) ==
  /\ e \in [0..Len(ps) -> Nat] /\ e[0] = 0 /\ e[Len(ps)] = Len(s)
  /\ \A k \in 1..Len(ps) : e[k] = e[k - 1] + Len(ps[k]) /\ Part(ps[k], s, e[k - 1])

LEMMA FlattenIs ==
  ASSUME NEW S, NEW ps \in Seq(Seq(S)), ps # <<>>
  PROVE  FlattenSeq(ps) \in Seq(S) /\ \E e : Pieces(ps, FlattenSeq(ps), e)
<1>1. PICK n \in Nat : n = Len(ps) /\ \A k \in 1..n : ps[k] \in Seq(S)
  BY SeqFacts
<1>2. n # 0 /\ n \in 1..n /\ 1 \in 1..n
  <2>1. n # 0
    BY <1>1, SeqFacts
  <2> QED
    BY <2>1
<1>3. PICK G : G = [x \in Seq(S) \X (1..n) |-> x[1] \o ps[x[2]]]
  OBVIOUS
<1>4. G \in [Seq(S) \X (1..n) -> Seq(S)]
  <2>1. \A b \in Seq(S) : \A k \in 1..n : b \o ps[k] \in Seq(S)
    BY <1>1, ConcatFacts
  <2> QED
    BY <1>3, <2>1
<1>5. \A b \in Seq(S) : \A k \in 1..n : G[<<b, k>>] = b \o ps[k]
  BY <1>3
<1>6. PICK empty \in Seq(S) : empty = <<>>
  <2>1. <<>> \in Seq(S)
    OBVIOUS
  <2> QED
    BY <2>1, Zenon
<1>7. PICK g \in [0..n -> Seq(S)] : g[0] = empty /\ \A k \in 1..n : g[k] = g[k - 1] \o ps[k]
  <2>1. \E g : Recursive(g, Seq(S), n, empty, G)
    BY <1>4, RecursionExists
  <2>2. PICK g : Recursive(g, Seq(S), n, empty, G)
    BY <2>1
  <2>3. g \in [0..n -> Seq(S)] /\ g[0] = empty /\ \A k \in 1..n : g[k] = G[<<g[k - 1], k>>]
    BY <2>2 DEF Recursive
  <2>4. \A k \in 1..n : g[k - 1] \in Seq(S)
    <3>1. \A k \in 1..n : k - 1 \in 0..n
      OBVIOUS
    <3> QED
      BY <2>3, <3>1
  <2>5. \A k \in 1..n : g[k] = g[k - 1] \o ps[k]
    BY <1>5, <2>3, <2>4, Zenon
  <2> QED
    BY <2>3, <2>5, Zenon
<1>8. g[1] = ps[1]
  <2>1. g[1] = g[0] \o ps[1]
    <3>1. g[1] = g[1 - 1] \o ps[1]
      BY <1>2, <1>7, Zenon
    <3>2. 1 - 1 = 0
      OBVIOUS
    <3> QED
      BY <3>1, <3>2, Zenon
  <2>2. PICK p \in Seq(S) : p = ps[1]
    BY <1>1, <1>2
  <2>3. <<>> \o p = p
    OBVIOUS
  <2> QED
    BY <1>6, <1>7, <2>1, <2>2, <2>3, Zenon
<1> DEFINE Eq(h) == h = [i \in 1..Len(ps) |-> IF i = 1 THEN ps[i] ELSE h[i - 1] \o ps[i]]
<1>9. PICK f : f = [i \in 1..n |-> g[i]]
  OBVIOUS
<1>10. Eq(f)
  <2>1. \A i \in 1..n : f[i] = IF i = 1 THEN ps[i] ELSE f[i - 1] \o ps[i]
    <3>1. TAKE i \in 1..n
    <3>2. CASE i = 1
      BY <1>2, <1>8, <1>9, <3>2
    <3>3. CASE i # 1
      <4>1. i - 1 \in 1..n
        BY <3>3
      <4>2. f[i] = g[i] /\ f[i - 1] = g[i - 1]
        BY <1>9, <4>1
      <4> QED
        BY <1>7, <3>3, <4>2, Zenon
    <3> QED
      BY <3>2, <3>3
  <2> QED
    BY <1>1, <1>9, <2>1
<1>11. FlattenSeq(ps) = (CHOOSE h : Eq(h))[n]
  BY <1>1, <1>2 DEF FlattenSeq
<1>12. PICK h : Eq(h) /\ FlattenSeq(ps) = h[n]
  <2> HIDE DEF Eq
  <2> QED
    BY <1>10, <1>11
<1>13. DOMAIN h = 1..n /\ \A i \in 1..n : h[i] = IF i = 1 THEN ps[i] ELSE h[i - 1] \o ps[i]
  <2>1. h = [i \in 1..n |-> IF i = 1 THEN ps[i] ELSE h[i - 1] \o ps[i]]
    BY <1>1, <1>12
  <2> HIDE DEF Eq
  <2> QED
    BY <2>1
<1> HIDE DEF Eq
<1>14. h[n] = g[n]
  <2> DEFINE T == {m \in 0..n : m = 0 \/ h[m] = g[m]}
  <2>1. T \subseteq 0..n /\ 0 \in T
    OBVIOUS
  <2>2. ASSUME NEW m \in T, m < n PROVE m + 1 \in T
    <3>1. m + 1 \in 1..n /\ m + 1 \in 0..n /\ (m + 1) - 1 = m
      BY <2>2
    <3>2. CASE m = 0
      <4>1. m + 1 = 1
        BY <3>2
      <4>2. h[1] = ps[1]
        BY <1>2, <1>13, Zenon
      <4>3. h[m + 1] = g[m + 1]
        BY <1>8, <4>1, <4>2, Zenon
      <4> QED
        BY <3>1, <4>3
    <3>3. CASE m # 0
      <4>1. h[m] = g[m] /\ m + 1 # 1
        BY <2>2, <3>1, <3>3
      <4>2. h[m + 1] = h[m] \o ps[m + 1]
        BY <1>13, <3>1, <4>1
      <4>3. g[m + 1] = g[m] \o ps[m + 1]
        BY <1>7, <3>1
      <4> QED
        BY <3>1, <4>1, <4>2, <4>3
    <3> QED
      BY <3>2, <3>3
  <2>3. T = 0..n
    <3> HIDE DEF T
    <3> QED
      BY <2>1, <2>2, UpTo
  <2>4. n \in 0..n
    OBVIOUS
  <2>5. n \in T
    BY <2>3, <2>4, Zenon
  <2> QED
    BY <1>2, <2>5
<1>15. PICK s \in Seq(S) : s = FlattenSeq(ps) /\ s = g[n]
  <2>1. g[n] \in Seq(S)
    BY <1>7
  <2> QED
    BY <1>12, <1>14, <2>1, Zenon
<1>16. \A k \in 0..n : Part(g[k], s, 0)
  <2> DEFINE T == {m \in 0..n : Part(g[m], s, 0)}
  <2>1. T \subseteq 0..n /\ n \in T
    <3>1. Part(s, s, 0)
      BY SeqFacts DEF Part
    <3> QED
      BY <1>15, <3>1
  <2>2. ASSUME NEW m \in T, 0 < m PROVE m - 1 \in T
    <3>1. m \in 1..n /\ m - 1 \in 0..n
      BY <2>2
    <3>2. PICK a \in Seq(S) : a = g[m - 1]
      BY <1>7, <3>1
    <3>3. PICK b \in Seq(S) : b = ps[m]
      BY <1>1, <3>1
    <3>4. Part(a \o b, s, 0)
      BY <1>7, <2>2, <3>1, <3>2, <3>3
    <3>5. Part(a, s, 0)
      BY <3>4, PartJoin
    <3> QED
      BY <3>1, <3>2, <3>5
  <2>3. T = 0..n
    <3> HIDE DEF T
    <3> QED
      BY <2>1, <2>2, DownTo
  <2> QED
    BY <2>3
<1>17. PICK e : e = [k \in 0..n |-> Len(g[k])]
  OBVIOUS
<1>18. e \in [0..n -> Nat] /\ e[0] = 0 /\ e[n] = Len(s)
  <2>1. \A k \in 0..n : Len(g[k]) \in Nat
    BY <1>7, SeqFacts
  <2>2. e \in [0..n -> Nat] /\ e[0] = Len(g[0]) /\ e[n] = Len(g[n])
    BY <1>17, <2>1
  <2>3. Len(empty) = 0
    BY <1>6
  <2> QED
    BY <1>7, <1>15, <2>2, <2>3
<1>19. ASSUME NEW k \in 1..n PROVE e[k] = e[k - 1] + Len(ps[k]) /\ Part(ps[k], s, e[k - 1])
  <2>1. k \in 0..n /\ k - 1 \in 0..n
    OBVIOUS
  <2>2. PICK a \in Seq(S) : a = g[k - 1]
    BY <1>7, <2>1
  <2>3. PICK b \in Seq(S) : b = ps[k]
    BY <1>1
  <2>4. Part(a \o b, s, 0) /\ e[k] = Len(a \o b) /\ e[k - 1] = Len(a)
    BY <1>7, <1>16, <1>17, <2>1, <2>2, <2>3
  <2>5. Part(b, s, 0 + Len(a)) /\ Len(a \o b) = Len(a) + Len(b) /\ Len(a) \in Nat
    BY <2>4, PartJoin, ConcatFacts, SeqFacts
  <2>6. 0 + Len(a) = Len(a)
    BY <2>5
  <2> QED
    BY <2>3, <2>4, <2>5, <2>6
<1>20. Pieces(ps, s, e)
  BY <1>1, <1>18, <1>19 DEF Pieces
<1> QED
  BY <1>15, <1>20

WasChunked(r) == \E i \in DOMAIN r.lines : r.lines[i] = "chunked"

\* Chunk k of r ends e[k] bytes behind the head, and d[k] bytes of the page behind it.
Layout(r, e, d) ==
  /\ Pieces([k \in DOMAIN r.chunks |-> InChunk(r.chunks[k])], Body(r), e)
  /\ Pieces([k \in DOMAIN r.chunks |-> r.chunks[k].bytes], Data(r), d)

LEMMA ResponseFacts ==
  ASSUME NEW r \in Response
  PROVE  /\ r.lines \in Seq(Token) /\ r.lines # <<>> /\ r.lines[1] \notin {"length", "chunked"}
         /\ r.chunks \in Seq([size : DOMAIN Digits, bytes : Seq(Token)]) /\ r.chunks # <<>>
         /\ \A k \in DOMAIN r.chunks :
              /\ r.chunks[k].size \in DOMAIN Digits /\ r.chunks[k].bytes \in Seq(Token)
              /\ Digits[r.chunks[k].size] = Len(r.chunks[k].bytes)
              /\ r.chunks[k].bytes = <<>> <=> k = Len(r.chunks)
<1>1. /\ r.lines \in Seq(Token) /\ r.chunks \in Seq([size : DOMAIN Digits, bytes : Seq(Token)])
      /\ r.lines # <<>> /\ r.lines[1] \notin {"length", "chunked"} /\ r.chunks # <<>>
      /\ \A k \in DOMAIN r.chunks : /\ Digits[r.chunks[k].size] = Len(r.chunks[k].bytes)
                                    /\ r.chunks[k].bytes = <<>> <=> k = Len(r.chunks)
  BY BodyAssumption DEF BodyAssumption
<1>2. ASSUME NEW k \in DOMAIN r.chunks
      PROVE  r.chunks[k].size \in DOMAIN Digits /\ r.chunks[k].bytes \in Seq(Token)
  <2> DEFINE C == [size : DOMAIN Digits, bytes : Seq(Token)]
  <2>1. r.chunks[k] \in C
    <3> HIDE DEF C
    <3>1. r.chunks \in Seq(C)
      BY <1>1 DEF C
    <3>2. DOMAIN r.chunks = 1..Len(r.chunks) /\ \A i \in 1..Len(r.chunks) : r.chunks[i] \in C
      BY <3>1, SeqFacts
    <3> QED
      BY <3>2
  <2> QED
    BY <2>1
<1> QED
  BY <1>1, <1>2

LEMMA SignFacts ==
  /\ Token \subseteq Sign /\ "end" \in Sign /\ "r" \in Sign /\ "n" \in Sign
  /\ "end" \notin Token /\ "r" \in Token /\ "n" \in Token
  /\ DOMAIN Digits \subseteq Token /\ "r" \notin DOMAIN Digits /\ "n" \notin DOMAIN Digits
  /\ \A x \in DOMAIN Digits : Digits[x] \in Nat
  BY BodyAssumption DEF BodyAssumption, Sign

LEMMA WiderSeq ==
  ASSUME NEW S, NEW T, S \subseteq T, NEW q \in Seq(S)
  PROVE  q \in Seq(T)
<1>1. Len(q) \in Nat /\ \A i \in 1..Len(q) : q[i] \in T
  BY SeqFacts
<1>2. q = [i \in 1..Len(q) |-> q[i]]
  BY SeqDef, SeqFacts
<1>3. q \in [1..Len(q) -> T]
  BY <1>1, <1>2
<1> QED
  BY <1>1, <1>3, SeqDef

LEMMA InChunkFacts ==
  ASSUME NEW c \in [size : DOMAIN Digits, bytes : Seq(Token)]
  PROVE  /\ InChunk(c) \in Seq(Token) /\ Len(InChunk(c)) = Len(c.bytes) + 5
         /\ \A s \in Seq(Sign), off \in Nat :
              Part(InChunk(c), s, off) =>
                /\ s[off + 1] = c.size /\ s[off + 2] = "r" /\ s[off + 3] = "n"
                /\ Part(c.bytes, s, off + 3)
<1>1. PICK b \in Seq(Token) : b = c.bytes
  OBVIOUS
<1>2. PICK h \in Seq(Token) : h = <<c.size, "r", "n">> /\ Len(h) = 3 /\ h[1] = c.size /\ h[2] = "r" /\ h[3] = "n"
  <2>1. c.size \in Token /\ "r" \in Token /\ "n" \in Token
    BY SignFacts
  <2>2. PICK x \in Token : x = c.size
    BY <2>1
  <2>3. <<x, "r", "n">> \in Seq(Token) /\ Len(<<x, "r", "n">>) = 3
    BY <2>1
  <2> QED
    BY <2>2, <2>3
<1>3. PICK t \in Seq(Token) : t = <<"r", "n">> /\ Len(t) = 2
  <2>1. "r" \in Token /\ "n" \in Token
    BY SignFacts
  <2>2. <<"r", "n">> \in Seq(Token) /\ Len(<<"r", "n">>) = 2
    BY <2>1
  <2> QED
    BY <2>2
<1>4. PICK a \in Seq(Token) : a = h \o b /\ Len(a) = 3 + Len(b)
  <2>1. h \o b \in Seq(Token) /\ Len(h \o b) = Len(h) + Len(b)
    BY ConcatFacts
  <2> QED
    BY <1>2, <2>1, Zenon
<1>5. PICK x \in Seq(Token) : x = a \o t /\ Len(x) = Len(a) + 2
  <2>1. a \o t \in Seq(Token) /\ Len(a \o t) = Len(a) + Len(t)
    BY ConcatFacts
  <2> QED
    BY <1>3, <2>1, Zenon
<1>6. InChunk(c) = x
  BY <1>1, <1>2, <1>3, <1>4, <1>5, Zenon DEF InChunk
<1>7. Len(b) \in Nat /\ Len(x) = Len(b) + 5
  BY <1>4, <1>5, SeqFacts
<1>8. ASSUME NEW s \in Seq(Sign), NEW off \in Nat, Part(x, s, off)
      PROVE  s[off + 1] = c.size /\ s[off + 2] = "r" /\ s[off + 3] = "n" /\ Part(b, s, off + 3)
  <2>0. a \in Seq(Sign) /\ t \in Seq(Sign) /\ h \in Seq(Sign) /\ b \in Seq(Sign)
    BY WiderSeq, SignFacts
  <2>1. Part(a, s, off)
    BY <1>5, <1>8, <2>0, PartJoin
  <2>2. Part(h, s, off) /\ Part(b, s, off + Len(h))
    BY <1>4, <2>0, <2>1, PartJoin
  <2>3. \A i \in 1..3 : h[i] = s[off + i]
    BY <1>2, <2>2 DEF Part
  <2>4. s[off + 1] = h[1] /\ s[off + 2] = h[2] /\ s[off + 3] = h[3]
    BY <2>3
  <2> QED
    BY <1>2, <2>2, <2>4
<1> QED
  BY <1>1, <1>5, <1>6, <1>7, <1>8

LEMMA BodyFacts ==
  ASSUME NEW r \in Response
  PROVE  /\ Data(r) \in Seq(Sign) /\ Body(r) \in Seq(Sign) /\ Body(r) \in Seq(Token)
         /\ ~WasChunked(r) => Body(r) = Data(r)
         /\ WasChunked(r) => \E e, d : Layout(r, e, d)
<1>1. PICK c : c = r.chunks /\ c \in Seq([size : DOMAIN Digits, bytes : Seq(Token)]) /\ c # <<>>
  BY ResponseFacts
<1>2. PICK n \in Nat : n = Len(c) /\ DOMAIN c = 1..n /\ n # 0
  BY <1>1, SeqFacts
<1>3. \A k \in 1..n : c[k] \in [size : DOMAIN Digits, bytes : Seq(Token)] /\ c[k].bytes \in Seq(Token)
  <2> DEFINE C == [size : DOMAIN Digits, bytes : Seq(Token)]
  <2>1. \A k \in 1..n : c[k] \in C
    <3> HIDE DEF C
    <3>1. c \in Seq(C)
      BY <1>1 DEF C
    <3> QED
      BY <1>2, <3>1, SeqFacts
  <2> QED
    BY <2>1
<1>4. \A f \in [1..n -> Seq(Token)] : f \in Seq(Seq(Token)) /\ f # <<>>
  <2>1. \A f \in [1..n -> Seq(Token)] : f \in Seq(Seq(Token)) /\ Len(f) = n
    BY SeqDef, LenProperties
  <2> QED
    BY <1>2, <2>1
<1>5. PICK p : p = [k \in 1..n |-> c[k].bytes]
  OBVIOUS
<1>6. PICK q : q = [k \in 1..n |-> InChunk(c[k])]
  OBVIOUS
<1>7. p \in Seq(Seq(Token)) /\ p # <<>> /\ q \in Seq(Seq(Token)) /\ q # <<>>
  <2>1. p \in [1..n -> Seq(Token)]
    BY <1>3, <1>5
  <2>2. \A k \in 1..n : InChunk(c[k]) \in Seq(Token)
    BY <1>3, InChunkFacts
  <2>3. q \in [1..n -> Seq(Token)]
    BY <1>6, <2>2
  <2> QED
    BY <1>4, <2>1, <2>3
<1>8. FlattenSeq(p) \in Seq(Token) /\ \E d : Pieces(p, FlattenSeq(p), d)
  BY <1>7, FlattenIs
<1>9. FlattenSeq(q) \in Seq(Token) /\ \E e : Pieces(q, FlattenSeq(q), e)
  BY <1>7, FlattenIs
<1>10. FlattenSeq(p) \in Seq(Sign) /\ FlattenSeq(q) \in Seq(Sign)
  BY <1>8, <1>9, SignFacts, WiderSeq
<1>11. Data(r) = FlattenSeq(p)
  BY <1>1, <1>2, <1>5, Zenon DEF Data
<1>12. CASE WasChunked(r)
  <2>1. Body(r) = FlattenSeq(q)
    BY <1>1, <1>2, <1>6, <1>12, Zenon DEF Body, WasChunked
  <2>2. PICK e, d : Pieces(p, FlattenSeq(p), d) /\ Pieces(q, FlattenSeq(q), e)
    BY <1>8, <1>9
  <2>3. Layout(r, e, d)
    BY <1>1, <1>2, <1>5, <1>6, <1>11, <2>1, <2>2, Zenon DEF Layout
  <2> QED
    BY <1>9, <1>10, <1>11, <1>12, <2>1, <2>3
<1>13. CASE ~WasChunked(r)
  <2>1. Body(r) = Data(r)
    BY <1>13, Zenon DEF Body, WasChunked
  <2> QED
    BY <1>8, <1>10, <1>11, <1>13, <2>1
<1> QED
  BY <1>12, <1>13

\* What Layout says of one chunk.
LEMMA LayoutFacts ==
  ASSUME NEW r \in Response, NEW e, NEW d, Layout(r, e, d), NEW n, n = Len(r.chunks)
  PROVE  /\ n \in Nat /\ n # 0 /\ DOMAIN r.chunks = 1..n
         /\ \A k \in 0..n : e[k] \in Nat /\ d[k] \in Nat
         /\ e[0] = 0 /\ d[0] = 0 /\ e[n] = Len(Body(r)) /\ d[n] = Len(Data(r))
         /\ \A k \in 1..n : LET c == r.chunks[k] IN
              /\ c.bytes \in Seq(Token) /\ c.size \in DOMAIN Digits /\ Digits[c.size] = Len(c.bytes)
              /\ Len(c.bytes) = 0 <=> k = n
              /\ e[k] = e[k - 1] + Len(c.bytes) + 5 /\ d[k] = d[k - 1] + Len(c.bytes)
              /\ Body(r)[e[k - 1] + 1] = c.size
              /\ Body(r)[e[k - 1] + 2] = "r" /\ Body(r)[e[k - 1] + 3] = "n"
              /\ Part(c.bytes, Body(r), e[k - 1] + 3) /\ Part(c.bytes, Data(r), d[k - 1])
<1>1. PICK c : c = r.chunks /\ c \in Seq([size : DOMAIN Digits, bytes : Seq(Token)]) /\ c # <<>>
  BY ResponseFacts
<1>2. n \in Nat /\ DOMAIN c = 1..n /\ n # 0 /\ n = Len(c)
  BY <1>1, SeqFacts
<1>3. PICK p : p = [k \in 1..n |-> c[k].bytes]
  OBVIOUS
<1>4. PICK q : q = [k \in 1..n |-> InChunk(c[k])]
  OBVIOUS
<1>5. Len(p) = n /\ Len(q) = n
  BY <1>2, <1>3, <1>4, LenProperties
<1>6. Pieces(q, Body(r), e) /\ Pieces(p, Data(r), d)
  BY <1>1, <1>2, <1>3, <1>4, Zenon DEF Layout
<1>7. /\ e \in [0..n -> Nat] /\ e[0] = 0 /\ e[n] = Len(Body(r))
      /\ \A k \in 1..n : e[k] = e[k - 1] + Len(q[k]) /\ Part(q[k], Body(r), e[k - 1])
  BY <1>5, <1>6, Zenon DEF Pieces
<1>8. /\ d \in [0..n -> Nat] /\ d[0] = 0 /\ d[n] = Len(Data(r))
      /\ \A k \in 1..n : d[k] = d[k - 1] + Len(p[k]) /\ Part(p[k], Data(r), d[k - 1])
  BY <1>5, <1>6, Zenon DEF Pieces
<1>9. ASSUME NEW k \in 1..n
      PROVE  /\ c[k].bytes \in Seq(Token) /\ c[k].size \in DOMAIN Digits /\ Digits[c[k].size] = Len(c[k].bytes)
             /\ Len(c[k].bytes) = 0 <=> k = n
             /\ e[k] = e[k - 1] + Len(c[k].bytes) + 5 /\ d[k] = d[k - 1] + Len(c[k].bytes)
             /\ Body(r)[e[k - 1] + 1] = c[k].size
             /\ Body(r)[e[k - 1] + 2] = "r" /\ Body(r)[e[k - 1] + 3] = "n"
             /\ Part(c[k].bytes, Body(r), e[k - 1] + 3) /\ Part(c[k].bytes, Data(r), d[k - 1])
  <2>1. /\ c[k].size \in DOMAIN Digits /\ c[k].bytes \in Seq(Token)
        /\ Digits[c[k].size] = Len(c[k].bytes) /\ (c[k].bytes = <<>> <=> k = n)
    BY <1>1, <1>2, ResponseFacts
  <2>2. Len(c[k].bytes) = 0 <=> c[k].bytes = <<>>
    BY <2>1, SeqFacts
  <2>3. PICK x \in [size : DOMAIN Digits, bytes : Seq(Token)] : x = c[k]
    BY <1>1, <1>2, SeqFacts
  <2>4. PICK i \in 0..n : i = k - 1
    OBVIOUS
  <2>5. PICK u \in Nat : u = e[i]
    BY <1>7
  <2>6. q[k] = InChunk(x) /\ p[k] = x.bytes
    BY <1>3, <1>4, <2>3
  <2>7. Len(q[k]) = Len(x.bytes) + 5 /\ Len(x.bytes) \in Nat
    BY <2>6, InChunkFacts, SeqFacts
  <2>8. e[k] = u + Len(x.bytes) + 5
    <3>1. e[k] = u + Len(q[k])
      BY <1>7, <2>4, <2>5
    <3> QED
      BY <2>7, <3>1
  <2>9. Part(InChunk(x), Body(r), u)
    BY <1>7, <2>4, <2>5, <2>6, Zenon
  <2>10. /\ Body(r)[u + 1] = x.size /\ Body(r)[u + 2] = "r" /\ Body(r)[u + 3] = "n"
         /\ Part(x.bytes, Body(r), u + 3)
    BY <2>9, InChunkFacts, BodyFacts
  <2>11. d[k] = d[k - 1] + Len(x.bytes) /\ Part(x.bytes, Data(r), d[k - 1])
    BY <1>8, <2>6, Zenon
  <2> QED
    BY <2>1, <2>2, <2>3, <2>4, <2>5, <2>8, <2>10, <2>11, Zenon
<1>10. \A k \in 0..n : e[k] \in Nat /\ d[k] \in Nat
  BY <1>7, <1>8
<1> QED
  BY <1>1, <1>2, <1>7, <1>8, <1>9, <1>10, Zenon

\* Chunk k of n, with l bytes.
ChunkAt(r, e, d, n, k, l) ==
  /\ n \in Nat /\ n # 0 /\ k \in Nat /\ 1 <= k /\ k <= n /\ l \in Nat /\ l = Len(r.chunks[k].bytes)
  /\ e[k] \in Nat /\ d[k] \in Nat /\ e[k - 1] \in Nat /\ d[k - 1] \in Nat
  /\ e[n] = Len(Body(r)) /\ d[n] = Len(Data(r))
  /\ r.chunks[k].bytes \in Seq(Sign) /\ r.chunks[k].size \in DOMAIN Digits /\ Digits[r.chunks[k].size] = l
  /\ l = 0 <=> k = n
  /\ e[k] = e[k - 1] + l + 5 /\ d[k] = d[k - 1] + l
  /\ Body(r)[e[k - 1] + 1] = r.chunks[k].size
  /\ Body(r)[e[k - 1] + 2] = "r" /\ Body(r)[e[k - 1] + 3] = "n"
  /\ Part(r.chunks[k].bytes, Body(r), e[k - 1] + 3) /\ Part(r.chunks[k].bytes, Data(r), d[k - 1])

LEMMA LayoutAt ==
  ASSUME NEW r \in Response, NEW e, NEW d, Layout(r, e, d), NEW n, n = Len(r.chunks), NEW k \in 1..n
  PROVE  ChunkAt(r, e, d, n, k, Len(r.chunks[k].bytes))
<1>1. n \in Nat /\ n # 0 /\ e[n] = Len(Body(r)) /\ d[n] = Len(Data(r))
  BY LayoutFacts
<1>2. k \in Nat /\ 1 <= k /\ k <= n /\ k - 1 \in 0..n /\ k \in 0..n
  BY <1>1
<1>3. \A i \in 0..n : e[i] \in Nat /\ d[i] \in Nat
  BY LayoutFacts
<1>4. /\ r.chunks[k].bytes \in Seq(Token) /\ r.chunks[k].size \in DOMAIN Digits
      /\ Digits[r.chunks[k].size] = Len(r.chunks[k].bytes)
      /\ r.chunks[k].bytes = <<>> <=> k = n
  <2>1. k \in DOMAIN r.chunks
    BY LayoutFacts
  <2> QED
    BY <2>1, ResponseFacts
<1>5. Len(r.chunks[k].bytes) = 0 <=> k = n
  BY <1>4, SeqFacts
<1>6. e[k] = e[k - 1] + Len(r.chunks[k].bytes) + 5 /\ d[k] = d[k - 1] + Len(r.chunks[k].bytes)
  BY LayoutFacts
<1>7. /\ Body(r)[e[k - 1] + 1] = r.chunks[k].size
      /\ Body(r)[e[k - 1] + 2] = "r" /\ Body(r)[e[k - 1] + 3] = "n"
  BY LayoutFacts
<1>8. Part(r.chunks[k].bytes, Body(r), e[k - 1] + 3) /\ Part(r.chunks[k].bytes, Data(r), d[k - 1])
  BY LayoutFacts
<1> QED
  <2>1. Len(r.chunks[k].bytes) \in Nat /\ r.chunks[k].bytes \in Seq(Sign)
    BY <1>4, SeqFacts, SignFacts, WiderSeq
  <2>2. e[k] \in Nat /\ d[k] \in Nat /\ e[k - 1] \in Nat /\ d[k - 1] \in Nat
    BY <1>2, <1>3
  <2> QED
    BY <1>1, <1>2, <1>4, <1>5, <1>6, <1>7, <1>8, <2>1, <2>2, Zenon DEF ChunkAt

-----------------------------------------------------------------------------
(* Where what has arrived stands in what is sent. *)

\* Behind c elements of b, q and then t follow, to the end of b.
Rest(q, t, b, c) ==
  /\ c \in Nat /\ Part(q, b, c) /\ Part(t, b, c + Len(q)) /\ c + Len(q) + Len(t) = Len(b)

LEMMA RestMore ==
  ASSUME NEW b \in Seq(Sign), NEW c, NEW q \in Seq(Sign), NEW t \in Seq(Sign), Rest(q, t, b, c),
         NEW k \in Nat, k <= Len(t)
  PROVE  /\ q \o SubSeq(t, 1, k) \in Seq(Sign) /\ SubSeq(t, k + 1, Len(t)) \in Seq(Sign)
         /\ Rest(q \o SubSeq(t, 1, k), SubSeq(t, k + 1, Len(t)), b, c)
<1>0. k \in 0..Len(t)
  BY SeqFacts
<1>1. PICK u \in Seq(Sign) : u = SubSeq(t, 1, k) /\ Len(u) = k
  <2>1. SubSeq(t, 1, k) \in Seq(Sign) /\ Len(SubSeq(t, 1, k)) = k
    BY <1>0, CutFacts
  <2> QED
    BY <2>1, Zenon
<1>2. PICK v \in Seq(Sign) : v = SubSeq(t, k + 1, Len(t)) /\ Len(v) = Len(t) - k
  BY <1>0, CutFacts
<1>3. PICK w \in Seq(Sign) : w = q \o u /\ Len(w) = Len(q) + k
  <2>1. q \o u \in Seq(Sign) /\ Len(q \o u) = Len(q) + Len(u)
    BY ConcatFacts
  <2> QED
    BY <1>1, <2>1, Zenon
<1>4. Len(q) \in Nat /\ Len(t) \in Nat /\ k \in Nat /\ k <= Len(t) /\ c \in Nat /\ Len(b) \in Nat
  BY SeqFacts DEF Rest
<1>5. Part(q, b, c) /\ Part(t, b, c + Len(q)) /\ c + Len(q) + Len(t) = Len(b)
  BY DEF Rest
<1>6. Part(u, b, c + Len(q)) /\ Part(v, b, (c + Len(q)) + k)
  <2>1. c + Len(q) \in Nat
    BY <1>4
  <2> QED
    BY <1>0, <1>1, <1>2, <1>5, <2>1, PartCut
<1>7. Part(w, b, c)
  BY <1>3, <1>4, <1>5, <1>6, PartJoin
<1>8. (c + Len(q)) + k = c + Len(w) /\ c + Len(w) + Len(v) = Len(b)
  <2>1. Len(v) = Len(t) - k /\ Len(w) = Len(q) + k /\ c + Len(q) + Len(t) = Len(b)
    BY <1>2, <1>3, <1>5, Zenon
  <2>2. (c + Len(q)) + k = c + Len(w)
    BY <1>4, <2>1
  <2>3. c + Len(w) + Len(v) = Len(b)
    <3>1. c + (Len(q) + k) + (Len(t) - k) = c + Len(q) + Len(t)
      BY <1>4
    <3> QED
      BY <2>1, <3>1, Zenon
  <2> QED
    BY <2>2, <2>3
<1>9. Rest(w, v, b, c)
  BY <1>4, <1>6, <1>7, <1>8 DEF Rest
<1> QED
  BY <1>1, <1>2, <1>3, <1>9, Zenon

LEMMA RestRead ==
  ASSUME NEW b \in Seq(Sign), NEW c, NEW q \in Seq(Sign), NEW t \in Seq(Sign), Rest(q, t, b, c),
         NEW k \in Nat, k <= Len(q)
  PROVE  Part(SubSeq(q, 1, k), b, c) /\ Rest(SubSeq(q, k + 1, Len(q)), t, b, c + k)
<1>0. k \in 0..Len(q)
  BY SeqFacts
<1>1. PICK v \in Seq(Sign) : v = SubSeq(q, k + 1, Len(q)) /\ Len(v) = Len(q) - k
  BY <1>0, CutFacts
<1>2. Len(q) \in Nat /\ Len(t) \in Nat /\ k \in Nat /\ k <= Len(q) /\ c \in Nat /\ Len(b) \in Nat
  BY SeqFacts DEF Rest
<1>3. Part(q, b, c) /\ Part(t, b, c + Len(q)) /\ c + Len(q) + Len(t) = Len(b)
  BY DEF Rest
<1>4. Part(SubSeq(q, 1, k), b, c) /\ Part(v, b, c + k)
  BY <1>0, <1>1, <1>2, <1>3, PartCut
<1>5. c + Len(q) = (c + k) + Len(v) /\ (c + k) + Len(v) + Len(t) = Len(b) /\ c + k \in Nat
  <2>1. Len(v) = Len(q) - k /\ c + Len(q) + Len(t) = Len(b)
    BY <1>1, <1>3, Zenon
  <2>2. c + Len(q) = (c + k) + Len(v)
    BY <1>2, <2>1
  <2>3. (c + k) + Len(v) + Len(t) = Len(b)
    <3>1. (c + k) + (Len(q) - k) + Len(t) = c + Len(q) + Len(t)
      BY <1>2
    <3> QED
      BY <2>1, <3>1, Zenon
  <2>4. c + k \in Nat
    BY <1>2
  <2> QED
    BY <2>2, <2>3, <2>4
<1>6. Rest(v, t, b, c + k)
  BY <1>3, <1>4, <1>5 DEF Rest
<1> QED
  BY <1>1, <1>4, <1>6, Zenon

LEMMA PartBehind ==
  ASSUME NEW a \in Seq(Sign), NEW b \in Seq(Sign), NEW c \in Nat, NEW q \in Seq(Sign),
         Part(q, a \o b, Len(a) + c)
  PROVE  Part(q, b, c)
<1>1. PICK s \in Seq(Sign) : s = a \o b
  BY ConcatFacts
<1>2. Len(s) = Len(a) + Len(b) /\ \A i \in 1..Len(b) : s[Len(a) + i] = b[i]
  BY <1>1, ConcatFacts
<1>3. Len(a) \in Nat /\ Len(b) \in Nat /\ Len(q) \in Nat
  BY SeqFacts
<1>4. (Len(a) + c) + Len(q) <= Len(s) /\ \A i \in 1..Len(q) : q[i] = s[(Len(a) + c) + i]
  BY <1>1 DEF Part
<1>5. c + Len(q) <= Len(b)
  BY <1>2, <1>3, <1>4
<1>6. ASSUME NEW i \in 1..Len(q) PROVE q[i] = b[c + i]
  <2>1. c + i \in 1..Len(b) /\ (Len(a) + c) + i = Len(a) + (c + i)
    BY <1>3, <1>5
  <2> QED
    BY <1>2, <1>4, <2>1
<1> QED
  BY <1>5, <1>6 DEF Part

LEMMA RestBehind ==
  ASSUME NEW a \in Seq(Sign), NEW b \in Seq(Sign), NEW q \in Seq(Sign), NEW t \in Seq(Sign),
         Rest(q, t, a \o b, Len(a))
  PROVE  Rest(q, t, b, 0)
<1>1. Len(a) \in Nat /\ Len(b) \in Nat /\ Len(q) \in Nat /\ Len(t) \in Nat /\ Len(a \o b) = Len(a) + Len(b)
  BY SeqFacts, ConcatFacts
<1>2. Part(q, a \o b, Len(a)) /\ Part(t, a \o b, Len(a) + Len(q)) /\ Len(a) + Len(q) + Len(t) = Len(a \o b)
  BY DEF Rest
<1>3. Part(q, b, 0)
  <2>1. Len(a) = Len(a) + 0
    BY <1>1
  <2> QED
    BY <1>2, <2>1, PartBehind
<1>4. Part(t, b, 0 + Len(q))
  <2>1. 0 + Len(q) = Len(q)
    BY <1>1
  <2> QED
    BY <1>1, <1>2, <2>1, PartBehind
<1>5. 0 + Len(q) + Len(t) = Len(b)
  BY <1>1, <1>2
<1> QED
  BY <1>3, <1>4, <1>5 DEF Rest

\* A part of a, which s and b both have, is where a is in b.
LEMMA PartThere ==
  ASSUME NEW a \in Seq(Sign), NEW s \in Seq(Sign), NEW b \in Seq(Sign), NEW x \in Nat, NEW y \in Nat,
         Part(a, s, x), Part(a, b, y), NEW q \in Seq(Sign), NEW m \in Nat, m + Len(q) <= Len(a),
         Part(q, s, x + m)
  PROVE  Part(q, b, y + m)
<1>1. Len(a) \in Nat /\ Len(q) \in Nat /\ Len(b) \in Nat
  BY SeqFacts
<1>2. y + Len(a) <= Len(b) /\ \A i \in 1..Len(a) : a[i] = b[y + i] /\ a[i] = s[x + i]
  BY DEF Part
<1>3. (y + m) + Len(q) <= Len(b)
  BY <1>1, <1>2
<1>4. ASSUME NEW i \in 1..Len(q) PROVE q[i] = b[(y + m) + i]
  <2>1. m + i \in 1..Len(a) /\ (y + m) + i = y + (m + i) /\ (x + m) + i = x + (m + i)
    BY <1>1
  <2>2. q[i] = s[(x + m) + i]
    BY DEF Part
  <2> QED
    BY <1>2, <2>1, <2>2
<1> QED
  BY <1>3, <1>4 DEF Part

LEMMA WholePart ==
  ASSUME NEW q \in Seq(Sign), NEW b \in Seq(Sign), Part(q, b, 0)
  PROVE  IsPrefix(q, b) /\ Len(q) <= Len(b) /\ (Len(q) = Len(b) => q = b)
<1>1. Len(q) \in Nat /\ Len(b) \in Nat
  BY SeqFacts
<1>2. Len(q) <= Len(b) /\ \A i \in 1..Len(q) : q[i] = b[i]
  BY <1>1 DEF Part
<1>3. SubSeq(b, 0 + 1, 0 + Len(q)) = q /\ SubSeq(q, 0 + 1, 0 + Len(q)) = q
  <2>1. Part(q, q, 0)
    BY <1>1 DEF Part
  <2> QED
    BY <2>1, PartIs
<1>4. 0 + 1 = 1 /\ 0 + Len(q) = Len(q)
  BY <1>1
<1>5. IsPrefix(q, b)
  BY <1>2, <1>3, <1>4 DEF IsPrefix
<1>6. Len(q) = Len(b) => q = b
  BY <1>2, SameSeq
<1> QED
  BY <1>2, <1>5, <1>6

LEMMA NonblockFacts ==
  ASSUME NEW n \in Nat, inq \in Seq(Sign)
  PROVE  \E k \in 0..Len(inq) :
           /\ k <= n /\ (k = n \/ k = Len(inq))
           /\ readn_nonblock(n).got = SubSeq(inq, 1, k) /\ readn_nonblock(n).rest = SubSeq(inq, k + 1, Len(inq))
           /\ readn_nonblock(n).got \in Seq(Sign) /\ readn_nonblock(n).rest \in Seq(Sign)
           /\ Len(readn_nonblock(n).got) = k /\ Len(readn_nonblock(n).rest) = Len(inq) - k
<1>1. Len(inq) \in Nat
  BY SeqFacts
<1>2. PICK k \in 0..Len(inq) : k = IF n < Len(inq) THEN n ELSE Len(inq)
  BY <1>1
<1>3. readn_nonblock(n) = [got |-> SubSeq(inq, 1, k), rest |-> SubSeq(inq, k + 1, Len(inq))]
  BY <1>2 DEF readn_nonblock
<1>4. readn_nonblock(n).got = SubSeq(inq, 1, k) /\ readn_nonblock(n).rest = SubSeq(inq, k + 1, Len(inq))
  <2>1. PICK a : a = SubSeq(inq, 1, k)
    OBVIOUS
  <2>2. PICK z : z = SubSeq(inq, k + 1, Len(inq))
    OBVIOUS
  <2>3. readn_nonblock(n) = [got |-> a, rest |-> z]
    BY <1>3, <2>1, <2>2, Zenon
  <2>4. readn_nonblock(n).got = a /\ readn_nonblock(n).rest = z
    BY <2>3
  <2> QED
    BY <2>1, <2>2, <2>4, Zenon
<1>5. k <= n /\ (k = n \/ k = Len(inq))
  BY <1>1, <1>2
<1>6. /\ SubSeq(inq, 1, k) \in Seq(Sign) /\ Len(SubSeq(inq, 1, k)) = k
      /\ SubSeq(inq, k + 1, Len(inq)) \in Seq(Sign) /\ Len(SubSeq(inq, k + 1, Len(inq))) = Len(inq) - k
  BY CutFacts
<1> QED
  BY <1>4, <1>5, <1>6, Zenon

-----------------------------------------------------------------------------
(* The head, line by line. *)

\* What the lines of the response say of the body, as http has it.
Framing(h) == (h.chunksize = 0 <=> WasChunked(resp)) /\ h.filesize \in {-1, Len(Data(resp))}

LEMMA SentFacts ==
  ASSUME NEW r \in Response
  PROVE  /\ r.lines \o <<"end">> \in Seq(Sign) /\ Len(r.lines \o <<"end">>) = Len(r.lines) + 1
         /\ Sent(r) \in Seq(Sign) /\ Sent(r) = (r.lines \o <<"end">>) \o Body(r)
         /\ \A i \in 1..Len(r.lines) : Sent(r)[i] = r.lines[i]
         /\ \A i \in 1..Len(Sent(r)) : Sent(r)[i] = "end" <=> i = Len(r.lines) + 1
<1>1. PICK a \in Seq(Sign) : a = r.lines /\ \A i \in 1..Len(a) : a[i] # "end"
  <2>1. r.lines \in Seq(Token) /\ "end" \notin Token /\ Token \subseteq Sign
    BY ResponseFacts, SignFacts
  <2>2. r.lines \in Seq(Sign)
    BY <2>1, WiderSeq
  <2>3. \A i \in 1..Len(r.lines) : r.lines[i] \in Token
    BY <2>1, SeqFacts
  <2> QED
    BY <2>1, <2>2, <2>3
<1>2. PICK b \in Seq(Sign) : b = Body(r) /\ \A i \in 1..Len(b) : b[i] # "end"
  <2>1. Body(r) \in Seq(Sign) /\ Body(r) \in Seq(Token) /\ "end" \notin Token
    BY BodyFacts, SignFacts
  <2>2. \A i \in 1..Len(Body(r)) : Body(r)[i] \in Token
    BY <2>1, SeqFacts
  <2> QED
    BY <2>1, <2>2
<1>3. PICK m \in Seq(Sign) : m = <<"end">> /\ Len(m) = 1 /\ m[1] = "end"
  <2>1. "end" \in Sign
    BY SignFacts
  <2>2. <<"end">> \in Seq(Sign)
    BY <2>1
  <2> QED
    BY <2>2
<1>4. PICK h \in Seq(Sign) : /\ h = a \o m /\ Len(h) = Len(a) + Len(m)
                             /\ \A i \in 1..Len(a) : h[i] = a[i]
                             /\ \A i \in 1..Len(m) : h[Len(a) + i] = m[i]
  <2>1. /\ a \o m \in Seq(Sign) /\ Len(a \o m) = Len(a) + Len(m)
        /\ \A i \in 1..Len(a) : (a \o m)[i] = a[i]
        /\ \A i \in 1..Len(m) : (a \o m)[Len(a) + i] = m[i]
    BY ConcatFacts
  <2> QED
    BY <2>1, Zenon
<1>5. PICK s \in Seq(Sign) : /\ s = h \o b /\ Len(s) = Len(h) + Len(b)
                             /\ \A i \in 1..Len(h) : s[i] = h[i]
                             /\ \A i \in 1..Len(b) : s[Len(h) + i] = b[i]
  <2>1. /\ h \o b \in Seq(Sign) /\ Len(h \o b) = Len(h) + Len(b)
        /\ \A i \in 1..Len(h) : (h \o b)[i] = h[i]
        /\ \A i \in 1..Len(b) : (h \o b)[Len(h) + i] = b[i]
    BY ConcatFacts
  <2> QED
    BY <2>1, Zenon
<1>6. Len(a) \in Nat /\ Len(b) \in Nat /\ Len(h) = Len(a) + 1
  BY <1>3, <1>4, SeqFacts
<1>7. \A i \in 1..Len(a) : s[i] = a[i]
  <2>1. \A i \in 1..Len(a) : i \in 1..Len(h)
    BY <1>6
  <2> QED
    BY <1>4, <1>5, <2>1
<1>8. s[Len(a) + 1] = "end"
  <2>1. Len(a) + 1 \in 1..Len(h) /\ 1 \in 1..Len(m)
    BY <1>3, <1>6
  <2>2. s[Len(a) + 1] = h[Len(a) + 1] /\ h[Len(a) + 1] = m[1]
    BY <1>4, <1>5, <2>1, Zenon
  <2> QED
    BY <1>3, <2>2
<1>9. ASSUME NEW i \in 1..Len(s), i # Len(a) + 1 PROVE s[i] # "end"
  <2>1. CASE i \in 1..Len(a)
    BY <1>1, <1>7, <2>1
  <2>2. CASE i \notin 1..Len(a)
    <3>1. i \in Nat /\ i <= Len(h) + Len(b) /\ Len(h) < i
      BY <1>5, <1>6, <1>9, <2>2
    <3>2. PICK j \in 1..Len(b) : i = Len(h) + j
      <4>1. i - Len(h) \in 1..Len(b) /\ i = Len(h) + (i - Len(h))
        BY <1>6, <3>1
      <4> QED
        BY <4>1
    <3> QED
      BY <1>2, <1>5, <3>2
  <2> QED
    BY <2>1, <2>2
<1>10. Sent(r) = s
  BY <1>1, <1>2, <1>3, <1>4, <1>5, Zenon DEF Sent
<1>11. \A i \in 1..Len(s) : s[i] = "end" <=> i = Len(a) + 1
  BY <1>8, <1>9
<1>12. r.lines \o <<"end">> = h /\ s = h \o Body(r)
  BY <1>1, <1>2, <1>3, <1>4, <1>5, Zenon
<1>13. /\ h \in Seq(Sign) /\ Len(h) = Len(r.lines) + 1
       /\ \A i \in 1..Len(r.lines) : s[i] = r.lines[i]
       /\ \A i \in 1..Len(s) : s[i] = "end" <=> i = Len(r.lines) + 1
  BY <1>1, <1>6, <1>7, <1>11, Zenon
<1> QED
  BY <1>10, <1>12, <1>13, Zenon

LEMMA InfoFacts ==
  ASSUME NEW h \in HttpInfo, NEW f \in Int, NEW c \in Int
  PROVE  [h EXCEPT !.filesize = f, !.chunksize = c] \in HttpInfo
  BY DEF HttpInfo

LEMMA LineFacts ==
  ASSUME NEW h \in HttpInfo, NEW line \in Sign, resp \in Response, NEW n, n = process_line(h, line)
  PROVE  /\ n \in HttpInfo /\ n.head = h.head /\ n.chunkhead = h.chunkhead /\ n.page = h.page
         /\ n.linecount = h.linecount + 1
         /\ n.code = IF h.linecount = 0 THEN line ELSE h.code
         /\ h.linecount = 0 => n.filesize = h.filesize /\ n.chunksize = h.chunksize
         /\ h.linecount # 0 =>
              IF line = "length" /\ h.filesize = -1 THEN n.filesize = Len(Data(resp)) /\ n.chunksize = -1
              ELSE IF line = "chunked" THEN n.filesize = -1 /\ n.chunksize = 0
              ELSE n.filesize = h.filesize /\ n.chunksize = h.chunksize
<1>1. PICK l \in Nat : l = Len(Data(resp))
  BY BodyFacts, SeqFacts
<1>2. PICK x : x = [h EXCEPT !.linecount = @ + 1]
  OBVIOUS
<1>3. /\ x \in HttpInfo /\ x.head = h.head /\ x.chunkhead = h.chunkhead /\ x.page = h.page
      /\ x.linecount = h.linecount + 1 /\ x.code = h.code /\ x.filesize = h.filesize /\ x.chunksize = h.chunksize
  BY <1>2 DEF HttpInfo
<1>4. n = IF h.linecount = 0 THEN [x EXCEPT !.code = line]
          ELSE IF line = "length" /\ h.filesize = -1 THEN [x EXCEPT !.filesize = l, !.chunksize = -1]
          ELSE IF line = "chunked" THEN [x EXCEPT !.filesize = -1, !.chunksize = 0]
          ELSE x
  BY <1>1, <1>2 DEF process_line
<1>5. CASE h.linecount = 0
  <2>1. n = [x EXCEPT !.code = line]
    BY <1>4, <1>5
  <2> QED
    BY <1>3, <1>5, <2>1 DEF HttpInfo
<1>6. CASE h.linecount # 0 /\ line = "length" /\ h.filesize = -1
  <2>1. n = [x EXCEPT !.filesize = l, !.chunksize = -1]
    BY <1>4, <1>6
  <2>2. /\ n.head = x.head /\ n.chunkhead = x.chunkhead /\ n.page = x.page /\ n.linecount = x.linecount
        /\ n.code = x.code /\ n.filesize = l /\ n.chunksize = -1
    BY <1>3, <2>1 DEF HttpInfo
  <2>3. n \in HttpInfo
    <3>1. PICK v \in Int : v = -1
      OBVIOUS
    <3>2. l \in Int
      OBVIOUS
    <3>3. [x EXCEPT !.filesize = l, !.chunksize = v] \in HttpInfo
      BY <1>3, <3>2, InfoFacts
    <3> QED
      BY <2>1, <3>1, <3>3, Zenon
  <2> QED
    BY <1>1, <1>3, <1>6, <2>2, <2>3
<1>7. CASE h.linecount # 0 /\ ~(line = "length" /\ h.filesize = -1) /\ line = "chunked"
  <2>1. n = [x EXCEPT !.filesize = -1, !.chunksize = 0]
    BY <1>4, <1>7
  <2>2. /\ n.head = x.head /\ n.chunkhead = x.chunkhead /\ n.page = x.page /\ n.linecount = x.linecount
        /\ n.code = x.code /\ n.filesize = -1 /\ n.chunksize = 0
    BY <1>3, <2>1 DEF HttpInfo
  <2>3. n \in HttpInfo
    <3>1. PICK v \in Int, w \in Int : v = 0 /\ w = -1
      OBVIOUS
    <3>2. [x EXCEPT !.filesize = w, !.chunksize = v] \in HttpInfo
      BY <1>3, InfoFacts
    <3> QED
      BY <2>1, <3>1, <3>2, Zenon
  <2> QED
    BY <1>3, <1>7, <2>2, <2>3
<1>8. CASE h.linecount # 0 /\ ~(line = "length" /\ h.filesize = -1) /\ line # "chunked"
  <2>1. n = x
    BY <1>4, <1>8
  <2> QED
    BY <1>3, <1>8, <2>1
<1> QED
  BY <1>5, <1>6, <1>7, <1>8

LEMMA LinesIs ==
  ASSUME NEW start \in HttpInfo, NEW lines \in Seq(Sign), resp \in Response
  PROVE  \E h \in [0..Len(lines) -> HttpInfo] :
           /\ h = process_lines(start, lines) /\ h[0] = start
           /\ \A k \in 1..Len(lines) : h[k] = process_line(h[k - 1], lines[k])
<1>1. PICK n \in Nat : n = Len(lines) /\ \A k \in 1..n : lines[k] \in Sign
  BY SeqFacts
<1>2. PICK G : G = [x \in HttpInfo \X (1..n) |-> process_line(x[1], lines[x[2]])]
  OBVIOUS
<1>3. ASSUME NEW b \in HttpInfo, NEW k \in 1..n PROVE process_line(b, lines[k]) \in HttpInfo
  BY <1>1, LineFacts
<1>4. G \in [HttpInfo \X (1..n) -> HttpInfo] /\ \A b \in HttpInfo : \A k \in 1..n : G[<<b, k>>] = process_line(b, lines[k])
  BY <1>2, <1>3
<1>5. PICK g \in [0..n -> HttpInfo] : g[0] = start /\ \A k \in 1..n : g[k] = process_line(g[k - 1], lines[k])
  <2>1. \E g : Recursive(g, HttpInfo, n, start, G)
    BY <1>4, RecursionExists
  <2>2. PICK g : Recursive(g, HttpInfo, n, start, G)
    BY <2>1
  <2>3. g \in [0..n -> HttpInfo] /\ g[0] = start /\ \A k \in 1..n : g[k] = G[<<g[k - 1], k>>]
    BY <2>2 DEF Recursive
  <2>4. \A k \in 1..n : g[k - 1] \in HttpInfo
    <3>1. \A k \in 1..n : k - 1 \in 0..n
      OBVIOUS
    <3> QED
      BY <2>3, <3>1
  <2>5. \A k \in 1..n : g[k] = process_line(g[k - 1], lines[k])
    BY <1>4, <2>3, <2>4, Zenon
  <2> QED
    BY <2>3, <2>5, Zenon
<1> DEFINE Eq(h) == h = [k \in 0..Len(lines) |-> IF k = 0 THEN start ELSE process_line(h[k - 1], lines[k])]
<1>6. Eq(g)
  <2>1. \A k \in 0..n : g[k] = IF k = 0 THEN start ELSE process_line(g[k - 1], lines[k])
    BY <1>5
  <2> QED
    BY <1>1, <2>1
<1>7. process_lines(start, lines) = CHOOSE h : Eq(h)
  BY DEF process_lines
<1>8. PICK h : h = process_lines(start, lines) /\ Eq(h)
  <2> HIDE DEF Eq
  <2> QED
    BY <1>6, <1>7
<1>9. h = [k \in 0..n |-> IF k = 0 THEN start ELSE process_line(h[k - 1], lines[k])]
  BY <1>1, <1>8
<1> HIDE DEF Eq
<1>10. DOMAIN h = 0..n /\ \A k \in 0..n : h[k] = IF k = 0 THEN start ELSE process_line(h[k - 1], lines[k])
  BY <1>9
<1>11. h[0] = start
  <2>1. 0 \in 0..n
    OBVIOUS
  <2> QED
    BY <1>10, <2>1, Zenon
<1>12. \A k \in 1..n : h[k] = process_line(h[k - 1], lines[k])
  <2>1. \A k \in 1..n : k \in 0..n /\ k # 0
    OBVIOUS
  <2> QED
    BY <1>10, <2>1, Zenon
<1>13. h \in [0..n -> HttpInfo]
  <2> DEFINE T == {m \in 0..n : h[m] \in HttpInfo}
  <2>1. T \subseteq 0..n /\ 0 \in T
    <3>1. 0 \in 0..n /\ h[0] \in HttpInfo
      BY <1>11
    <3> QED
      BY <3>1
  <2>2. ASSUME NEW m \in T, m < n PROVE m + 1 \in T
    <3>1. h[m] \in HttpInfo /\ m + 1 \in 1..n /\ (m + 1) - 1 = m
      BY <2>2
    <3>2. h[m + 1] = process_line(h[m], lines[m + 1])
      BY <1>12, <3>1
    <3>3. h[m + 1] \in HttpInfo
      BY <1>3, <3>1, <3>2, Zenon
    <3>4. m + 1 \in 0..n
      BY <3>1
    <3> QED
      BY <3>3, <3>4
  <2>3. T = 0..n
    <3> HIDE DEF T
    <3> QED
      BY <2>1, <2>2, UpTo
  <2>4. \A k \in 0..n : h[k] \in HttpInfo
    BY <2>3
  <2>5. h = [k \in 0..n |-> h[k]]
    BY <1>9, Zenon
  <2> QED
    BY <2>4, <2>5
<1> QED
  BY <1>1, <1>8, <1>11, <1>12, <1>13, Zenon

LEMMA HeadIsRead ==
  ASSUME NEW start \in HttpInfo, resp \in Response, NEW h, h = process_lines(start, resp.lines)[Len(resp.lines)]
  PROVE  /\ h \in HttpInfo /\ h.head = start.head /\ h.chunkhead = start.chunkhead /\ h.page = start.page
         /\ h.linecount > 0
         /\ h.code = IF start.linecount = 0 THEN resp.lines[1] ELSE start.code
         /\ start.linecount = 0 /\ start.filesize = -1 /\ start.chunksize = -1 /\ ~Overruled => Framing(h)
<1>1. PICK l : l = resp.lines /\ l \in Seq(Sign) /\ l # <<>> /\ l[1] \notin {"length", "chunked"}
  <2>1. resp.lines \in Seq(Sign)
    BY ResponseFacts, SignFacts, WiderSeq
  <2> QED
    BY <2>1, ResponseFacts
<1>2. PICK n \in Nat : n = Len(l) /\ DOMAIN l = 1..n /\ n # 0 /\ \A k \in 1..n : l[k] \in Sign
  BY <1>1, SeqFacts
<1>3. PICK g \in [0..n -> HttpInfo] : /\ g = process_lines(start, l) /\ g[0] = start
                                      /\ \A k \in 1..n : g[k] = process_line(g[k - 1], l[k])
  BY <1>1, <1>2, LinesIs
<1>4. h = g[n] /\ h \in HttpInfo
  BY <1>1, <1>2, <1>3
<1> DEFINE Fits(m) == /\ g[m].head = start.head /\ g[m].chunkhead = start.chunkhead /\ g[m].page = start.page
                      /\ g[m].linecount = start.linecount + m
                      /\ g[m].code = IF start.linecount = 0 /\ 0 < m THEN l[1] ELSE start.code
<1>5. ASSUME NEW m \in 0..n, m < n
      PROVE  /\ m + 1 \in 1..n /\ m + 1 \in 0..n /\ g[m] \in HttpInfo /\ l[m + 1] \in Sign
             /\ g[m + 1] = process_line(g[m], l[m + 1])
  <2>1. m + 1 \in 1..n /\ m + 1 \in 0..n /\ (m + 1) - 1 = m
    BY <1>5
  <2> QED
    BY <1>2, <1>3, <2>1
<1>6. start.linecount \in Nat
  BY DEF HttpInfo
<1>7. \A m \in 0..n : Fits(m)
  <2> DEFINE T == {m \in 0..n : Fits(m)}
  <2>1. T \subseteq 0..n /\ 0 \in T
    <3>1. Fits(0)
      BY <1>3, <1>6
    <3> QED
      BY <3>1
  <2>2. ASSUME NEW m \in T, m < n PROVE m + 1 \in T
    <3>1. m \in 0..n /\ m \in Nat /\ Fits(m)
      OBVIOUS
    <3>2. /\ m + 1 \in 0..n /\ g[m + 1].head = g[m].head /\ g[m + 1].chunkhead = g[m].chunkhead
          /\ g[m + 1].page = g[m].page /\ g[m + 1].linecount = g[m].linecount + 1
          /\ g[m + 1].code = IF g[m].linecount = 0 THEN l[m + 1] ELSE g[m].code
      <4>1. /\ m + 1 \in 0..n /\ g[m] \in HttpInfo /\ l[m + 1] \in Sign
            /\ g[m + 1] = process_line(g[m], l[m + 1])
        BY <1>5, <2>2, <3>1
      <4> QED
        BY <4>1, LineFacts
    <3>3. g[m + 1].code = IF start.linecount = 0 /\ 0 < m + 1 THEN l[1] ELSE start.code
      <4>1. CASE start.linecount = 0 /\ m = 0
        BY <3>1, <3>2, <4>1
      <4>2. CASE ~(start.linecount = 0 /\ m = 0)
        <5>1. g[m].linecount # 0 /\ (0 < m + 1) /\ (start.linecount = 0 => 0 < m)
          BY <1>6, <3>1, <4>2
        <5> QED
          BY <3>1, <3>2, <5>1
      <4> QED
        BY <4>1, <4>2
    <3>4. g[m + 1].linecount = start.linecount + (m + 1)
      BY <1>6, <3>1, <3>2
    <3>5. Fits(m + 1)
      BY <3>1, <3>2, <3>3, <3>4, Zenon
    <3> QED
      BY <3>2, <3>5
  <2>3. T = 0..n
    <3> HIDE DEF T
    <3> QED
      BY <2>1, <2>2, UpTo
  <2> QED
    BY <2>3
<1>8. ASSUME start.linecount = 0, start.filesize = -1, start.chunksize = -1, ~Overruled PROVE Framing(h)
  <2>1. \A i, j \in 1..n : ~(i < j /\ l[i] = "chunked" /\ l[j] = "length")
    <3>1. DOMAIN resp.lines = 1..n /\ resp.lines = l
      BY <1>1, <1>2
    <3>2. ~\E i, j \in 1..n : i < j /\ l[i] = "chunked" /\ l[j] = "length"
      BY <1>8, <3>1 DEF Overruled
    <3> QED
      BY <3>2, Zenon
  <2>2. PICK z \in Nat : z = Len(Data(resp))
    BY BodyFacts, SeqFacts
  <2> DEFINE Frames(m) == /\ g[m].chunksize = 0 <=> \E i \in 1..m : l[i] = "chunked"
                          /\ g[m].filesize \in {-1, z}
  <2> DEFINE T == {m \in 0..n : Frames(m)}
  <2>3. T \subseteq 0..n /\ 0 \in T
    <3>1. g[0].chunksize = -1 /\ g[0].filesize = -1 /\ 0 \in 0..n
      BY <1>3, <1>8
    <3> QED
      BY <3>1
  <2>4. ASSUME NEW m \in T, m < n PROVE m + 1 \in T
    <3>1. m \in 0..n /\ m \in Nat /\ Frames(m) /\ Fits(m)
      BY <1>7
    <3> HIDE DEF Fits
    <3>2. /\ m + 1 \in 0..n /\ m + 1 \in 1..n
          /\ g[m].linecount = 0 => g[m + 1].filesize = g[m].filesize /\ g[m + 1].chunksize = g[m].chunksize
          /\ g[m].linecount # 0 =>
               IF l[m + 1] = "length" /\ g[m].filesize = -1 THEN g[m + 1].filesize = z /\ g[m + 1].chunksize = -1
               ELSE IF l[m + 1] = "chunked" THEN g[m + 1].filesize = -1 /\ g[m + 1].chunksize = 0
               ELSE g[m + 1].filesize = g[m].filesize /\ g[m + 1].chunksize = g[m].chunksize
      <4>1. /\ m + 1 \in 0..n /\ m + 1 \in 1..n /\ g[m] \in HttpInfo /\ l[m + 1] \in Sign
            /\ g[m + 1] = process_line(g[m], l[m + 1])
        BY <1>5, <2>4, <3>1
      <4> QED
        BY <2>2, <4>1, LineFacts
    <3>3. g[m].linecount = m
      BY <1>8, <3>1 DEF Fits
    <3>4. (\E i \in 1..(m + 1) : l[i] = "chunked") <=> (\E i \in 1..m : l[i] = "chunked") \/ l[m + 1] = "chunked"
      <4>1. \A i : i \in 1..(m + 1) <=> i \in 1..m \/ i = m + 1
        BY <3>1
      <4> QED
        BY <4>1, Zenon
    <3>5. CASE m = 0
      <4>1. l[m + 1] # "chunked"
        BY <1>1, <3>5
      <4> QED
        BY <3>1, <3>2, <3>3, <3>4, <3>5, <4>1
    <3>6. CASE m # 0 /\ l[m + 1] = "length" /\ g[m].filesize = -1
      <4>1. ~\E i \in 1..m : l[i] = "chunked"
        <5>1. \A i \in 1..m : i \in 1..n /\ i < m + 1
          BY <3>2
        <5> QED
          BY <2>1, <3>2, <3>6, <5>1
      <4>2. g[m + 1].filesize = z /\ g[m + 1].chunksize = -1 /\ l[m + 1] # "chunked"
        BY <3>2, <3>3, <3>6
      <4>3. Frames(m + 1)
        BY <3>4, <4>1, <4>2
      <4> QED
        BY <3>2, <4>3
    <3>7. CASE m # 0 /\ ~(l[m + 1] = "length" /\ g[m].filesize = -1) /\ l[m + 1] = "chunked"
      <4>1. g[m + 1].filesize = -1 /\ g[m + 1].chunksize = 0
        BY <3>2, <3>3, <3>7
      <4>2. Frames(m + 1)
        BY <3>4, <3>7, <4>1
      <4> QED
        BY <3>2, <4>2
    <3>8. CASE m # 0 /\ ~(l[m + 1] = "length" /\ g[m].filesize = -1) /\ l[m + 1] # "chunked"
      <4>1. g[m + 1].filesize = g[m].filesize /\ g[m + 1].chunksize = g[m].chunksize
        BY <3>2, <3>3, <3>8
      <4>2. Frames(m + 1)
        BY <3>1, <3>4, <3>8, <4>1
      <4> QED
        BY <3>2, <4>2
    <3> QED
      BY <3>5, <3>6, <3>7, <3>8
  <2>5. T = 0..n
    <3> HIDE DEF T
    <3> QED
      BY <2>3, <2>4, UpTo
  <2>6. n \in 0..n
    OBVIOUS
  <2>7. Frames(n)
    BY <2>5, <2>6
  <2>8. WasChunked(resp) <=> \E i \in 1..n : l[i] = "chunked"
    BY <1>1, <1>2, Zenon DEF WasChunked
  <2> QED
    BY <1>4, <2>2, <2>7, <2>8 DEF Framing
<1>9. n \in 0..n /\ 0 < n
  BY <1>2
<1>10. Fits(n)
  BY <1>7, <1>9
<1>11. h.linecount > 0
  BY <1>4, <1>6, <1>9, <1>10
<1> QED
  BY <1>1, <1>4, <1>8, <1>9, <1>10, <1>11

LEMMA Start ==
  ASSUME NEW h \in HttpInfo, NEW s, s = [h EXCEPT !.head = TRUE, !.filesize = -1, !.chunksize = -1]
  PROVE  /\ s \in HttpInfo /\ s.head = TRUE /\ s.filesize = -1 /\ s.chunksize = -1 /\ s.linecount = h.linecount
         /\ s.code = h.code /\ s.chunkhead = h.chunkhead /\ s.page = h.page
<1>1. PICK v \in Int : v = -1
  OBVIOUS
<1>2. s = [h EXCEPT !.head = TRUE, !.filesize = v, !.chunksize = v]
  BY <1>1, Zenon
<1>3. s \in HttpInfo
  BY <1>2 DEF HttpInfo
<1>4. /\ s.head = TRUE /\ s.filesize = v /\ s.chunksize = v /\ s.linecount = h.linecount
      /\ s.code = h.code /\ s.chunkhead = h.chunkhead /\ s.page = h.page
  BY <1>2 DEF HttpInfo
<1> QED
  BY <1>1, <1>3, <1>4

LEMMA HeadThere ==
  ASSUME resp \in Response, inq \in Seq(Sign), togo \in Seq(Sign), NEW h \in HttpInfo, ~h.head,
         Rest(inq, togo, Sent(resp), 0), NEW i \in DOMAIN inq, inq[i] = "end",
         NEW r, r = http_read_head(h)
  PROVE  /\ r.http \in HttpInfo /\ r.http.head = TRUE /\ r.http.chunkhead = h.chunkhead /\ r.http.page = h.page
         /\ r.http.linecount > 0 /\ r.http.code = IF h.linecount = 0 THEN resp.lines[1] ELSE h.code
         /\ h.linecount = 0 /\ ~Overruled => Framing(r.http)
         /\ r.rest \in Seq(Sign) /\ Rest(r.rest, togo, Body(resp), 0)
<1>1. PICK n \in Nat : n = Len(resp.lines)
  BY ResponseFacts, SeqFacts
<1>2. PICK s \in Seq(Sign) : s = Sent(resp)
  BY SentFacts
<1>3. PICK a \in Seq(Sign) : a = resp.lines \o <<"end">> /\ Len(a) = n + 1 /\ s = a \o Body(resp)
  <2>1. /\ resp.lines \o <<"end">> \in Seq(Sign) /\ Len(resp.lines \o <<"end">>) = Len(resp.lines) + 1
        /\ Sent(resp) = (resp.lines \o <<"end">>) \o Body(resp)
    BY SentFacts
  <2> QED
    BY <1>1, <1>2, <2>1, Zenon
<1>4. Part(inq, s, 0) /\ Rest(inq, togo, s, 0)
  BY <1>2 DEF Rest
<1>5. Len(inq) \in Nat /\ DOMAIN inq = 1..Len(inq) /\ Len(s) \in Nat
  BY SeqFacts
<1>6. Len(inq) <= Len(s) /\ \A j \in 1..Len(inq) : inq[j] = s[j]
  BY <1>4, <1>5 DEF Part
<1>7. \A j \in 1..Len(inq) : inq[j] = "end" <=> j = n + 1
  <2>1. \A j \in 1..Len(s) : s[j] = "end" <=> j = n + 1
    BY <1>1, <1>2, SentFacts
  <2>2. \A j \in 1..Len(inq) : j \in 1..Len(s)
    BY <1>5, <1>6
  <2> QED
    BY <1>6, <2>1, <2>2
<1>8. {j \in DOMAIN inq : inq[j] = "end"} = {n + 1} /\ n + 1 <= Len(inq)
  BY <1>5, <1>7
<1>9. PICK x : x = [h EXCEPT !.head = TRUE, !.filesize = -1, !.chunksize = -1]
  OBVIOUS
<1>10. r = [http |-> process_lines(x, SubSeq(inq, 1, n))[n], rest |-> SubSeq(inq, (n + 1) + 1, Len(inq))]
  <2>1. (n + 1) - 1 = n /\ (CHOOSE j \in {n + 1} : TRUE) = n + 1 /\ {n + 1} # {}
    OBVIOUS
  <2>2. r = [http |-> process_lines(x, SubSeq(inq, 1, (n + 1) - 1))[(n + 1) - 1], rest |-> SubSeq(inq, (n + 1) + 1, Len(inq))]
    BY <1>8, <1>9, <2>1, Zenon DEF http_read_head
  <2> QED
    BY <2>1, <2>2, Zenon
<1>11. SubSeq(inq, 1, n) = resp.lines
  <2>1. n \in 0..Len(inq)
    BY <1>5, <1>8
  <2>2. PICK b \in Seq(Sign) : b = SubSeq(inq, 1, n) /\ Len(b) = n /\ \A j \in 1..n : b[j] = inq[j]
    <3>1. /\ SubSeq(inq, 1, n) \in Seq(Sign) /\ Len(SubSeq(inq, 1, n)) = n
          /\ \A j \in 1..n : SubSeq(inq, 1, n)[j] = inq[j]
      BY <2>1, CutFacts
    <3> QED
      BY <3>1, Zenon
  <2>3. PICK c \in Seq(Sign) : c = resp.lines
    BY ResponseFacts, SignFacts, WiderSeq
  <2>4. \A j \in 1..n : b[j] = c[j]
    <3>1. \A j \in 1..n : s[j] = c[j]
      BY <1>1, <1>2, <2>3, SentFacts
    <3>2. \A j \in 1..n : j \in 1..Len(inq)
      BY <1>5, <1>8
    <3> QED
      BY <1>6, <2>2, <3>1, <3>2
  <2>5. b = c
    BY <1>1, <2>2, <2>3, <2>4, SameSeq
  <2> QED
    BY <2>2, <2>3, <2>5, Zenon
<1>12. r.http = process_lines(x, resp.lines)[n] /\ r.rest = SubSeq(inq, (n + 1) + 1, Len(inq))
  <2>1. PICK u : u = process_lines(x, resp.lines)[n]
    OBVIOUS
  <2>2. PICK v : v = SubSeq(inq, (n + 1) + 1, Len(inq))
    OBVIOUS
  <2>3. r = [http |-> u, rest |-> v]
    BY <1>10, <1>11, <2>1, <2>2, Zenon
  <2>4. r.http = u /\ r.rest = v
    BY <2>3
  <2> QED
    BY <2>1, <2>2, <2>4, Zenon
<1>13. r.rest \in Seq(Sign) /\ Rest(r.rest, togo, Body(resp), 0)
  <2>1. n + 1 \in 0..Len(inq) /\ n + 1 \in Nat /\ 0 + (n + 1) = n + 1
    BY <1>5, <1>8
  <2>2. PICK v \in Seq(Sign) : v = SubSeq(inq, (n + 1) + 1, Len(inq))
    BY <2>1, CutFacts
  <2>3. Rest(v, togo, s, n + 1)
    <3>1. Rest(v, togo, s, 0 + (n + 1))
      BY <1>4, <1>8, <2>1, <2>2, RestRead
    <3> QED
      BY <2>1, <3>1, Zenon
  <2>4. Rest(v, togo, a \o Body(resp), Len(a))
    BY <1>3, <2>3, Zenon
  <2>5. Rest(v, togo, Body(resp), 0)
    BY <2>4, BodyFacts, RestBehind
  <2> QED
    BY <1>12, <2>2, <2>5, Zenon
<1>14. /\ x \in HttpInfo /\ x.head = TRUE /\ x.filesize = -1 /\ x.chunksize = -1 /\ x.linecount = h.linecount
       /\ x.code = h.code /\ x.chunkhead = h.chunkhead /\ x.page = h.page
  BY <1>9, Start
<1>15. r.http = process_lines(x, resp.lines)[Len(resp.lines)]
  BY <1>1, <1>12, Zenon
<1>16. /\ r.http \in HttpInfo /\ r.http.head = x.head /\ r.http.chunkhead = x.chunkhead /\ r.http.page = x.page
       /\ r.http.linecount > 0
       /\ r.http.code = IF x.linecount = 0 THEN resp.lines[1] ELSE x.code
       /\ x.linecount = 0 /\ x.filesize = -1 /\ x.chunksize = -1 /\ ~Overruled => Framing(r.http)
  BY <1>14, <1>15, HeadIsRead
<1> QED
  BY <1>13, <1>14, <1>16, Zenon

-----------------------------------------------------------------------------
(* The inductive invariant. *)

BodyTypeOK ==
  /\ resp \in Response /\ inq \in Seq(Sign) /\ togo \in Seq(Sign) /\ eof \in BOOLEAN /\ kept \in BOOLEAN
  /\ place \in {"idle", "body", "crlf", "dumped", "dropped", "exited"}
  /\ http \in HttpInfo

\* The code is that of the first line ever read, and a head that does not count as
\* read is still to come, with nothing of an earlier one unless that was kept.
StatusInv ==
  /\ http.code = IF http.linecount = 0 THEN "0" ELSE resp.lines[1]
  /\ ~http.head => /\ place \in {"idle", "exited"}
                   /\ place = "idle" => Rest(inq, togo, Sent(resp), 0)
                   /\ ~kept => http.linecount = 0 /\ http.chunkhead = 0 /\ http.page = <<>>
  /\ http.head /\ http.linecount = 0 => place = "dropped"
  /\ place = "dropped" => resp.lines[1] # "200" \/ (http.linecount = 0 /\ "end" \notin ToSet(inq))

\* The size of chunk k is next.
AtSize(e, d, k) ==
  /\ place \in {"idle", "body"} /\ http.chunkhead = 0
  /\ Rest(inq, togo, Body(resp), e[k - 1]) /\ Len(http.page) = d[k - 1]

\* All but chunkhead bytes of chunk k are in the page.
InBytes(e, d, k) ==
  /\ k # Len(resp.chunks) /\ http.chunkhead <= Len(resp.chunks[k].bytes)
  /\ IF http.chunkhead = 0 THEN place = "crlf" ELSE place \in {"idle", "body"}
  /\ Rest(inq, togo, Body(resp), e[k] - 2 - http.chunkhead) /\ Len(http.page) = d[k] - http.chunkhead

\* The connection ended in front of a size, or inside the two characters before it.
Cut == place \in {"idle", "body"} /\ http.chunkhead = 0 /\ eof /\ inq = <<>>

ReadingInv ==
  ~kept /\ ~Overruled /\ http.head /\ place \in {"idle", "body", "crlf"} =>
    /\ Framing(http)
    /\ IF WasChunked(resp)
       THEN Cut \/ \E e, d : /\ Layout(resp, e, d)
                             /\ \E k \in 1..Len(resp.chunks) : AtSize(e, d, k) \/ InBytes(e, d, k)
       ELSE place # "crlf" /\ Rest(inq, togo, Data(resp), Len(http.page))

WholeInv ==
  ~kept /\ ~Overruled =>
    /\ Part(http.page, Data(resp), 0)
    /\ place = "dumped" =>
         http.page = Data(resp) \/ (eof /\ ~Chunked /\ http.filesize = -1) \/ (Chunked /\ LineEnds = {})

BodyInv == BodyTypeOK /\ StatusInv /\ ReadingInv /\ WholeInv

LEMMA EmptyRest ==
  ASSUME NEW s \in Seq(Sign)
  PROVE  <<>> \in Seq(Sign) /\ Part(<<>>, s, 0) /\ Rest(<<>>, s, s, 0)
<1>1. PICK z \in Seq(Sign) : z = <<>> /\ Len(z) = 0
  <2>1. <<>> \in Seq(Sign)
    OBVIOUS
  <2> QED
    BY <2>1, SeqFacts
<1>2. Len(s) \in Nat
  BY SeqFacts
<1>3. Part(z, s, 0) /\ Part(s, s, 0 + Len(z)) /\ 0 + Len(z) + Len(s) = Len(s)
  BY <1>1, <1>2 DEF Part
<1>4. Rest(z, s, s, 0)
  BY <1>3 DEF Rest
<1> QED
  BY <1>1, <1>3, <1>4, Zenon

LEMMA BodyInitInv ==
  ASSUME NEW r \in Response, BodyInit(r)
  PROVE  BodyInv
<1>1. /\ resp = r /\ togo = Sent(r) /\ inq = <<>> /\ eof = FALSE /\ place = "idle" /\ kept = FALSE
      /\ http = http_init
  BY DEF BodyInit
<1>2. Sent(r) \in Seq(Sign) /\ Data(r) \in Seq(Sign)
  BY SentFacts, BodyFacts
<1>3. <<>> \in Seq(Sign) /\ Part(<<>>, Data(r), 0) /\ Rest(<<>>, Sent(r), Sent(r), 0)
  BY <1>2, EmptyRest
<1>4. /\ http \in HttpInfo /\ http.head = FALSE /\ http.linecount = 0 /\ http.code = "0" /\ http.chunkhead = 0
      /\ http.page = <<>>
  <2>1. PICK v \in Int : v = -1
    OBVIOUS
  <2>2. http = [head |-> FALSE, filesize |-> v, chunksize |-> v, linecount |-> 0, code |-> "0",
                chunkhead |-> 0, page |-> <<>>]
    BY <1>1, <2>1, Zenon DEF http_init
  <2> QED
    BY <1>3, <2>2 DEF HttpInfo
<1>5. BodyTypeOK
  BY <1>1, <1>2, <1>3, <1>4 DEF BodyTypeOK
<1>6. StatusInv
  BY <1>1, <1>3, <1>4 DEF StatusInv
<1>7. ReadingInv
  BY <1>4 DEF ReadingInv
<1>8. WholeInv
  BY <1>1, <1>3, <1>4 DEF WholeInv
<1> QED
  BY <1>5, <1>6, <1>7, <1>8 DEF BodyInv

\* What is read of the body stays where it was when more arrives or the next event comes.
LEMMA ReadingGoesOn ==
  ASSUME BodyTypeOK, ReadingInv, resp' = resp, http' = http, kept' = kept,
         place' = place \/ (place = "idle" /\ place' = "body"), Cut => Cut',
         \A b \in Seq(Sign) : \A c : Rest(inq, togo, b, c) => Rest(inq', togo', b, c)
  PROVE  ReadingInv'
<1> SUFFICES ASSUME ~kept', ~Overruled', http'.head, place' \in {"idle", "body", "crlf"}
             PROVE  /\ Framing(http)'
                    /\ IF WasChunked(resp')
                       THEN Cut' \/ \E e, d : /\ Layout(resp', e, d)
                                              /\ \E k \in 1..Len(resp'.chunks) : AtSize(e, d, k)' \/ InBytes(e, d, k)'
                       ELSE place' # "crlf" /\ Rest(inq', togo', Data(resp'), Len(http'.page))
  BY DEF ReadingInv
<1>1. ~kept /\ ~Overruled /\ http.head /\ place \in {"idle", "body", "crlf"}
  BY DEF Overruled
<1>2. Framing(http) /\ Framing(http)'
  <2>1. Framing(http)
    BY <1>1 DEF ReadingInv
  <2> QED
    BY <2>1 DEF Framing
<1>3. Body(resp) \in Seq(Sign) /\ Data(resp) \in Seq(Sign)
  BY BodyFacts DEF BodyTypeOK
<1>4. CASE WasChunked(resp)
  <2>1. Cut \/ \E e, d : Layout(resp, e, d) /\ \E k \in 1..Len(resp.chunks) : AtSize(e, d, k) \/ InBytes(e, d, k)
    BY <1>1, <1>4 DEF ReadingInv
  <2>2. ASSUME NEW e, NEW d, NEW k, AtSize(e, d, k) PROVE AtSize(e, d, k)'
    BY <1>3, <2>2 DEF AtSize
  <2>3. ASSUME NEW e, NEW d, NEW k, InBytes(e, d, k) PROVE InBytes(e, d, k)'
    BY <1>3, <2>3 DEF InBytes
  <2>4. Cut' \/ \E e, d : /\ Layout(resp', e, d)
                          /\ \E k \in 1..Len(resp'.chunks) : AtSize(e, d, k)' \/ InBytes(e, d, k)'
    BY <2>1, <2>2, <2>3, Zenon
  <2> QED
    BY <1>2, <1>4, <2>4
<1>5. CASE ~WasChunked(resp)
  <2>1. place # "crlf" /\ Rest(inq, togo, Data(resp), Len(http.page))
    BY <1>1, <1>5 DEF ReadingInv
  <2>2. place' # "crlf" /\ Rest(inq', togo', Data(resp'), Len(http'.page))
    BY <1>3, <2>1
  <2> QED
    BY <1>2, <1>5, <2>2
<1> QED
  BY <1>4, <1>5

\* Nothing changes about the head while the body is read.
LEMMA StatusKept ==
  ASSUME StatusInv, http.head, ~Over, resp' = resp, http'.head = http.head,
         http'.linecount = http.linecount, http'.code = http.code, place' # "dropped"
  PROVE  StatusInv'
<1>1. http.linecount # 0
  BY DEF StatusInv, Over
<1> QED
  BY <1>1 DEF StatusInv

LEMMA ArriveKeeps == BodyInv /\ Arrive => BodyInv'
<1> SUFFICES ASSUME BodyInv, Arrive PROVE BodyInv'
  OBVIOUS
<1>1. BodyTypeOK /\ StatusInv /\ ReadingInv /\ WholeInv
  BY DEF BodyInv
<1>2. /\ ~Over /\ eof = FALSE
      /\ UNCHANGED <<resp, eof, try, place, http, kept>>
  BY <1>1 DEF Arrive, BodyTypeOK
<1>3. PICK n \in 1..Len(togo) : inq' = inq \o SubSeq(togo, 1, n) /\ togo' = SubSeq(togo, n + 1, Len(togo))
  BY DEF Arrive
<1>4. inq \in Seq(Sign) /\ togo \in Seq(Sign) /\ resp \in Response /\ Len(togo) \in Nat /\ n \in Nat /\ n <= Len(togo)
  <2>1. inq \in Seq(Sign) /\ togo \in Seq(Sign) /\ resp \in Response
    BY <1>1 DEF BodyTypeOK
  <2>2. Len(togo) \in Nat
    BY <2>1, SeqFacts
  <2> QED
    BY <2>1, <2>2
<1>5. inq' \in Seq(Sign) /\ togo' \in Seq(Sign)
  <2>1. n \in 0..Len(togo)
    BY <1>4
  <2>2. SubSeq(togo, 1, n) \in Seq(Sign) /\ SubSeq(togo, n + 1, Len(togo)) \in Seq(Sign)
    BY <1>4, <2>1, CutFacts
  <2>3. inq \o SubSeq(togo, 1, n) \in Seq(Sign)
    BY <1>4, <2>2, ConcatFacts
  <2> QED
    BY <1>3, <2>2, <2>3
<1>6. \A b \in Seq(Sign) : \A c : Rest(inq, togo, b, c) => Rest(inq', togo', b, c)
  BY <1>3, <1>4, RestMore, Zenon
<1>7. BodyTypeOK'
  BY <1>1, <1>2, <1>5 DEF BodyTypeOK
<1>8. StatusInv'
  <2>1. Sent(resp) \in Seq(Sign) /\ place # "dropped"
    BY <1>2, <1>4, SentFacts DEF Over
  <2> QED
    BY <1>1, <1>2, <1>6, <2>1 DEF StatusInv
<1>9. ReadingInv'
  <2>1. ~Cut
    BY <1>2 DEF Cut
  <2> QED
    BY <1>1, <1>2, <1>6, <2>1, ReadingGoesOn
<1>10. WholeInv'
  <2>1. place' # "dumped"
    BY <1>2 DEF Over
  <2> QED
    BY <1>1, <1>2, <2>1 DEF WholeInv, Overruled
<1> QED
  BY <1>7, <1>8, <1>9, <1>10 DEF BodyInv

LEMMA PeerClosesKeeps == BodyInv /\ PeerCloses => BodyInv'
<1> SUFFICES ASSUME BodyInv, PeerCloses PROVE BodyInv'
  OBVIOUS
<1>1. BodyTypeOK /\ StatusInv /\ ReadingInv /\ WholeInv
  BY DEF BodyInv
<1>2. ~Over /\ eof' = TRUE /\ UNCHANGED <<resp, togo, inq, try, place, http, kept>>
  BY DEF PeerCloses
<1>3. BodyTypeOK'
  BY <1>1, <1>2 DEF BodyTypeOK
<1>4. StatusInv'
  BY <1>1, <1>2 DEF StatusInv
<1>5. ReadingInv'
  <2>1. Cut => Cut'
    BY <1>2 DEF Cut
  <2> QED
    BY <1>1, <1>2, <2>1, ReadingGoesOn
<1>6. WholeInv'
  <2>1. place' # "dumped"
    BY <1>2 DEF Over
  <2> QED
    BY <1>1, <1>2, <2>1 DEF WholeInv, Overruled
<1> QED
  BY <1>3, <1>4, <1>5, <1>6 DEF BodyInv

LEMMA DoErrorKeeps == BodyInv /\ do_error => BodyInv'
<1> SUFFICES ASSUME BodyInv, do_error PROVE BodyInv'
  OBVIOUS
<1>1. BodyTypeOK /\ StatusInv /\ ReadingInv /\ WholeInv
  BY DEF BodyInv
<1>2. /\ ~Over /\ place' \in {"idle", "exited"} /\ http' = [http EXCEPT !.head = FALSE]
      /\ togo' = Sent(resp) /\ inq' = <<>> /\ eof' = FALSE /\ kept' = (kept \/ http.linecount > 0)
      /\ resp' = resp
  BY DEF do_error
<1>3. resp \in Response /\ http \in HttpInfo /\ kept \in BOOLEAN
  BY <1>1 DEF BodyTypeOK
<1>4. /\ http' \in HttpInfo /\ http'.head = FALSE /\ http'.linecount = http.linecount /\ http'.code = http.code
      /\ http'.chunkhead = http.chunkhead /\ http'.page = http.page /\ http.linecount \in Nat
  BY <1>2, <1>3 DEF HttpInfo
<1>5. Sent(resp) \in Seq(Sign) /\ <<>> \in Seq(Sign) /\ Rest(<<>>, Sent(resp), Sent(resp), 0)
  BY <1>3, SentFacts, EmptyRest
<1>6. BodyTypeOK'
  BY <1>2, <1>3, <1>4, <1>5 DEF BodyTypeOK
<1>7. ~kept' => http.linecount = 0 /\ http.chunkhead = 0 /\ http.page = <<>>
  <2>1. ~kept' => ~kept /\ http.linecount = 0
    <3>1. ~kept' => ~kept /\ ~(http.linecount > 0)
      BY <1>2, Zenon
    <3>2. ~(http.linecount > 0) => http.linecount = 0
      BY <1>4
    <3> QED
      BY <3>1, <3>2
  <2>2. http.linecount = 0 => ~http.head
    BY <1>1, <1>2 DEF StatusInv, Over
  <2> QED
    BY <1>1, <2>1, <2>2 DEF StatusInv
<1>8. StatusInv'
  BY <1>1, <1>2, <1>4, <1>5, <1>7 DEF StatusInv
<1>9. ReadingInv'
  BY <1>4 DEF ReadingInv
<1>10. WholeInv'
  <2>1. ~kept' => ~kept
    BY <1>2, <1>4
  <2> QED
    BY <1>1, <1>2, <1>4, <2>1 DEF WholeInv, Overruled
<1> QED
  BY <1>6, <1>8, <1>9, <1>10 DEF BodyInv

-----------------------------------------------------------------------------
(* The head is read, or not. *)

LEMMA HeadNotThere ==
  ASSUME NEW h \in HttpInfo, ~h.head, \A i \in DOMAIN inq : inq[i] # "end", NEW r, r = http_read_head(h)
  PROVE  /\ r.http \in HttpInfo /\ r.http.head = TRUE /\ r.http.linecount = h.linecount
         /\ r.http.code = h.code /\ r.http.page = h.page /\ r.rest = inq
<1>1. PICK s \in HttpInfo : s = [h EXCEPT !.head = TRUE, !.filesize = -1, !.chunksize = -1]
  BY Start
<1>2. {i \in DOMAIN inq : inq[i] = "end"} = {}
  OBVIOUS
<1>3. r = [http |-> s, rest |-> inq]
  BY <1>1, <1>2, Zenon DEF http_read_head
<1>4. r.http = s /\ r.rest = inq
  BY <1>3
<1>5. s.head = TRUE /\ s.linecount = h.linecount /\ s.code = h.code /\ s.page = h.page
  BY <1>1, Start, ZenonT(30)
<1> QED
  BY <1>4, <1>5, Zenon

\* The first chunk, or what is not in chunks, begins behind the head.
LEMMA ReadingBegins ==
  ASSUME resp \in Response, resp' = resp, togo' = togo, Framing(http'), http'.chunkhead = 0,
         Len(http'.page) = 0, place' = "body", Rest(inq', togo, Body(resp), 0)
  PROVE  ReadingInv'
<1>1. Framing(http)'
  BY DEF Framing
<1>2. CASE WasChunked(resp)
  <2>1. PICK n : n = Len(resp.chunks)
    OBVIOUS
  <2>2. PICK e, d : Layout(resp, e, d)
    BY <1>2, BodyFacts
  <2>3. n \in Nat /\ n # 0 /\ e[0] = 0 /\ d[0] = 0
    BY <2>1, <2>2, LayoutFacts
  <2>4. 1 \in 1..n /\ 1 - 1 = 0
    BY <2>3
  <2>5. AtSize(e, d, 1)'
    BY <2>3, <2>4 DEF AtSize
  <2>6. \E k \in 1..Len(resp'.chunks) : AtSize(e, d, k)' \/ InBytes(e, d, k)'
    BY <2>1, <2>4, <2>5
  <2>7. \E x, y : Layout(resp', x, y) /\ \E k \in 1..Len(resp'.chunks) : AtSize(x, y, k)' \/ InBytes(x, y, k)'
    BY <2>2, <2>6
  <2> QED
    BY <1>1, <1>2, <2>7 DEF ReadingInv
<1>3. CASE ~WasChunked(resp)
  <2>1. place' # "crlf" /\ Rest(inq', togo', Data(resp'), Len(http'.page))
    BY <1>3, BodyFacts
  <2> QED
    BY <1>1, <1>3, <2>1 DEF ReadingInv
<1> QED
  BY <1>2, <1>3

LEMMA DoReadKeeps == BodyInv /\ do_read => BodyInv'
<1> SUFFICES ASSUME BodyInv, do_read PROVE BodyInv'
  OBVIOUS
<1>1. BodyTypeOK /\ StatusInv /\ ReadingInv /\ WholeInv
  BY DEF BodyInv
<1>2. PICK r : r = http_read_head(http)
  OBVIOUS
<1>3. /\ place = "idle" /\ http' = r.http /\ inq' = r.rest
      /\ place' = IF r.http.code = "200" THEN "body" ELSE "dropped"
      /\ UNCHANGED <<resp, togo, eof, try, kept>>
  BY <1>2 DEF do_read
<1>4. /\ resp \in Response /\ inq \in Seq(Sign) /\ togo \in Seq(Sign) /\ http \in HttpInfo
      /\ eof \in BOOLEAN /\ kept \in BOOLEAN
  BY <1>1 DEF BodyTypeOK
<1>5. place' \in {"body", "dropped"} /\ place' # "dumped" /\ place' # "idle" /\ place' # "crlf"
  BY <1>3
<1>6. ASSUME http' \in HttpInfo, inq' \in Seq(Sign)
      PROVE  BodyTypeOK'
  BY <1>3, <1>4, <1>5, <1>6 DEF BodyTypeOK
<1>7. ASSUME http'.page = http.page
      PROVE  WholeInv'
  BY <1>1, <1>3, <1>5, <1>7 DEF WholeInv, Overruled
<1>8. CASE http.head
  <2>1. r.http = http /\ r.rest = inq
    BY <1>2, <1>8 DEF http_read_head
  <2>2. http' = http /\ inq' = inq
    BY <1>3, <2>1
  <2>3. http.linecount # 0 /\ http.code = resp.lines[1]
    BY <1>1, <1>3, <1>8 DEF StatusInv
  <2>4. StatusInv'
    BY <1>3, <1>8, <2>2, <2>3 DEF StatusInv
  <2>5. ReadingInv'
    <3>1. CASE place' = "body"
      <4>1. Cut => Cut'
        BY <1>3, <2>2, <3>1 DEF Cut
      <4> QED
        BY <1>1, <1>3, <2>2, <3>1, <4>1, ReadingGoesOn
    <3>2. CASE place' = "dropped"
      BY <3>2 DEF ReadingInv
    <3> QED
      BY <1>5, <3>1, <3>2
  <2> QED
    BY <1>4, <1>6, <1>7, <2>2, <2>4, <2>5 DEF BodyInv
<1>9. CASE ~http.head /\ \A i \in DOMAIN inq : inq[i] # "end"
  <2>1. /\ http' \in HttpInfo /\ http'.head = TRUE /\ http'.linecount = http.linecount
        /\ http'.code = http.code /\ http'.page = http.page /\ inq' = inq
    BY <1>2, <1>3, <1>4, <1>9, HeadNotThere
  <2>2. "end" \notin ToSet(inq)
    BY <1>9 DEF ToSet
  <2>3. http.linecount = 0 => place' = "dropped"
    BY <1>1, <1>3, <2>1 DEF StatusInv
  <2>4. StatusInv'
    BY <1>1, <1>3, <2>1, <2>2, <2>3 DEF StatusInv
  <2>5. ReadingInv'
    <3>1. ~kept' => http.linecount = 0
      BY <1>1, <1>3, <1>9 DEF StatusInv
    <3>2. ~kept' => place' = "dropped"
      BY <2>3, <3>1
    <3> QED
      BY <3>2 DEF ReadingInv
  <2> QED
    BY <1>4, <1>6, <1>7, <2>1, <2>4, <2>5 DEF BodyInv
<1>10. CASE ~http.head /\ \E i \in DOMAIN inq : inq[i] = "end"
  <2>1. PICK i \in DOMAIN inq : inq[i] = "end"
    BY <1>10
  <2>2. Rest(inq, togo, Sent(resp), 0)
    BY <1>1, <1>3, <1>10 DEF StatusInv
  <2>3. /\ r.http \in HttpInfo /\ r.http.head = TRUE /\ r.http.chunkhead = http.chunkhead
        /\ r.http.page = http.page
        /\ r.http.linecount > 0 /\ r.http.code = IF http.linecount = 0 THEN resp.lines[1] ELSE http.code
        /\ http.linecount = 0 /\ ~Overruled => Framing(r.http)
        /\ r.rest \in Seq(Sign) /\ Rest(r.rest, togo, Body(resp), 0)
    BY <1>2, <1>4, <1>10, <2>1, <2>2, HeadThere
  <2>4. r.http.code = resp.lines[1]
    BY <1>1, <2>3 DEF StatusInv
  <2>5. r.http.linecount # 0
    BY <2>3 DEF HttpInfo
  <2>6. StatusInv'
    BY <1>3, <2>3, <2>4, <2>5 DEF StatusInv
  <2>7. ReadingInv'
    <3>1. CASE ~kept /\ ~Overruled /\ place' = "body"
      <4>1. http.linecount = 0 /\ http.chunkhead = 0 /\ http.page = <<>>
        BY <1>1, <1>10, <3>1 DEF StatusInv
      <4>2. Len(http.page) = 0
        BY <4>1
      <4>3. Framing(http') /\ http'.chunkhead = 0 /\ Len(http'.page) = 0
        BY <1>3, <2>3, <3>1, <4>1, <4>2, Zenon
      <4>4. Rest(inq', togo, Body(resp), 0)
        BY <1>3, <2>3, Zenon
      <4> QED
        BY <1>3, <1>4, <3>1, <4>3, <4>4, ReadingBegins
    <3>2. CASE kept
      BY <1>3, <3>2 DEF ReadingInv
    <3>3. CASE Overruled
      BY <1>3, <3>3 DEF ReadingInv, Overruled
    <3>4. CASE place' = "dropped"
      BY <3>4 DEF ReadingInv
    <3> QED
      BY <1>5, <3>1, <3>2, <3>3, <3>4
  <2> QED
    BY <1>3, <1>6, <1>7, <2>3, <2>6, <2>7 DEF BodyInv
<1> QED
  BY <1>8, <1>9, <1>10

-----------------------------------------------------------------------------
(* The steps of http_read_body. *)

LEMMA LeastNat ==
  ASSUME NEW S \in SUBSET Nat, S # {}
  PROVE  \E k \in S : \A j \in S : k <= j
<1>1. PICK k \in S : \A j \in S : <<j, k>> \notin OpToRel(<, Nat)
  BY NatLessThanWellFounded, WFMin
<1>2. \A j \in S : ~(j < k)
  BY <1>1, Zenon DEF OpToRel
<1> QED
  BY <1>2

LEMMA LeastEnd ==
  ASSUME inq \in Seq(Sign), LineEnds # {}
  PROVE  \E i \in LineEnds : /\ i = CHOOSE x \in LineEnds : \A y \in LineEnds : x <= y
                             /\ \A y \in LineEnds : i <= y
<1>1. Len(inq) \in Nat
  BY SeqFacts
<1>2. LineEnds \in SUBSET Nat
  BY <1>1 DEF LineEnds
<1>3. \E x \in LineEnds : \A y \in LineEnds : x <= y
  BY <1>2, LeastNat
<1> QED
  BY <1>3, Zenon

\* A line that ends at all has a number, in front of its end.
LEMMA LineIs ==
  ASSUME inq \in Seq(Sign), NEW i \in LineEnds, NEW line
  PROVE  /\ i \in Nat /\ i # 0 /\ i + 1 <= Len(inq)
         /\ SubSeq(inq, i + 2, Len(inq)) \in Seq(Sign) /\ strtoul(line) \in Nat
<1>1. Len(inq) \in Nat
  BY SeqFacts
<1>5. i \in Nat /\ i # 0 /\ i + 1 <= Len(inq)
  <2>1. i \in 1..(Len(inq) - 1)
    BY DEF LineEnds
  <2>2. PICK m \in Nat : m = Len(inq)
    BY <1>1
  <2> QED
    BY <2>1, <2>2
<1>6. SubSeq(inq, i + 2, Len(inq)) \in Seq(Sign)
  <2>0. PICK m \in Nat : m = Len(inq)
    BY <1>1
  <2>1. PICK j \in 0..m : j = i + 1
    BY <1>5, <2>0
  <2>2. SubSeq(inq, j + 1, Len(inq)) \in Seq(Sign)
    BY <2>0, <2>1, CutFacts
  <2>3. j + 1 = i + 2
    BY <1>5, <2>1
  <2> QED
    BY <2>2, <2>3
<1>7. strtoul(line) \in Nat
  <2>1. \A x : x \in DOMAIN Digits => Digits[x] \in Nat
    BY SignFacts
  <2> QED
    BY <2>1 DEF strtoul
<1> QED
  BY <1>5, <1>6, <1>7

\* In front of chunk k the least line end is behind its size.
LEMMA SizeLine ==
  ASSUME resp \in Response, inq \in Seq(Sign), togo \in Seq(Sign), NEW e, NEW d, Layout(resp, e, d),
         NEW k \in 1..Len(resp.chunks), Rest(inq, togo, Body(resp), e[k - 1]), 
         NEW i \in LineEnds, \A y \in LineEnds : i <= y
  PROVE  i = 2 /\ 3 <= Len(inq) /\ strtoul(SubSeq(inq, 1, i - 1)) = Len(resp.chunks[k].bytes)
<1>1. PICK n : n = Len(resp.chunks)
  OBVIOUS
<1>2. PICK c : c = resp.chunks[k]
  OBVIOUS
<1>3. k \in 1..n /\ n \in Nat /\ k - 1 \in 0..n
  <2>1. n \in Nat
    BY <1>1, LayoutFacts
  <2> QED
    BY <1>1, <2>1
<1>4. PICK o \in Nat : o = e[k - 1]
  BY <1>1, <1>3, LayoutFacts
<1>5. PICK b : b = Body(resp)
  OBVIOUS
<1>6. /\ c.size \in DOMAIN Digits /\ Digits[c.size] = Len(c.bytes)
      /\ b[o + 1] = c.size /\ b[o + 2] = "r" /\ b[o + 3] = "n"
  <2>1. /\ resp.chunks[k].size \in DOMAIN Digits
        /\ Digits[resp.chunks[k].size] = Len(resp.chunks[k].bytes)
        /\ Body(resp)[e[k - 1] + 1] = resp.chunks[k].size
        /\ Body(resp)[e[k - 1] + 2] = "r" /\ Body(resp)[e[k - 1] + 3] = "n"
    <3>1. ChunkAt(resp, e, d, n, k, Len(resp.chunks[k].bytes))
      BY <1>1, LayoutAt
    <3> QED
      BY <3>1 DEF ChunkAt
  <2> QED
    BY <1>2, <1>4, <1>5, <2>1, Zenon
<1>7. Len(inq) \in Nat /\ \A j \in 1..Len(inq) : inq[j] = b[o + j]
  <2>1. Len(inq) \in Nat
    BY SeqFacts
  <2>2. Part(inq, b, o)
    BY <1>4, <1>5 DEF Rest
  <2> QED
    BY <2>1, <2>2 DEF Part
<1>8. c.size # "r" /\ c.size # "n"
  BY <1>6, SignFacts
<1>10. i \in Nat /\ i # 0 /\ i + 1 <= Len(inq) /\ inq[i] = "r"
  <2>1. inq[i] = "r"
    BY DEF LineEnds
  <2> QED
    BY <2>1, LineIs
<1>11. i # 1
  BY <1>6, <1>7, <1>8, <1>10
<1>12. 3 <= Len(inq)
  BY <1>7, <1>10, <1>11
<1>13. inq[1] = c.size /\ inq[2] = "r" /\ inq[3] = "n"
  BY <1>6, <1>7, <1>12
<1>14. 2 \in LineEnds
  BY <1>7, <1>12, <1>13 DEF LineEnds
<1>17. i = 2
  BY <1>10, <1>11, <1>14
<1>18. PICK l \in Seq(Sign) : l = SubSeq(inq, 1, 1) /\ Len(l) = 1 /\ l[1] = c.size
  <2>1. 1 \in 0..Len(inq) /\ 1 \in 1..1
    BY <1>7, <1>12
  <2>2. SubSeq(inq, 1, 1) \in Seq(Sign) /\ Len(SubSeq(inq, 1, 1)) = 1 /\ SubSeq(inq, 1, 1)[1] = inq[1]
    BY <2>1, CutFacts
  <2> QED
    BY <1>13, <2>2
<1>19. strtoul(l) = Digits[c.size]
  <2>1. DOMAIN l = {1}
    BY <1>18, SeqFacts
  <2> DEFINE word == {x \in DOMAIN l : l[x] \notin {"r", "n"}}
             first == CHOOSE x \in word : \A y \in word : x <= y
  <2>2. strtoul(l) = IF word # {} /\ l[first] \in DOMAIN Digits THEN Digits[l[first]] ELSE 0
    BY DEF strtoul
  <2>3. word = {1}
    BY <1>8, <1>18, <2>1
  <2>4. first = 1
    BY <2>3
  <2> HIDE DEF word, first
  <2> QED
    BY <1>6, <1>18, <2>2, <2>3, <2>4
<1>20. SubSeq(inq, 1, i - 1) = l
  <2>1. i - 1 = 1
    BY <1>17
  <2> QED
    BY <1>18, <2>1, Zenon
<1> QED
  BY <1>2, <1>6, <1>12, <1>17, <1>19, <1>20, Zenon

LEMMA RestAll ==
  ASSUME NEW b \in Seq(Sign), NEW c, NEW q \in Seq(Sign), NEW t \in Seq(Sign), Rest(q, t, b, c)
  PROVE  Part(q, b, c) /\ Rest(<<>>, t, b, c + Len(q))
<1>1. PICK z \in Seq(Sign) : z = <<>> /\ Len(z) = 0
  <2>1. <<>> \in Seq(Sign)
    OBVIOUS
  <2> QED
    BY <2>1, SeqFacts
<1>2. Len(b) \in Nat /\ Len(q) \in Nat /\ Len(t) \in Nat /\ c \in Nat
  BY SeqFacts DEF Rest
<1>3. PICK x \in Nat : x = c + Len(q)
  BY <1>2
<1>4. Part(q, b, c) /\ Part(t, b, x) /\ x + Len(t) = Len(b)
  BY <1>3 DEF Rest
<1>5. x + Len(z) = x
  BY <1>1
<1>6. Part(z, b, x)
  BY <1>1, <1>2, <1>4 DEF Part
<1>7. Rest(z, t, b, x)
  BY <1>4, <1>5, <1>6 DEF Rest
<1> QED
  BY <1>1, <1>3, <1>4, <1>7, Zenon

\* Nothing is said of a page that http has from two connections.
LEMMA Spoilt ==
  ASSUME kept \/ Overruled, kept' = kept, resp' = resp
  PROVE  ReadingInv' /\ WholeInv'
  BY DEF ReadingInv, WholeInv, Overruled

LEMMA InChunks ==
  ASSUME resp' = resp, Framing(http), http'.chunksize = http.chunksize, http'.filesize = http.filesize,
         WasChunked(resp), NEW e, NEW d, Layout(resp, e, d), NEW k \in 1..Len(resp.chunks),
         AtSize(e, d, k)' \/ InBytes(e, d, k)' \/ Cut'
  PROVE  ReadingInv'
<1>1. Framing(http)'
  BY DEF Framing
<1>2. Cut' \/ \E x, y : /\ Layout(resp', x, y)
                        /\ \E m \in 1..Len(resp'.chunks) : AtSize(x, y, m)' \/ InBytes(x, y, m)'
  BY Zenon
<1> QED
  BY <1>1, <1>2 DEF ReadingInv

LEMMA InBody ==
  ASSUME BodyInv, place \in {"body", "crlf"}
  PROVE  /\ resp \in Response /\ inq \in Seq(Sign) /\ togo \in Seq(Sign) /\ http \in HttpInfo
         /\ eof \in BOOLEAN /\ kept \in BOOLEAN
         /\ Data(resp) \in Seq(Sign) /\ Body(resp) \in Seq(Sign)
         /\ http.head /\ ~Over /\ http.chunkhead \in Nat /\ http.filesize \in Int /\ http.page \in Seq(Sign)
<1>1. BodyTypeOK /\ StatusInv
  BY DEF BodyInv
<1>2. resp \in Response /\ http \in HttpInfo
  BY <1>1 DEF BodyTypeOK
<1>3. Data(resp) \in Seq(Sign) /\ Body(resp) \in Seq(Sign)
  BY <1>2, BodyFacts
<1>4. http.head /\ ~Over
  BY <1>1 DEF StatusInv, Over
<1>5. http.chunkhead \in Nat /\ http.filesize \in Int /\ http.page \in Seq(Sign)
  BY <1>2 DEF HttpInfo
<1> QED
  BY <1>1, <1>2, <1>3, <1>4, <1>5 DEF BodyTypeOK

\* A step of http_read_body.
LEMMA PageStep ==
  ASSUME BodyInv, place \in {"body", "crlf"}, UNCHANGED <<resp, togo, eof, kept>>,
         http' \in HttpInfo, http'.head = http.head, http'.linecount = http.linecount, http'.code = http.code,
         inq' \in Seq(Sign), place' \in {"idle", "body", "crlf", "dumped"},
         ~kept /\ ~Overruled => ReadingInv' /\ WholeInv'
  PROVE  BodyInv'
<1>1. BodyTypeOK /\ StatusInv
  BY DEF BodyInv
<1>2. BodyTypeOK'
  BY <1>1 DEF BodyTypeOK
<1>3. StatusInv'
  <2>1. http.head /\ ~Over
    BY InBody
  <2>2. place' # "dropped"
    OBVIOUS
  <2> QED
    BY <1>1, <2>1, <2>2, StatusKept
<1>4. ReadingInv' /\ WholeInv'
  BY Spoilt
<1> QED
  BY <1>2, <1>3, <1>4 DEF BodyInv

LEMMA InFraming ==
  ASSUME BodyInv, place \in {"body", "crlf"}, ~kept, ~Overruled
  PROVE  /\ Framing(http) /\ (Chunked <=> WasChunked(resp)) /\ Part(http.page, Data(resp), 0)
         /\ WasChunked(resp) =>
              Cut \/ \E e, d : Layout(resp, e, d) /\ \E k \in 1..Len(resp.chunks) : AtSize(e, d, k) \/ InBytes(e, d, k)
         /\ ~WasChunked(resp) => place = "body" /\ Rest(inq, togo, Data(resp), Len(http.page))
<1>1. ReadingInv /\ WholeInv /\ http.head
  BY InBody DEF BodyInv
<1>2. Framing(http)
  BY <1>1 DEF ReadingInv
<1>3. Chunked <=> WasChunked(resp)
  BY <1>2 DEF Framing, Chunked
<1>4. Part(http.page, Data(resp), 0)
  BY <1>1 DEF WholeInv
<1>5. WasChunked(resp) =>
        Cut \/ \E e, d : Layout(resp, e, d) /\ \E k \in 1..Len(resp.chunks) : AtSize(e, d, k) \/ InBytes(e, d, k)
  BY <1>1 DEF ReadingInv
<1>6. ~WasChunked(resp) => place = "body" /\ Rest(inq, togo, Data(resp), Len(http.page))
  BY <1>1 DEF ReadingInv
<1> QED
  BY <1>2, <1>3, <1>4, <1>5, <1>6

LEMMA SameHeadsize ==
  ASSUME NEW h \in HttpInfo, NEW n \in Nat, NEW g, g = [h EXCEPT !.chunkhead = n]
  PROVE  /\ g \in HttpInfo /\ g.chunkhead = n
         /\ g.head = h.head /\ g.linecount = h.linecount /\ g.code = h.code /\ g.page = h.page
         /\ g.chunksize = h.chunksize /\ g.filesize = h.filesize
  BY DEF HttpInfo

LEMMA ChunkHeadKeeps == BodyInv /\ ChunkHead => BodyInv'
<1> SUFFICES ASSUME BodyInv, ChunkHead PROVE BodyInv'
  OBVIOUS
<1>1. /\ place = "body" /\ Chunked /\ http.chunkhead = 0 /\ place \in {"body", "crlf"}
      /\ UNCHANGED <<resp, togo, eof, kept>>
  BY DEF ChunkHead
<1>2. /\ resp \in Response /\ inq \in Seq(Sign) /\ togo \in Seq(Sign) /\ http \in HttpInfo
      /\ Data(resp) \in Seq(Sign) /\ Body(resp) \in Seq(Sign) /\ http.page \in Seq(Sign)
  BY <1>1, InBody
<1>3. CASE LineEnds = {}
  <2>1. place' = "dumped" /\ inq' = inq /\ http' = http
    BY <1>3 DEF ChunkHead
  <2>2. ASSUME ~kept, ~Overruled PROVE ReadingInv' /\ WholeInv'
    <3>1. Part(http.page, Data(resp), 0)
      BY <1>1, <2>2, InFraming
    <3>2. Chunked' /\ LineEnds' = {}
      BY <1>1, <1>3, <2>1 DEF Chunked, LineEnds
    <3>3. Part(http'.page, Data(resp'), 0)
      BY <1>1, <2>1, <3>1
    <3>4. WholeInv'
      BY <3>2, <3>3 DEF WholeInv
    <3> QED
      BY <2>1, <3>4 DEF ReadingInv
  <2> QED
    BY <1>1, <1>2, <2>1, <2>2, PageStep
<1>4. CASE LineEnds # {}
  <2>1. PICK i \in LineEnds : /\ i = CHOOSE x \in LineEnds : \A y \in LineEnds : x <= y
                              /\ \A y \in LineEnds : i <= y
    BY <1>2, <1>4, LeastEnd
  <2>2. PICK size : size = strtoul(SubSeq(inq, 1, i - 1))
    OBVIOUS
  <2>3. /\ inq' = SubSeq(inq, i + 2, Len(inq)) /\ http' = [http EXCEPT !.chunkhead = size]
        /\ place' = IF size = 0 THEN "dumped" ELSE "body"
    BY <1>4, <2>1, <2>2, Zenon DEF ChunkHead
  <2>4. inq' \in Seq(Sign) /\ size \in Nat
    BY <1>2, <2>2, <2>3, LineIs, Zenon
  <2>5. /\ http' \in HttpInfo /\ http'.chunkhead = size
        /\ http'.head = http.head /\ http'.linecount = http.linecount /\ http'.code = http.code
        /\ http'.page = http.page /\ http'.chunksize = http.chunksize /\ http'.filesize = http.filesize
    BY <1>2, <2>3, <2>4, SameHeadsize
  <2>6. ASSUME ~kept, ~Overruled PROVE ReadingInv' /\ WholeInv'
    <3>1. Framing(http) /\ WasChunked(resp) /\ Part(http.page, Data(resp), 0)
      BY <1>1, <2>6, InFraming
    <3>2. ~Cut
      <4>1. ASSUME inq = <<>> PROVE LineEnds = {}
        <5>1. Len(inq) = 0
          BY <4>1
        <5> QED
          BY <5>1 DEF LineEnds
      <4> QED
        BY <1>4, <4>1 DEF Cut
    <3>3. PICK e, d : /\ Layout(resp, e, d)
                      /\ \E k \in 1..Len(resp.chunks) : AtSize(e, d, k) \/ InBytes(e, d, k)
      BY <1>1, <2>6, <3>1, <3>2, InFraming
    <3>4. PICK k \in 1..Len(resp.chunks) : AtSize(e, d, k) \/ InBytes(e, d, k)
      BY <3>3
    <3>5. AtSize(e, d, k)
      BY <1>1, <3>4 DEF InBytes
    <3>6. PICK n : n = Len(resp.chunks)
      OBVIOUS
    <3>7. PICK l : l = Len(resp.chunks[k].bytes)
      OBVIOUS
    <3>8. ChunkAt(resp, e, d, n, k, l)
      <4>1. ChunkAt(resp, e, d, n, k, Len(resp.chunks[k].bytes))
        BY <1>2, <3>3, <3>6, LayoutAt
      <4> QED
        BY <3>7, <4>1, Zenon
    <3>9. Rest(inq, togo, Body(resp), e[k - 1]) /\ Len(http.page) = d[k - 1]
      BY <3>5 DEF AtSize
    <3>10. i = 2 /\ 3 <= Len(inq) /\ size = l
      BY <1>2, <2>1, <2>2, <3>3, <3>7, <3>9, SizeLine, Zenon
    <3>11. Rest(inq', togo, Body(resp), e[k - 1] + 3)
      <4>1. Rest(SubSeq(inq, 3 + 1, Len(inq)), togo, Body(resp), e[k - 1] + 3)
        BY <1>2, <3>9, <3>10, RestRead
      <4>2. inq' = SubSeq(inq, 3 + 1, Len(inq))
        <5>1. i + 2 = 3 + 1
          BY <3>10
        <5> QED
          BY <2>3, <5>1, Zenon
      <4> QED
        BY <4>1, <4>2, Zenon
    <3>12. Part(http'.page, Data(resp'), 0)
      BY <1>1, <2>5, <3>1, Zenon
    <3>13. CASE size = 0
      <4>1. place' = "dumped"
        BY <2>3, <3>13
      <4>2. Len(http.page) = Len(Data(resp))
        <5>1. k = n /\ d[k] = d[k - 1]
          <6>1. l = 0
            BY <3>10, <3>13
          <6>2. d[k] = d[k - 1] + l /\ d[k - 1] \in Nat /\ k = n
            BY <3>8, <6>1 DEF ChunkAt
          <6> QED
            BY <6>1, <6>2
        <5>2. d[n] = Len(Data(resp))
          BY <3>8 DEF ChunkAt
        <5> QED
          BY <3>9, <5>1, <5>2, Zenon
      <4>3. http.page = Data(resp)
        BY <1>2, <3>1, <4>2, WholePart
      <4>4. http'.page = Data(resp')
        BY <1>1, <2>5, <4>3, Zenon
      <4>5. WholeInv'
        BY <3>12, <4>4 DEF WholeInv
      <4> QED
        BY <4>1, <4>5 DEF ReadingInv
    <3>14. CASE size # 0
      <4>1. place' = "body"
        BY <2>3, <3>14
      <4>2. k # n
        BY <3>8, <3>10, <3>14 DEF ChunkAt
      <4>3. e[k] - 2 - l = e[k - 1] + 3 /\ d[k] - l = d[k - 1] /\ l <= l
        <5>1. l \in Nat
          BY <2>4, <3>10
        <5>2. PICK x \in Nat, y \in Nat : x = e[k - 1] /\ y = d[k - 1]
          BY <3>8 DEF ChunkAt
        <5>3. (x + l + 5) - 2 - l = x + 3 /\ (y + l) - l = y /\ l <= l
          BY <5>1
        <5>4. e[k] = x + l + 5 /\ d[k] = y + l
          BY <3>8, <5>2, Zenon DEF ChunkAt
        <5> QED
          BY <5>2, <5>3, <5>4, Zenon
      <4>4. InBytes(e, d, k)'
        <5>1. http'.chunkhead = l /\ http'.chunkhead # 0
          BY <2>5, <3>10, <3>14
        <5>2. Rest(inq', togo', Body(resp'), e[k] - 2 - http'.chunkhead)
          BY <1>1, <3>11, <4>3, <5>1, Zenon
        <5>3. Len(http'.page) = d[k] - http'.chunkhead
          BY <2>5, <3>9, <4>3, <5>1, Zenon
        <5>4. k # Len(resp'.chunks) /\ http'.chunkhead <= Len(resp'.chunks[k].bytes)
          BY <1>1, <3>6, <3>7, <4>2, <4>3, <5>1, Zenon
        <5> QED
          BY <4>1, <5>1, <5>2, <5>3, <5>4 DEF InBytes
      <4>5. ReadingInv'
        BY <1>1, <2>5, <3>1, <3>3, <4>4, InChunks
      <4>6. WholeInv'
        BY <3>12, <4>1 DEF WholeInv
      <4> QED
        BY <4>5, <4>6
    <3> QED
      BY <3>13, <3>14
  <2>7. place' \in {"dumped", "body"}
    BY <2>3
  <2> QED
    BY <1>1, <2>4, <2>5, <2>6, <2>7, PageStep
<1> QED
  BY <1>3, <1>4

LEMMA ChunkDataKeeps == BodyInv /\ ChunkData => BodyInv'
<1> SUFFICES ASSUME BodyInv, ChunkData PROVE BodyInv'
  OBVIOUS
<1>1. /\ place = "body" /\ Chunked /\ http.chunkhead > 0 /\ place \in {"body", "crlf"}
      /\ UNCHANGED <<resp, togo, eof, kept>>
  BY DEF ChunkData
<1>2. /\ resp \in Response /\ inq \in Seq(Sign) /\ togo \in Seq(Sign) /\ http \in HttpInfo
      /\ Data(resp) \in Seq(Sign) /\ Body(resp) \in Seq(Sign) /\ http.page \in Seq(Sign)
  BY <1>1, InBody
<1>3. PICK h \in Nat : h = http.chunkhead /\ h > 0
  BY <1>1, InBody
<1>4. PICK r : r = readn_nonblock(h)
  OBVIOUS
<1>5. PICK j \in 0..Len(inq) :
        /\ j <= h /\ (j = h \/ j = Len(inq)) /\ r.got = SubSeq(inq, 1, j)
        /\ r.rest = SubSeq(inq, j + 1, Len(inq))
        /\ r.got \in Seq(Sign) /\ r.rest \in Seq(Sign) /\ Len(r.got) = j
  BY <1>2, <1>4, NonblockFacts
<1>6. j \in Nat /\ j <= Len(inq) /\ h - j \in Nat
  BY <1>2, <1>5, SeqFacts
<1>7. PICK p : p = http.page \o r.got
  OBVIOUS
<1>8. p \in Seq(Sign) /\ Len(p) = Len(http.page) + j
  <2>1. http.page \o r.got \in Seq(Sign) /\ Len(http.page \o r.got) = Len(http.page) + Len(r.got)
    BY <1>2, <1>5, ConcatFacts
  <2> QED
    BY <1>5, <1>7, <2>1, Zenon
<1>9. /\ http' = [http EXCEPT !.page = p, !.chunkhead = h - j] /\ inq' = r.rest
      /\ place' = IF r.got = <<>> THEN "idle" ELSE IF http'.chunkhead = 0 THEN "crlf" ELSE "body"
  <2>1. /\ http' = [http EXCEPT !.page = @ \o r.got, !.chunkhead = @ - Len(r.got)] /\ inq' = r.rest
        /\ place' = IF r.got = <<>> THEN "idle" ELSE IF http'.chunkhead = 0 THEN "crlf" ELSE "body"
    BY <1>3, <1>4, Zenon DEF ChunkData
  <2> QED
    BY <1>3, <1>5, <1>7, <2>1, Zenon
<1>10. /\ http' \in HttpInfo /\ http'.chunkhead = h - j /\ http'.page = p
       /\ http'.head = http.head /\ http'.linecount = http.linecount /\ http'.code = http.code
       /\ http'.chunksize = http.chunksize /\ http'.filesize = http.filesize
  <2>1. PICK v \in Nat : v = h - j
    BY <1>6
  <2>2. http' = [http EXCEPT !.page = p, !.chunkhead = v]
    BY <1>9, <2>1, Zenon
  <2>3. /\ http' \in HttpInfo /\ http'.chunkhead = v /\ http'.page = p
        /\ http'.head = http.head /\ http'.linecount = http.linecount /\ http'.code = http.code
        /\ http'.chunksize = http.chunksize /\ http'.filesize = http.filesize
    BY <1>2, <1>8, <2>2 DEF HttpInfo
  <2> QED
    BY <2>1, <2>3
<1>11. place' \in {"idle", "body", "crlf"} /\ (IF http'.chunkhead = 0 THEN place' = "crlf" ELSE place' \in {"idle", "body"})
  <2>1. h - j = 0 => r.got # <<>>
    <3>1. h - j = 0 => Len(r.got) # 0
      BY <1>3, <1>5, <1>6
    <3> QED
      BY <3>1, Len(<<>>) = 0, Zenon
  <2> QED
    BY <1>9, <1>10, <2>1
<1>12. ASSUME ~kept, ~Overruled PROVE ReadingInv' /\ WholeInv'
  <2>1. Framing(http) /\ WasChunked(resp) /\ Part(http.page, Data(resp), 0)
    BY <1>1, <1>12, InFraming
  <2>2. http.chunkhead # 0
    BY <1>3
  <2>3. PICK e, d : Layout(resp, e, d) /\ \E k \in 1..Len(resp.chunks) : AtSize(e, d, k) \/ InBytes(e, d, k)
    <3>1. ~Cut
      BY <2>2 DEF Cut
    <3> QED
      BY <1>1, <1>12, <2>1, <3>1, InFraming
  <2>4. PICK k \in 1..Len(resp.chunks) : InBytes(e, d, k)
    BY <2>2, <2>3 DEF AtSize
  <2>5. PICK n : n = Len(resp.chunks)
    OBVIOUS
  <2>6. PICK a : a = resp.chunks[k].bytes
    OBVIOUS
  <2>7. PICK l : l = Len(a)
    OBVIOUS
  <2>8. ChunkAt(resp, e, d, n, k, l)
    <3>1. ChunkAt(resp, e, d, n, k, Len(resp.chunks[k].bytes))
      BY <1>2, <2>3, <2>5, LayoutAt
    <3> QED
      BY <2>6, <2>7, <3>1, Zenon
  <2>9. PICK x \in Nat, y \in Nat : x = e[k - 1] /\ y = d[k - 1]
    BY <2>8 DEF ChunkAt
  <2>10. /\ l \in Nat /\ e[k] = x + l + 5 /\ d[k] = y + l /\ a \in Seq(Sign)
         /\ Part(a, Body(resp), x + 3) /\ Part(a, Data(resp), y)
    BY <2>6, <2>8, <2>9, Zenon DEF ChunkAt
  <2>11. /\ k # n /\ h <= l /\ Rest(inq, togo, Body(resp), e[k] - 2 - h) /\ Len(http.page) = d[k] - h
    BY <1>3, <2>4, <2>5, <2>6, <2>7, Zenon DEF InBytes
  <2>12. PICK m \in Nat : m = l - h /\ m + h = l
    BY <2>10, <2>11
  <2>13. PICK c \in Nat : c = (x + 3) + m
    BY <2>12
  <2>14. /\ (x + l + 5) - 2 - h = c /\ (x + l + 5) - 2 - (h - j) = c + j
         /\ (y + l) - h = y + m /\ (y + l) - (h - j) = y + m + j /\ h - j <= l /\ m + j <= l
    BY <1>5, <1>6, <2>10, <2>12, <2>13
  <2>15. Rest(inq, togo, Body(resp), c) /\ Len(http.page) = y + m
    BY <2>10, <2>11, <2>14, Zenon
  <2>16. Part(r.got, Body(resp), c) /\ Rest(r.rest, togo, Body(resp), c + j)
    <3>1. Part(SubSeq(inq, 1, j), Body(resp), c) /\ Rest(SubSeq(inq, j + 1, Len(inq)), togo, Body(resp), c + j)
      <4>1. PICK b \in Seq(Sign) : b = Body(resp)
        BY <1>2
      <4>2. inq \in Seq(Sign) /\ togo \in Seq(Sign) /\ Rest(inq, togo, b, c)
        BY <1>2, <2>15, <4>1, Zenon
      <4>3. Part(SubSeq(inq, 1, j), b, c) /\ Rest(SubSeq(inq, j + 1, Len(inq)), togo, b, c + j)
        BY <1>6, <4>2, RestRead, ZenonT(30)
      <4> QED
        BY <4>1, <4>3, Zenon
    <3> QED
      BY <1>5, <3>1, Zenon
  <2>17. Part(r.got, Data(resp), y + m)
    <3>1. m + Len(r.got) <= Len(a)
      BY <1>5, <2>7, <2>14
    <3>2. Part(r.got, Body(resp), (x + 3) + m) /\ x + 3 \in Nat
      BY <2>13, <2>16
    <3> QED
      <4>1. PICK b \in Seq(Sign), s \in Seq(Sign), q \in Seq(Sign), o \in Nat :
              b = Data(resp) /\ s = Body(resp) /\ q = r.got /\ o = x + 3
        BY <1>2, <1>5, <3>2
      <4>2. a \in Seq(Sign) /\ Part(a, s, o) /\ Part(a, b, y) /\ m + Len(q) <= Len(a) /\ Part(q, s, o + m)
        BY <2>10, <3>1, <3>2, <4>1, Zenon
      <4>3. Part(q, b, y + m)
        BY <4>2, PartThere, ZenonT(40)
      <4> QED
        BY <4>1, <4>3, Zenon
  <2>18. Part(p, Data(resp), 0)
    <3>1. Part(r.got, Data(resp), 0 + Len(http.page))
      <4>1. 0 + Len(http.page) = y + m
        BY <2>15
      <4> QED
        BY <2>17, <4>1, Zenon
    <3> QED
      BY <1>2, <1>5, <1>7, <2>1, <3>1, PartJoin
  <2>19. InBytes(e, d, k)'
    <3>1. Rest(inq', togo', Body(resp'), e[k] - 2 - http'.chunkhead)
      BY <1>1, <1>9, <1>10, <2>10, <2>14, <2>16, Zenon
    <3>2. Len(http'.page) = d[k] - http'.chunkhead
      <4>1. Len(p) = (y + m) + j
        BY <1>8, <2>15, Zenon
      <4> QED
        BY <1>10, <2>10, <2>14, <4>1, Zenon
    <3>3. k # Len(resp'.chunks) /\ http'.chunkhead <= Len(resp'.chunks[k].bytes)
      BY <1>1, <1>10, <2>5, <2>6, <2>7, <2>11, <2>14, Zenon
    <3> QED
      BY <1>11, <3>1, <3>2, <3>3 DEF InBytes
  <2>20. ReadingInv'
    BY <1>1, <1>10, <2>1, <2>3, <2>19, InChunks
  <2>21. WholeInv'
    <3>1. place' # "dumped"
      BY <1>11
    <3>2. Part(http'.page, Data(resp'), 0)
      BY <1>1, <1>10, <2>18, Zenon
    <3> QED
      BY <3>1, <3>2 DEF WholeInv
  <2> QED
    BY <2>20, <2>21
<1>13. inq' \in Seq(Sign) /\ place' \in {"idle", "body", "crlf", "dumped"}
  BY <1>5, <1>9, <1>11
<1> QED
  BY <1>1, <1>10, <1>12, <1>13, PageStep

LEMMA ReadnBlockKeeps == BodyInv /\ readn_block => BodyInv'
<1> SUFFICES ASSUME BodyInv, readn_block PROVE BodyInv'
  OBVIOUS
<1>1. /\ place = "crlf" /\ (Len(inq) >= 2 \/ eof) /\ place' = "body" /\ place \in {"body", "crlf"}
      /\ inq' = readn_nonblock(2).rest /\ http' = http
      /\ UNCHANGED <<resp, togo, eof, kept>>
  BY DEF readn_block
<1>2. /\ resp \in Response /\ inq \in Seq(Sign) /\ togo \in Seq(Sign) /\ http \in HttpInfo
      /\ Data(resp) \in Seq(Sign) /\ Body(resp) \in Seq(Sign) /\ http.page \in Seq(Sign)
  BY <1>1, InBody
<1>3. PICK j \in 0..Len(inq) :
        /\ j <= 2 /\ (j = 2 \/ j = Len(inq)) /\ inq' = SubSeq(inq, j + 1, Len(inq))
        /\ inq' \in Seq(Sign) /\ Len(inq') = Len(inq) - j
  <2>1. 2 \in Nat
    OBVIOUS
  <2> QED
    BY <1>1, <1>2, <2>1, NonblockFacts, Zenon
<1>4. j \in Nat /\ j <= Len(inq) /\ Len(inq) \in Nat
  BY <1>2, <1>3, SeqFacts
<1>5. ASSUME ~kept, ~Overruled PROVE ReadingInv' /\ WholeInv'
  <2>1. Framing(http) /\ WasChunked(resp) /\ Part(http.page, Data(resp), 0)
    BY <1>1, <1>5, InFraming
  <2>2. PICK e, d : Layout(resp, e, d) /\ \E k \in 1..Len(resp.chunks) : AtSize(e, d, k) \/ InBytes(e, d, k)
    <3>1. ~Cut
      BY <1>1 DEF Cut
    <3> QED
      BY <1>1, <1>5, <2>1, <3>1, InFraming
  <2>3. PICK k \in 1..Len(resp.chunks) : InBytes(e, d, k)
    BY <1>1, <2>2 DEF AtSize
  <2>4. PICK n : n = Len(resp.chunks)
    OBVIOUS
  <2>5. ChunkAt(resp, e, d, n, k, Len(resp.chunks[k].bytes))
    BY <1>2, <2>2, <2>4, LayoutAt
  <2>6. PICK u \in Nat, v \in Nat : u = e[k] /\ v = d[k]
    BY <2>5 DEF ChunkAt
  <2>7. http.chunkhead = 0 /\ k # n
    BY <1>1, <2>3, <2>4 DEF InBytes
  <2>8. Rest(inq, togo, Body(resp), u - 2) /\ Len(http.page) = v
    <3>1. Rest(inq, togo, Body(resp), u - 2 - 0) /\ Len(http.page) = v - 0
      BY <2>3, <2>6, <2>7, Zenon DEF InBytes
    <3>2. u - 2 - 0 = u - 2 /\ v - 0 = v
      OBVIOUS
    <3> QED
      BY <3>1, <3>2, Zenon
  <2>13. resp' = resp /\ http'.chunksize = http.chunksize /\ http'.filesize = http.filesize
    BY <1>1
  <2>9. j = 2 => ReadingInv'
    <3>0. HAVE j = 2
    <3>1. Rest(inq', togo, Body(resp), (u - 2) + j)
      BY <1>2, <1>3, <1>4, <2>8, RestRead
    <3>2. (u - 2) + j = u
      BY <3>0
    <3>3. k + 1 \in 1..n /\ (k + 1) - 1 = k
      <4>1. n \in Nat /\ k \in Nat /\ 1 <= k /\ k <= n
        BY <2>5 DEF ChunkAt
      <4> QED
        BY <2>7, <4>1
    <3>4. AtSize(e, d, k + 1)'
      <4>1. Rest(inq', togo', Body(resp'), e[(k + 1) - 1]) /\ Len(http'.page) = d[(k + 1) - 1]
        BY <1>1, <2>6, <2>8, <3>1, <3>2, <3>3, Zenon
      <4> QED
        BY <1>1, <2>7, <4>1 DEF AtSize
    <3>5. \E m \in 1..Len(resp.chunks) : AtSize(e, d, m)'
      BY <2>4, <3>3, <3>4, Zenon
    <3> QED
      BY <2>1, <2>2, <2>13, <3>5, InChunks, Zenon
  <2>10. j # 2 => ReadingInv'
    <3>0. HAVE j # 2
    <3>1. eof
      BY <1>1, <1>3, <1>4, <3>0
    <3>2. inq' = <<>>
      BY <1>3, <1>4, <3>0, SeqFacts
    <3>3. Cut'
      BY <1>1, <2>7, <3>1, <3>2 DEF Cut
    <3> QED
      BY <2>1, <2>2, <2>13, <3>3, InChunks, Zenon
  <2>11. ReadingInv'
    BY <2>9, <2>10
  <2>12. WholeInv'
    BY <1>1, <2>1 DEF WholeInv
  <2> QED
    BY <2>11, <2>12
<1> QED
  BY <1>1, <1>2, <1>3, <1>5, PageStep

\* What http_read_body takes of the body joins the page.
LEMMA PageGrows ==
  ASSUME NEW p \in Seq(Sign), NEW t \in Seq(Sign), NEW b \in Seq(Sign), NEW x, x = p \o t
  PROVE  /\ x \in Seq(Sign) /\ Len(x) = Len(p) + Len(t)
         /\ Part(p, b, 0) /\ Part(t, b, Len(p)) => Part(x, b, 0)
<1>1. x \in Seq(Sign) /\ Len(x) = Len(p) + Len(t)
  BY ConcatFacts
<1>2. 0 + Len(p) = Len(p)
  BY SeqFacts
<1>3. Part(p \o t, b, 0) <=> Part(p, b, 0) /\ Part(t, b, 0 + Len(p))
  BY PartJoin
<1> QED
  BY <1>1, <1>2, <1>3, Zenon

LEMMA NotChunked ==
  ASSUME resp \in Response, resp' = resp, http \in HttpInfo, Framing(http), ~WasChunked(resp),
         http'.chunksize = http.chunksize, http'.filesize = http.filesize,
         place' \in {"idle", "dumped"}, Part(http'.page, Data(resp), 0),
         place' = "idle" => Rest(inq', togo', Data(resp), Len(http'.page)),
         place' = "dumped" => \/ http'.page = Data(resp)
                              \/ eof' /\ ~Chunked' /\ http'.filesize = -1
  PROVE  ReadingInv' /\ WholeInv'
<1>1. Framing(http)'
  BY DEF Framing
<1>2. ReadingInv'
  BY <1>1 DEF ReadingInv
<1>3. WholeInv'
  BY DEF WholeInv
<1> QED
  BY <1>2, <1>3

LEMMA LengthDataKeeps == BodyInv /\ LengthData => BodyInv'
<1> SUFFICES ASSUME BodyInv, LengthData PROVE BodyInv'
  OBVIOUS
<1>1. /\ place = "body" /\ ~Chunked /\ http.filesize > 0 /\ place \in {"body", "crlf"}
      /\ UNCHANGED <<resp, togo, eof, kept>>
  BY DEF LengthData
<1>2. /\ resp \in Response /\ inq \in Seq(Sign) /\ togo \in Seq(Sign) /\ http \in HttpInfo
      /\ Data(resp) \in Seq(Sign) /\ Body(resp) \in Seq(Sign) /\ http.page \in Seq(Sign)
      /\ http.filesize \in Int
  BY <1>1, InBody
<1>3. PICK len : len = http.filesize - Len(http.page)
  OBVIOUS
<1>4. len \in Int /\ Len(http.page) \in Nat /\ Len(inq) \in Nat
  BY <1>2, <1>3, SeqFacts
<1>5. PICK r : r = IF len < 0 THEN [got |-> <<>>, rest |-> inq] ELSE readn_nonblock(len)
  OBVIOUS
<1>6. /\ http' = [http EXCEPT !.page = @ \o r.got] /\ inq' = r.rest
      /\ place' = IF len < 0 \/ len > Len(r.got) THEN "idle" ELSE "dumped"
  BY <1>3, <1>5, Zenon DEF LengthData
<1>7. ASSUME len \in Nat
      PROVE  \E j \in Nat : /\ j <= Len(inq) /\ j <= len /\ r.got = SubSeq(inq, 1, j)
                            /\ r.rest = SubSeq(inq, j + 1, Len(inq))
                            /\ r.got \in Seq(Sign) /\ r.rest \in Seq(Sign) /\ Len(r.got) = j
  <2>1. ~(len < 0)
    BY <1>7
  <2>2. r = readn_nonblock(len)
    BY <1>5, <2>1, Zenon
  <2>3. PICK j \in 0..Len(inq) :
          /\ j <= len /\ r.got = SubSeq(inq, 1, j) /\ r.rest = SubSeq(inq, j + 1, Len(inq))
          /\ r.got \in Seq(Sign) /\ r.rest \in Seq(Sign) /\ Len(r.got) = j
    BY <1>2, <1>7, <2>2, NonblockFacts, Zenon
  <2>4. j \in Nat /\ j <= Len(inq)
    BY <1>4
  <2> QED
    BY <2>3, <2>4, Zenon
<1>8. r.got \in Seq(Sign) /\ r.rest \in Seq(Sign)
  <2>1. CASE len < 0
    <3>1. PICK z \in Seq(Sign), q \in Seq(Sign) : z = <<>> /\ q = inq
      <4>1. <<>> \in Seq(Sign)
        OBVIOUS
      <4> QED
        BY <1>2, <4>1, Zenon
    <3>2. r = [got |-> z, rest |-> q]
      BY <1>5, <2>1, <3>1, Zenon
    <3> QED
      BY <3>2
  <2>2. CASE ~(len < 0)
    <3>1. len \in Nat
      BY <1>4, <2>2
    <3> QED
      BY <1>7, <3>1
  <2> QED
    BY <2>1, <2>2
<1>9. /\ http' \in HttpInfo /\ http'.page \in Seq(Sign) /\ Len(http'.page) = Len(http.page) + Len(r.got)
      /\ http'.head = http.head /\ http'.linecount = http.linecount /\ http'.code = http.code
      /\ http'.chunksize = http.chunksize /\ http'.filesize = http.filesize
      /\ Part(http.page, Data(resp), 0) /\ Part(r.got, Data(resp), Len(http.page)) => Part(http'.page, Data(resp), 0)
  <2>1. PICK x : x = http.page \o r.got
    OBVIOUS
  <2>2. /\ x \in Seq(Sign) /\ Len(x) = Len(http.page) + Len(r.got)
        /\ Part(http.page, Data(resp), 0) /\ Part(r.got, Data(resp), Len(http.page)) => Part(x, Data(resp), 0)
    <3>1. PICK t \in Seq(Sign) : t = r.got
      BY <1>8
    <3>2. x = http.page \o t
      BY <2>1, <3>1, Zenon
    <3>3. /\ x \in Seq(Sign) /\ Len(x) = Len(http.page) + Len(t)
          /\ Part(http.page, Data(resp), 0) /\ Part(t, Data(resp), Len(http.page)) => Part(x, Data(resp), 0)
      BY <1>2, <3>2, PageGrows
    <3> QED
      BY <3>1, <3>3, Zenon
  <2>3. http' = [http EXCEPT !.page = x]
    BY <1>6, <2>1, Zenon
  <2>4. /\ http' \in HttpInfo /\ http'.page = x
        /\ http'.head = http.head /\ http'.linecount = http.linecount /\ http'.code = http.code
        /\ http'.chunksize = http.chunksize /\ http'.filesize = http.filesize
    BY <1>2, <2>2, <2>3 DEF HttpInfo
  <2> QED
    BY <2>2, <2>4, Zenon
<1>10. place' \in {"idle", "dumped"}
  BY <1>6
<1>11. ASSUME ~kept, ~Overruled PROVE ReadingInv' /\ WholeInv'
  <2>1. /\ Framing(http) /\ ~WasChunked(resp) /\ Part(http.page, Data(resp), 0)
        /\ Rest(inq, togo, Data(resp), Len(http.page))
    BY <1>1, <1>11, InFraming
  <2>2. PICK x \in Nat, y \in Nat : x = Len(http.page) /\ y = Len(Data(resp))
    BY <1>2, SeqFacts
  <2>3. http.filesize = y /\ x <= y
    <3>1. http.filesize = y
      BY <1>1, <2>1, <2>2 DEF Framing
    <3>2. 0 + x <= y
      BY <2>1, <2>2, Zenon DEF Part
    <3> QED
      BY <2>2, <3>1, <3>2
  <2>4. len \in Nat /\ len = y - x /\ ~(len < 0)
    BY <1>3, <2>2, <2>3
  <2>5. PICK j \in Nat : /\ j <= Len(inq) /\ j <= len /\ r.got = SubSeq(inq, 1, j)
                         /\ r.rest = SubSeq(inq, j + 1, Len(inq)) /\ Len(r.got) = j
    BY <1>7, <2>4
  <2>6. Part(r.got, Data(resp), x) /\ Rest(r.rest, togo, Data(resp), x + j)
    BY <1>2, <2>1, <2>2, <2>5, RestRead
  <2>7. Part(http'.page, Data(resp), 0) /\ Len(http'.page) = x + j
    BY <1>9, <2>1, <2>2, <2>5, <2>6, Zenon
  <2>8. Rest(inq', togo', Data(resp), Len(http'.page))
    BY <1>1, <1>6, <2>6, <2>7, Zenon
  <2>9. place' = "dumped" => http'.page = Data(resp)
    <3>1. place' = "dumped" => j = len
      BY <1>6, <2>4, <2>5
    <3>2. j = len => x + j = y
      BY <2>4
    <3>3. Len(http'.page) = Len(Data(resp)) => http'.page = Data(resp)
      BY <1>2, <1>9, <2>7, WholePart
    <3> QED
      BY <2>2, <2>7, <3>1, <3>2, <3>3, Zenon
  <2> QED
    BY <1>1, <1>2, <1>9, <1>10, <2>1, <2>7, <2>8, <2>9, NotChunked
<1>12. inq' \in Seq(Sign) /\ place' \in {"idle", "body", "crlf", "dumped"}
  BY <1>6, <1>8, <1>10
<1> QED
  BY <1>1, <1>9, <1>11, <1>12, PageStep

LEMMA UntilEndKeeps == BodyInv /\ UntilEnd => BodyInv'
<1> SUFFICES ASSUME BodyInv, UntilEnd PROVE BodyInv'
  OBVIOUS
<1>1. /\ place = "body" /\ ~Chunked /\ http.filesize <= 0 /\ place \in {"body", "crlf"}
      /\ UNCHANGED <<resp, togo, eof, kept>>
  BY DEF UntilEnd
<1>2. /\ resp \in Response /\ inq \in Seq(Sign) /\ togo \in Seq(Sign) /\ http \in HttpInfo
      /\ Data(resp) \in Seq(Sign) /\ Body(resp) \in Seq(Sign) /\ http.page \in Seq(Sign)
      /\ http.filesize \in Int
  BY <1>1, InBody
<1>3. ASSUME ~kept, ~Overruled
      PROVE  /\ Framing(http) /\ ~WasChunked(resp) /\ Part(http.page, Data(resp), 0)
             /\ Rest(inq, togo, Data(resp), Len(http.page))
  BY <1>1, <1>3, InFraming
<1>4. CASE http.filesize = 0
  <2>1. place' = "dumped" /\ inq' = inq /\ http' = http
    BY <1>4 DEF UntilEnd
  <2>2. ASSUME ~kept, ~Overruled PROVE ReadingInv' /\ WholeInv'
    <3>1. Len(Data(resp)) = 0
      BY <1>3, <1>4, <2>2 DEF Framing
    <3>2. Part(http.page, Data(resp), 0)
      BY <1>3, <2>2
    <3>3. Len(http.page) <= 0 /\ Len(http.page) \in Nat
      BY <1>2, <3>1, <3>2, WholePart, SeqFacts
    <3>4. http.page = Data(resp)
      <4>1. Len(http.page) = Len(Data(resp))
        BY <3>1, <3>3
      <4> QED
        BY <1>2, <3>2, <4>1, WholePart
    <3>5. Framing(http) /\ ~WasChunked(resp)
      BY <1>3, <2>2
    <3> QED
      BY <1>1, <1>2, <2>1, <3>2, <3>4, <3>5, NotChunked
  <2> QED
    BY <1>1, <1>2, <2>1, <2>2, PageStep
<1>5. CASE http.filesize # 0
  <2>1. /\ http' = [http EXCEPT !.page = @ \o inq] /\ inq' = <<>>
        /\ place' = IF eof THEN "dumped" ELSE "idle"
    BY <1>5 DEF UntilEnd
  <2>2. /\ http' \in HttpInfo /\ http'.page \in Seq(Sign) /\ Len(http'.page) = Len(http.page) + Len(inq)
        /\ http'.head = http.head /\ http'.linecount = http.linecount /\ http'.code = http.code
        /\ http'.chunksize = http.chunksize /\ http'.filesize = http.filesize
        /\ Part(http.page, Data(resp), 0) /\ Part(inq, Data(resp), Len(http.page)) => Part(http'.page, Data(resp), 0)
    <3>1. PICK x : x = http.page \o inq
      OBVIOUS
    <3>2. /\ x \in Seq(Sign) /\ Len(x) = Len(http.page) + Len(inq)
          /\ Part(http.page, Data(resp), 0) /\ Part(inq, Data(resp), Len(http.page)) => Part(x, Data(resp), 0)
      BY <1>2, <3>1, PageGrows
    <3>3. http' = [http EXCEPT !.page = x]
      BY <2>1, <3>1, Zenon
    <3>4. /\ http' \in HttpInfo /\ http'.page = x
          /\ http'.head = http.head /\ http'.linecount = http.linecount /\ http'.code = http.code
          /\ http'.chunksize = http.chunksize /\ http'.filesize = http.filesize
      BY <1>2, <3>2, <3>3 DEF HttpInfo
    <3> QED
      BY <3>2, <3>4, Zenon
  <2>3. ASSUME ~kept, ~Overruled PROVE ReadingInv' /\ WholeInv'
    <3>1. Framing(http) /\ ~WasChunked(resp) /\ Part(http.page, Data(resp), 0)
      BY <1>3, <2>3
    <3>2. Part(inq, Data(resp), Len(http.page)) /\ Rest(<<>>, togo, Data(resp), Len(http.page) + Len(inq))
      BY <1>2, <1>3, <2>3, RestAll
    <3>3. Part(http'.page, Data(resp), 0)
      BY <2>2, <3>1, <3>2, Zenon
    <3>4. Rest(inq', togo', Data(resp), Len(http'.page))
      BY <1>1, <2>1, <2>2, <3>2, Zenon
    <3>5. place' \in {"idle", "dumped"} /\ (place' = "dumped" => eof)
      BY <2>1
    <3>6. http.filesize = -1
      <4>1. Len(Data(resp)) \in Nat
        BY <1>2, SeqFacts
      <4>2. http.filesize \in {-1, Len(Data(resp))}
        BY <3>1 DEF Framing
      <4> QED
        BY <1>1, <1>5, <4>1, <4>2
    <3>7. http'.filesize = -1 /\ ~Chunked'
      BY <1>1, <2>2, <3>6 DEF Chunked
    <3>8. place' = "dumped" => eof' /\ ~Chunked' /\ http'.filesize = -1
      BY <1>1, <3>5, <3>7
    <3> QED
      BY <1>1, <1>2, <2>2, <3>1, <3>3, <3>4, <3>5, <3>8, NotChunked
  <2>4. inq' \in Seq(Sign) /\ place' \in {"idle", "body", "crlf", "dumped"}
    <3>1. <<>> \in Seq(Sign)
      OBVIOUS
    <3> QED
      BY <2>1, <3>1
  <2> QED
    BY <1>1, <2>2, <2>3, <2>4, PageStep
<1> QED
  BY <1>4, <1>5

LEMMA BodyInvStep == BodyInv /\ [BodyNext]_bodyVars => BodyInv'
<1> SUFFICES ASSUME BodyInv, [BodyNext]_bodyVars PROVE BodyInv'
  OBVIOUS
<1>1. CASE BodyNext
  BY <1>1, ArriveKeeps, PeerClosesKeeps, DoErrorKeeps, DoReadKeeps, ChunkHeadKeeps, ChunkDataKeeps,
     ReadnBlockKeeps, LengthDataKeeps, UntilEndKeeps DEF BodyNext
<1>2. CASE UNCHANGED bodyVars
  <2> USE <1>2 DEF bodyVars
  <2>1. BodyTypeOK /\ StatusInv /\ ReadingInv /\ WholeInv
    BY DEF BodyInv
  <2>2. BodyTypeOK'
    BY <2>1 DEF BodyTypeOK
  <2>3. StatusInv'
    BY <2>1 DEF StatusInv
  <2>4. ReadingInv'
    <3>1. Cut => Cut'
      BY DEF Cut
    <3> QED
      BY <2>1, <3>1, ReadingGoesOn
  <2>5. WholeInv'
    BY <2>1 DEF WholeInv, Overruled, Chunked, LineEnds
  <2> QED
    BY <2>2, <2>3, <2>4, <2>5 DEF BodyInv
<1> QED
  BY <1>1, <1>2

LEMMA BodyInvWhole == BodyInv => PageWhole
<1> SUFFICES ASSUME BodyInv PROVE PageWhole
  OBVIOUS
<1>1. BodyTypeOK /\ StatusInv /\ WholeInv
  BY DEF BodyInv
<1>2. Data(resp) \in Seq(Sign) /\ http.page \in Seq(Sign)
  BY <1>1, BodyFacts DEF BodyTypeOK, HttpInfo
<1>3. ASSUME ~kept, ~Overruled
      PROVE  /\ IsPrefix(http.page, Data(resp))
             /\ place = "dumped" /\ http.page # Data(resp) =>
                  (eof /\ ~Chunked /\ http.filesize = -1) \/ (Chunked /\ LineEnds = {})
  <2>1. Part(http.page, Data(resp), 0)
    BY <1>1, <1>3 DEF WholeInv
  <2>2. IsPrefix(http.page, Data(resp))
    BY <1>2, <2>1, WholePart
  <2> QED
    BY <1>1, <1>3, <2>2 DEF WholeInv
<1>4. place = "dropped" => resp.lines[1] # "200" \/ (http.linecount = 0 /\ "end" \notin ToSet(inq))
  BY <1>1 DEF StatusInv
<1> QED
  BY <1>3, <1>4 DEF PageWhole

\* However a response is cut into pieces and whenever its connection ends, a page is what
\* http_read_body was sent, in order, and whole when http_dump has it, with the two
\* exceptions that the code makes; and do_read drops a page only for its code or because
\* http_read_head did not find the end of its head.
THEOREM PageIsWhole == ASSUME NEW r \in Response PROVE BodySpec(r) => []PageWhole
<1>1. BodyInit(r) => BodyInv
  BY BodyInitInv
<1>2. BodyInv /\ [BodyNext]_bodyVars => BodyInv'
  BY BodyInvStep
<1>3. BodyInv => PageWhole
  BY BodyInvWhole
<1> QED
  BY <1>1, <1>2, <1>3, PTL DEF BodySpec

=============================================================================
