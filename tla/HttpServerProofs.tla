-------------------------- MODULE HttpServerProofs --------------------------
(***************************************************************************)
(* http_server for any number of clients, descriptors and events: an event *)
(* leads to the live context of its own connection, answers fit requests,  *)
(* and tor_array_put leaves the array only when directories were left      *)
(* open.                                                                   *)
(***************************************************************************)
EXTENDS HttpServer, FiniteSetTheorems, SequenceTheorems, TLAPS

-----------------------------------------------------------------------------
(* The parts of the invariant *)

Answers == [req : Request \cup {Nothing, Part}, code : {0, 200, 404},
            body : {"none", "list", "file"}]
Event == [fd : 0..MaxFd, kind : {"err", "in"}]

Types ==
  /\ net \in [Conn -> {"new", "queued", "open", "failed", "done"}]
  /\ inp \in [Conn -> Request \cup {Nothing, Part, Eof}]
  /\ reset \subseteq Conn /\ backlog \in Seq(Conn)
  /\ fd \in [Conn -> -1..MaxFd] /\ dirs \subseteq 1..MaxFd
  /\ ncurr \in Nat /\ live \subseteq Conn /\ events \in Seq(Event)
  /\ pc \in {"start", "wait", "event", "process", "exited", "overrun"}
  /\ http \in Conn \cup {NULL} /\ head \in {"none", "parsed", "reset"}
  /\ errno \in {"0", "EAGAIN", "ENOENT", "EACCES", "EBADF", "EMFILE", "EPIPE", "ECONNRESET"}
  /\ last \in Answers /\ gone \in BOOLEAN

\* cache_sock is an array, and never an empty one.
ArrayInv ==
  /\ Length \in Nat \ {0} /\ DOMAIN slot = 0..(Length - 1)
  /\ slot \in [0..(Length - 1) -> Conn \cup {NULL}]

\* The kernel's side: open descriptors are used once, and not by a directory, and
\* each connection is once in listen's queue.
KernelInv ==
  /\ reset \subseteq Open
  /\ \A c \in Open : fd[c] \in 1..MaxFd /\ fd[c] \notin dirs
  /\ \A c, d \in Open : fd[c] = fd[d] => c = d
  /\ \A i \in DOMAIN backlog : net[backlog[i]] = "queued"
  /\ \A i, j \in DOMAIN backlog : backlog[i] = backlog[j] => i = j

\* The entries of open descriptors, and the contexts.
EntryInv ==
  /\ pc # "overrun" => \A c \in Open : fd[c] \in DOMAIN slot /\ slot[fd[c]] = c
  /\ LeakedByError

\* No two events are about one descriptor, and none about the connection that is
\* being answered.
BatchInv ==
  /\ \A i \in DOMAIN events : events[i].fd = sfd \/ \E c \in Open : fd[c] = events[i].fd
  /\ \A i, j \in DOMAIN events : events[i].fd = events[j].fd => i = j
  /\ \A i \in DOMAIN events : events[i].kind = "err" => events[i].fd # sfd
  /\ pc = "process" => http \in Open /\ \A i \in DOMAIN events : events[i].fd # fd[http]

\* What is left in errno says of which lookup it comes.
ErrnoInv == (errno = "ENOENT" => gone) /\ AnswerFits

\* A head that was parsed stays what it was until it is answered.
HeadInv == pc = "process" /\ head = "parsed" => inp[http] \in Request

ServerInv == Types /\ ArrayInv /\ KernelInv /\ EntryInv /\ BatchInv /\ HeadInv /\ ErrnoInv

-----------------------------------------------------------------------------
(* Arithmetic, arrays and queues *)

LEMMA Bounds ==
  /\ N \in Nat \ {0} /\ MaxFd \in Nat \ {0} /\ TOR_MAX_EVENT \in Nat \ {0}
  /\ \A r \in Request : r.target \in {"root", "dir", "file", "denied", "missing"}
  BY ServerAssumption DEF ServerAssumption

LEMMA LeastNat ==
  ASSUME NEW S \in SUBSET Nat, S # {}
  PROVE  \E k \in S : \A j \in S : k <= j
<1>1. PICK k \in S : \A j \in S : <<j, k>> \notin OpToRel(<, Nat)
  BY NatLessThanWellFounded, WFMin
<1>2. \A j \in S : ~(j < k)
  BY <1>1, Zenon DEF OpToRel
<1> QED
  BY <1>2

\* The kernel gives a descriptor that is free, and all below it are in use.
LEMMA Lowest ==
  ASSUME Free # {}
  PROVE  /\ LowestFree \in Free /\ LowestFree \in 1..MaxFd /\ LowestFree \notin dirs
         /\ \A c \in Open : fd[c] # LowestFree
         /\ \A m \in 1..(LowestFree - 1) : m \in dirs \/ \E c \in Open : fd[c] = m
<1>1. Free \in SUBSET Nat /\ Free \subseteq 1..MaxFd
  BY Bounds DEF Free
<1>2. \E k \in Free : \A j \in Free : k <= j
  BY <1>1, LeastNat
<1>3. LowestFree \in Free /\ \A j \in Free : LowestFree <= j
  BY <1>2 DEF LowestFree
<1>4. LowestFree \in 1..MaxFd /\ LowestFree \notin dirs /\ \A c \in Open : fd[c] # LowestFree
  BY <1>1, <1>3 DEF Free
<1>5. ASSUME NEW m \in 1..(LowestFree - 1) PROVE m \notin Free /\ m \in 1..MaxFd
  BY <1>3, <1>4, <1>1, Bounds
<1> QED
  BY <1>3, <1>4, <1>5 DEF Free

\* The array grows by whole multiples of its length, and by at least one of them.
LEMMA Growth ==
  ASSUME NEW len \in Nat \ {0}, NEW i \in Nat
  PROVE  /\ Grown(len, i) \in Nat \ {0} /\ Grown(len, i) >= len
         /\ i >= Grown(len, i) => Grown(len, i) >= 2 * len
<1>1. CASE i < len
  BY <1>1 DEF Grown
<1>2. CASE i >= len
  <2>1. PICK n \in Nat : n = (i + len - 1) \div len
    BY <1>2
  <2>2. n # 0
    BY <1>2, <2>1
  <2>3. PICK f \in Nat : f = (IF n = 1 THEN 2 ELSE n) /\ f >= 2
    BY <2>2
  <2>4. Grown(len, i) = len * f
    BY <1>2, <2>1, <2>3 DEF Grown
  <2>5. len * f >= len * 2 /\ len * f \in Nat
    BY <2>3
  <2> QED
    BY <2>4, <2>5
<1> QED
  BY <1>1, <1>2

LEMMA TailItems ==
  ASSUME NEW S, NEW q \in Seq(S), q # <<>>
  PROVE  /\ Tail(q) \in Seq(S) /\ Head(q) \in S /\ Head(q) = q[1] /\ 1 \in DOMAIN q
         /\ \A i \in DOMAIN Tail(q) : i \in Nat /\ i # 0 /\ i + 1 \in DOMAIN q /\ Tail(q)[i] = q[i + 1]
<1>1. /\ Tail(q) \in Seq(S) /\ Len(Tail(q)) = Len(q) - 1 /\ Len(q) \in Nat \ {0} /\ Head(q) \in S
      /\ \A i \in 1..Len(Tail(q)) : Tail(q)[i] = q[i + 1]
  BY HeadTailProperties, EmptySeq
<1>2. DOMAIN q = 1..Len(q) /\ DOMAIN Tail(q) = 1..Len(Tail(q)) /\ Head(q) = q[1]
  BY <1>1, LenProperties
<1> QED
  BY <1>1, <1>2

\* tor_array_put leaves an array that is as long as Grown says.
LEMMA PutArray ==
  ASSUME ArrayInv, NEW i \in Nat, NEW h \in Conn, tor_array_put(i, h)
  PROVE  /\ ArrayInv' /\ Length' = Grown(Length, i) /\ Length <= Length'
         /\ \A k \in DOMAIN slot : k # i => k \in DOMAIN slot' /\ slot'[k] = slot[k]
         /\ i < Grown(Length, i) => i \in DOMAIN slot' /\ slot'[i] = h
<1>1. PICK g \in Nat \ {0} : g = Grown(Length, i) /\ g >= Length
  BY Growth DEF ArrayInv
<1>2. slot' = [k \in 0..(g - 1) |-> IF k = i THEN h ELSE IF k < Length THEN slot[k] ELSE NULL]
  BY <1>1 DEF tor_array_put
<1>3. DOMAIN slot' = 0..(g - 1)
  BY <1>2
<1>4. Cardinality(0..(g - 1)) = g
  BY FS_Interval
<1>5. Length' = g
  BY <1>3, <1>4 DEF Length
<1>6. \A k \in 0..(g - 1) : k < Length => slot[k] \in Conn \cup {NULL}
  BY DEF ArrayInv
<1>7. slot' \in [0..(g - 1) -> Conn \cup {NULL}]
  BY <1>2, <1>6
<1>8. ArrayInv'
  BY <1>3, <1>5, <1>7 DEF ArrayInv
<1> QED
  BY <1>1, <1>2, <1>3, <1>5, <1>8 DEF ArrayInv

\* close closes the one connection that has the descriptor.
LEMMA CloseOne ==
  ASSUME Types, KernelInv, NEW k \in Open, NEW how \in {"failed", "done"}, Close(fd[k], how)
  PROVE  /\ net' \in [Conn -> {"new", "queued", "open", "failed", "done"}]
         /\ inp' \in [Conn -> Request \cup {Nothing, Part, Eof}]
         /\ fd' \in [Conn -> -1..MaxFd] /\ reset' \subseteq Conn
         /\ Open' = Open \ {k} /\ net'[k] = how /\ reset' = reset \ {k}
         /\ \A c \in Conn : c # k => net'[c] = net[c] /\ fd'[c] = fd[c]
<1>1. {c \in Open : fd[c] = fd[k]} = {k}
  BY DEF KernelInv
<1>2. k \in Conn /\ net[k] = "open"
  BY DEF Open
<1>3. /\ net' = [c \in Conn |-> IF c \in {k} THEN how ELSE net[c]]
      /\ inp' = [c \in Conn |-> IF c \in {k} THEN Nothing ELSE inp[c]]
      /\ fd' = [c \in Conn |-> IF c \in {k} THEN -1 ELSE fd[c]]
      /\ reset' = reset \ {k}
  BY <1>1, Zenon DEF Close
<1>4. -1 \in -1..MaxFd
  BY Bounds
<1>5. /\ net' \in [Conn -> {"new", "queued", "open", "failed", "done"}]
      /\ inp' \in [Conn -> Request \cup {Nothing, Part, Eof}]
      /\ fd' \in [Conn -> -1..MaxFd] /\ reset' \subseteq Conn
  BY <1>3, <1>4 DEF Types
<1> QED
  BY <1>2, <1>3, <1>5 DEF Open

-----------------------------------------------------------------------------
(* Every step *)

LEMMA InitServer == Init => ServerInv
<1> SUFFICES ASSUME Init PROVE ServerInv
  OBVIOUS
<1>1. DOMAIN slot = 0..(TOR_MAX_EVENT - 1) /\ slot \in [0..(TOR_MAX_EVENT - 1) -> Conn \cup {NULL}]
  BY DEF Init, tor_array_new
<1>2. Length = TOR_MAX_EVENT
  BY <1>1, Bounds, FS_Interval DEF Length
<1>3. ArrayInv
  BY <1>1, <1>2, Bounds DEF ArrayInv
<1>7. NoAnswer \in Answers
  BY DEF NoAnswer, Answers
<1>8. fd \in [Conn -> -1..MaxFd] /\ <<>> \in Seq(Conn) /\ <<>> \in Seq(Event)
  BY Bounds DEF Init
<1>4. Types
  BY <1>7, <1>8 DEF Init, Types
<1>5. KernelInv /\ EntryInv /\ BatchInv /\ HeadInv
  BY DEF Init, KernelInv, EntryInv, BatchInv, HeadInv, LeakedByError, Open
<1>6. ErrnoInv
  BY DEF Init, ErrnoInv, AnswerFits, NoAnswer, Nothing
<1> QED
  BY <1>3, <1>4, <1>5, <1>6 DEF ServerInv

\* The array stays as it is where nobody stores into it.
LEMMA SameArray == ArrayInv /\ UNCHANGED slot => ArrayInv'
  BY DEF ArrayInv, Length

LEMMA ClientStep ==
  ASSUME ServerInv, Clients
  PROVE  ServerInv'
<1>0. UNCHANGED server
  BY DEF Clients, Connect, Reset, Send
<1>1. /\ UNCHANGED <<dirs, slot, ncurr, live, events, pc, http, errno, head, last, gone>>
      /\ ArrayInv' /\ ErrnoInv'
  BY <1>0, SameArray DEF server, ServerInv, ErrnoInv, AnswerFits
<1>2. ASSUME NEW c \in Conn, Connect(c) PROVE ServerInv'
  <2>1. net[c] = "new" /\ net' = [net EXCEPT ![c] = "queued"] /\ backlog' = Append(backlog, c)
        /\ UNCHANGED <<inp, reset, fd>>
    BY <1>2 DEF Connect
  <2>2. /\ net' \in [Conn -> {"new", "queued", "open", "failed", "done"}] /\ net'[c] = "queued"
        /\ \A d \in Conn : d # c => net'[d] = net[d]
    BY <2>1 DEF ServerInv, Types
  <2>3. Open' = Open
    BY <2>1, <2>2 DEF Open
  <2>4. backlog' \in Seq(Conn)
    BY <2>1, AppendProperties DEF ServerInv, Types
  <2>5. Types'
    BY <1>1, <2>1, <2>2, <2>4 DEF ServerInv, Types
  <2>6. /\ Len(backlog) \in Nat /\ DOMAIN backlog = 1..Len(backlog)
        /\ DOMAIN backlog' = 1..(Len(backlog) + 1) /\ backlog'[Len(backlog) + 1] = c
        /\ \A i \in 1..Len(backlog) : backlog'[i] = backlog[i] /\ backlog[i] \in Conn
    BY <2>1, AppendProperties, LenProperties, ElementOfSeq DEF ServerInv, Types
  <2>7. \A i \in 1..Len(backlog) : net[backlog[i]] = "queued" /\ backlog[i] # c
    BY <2>1, <2>6 DEF ServerInv, KernelInv
  <2>8. KernelInv'
    <3>1. \A i \in DOMAIN backlog' : net'[backlog'[i]] = "queued"
      BY <2>2, <2>6, <2>7
    <3>2. \A i, j \in DOMAIN backlog' : backlog'[i] = backlog'[j] => i = j
      BY <2>6, <2>7 DEF ServerInv, KernelInv
    <3> QED
      BY <1>1, <2>1, <2>3, <3>1, <3>2 DEF ServerInv, KernelInv
  <2>9. EntryInv'
    <3>1. {d \in Conn : net'[d] \in {"open", "failed"}} = {d \in Conn : net[d] \in {"open", "failed"}}
      BY <2>1, <2>2
    <3> QED
      BY <1>1, <2>1, <2>3, <3>1 DEF ServerInv, EntryInv, LeakedByError
  <2>10. BatchInv'
    BY <1>1, <2>1, <2>3 DEF ServerInv, BatchInv
  <2> QED
    BY <1>1, <2>1, <2>5, <2>8, <2>9, <2>10 DEF ServerInv, HeadInv
<1>3. ASSUME NEW c \in Conn, Reset(c) PROVE ServerInv'
  BY <1>1, <1>3 DEF Reset, ServerInv, Types, KernelInv, EntryInv, BatchInv, HeadInv, LeakedByError, Open
<1>4. ASSUME NEW c \in Conn, NEW to \in Request \cup {Part, Eof}, Send(c, to) PROVE ServerInv'
  <2>1. HeadInv'
    <3>1. Nothing \notin Request /\ Part \notin Request
      BY Bounds DEF Nothing, Part
    <3> QED
      BY <1>1, <1>4, <3>1 DEF Send, ServerInv, Types, HeadInv
  <2> QED
    BY <1>1, <1>4, <2>1 DEF Send, ServerInv, Types, KernelInv, EntryInv, BatchInv, LeakedByError, Open
<1> QED
  BY <1>2, <1>3, <1>4 DEF Clients

\* Steps that move do_loop on and leave connections, table and batch alone.
LEMMA LoopStep ==
  ASSUME ServerInv, Start \/ EventsDone \/ AcceptExits \/ Killed \/ UNCHANGED vars
  PROVE  ServerInv'
<1>1. /\ UNCHANGED <<net, inp, reset, backlog, fd, dirs, slot, ncurr, live, events, http, errno, head, last, gone>>
      /\ pc' \in {"wait", "exited"} \/ pc' = pc
  BY DEF Start, EventsDone, AcceptExits, Killed, vars, client, server
<1>2. ArrayInv' /\ pc' \in {"start", "wait", "event", "process", "exited", "overrun"}
  BY <1>1, SameArray DEF ServerInv, Types
<1>3. pc' # "overrun" => pc # "overrun"
  BY <1>1 DEF Start, EventsDone, AcceptExits, Killed, vars, server
<1> QED
  BY <1>1, <1>2, <1>3 DEF ServerInv, Types, KernelInv, EntryInv, BatchInv, HeadInv, ErrnoInv, AnswerFits,
                          LeakedByError, Open

LEMMA WaitStep ==
  ASSUME ServerInv, EpollWait
  PROVE  ServerInv'
<1>1. /\ UNCHANGED <<net, inp, reset, backlog, fd, dirs, slot, ncurr, live, http, errno, head, gone>>
      /\ pc' = "event" /\ pc = "wait" /\ last' = NoAnswer /\ events' \in Batches
  BY DEF EpollWait, client
<1>2. Ready \subseteq Event
  <2>1. \A c \in Open : fd[c] \in 0..MaxFd
    BY Bounds DEF ServerInv, KernelInv
  <2>2. 0 \in 0..MaxFd
    BY Bounds
  <2> QED
    BY <2>1, <2>2 DEF Ready, Event, Readable, Kind, sfd
<1>3. \A e \in Ready : /\ e.fd = sfd \/ \E c \in Open : fd[c] = e.fd
                       /\ e.kind = "err" => e.fd # sfd
  <2>1. \A c \in Open : fd[c] # 0
    BY Bounds DEF ServerInv, KernelInv
  <2> QED
    BY <2>1 DEF Ready, Readable, Kind, sfd
<1>4. \A e, f \in Ready : e.fd = f.fd => e = f
  <2>1. ASSUME NEW e \in Ready, NEW f \in Ready, e.fd = f.fd PROVE e = f
    <3>1. \A c \in Open : fd[c] # sfd
      BY Bounds DEF ServerInv, KernelInv, sfd
    <3>2. \A g \in Ready : g = [fd |-> sfd, kind |-> "in"] \/ \E c \in Open : g = [fd |-> fd[c], kind |-> Kind(c)]
      BY DEF Ready, Readable
    <3>3. CASE e.fd = sfd
      <4>1. ASSUME NEW g \in Ready, g.fd = sfd PROVE g = [fd |-> sfd, kind |-> "in"]
        <5>1. ASSUME NEW c \in Open, g = [fd |-> fd[c], kind |-> Kind(c)] PROVE FALSE
          BY <3>1, <4>1, <5>1
        <5> QED
          BY <3>2, <5>1
      <4> QED
        BY <2>1, <3>3, <4>1
    <3>4. CASE e.fd # sfd
      <4>1. PICK c \in Open : e = [fd |-> fd[c], kind |-> Kind(c)]
        BY <3>2, <3>4
      <4>2. PICK d \in Open : f = [fd |-> fd[d], kind |-> Kind(d)]
        BY <2>1, <3>2, <3>4
      <4>3. fd[c] = fd[d]
        BY <2>1, <4>1, <4>2
      <4>4. c = d
        BY <4>3 DEF ServerInv, KernelInv
      <4> QED
        BY <4>1, <4>2, <4>4
    <3> QED
      BY <3>3, <3>4
  <2> QED
    BY <2>1
<1>5. PICK n : /\ n = IF Cardinality(Ready) < TOR_MAX_EVENT THEN Cardinality(Ready) ELSE TOR_MAX_EVENT
               /\ events' \in [1..n -> Ready]
               /\ \A i, j \in 1..n : i # j => events'[i] # events'[j]
  BY <1>1 DEF Batches
<1>6. n \in Nat /\ events' \in Seq(Event)
  <2>1. Cardinality(Ready) \in Nat
    <3> DEFINE rec == [c \in Open |-> [fd |-> fd[c], kind |-> Kind(c)]]
    <3>1. IsFiniteSet(Open)
      <4>1. IsFiniteSet(Conn) /\ Open \subseteq Conn
        BY Bounds, FS_Interval DEF Conn, Open
      <4> QED
        BY <4>1, FS_Subset
    <3>2. IsFiniteSet({rec[c] : c \in Open})
      <4> DEFINE T == {rec[c] : c \in Open}
      <4>1. rec \in Surjection(Open, T)
        BY DEF Surjection
      <4> HIDE DEF rec, T
      <4>2. IsFiniteSet(T)
        BY <3>1, <4>1, FS_Surjection
      <4> QED
        BY <4>2 DEF T
    <3>3. Ready \subseteq {rec[c] : c \in Open} \cup {[fd |-> sfd, kind |-> "in"]}
      BY DEF Ready, Readable
    <3> HIDE DEF rec
    <3>4. IsFiniteSet({rec[c] : c \in Open} \cup {[fd |-> sfd, kind |-> "in"]})
      BY <3>2, FS_AddElement
    <3> QED
      BY <3>3, <3>4, FS_Subset, FS_CardinalityType
  <2>2. n \in Nat
    BY <1>5, <2>1, Bounds
  <2>3. events' \in [1..n -> Event]
    BY <1>2, <1>5
  <2> QED
    BY <2>2, <2>3, SeqDef
<1>7. BatchInv'
  <2>1. DOMAIN events' = 1..n /\ \A i \in 1..n : events'[i] \in Ready
    BY <1>5
  <2>2. Open' = Open /\ fd' = fd
    BY <1>1 DEF Open
  <2>3. \A i \in 1..n : /\ events'[i].fd = sfd \/ \E c \in Open : fd[c] = events'[i].fd
                        /\ events'[i].kind = "err" => events'[i].fd # sfd
    BY <1>3, <2>1
  <2>4. \A i, j \in 1..n : events'[i].fd = events'[j].fd => i = j
    BY <1>4, <1>5, <2>1
  <2> QED
    BY <1>1, <2>1, <2>2, <2>3, <2>4 DEF BatchInv
<1>8. Types'
  BY <1>1, <1>6 DEF ServerInv, Types, Answers, NoAnswer
<1>9. ErrnoInv'
  BY <1>1 DEF ServerInv, ErrnoInv, AnswerFits, NoAnswer, Nothing
<1> QED
  BY <1>1, <1>7, <1>8, <1>9, SameArray DEF ServerInv, KernelInv, EntryInv, HeadInv, LeakedByError, Open

LEMMA AcceptEndsStep ==
  ASSUME ServerInv, AcceptEnds
  PROVE  ServerInv'
<1>1. /\ UNCHANGED <<net, inp, reset, backlog, fd, dirs, slot, ncurr, live, pc, http, head, last, gone>>
      /\ events # <<>> /\ events' = Tail(events) /\ errno' \in {"EAGAIN", "EMFILE"} /\ pc = "event"
  BY DEF AcceptEnds, client, AtSfd
<1>2. /\ events' \in Seq(Event)
      /\ \A i \in DOMAIN events' : i \in Nat /\ i + 1 \in DOMAIN events /\ events'[i] = events[i + 1]
  BY <1>1, TailItems DEF ServerInv, Types
<1>3. BatchInv'
  BY <1>1, <1>2 DEF ServerInv, BatchInv, Open
<1>4. Types'
  BY <1>1, <1>2 DEF ServerInv, Types
<1>5. ErrnoInv'
  BY <1>1 DEF ServerInv, ErrnoInv, AnswerFits
<1> QED
  BY <1>1, <1>3, <1>4, <1>5, SameArray DEF ServerInv, KernelInv, EntryInv, HeadInv, LeakedByError, Open

LEMMA OnErrorStep ==
  ASSUME ServerInv, OnError
  PROVE  ServerInv'
<1>1. /\ UNCHANGED <<backlog, dirs, slot, ncurr, live, pc, http, errno, head, last, gone>>
      /\ pc = "event" /\ events # <<>> /\ events' = Tail(events)
      /\ Close(Head(events).fd, "failed") /\ Head(events).kind = "err"
  BY DEF OnError
<1>2. /\ events' \in Seq(Event) /\ Head(events) = events[1] /\ 1 \in DOMAIN events
      /\ \A i \in DOMAIN events' : i \in Nat /\ i # 0 /\ i + 1 \in DOMAIN events /\ events'[i] = events[i + 1]
  BY <1>1, TailItems DEF ServerInv, Types
<1>3. PICK k \in Open : fd[k] = events[1].fd
  BY <1>1, <1>2 DEF ServerInv, BatchInv
<1>4. /\ net' \in [Conn -> {"new", "queued", "open", "failed", "done"}]
      /\ inp' \in [Conn -> Request \cup {Nothing, Part, Eof}]
      /\ fd' \in [Conn -> -1..MaxFd] /\ reset' \subseteq Conn
      /\ Open' = Open \ {k} /\ net'[k] = "failed" /\ reset' = reset \ {k}
      /\ \A c \in Conn : c # k => net'[c] = net[c] /\ fd'[c] = fd[c]
  BY <1>1, <1>2, <1>3, CloseOne DEF ServerInv
<1>5. k \in Conn /\ net[k] = "open" /\ Open \subseteq Conn
  BY DEF Open
<1>6. Types'
  BY <1>1, <1>2, <1>4 DEF ServerInv, Types
<1>7. KernelInv'
  <2>1. \A i \in DOMAIN backlog : backlog[i] \in Conn /\ backlog[i] # k /\ net[backlog[i]] = "queued"
    BY <1>5 DEF ServerInv, Types, KernelInv
  <2>2. reset' \subseteq Open'
    BY <1>4 DEF ServerInv, KernelInv
  <2>3. \A c \in Open' : fd'[c] \in 1..MaxFd /\ fd'[c] \notin dirs'
    BY <1>1, <1>4, <1>5 DEF ServerInv, KernelInv
  <2>4. \A c, d \in Open' : fd'[c] = fd'[d] => c = d
    BY <1>4, <1>5 DEF ServerInv, KernelInv
  <2>5. \A i \in DOMAIN backlog : net'[backlog[i]] = "queued"
    BY <1>4, <2>1
  <2> QED
    BY <1>1, <2>2, <2>3, <2>4, <2>5 DEF ServerInv, KernelInv
<1>8. EntryInv'
  <2>1. {c \in Conn : net'[c] \in {"open", "failed"}} = {c \in Conn : net[c] \in {"open", "failed"}}
    BY <1>4, <1>5
  <2> QED
    BY <1>1, <1>4, <1>5, <2>1 DEF ServerInv, EntryInv, LeakedByError
<1>9. BatchInv'
  <2>1. \A i \in DOMAIN events' : events'[i].fd # fd[k]
    BY <1>2, <1>3 DEF ServerInv, BatchInv
  <2>2. ASSUME NEW i \in DOMAIN events' PROVE events'[i].fd = sfd \/ \E c \in Open' : fd'[c] = events'[i].fd
    <3>1. events'[i].fd = sfd \/ \E c \in Open : fd[c] = events'[i].fd
      BY <1>2 DEF ServerInv, BatchInv
    <3> QED
      BY <1>4, <1>5, <2>1, <3>1
  <2>3. \A i, j \in DOMAIN events' : events'[i].fd = events'[j].fd => i = j
    BY <1>2 DEF ServerInv, BatchInv
  <2>4. \A i \in DOMAIN events' : events'[i].kind = "err" => events'[i].fd # sfd
    BY <1>2 DEF ServerInv, BatchInv
  <2> QED
    BY <1>1, <2>2, <2>3, <2>4 DEF BatchInv
<1>10. ErrnoInv'
  BY <1>1 DEF ServerInv, ErrnoInv, AnswerFits
<1> QED
  BY <1>1, <1>6, <1>7, <1>8, <1>9, <1>10, SameArray DEF ServerInv, HeadInv

LEMMA ReadHeadStep ==
  ASSUME ServerInv, ReadHead
  PROVE  ServerInv'
<1>1. /\ UNCHANGED <<net, inp, reset, backlog, fd, dirs, slot, ncurr, live, last>>
      /\ pc = "event" /\ pc' = "process" /\ events # <<>> /\ events' = Tail(events)
      /\ http' = slot[Head(events).fd] /\ http_read_head(http') /\ Head(events).kind = "in" /\ ~AtSfd
  BY DEF ReadHead, client, tor_array_get
<1>2. /\ events' \in Seq(Event) /\ Head(events) = events[1] /\ 1 \in DOMAIN events /\ events[1] \in Event
      /\ \A i \in DOMAIN events' : i \in Nat /\ i # 0 /\ i + 1 \in DOMAIN events /\ events'[i] = events[i + 1]
  BY <1>1, TailItems DEF ServerInv, Types
<1>3. events[1].fd # sfd
  <2>1. events[1].fd = sfd => events[1] = [fd |-> sfd, kind |-> "in"]
    BY <1>1, <1>2 DEF Event
  <2> QED
    BY <1>1, <1>2, <2>1 DEF AtSfd
<1>4. PICK k \in Open : fd[k] = events[1].fd
  BY <1>2, <1>3 DEF ServerInv, BatchInv
<1>5. http' = k /\ k \in Conn
  BY <1>1, <1>2, <1>4 DEF ServerInv, EntryInv, Open
<1>6. /\ head' \in {"none", "parsed", "reset"}
      /\ errno' = errno \/ errno' = "ECONNRESET" \/ (errno' = "ENOENT" /\ gone')
      /\ gone' \in BOOLEAN /\ (gone => gone')
      /\ head' = "parsed" => inp[k] \in Request
  <2>1. gone \in BOOLEAN
    BY DEF ServerInv, Types
  <2>2. http_read_head(k)
    BY <1>1, <1>5
  <2>3. CASE head' = "reset" /\ errno' = "ECONNRESET" /\ UNCHANGED gone
    BY <2>1, <2>3
  <2>4. CASE head' = "none" /\ UNCHANGED <<errno, gone>>
    BY <2>1, <2>4
  <2>5. CASE head' = "parsed" /\ inp[k] \in Request /\ process_line(inp[k])
    <3>1. gone' = (gone \/ inp[k].ref = "gone") /\ errno' = IF inp[k].ref = "gone" THEN "ENOENT" ELSE errno
      BY <2>5, Zenon DEF process_line
    <3> QED
      BY <2>1, <2>5, <3>1
  <2> QED
    BY <2>2, <2>3, <2>4, <2>5 DEF http_read_head
<1>11. HeadInv'
  BY <1>1, <1>5, <1>6 DEF HeadInv
<1>7. Types'
  BY <1>1, <1>2, <1>5, <1>6 DEF ServerInv, Types
<1>8. KernelInv' /\ EntryInv' /\ Open' = Open
  BY <1>1 DEF ServerInv, KernelInv, EntryInv, LeakedByError, Open
<1>9. BatchInv'
  <2>1. \A i \in DOMAIN events' : events'[i].fd # fd[k]
    BY <1>2, <1>4 DEF ServerInv, BatchInv
  <2>2. /\ \A i \in DOMAIN events' : events'[i].fd = sfd \/ \E c \in Open : fd[c] = events'[i].fd
        /\ \A i, j \in DOMAIN events' : events'[i].fd = events'[j].fd => i = j
        /\ \A i \in DOMAIN events' : events'[i].kind = "err" => events'[i].fd # sfd
    BY <1>2 DEF ServerInv, BatchInv
  <2> QED
    BY <1>1, <1>5, <1>8, <2>1, <2>2 DEF BatchInv
<1>10. ErrnoInv'
  BY <1>1, <1>6 DEF ServerInv, ErrnoInv, AnswerFits
<1> QED
  BY <1>1, <1>7, <1>8, <1>9, <1>10, <1>11, SameArray DEF ServerInv

\* The answer: what stat found, and what errno had been before.
LEMMA ProcessAnswers ==
  ASSUME ServerInv, list_dir, http_write, pc = "process", UNCHANGED gone
  PROVE  /\ ErrnoInv' /\ last' \in Answers
         /\ errno' \in {"0", "EAGAIN", "ENOENT", "EACCES", "EBADF", "EMFILE", "EPIPE", "ECONNRESET"}
         /\ dirs' = dirs \/ (Free # {} /\ dirs' = dirs \cup {LowestFree})
<1>1. /\ errno \in {"0", "EAGAIN", "ENOENT", "EACCES", "EBADF", "EMFILE", "EPIPE", "ECONNRESET"}
      /\ last \in Answers /\ http \in Conn /\ inp[http] \in Request \cup {Nothing, Part, Eof}
      /\ errno = "ENOENT" => gone
  BY DEF ServerInv, Types, BatchInv, Open, ErrnoInv
<1>2. dirs' = dirs \/ (Free # {} /\ dirs' = dirs \cup {LowestFree})
  BY DEF list_dir, Body
<1>3. Body \in {"none", "list", "file"} /\ Code \in {200, 404}
  BY DEF Body, Code
<1>4. Body = "file" => Found = "file" /\ StatErrno = errno
  BY DEF Body, StatErrno
<1>5. Found = "missing" => Code = 404 /\ Body = "none"
  BY DEF Body, Code, StatErrno
<1>6. Code = 404 /\ Found # "missing" => gone
  BY <1>1 DEF Code, StatErrno
<1>7. CASE http \in reset
  BY <1>1, <1>2, <1>7 DEF http_write, ServerInv, ErrnoInv, AnswerFits
<1>8. CASE http \notin reset
  <2> DEFINE req == IF head = "parsed" THEN inp[http] ELSE Part
  <2>1. last' = [req |-> req, code |-> Code, body |-> Body] /\ errno' = CloseErrno
    BY <1>8 DEF http_write
  <2>2. errno' = errno \/ errno' = "EBADF"
    BY <1>4, <2>1 DEF CloseErrno
  <2>3. /\ req.target = "missing" => Found = "missing"
        /\ Found = "missing" => req.target = "missing"
        /\ Found = "file" => req.target = "file"
    BY DEF Found, Part
  <2>4. AnswerFits'
    <3> HIDE DEF req
    <3>1. last'.body = Body /\ last'.code = Code /\ last'.req = req
      BY <2>1
    <3> QED
      BY <1>4, <1>5, <1>6, <2>3, <3>1 DEF AnswerFits
  <2>5. req \in Request \cup {Nothing, Part}
    <3>1. head = "parsed" => inp[http] \in Request
      BY DEF ServerInv, HeadInv
    <3> QED
      BY <3>1
  <2>6. last' \in Answers
    BY <1>3, <2>1, <2>5 DEF Answers
  <2> QED
    BY <1>1, <1>2, <2>2, <2>4, <2>6 DEF ErrnoInv
<1> QED
  BY <1>7, <1>8

LEMMA ProcessStep ==
  ASSUME ServerInv, Process
  PROVE  ServerInv'
<1>1. /\ UNCHANGED <<backlog, slot, ncurr, events, gone>>
      /\ pc = "process" /\ pc' = "event" /\ http' = NULL /\ head' = "none"
      /\ list_dir /\ http_write /\ Close(fd[http], "done") /\ live' = live \ {http}
  BY DEF Process, http_free
<1>2. http \in Open /\ \A i \in DOMAIN events : events[i].fd # fd[http]
  BY <1>1 DEF ServerInv, BatchInv
<1>3. /\ ErrnoInv' /\ last' \in Answers
      /\ errno' \in {"0", "EAGAIN", "ENOENT", "EACCES", "EBADF", "EMFILE", "EPIPE", "ECONNRESET"}
      /\ dirs' = dirs \/ (Free # {} /\ dirs' = dirs \cup {LowestFree})
  BY <1>1, ProcessAnswers
<1>4. PICK k \in Open : k = http
  BY <1>2
<1>5. /\ net' \in [Conn -> {"new", "queued", "open", "failed", "done"}]
      /\ inp' \in [Conn -> Request \cup {Nothing, Part, Eof}]
      /\ fd' \in [Conn -> -1..MaxFd] /\ reset' \subseteq Conn
      /\ Open' = Open \ {k} /\ net'[k] = "done" /\ reset' = reset \ {k}
      /\ \A c \in Conn : c # k => net'[c] = net[c] /\ fd'[c] = fd[c]
  BY <1>1, <1>4, CloseOne DEF ServerInv
<1>6. k \in Conn /\ net[k] = "open" /\ Open \subseteq Conn
  BY DEF Open
<1>7. dirs' \subseteq 1..MaxFd /\ \A c \in Open : fd[c] \notin dirs'
  BY <1>3, Lowest DEF ServerInv, Types, KernelInv
<1>8. Types'
  BY <1>1, <1>3, <1>5, <1>7 DEF ServerInv, Types
<1>9. KernelInv'
  <2>1. \A i \in DOMAIN backlog : backlog[i] \in Conn /\ backlog[i] # k /\ net[backlog[i]] = "queued"
    BY <1>6 DEF ServerInv, Types, KernelInv
  <2>2. reset' \subseteq Open'
    BY <1>5 DEF ServerInv, KernelInv
  <2>3. \A c \in Open' : fd'[c] \in 1..MaxFd /\ fd'[c] \notin dirs'
    BY <1>5, <1>6, <1>7 DEF ServerInv, KernelInv
  <2>4. \A c, d \in Open' : fd'[c] = fd'[d] => c = d
    BY <1>5, <1>6 DEF ServerInv, KernelInv
  <2>5. \A i \in DOMAIN backlog : net'[backlog[i]] = "queued"
    BY <1>5, <2>1
  <2> QED
    BY <1>1, <2>2, <2>3, <2>4, <2>5 DEF ServerInv, KernelInv
<1>10. EntryInv'
  <2>1. {c \in Conn : net'[c] \in {"open", "failed"}} = {c \in Conn : net[c] \in {"open", "failed"}} \ {k}
    BY <1>5, <1>6
  <2> QED
    BY <1>1, <1>4, <1>5, <1>6, <2>1 DEF ServerInv, EntryInv, LeakedByError
<1>11. BatchInv'
  <2>1. ASSUME NEW i \in DOMAIN events PROVE events[i].fd = sfd \/ \E c \in Open' : fd'[c] = events[i].fd
    <3>1. events[i].fd = sfd \/ \E c \in Open : fd[c] = events[i].fd
      BY DEF ServerInv, BatchInv
    <3> QED
      BY <1>2, <1>4, <1>5, <1>6, <3>1
  <2> QED
    BY <1>1, <2>1 DEF ServerInv, BatchInv
<1> QED
  BY <1>1, <1>3, <1>8, <1>9, <1>10, <1>11, SameArray DEF ServerInv, HeadInv

LEMMA AcceptStep ==
  ASSUME ServerInv, Accept
  PROVE  ServerInv' /\ OverrunByDirs'
<1>1. /\ UNCHANGED <<inp, reset, dirs, events, http, errno, head, last, gone>>
      /\ pc = "event" /\ backlog # <<>> /\ backlog' = Tail(backlog) /\ Free # {}
  BY DEF Accept
<1>2. PICK c \in Conn : c = Head(backlog)
  BY <1>1, TailItems DEF ServerInv, Types
<1>3. PICK i \in 1..MaxFd : /\ i = LowestFree /\ i \notin dirs /\ \A d \in Open : fd[d] # i
                            /\ \A m \in 1..(i - 1) : m \in dirs \/ \E d \in Open : fd[d] = m
  BY <1>1, Lowest
<1>4. /\ net' = [net EXCEPT ![c] = "open"] /\ fd' = [fd EXCEPT ![c] = i]
      /\ live' = live \cup {c} /\ tor_array_put(i, c)
  BY <1>2, <1>3 DEF Accept, http_new
<1>5. i \in Nat /\ i # 0
  BY Bounds
<1>6. /\ backlog' \in Seq(Conn) /\ c = backlog[1] /\ 1 \in DOMAIN backlog
      /\ \A j \in DOMAIN backlog' : j \in Nat /\ j # 0 /\ j + 1 \in DOMAIN backlog /\ backlog'[j] = backlog[j + 1]
  BY <1>1, <1>2, TailItems DEF ServerInv, Types
<1>7. net[c] = "queued" /\ c \notin Open
  BY <1>6 DEF ServerInv, KernelInv, Open
<1>8. /\ net' \in [Conn -> {"new", "queued", "open", "failed", "done"}]
      /\ fd' \in [Conn -> -1..MaxFd]
      /\ net'[c] = "open" /\ fd'[c] = i
      /\ \A d \in Conn : d # c => net'[d] = net[d] /\ fd'[d] = fd[d]
  BY <1>4, Bounds DEF ServerInv, Types
<1>9. Open' = Open \cup {c} /\ Open \subseteq Conn
  BY <1>8 DEF Open
<1>10. /\ ArrayInv' /\ Length' = Grown(Length, i) /\ Length <= Length'
       /\ \A k \in DOMAIN slot : k # i => k \in DOMAIN slot' /\ slot'[k] = slot[k]
       /\ i < Grown(Length, i) => i \in DOMAIN slot' /\ slot'[i] = c
  BY <1>4, <1>5, PutArray DEF ServerInv
<1>11. pc' = (IF i < Grown(Length, i) THEN "event" ELSE "overrun") /\ ncurr' \in Nat
  BY <1>1, <1>4 DEF tor_array_put, ServerInv, Types
<1>12. Types'
  BY <1>1, <1>4, <1>6, <1>8, <1>11 DEF ServerInv, Types
<1>13. KernelInv'
  <2>1. reset' \subseteq Open'
    BY <1>1, <1>9 DEF ServerInv, KernelInv
  <2>2. \A d \in Open' : fd'[d] \in 1..MaxFd /\ fd'[d] \notin dirs'
    BY <1>1, <1>3, <1>7, <1>8, <1>9 DEF ServerInv, KernelInv
  <2>3. \A d, e \in Open' : fd'[d] = fd'[e] => d = e
    BY <1>3, <1>7, <1>8, <1>9 DEF ServerInv, KernelInv
  <2>4. \A j \in DOMAIN backlog' : backlog'[j] # c /\ net[backlog'[j]] = "queued" /\ backlog'[j] \in Conn
    BY <1>6 DEF ServerInv, KernelInv, Types
  <2>5. \A j \in DOMAIN backlog' : net'[backlog'[j]] = "queued"
    BY <1>8, <2>4
  <2>6. \A j, k \in DOMAIN backlog' : backlog'[j] = backlog'[k] => j = k
    BY <1>6 DEF ServerInv, KernelInv
  <2> QED
    BY <2>1, <2>2, <2>3, <2>5, <2>6 DEF KernelInv
<1>14. EntryInv'
  <2>1. {d \in Conn : net'[d] \in {"open", "failed"}} = {d \in Conn : net[d] \in {"open", "failed"}} \cup {c}
    BY <1>7, <1>8
  <2>2. LeakedByError'
    BY <1>4, <2>1 DEF ServerInv, EntryInv, LeakedByError
  <2>3. ASSUME pc' # "overrun", NEW d \in Open' PROVE fd'[d] \in DOMAIN slot' /\ slot'[fd'[d]] = d
    <3>1. CASE d = c
      BY <1>8, <1>10, <1>11, <2>3, <3>1
    <3>2. CASE d # c
      <4>1. d \in Open /\ fd'[d] = fd[d] /\ fd[d] # i /\ fd[d] \in DOMAIN slot /\ slot[fd[d]] = d
        BY <1>1, <1>3, <1>8, <1>9, <3>2 DEF ServerInv, EntryInv
      <4> QED
        BY <1>10, <4>1
    <3> QED
      BY <3>1, <3>2
  <2> QED
    BY <2>2, <2>3 DEF EntryInv
<1>15. BatchInv'
  <2>1. \A d \in Open : d \in Open' /\ fd'[d] = fd[d]
    BY <1>7, <1>8, <1>9
  <2>2. pc' # "process"
    BY <1>11
  <2> QED
    BY <1>1, <2>1, <2>2 DEF ServerInv, BatchInv
<1>16. ServerInv'
  <2>1. HeadInv' /\ ErrnoInv'
    BY <1>1, <1>11 DEF ServerInv, HeadInv, ErrnoInv, AnswerFits
  <2> QED
    BY <1>10, <1>12, <1>13, <1>14, <1>15, <2>1 DEF ServerInv
<1>17. OverrunByDirs'
  <2> SUFFICES ASSUME pc' = "overrun" PROVE 2 * Cardinality(dirs) >= Length'
    BY <1>1 DEF OverrunByDirs
  <2>1. Length \in Nat \ {0} /\ DOMAIN slot = 0..(Length - 1)
    BY DEF ServerInv, ArrayInv
  <2>2. /\ i >= Grown(Length, i) /\ Grown(Length, i) >= 2 * Length /\ Grown(Length, i) \in Nat
    <3>1. PICK g \in Nat : g = Grown(Length, i) /\ (i >= g => g >= 2 * Length)
      BY <1>5, <2>1, Growth
    <3>2. ~(i < g)
      BY <1>11, <3>1
    <3> QED
      BY <1>5, <3>1, <3>2
  <2>3. Length..(i - 1) \subseteq dirs
    <3>1. ASSUME NEW m \in Length..(i - 1) PROVE m \in dirs
      <4>1. m \in 1..(i - 1) /\ m \notin DOMAIN slot
        BY <1>5, <2>1
      <4>2. \A d \in Open : fd[d] # m
        BY <1>1, <4>1 DEF ServerInv, EntryInv
      <4> QED
        BY <1>3, <4>1, <4>2
    <3> QED
      BY <3>1
  <2>4. IsFiniteSet(dirs)
    <3>1. IsFiniteSet(1..MaxFd)
      BY Bounds, FS_Interval
    <3> QED
      BY <3>1, FS_Subset DEF ServerInv, Types
  <2>5. Cardinality(Length..(i - 1)) = i - Length
    <3>1. Length \in Int /\ i - 1 \in Int /\ i - 1 >= Length
      BY <1>5, <2>1, <2>2
    <3>2. Cardinality(Length..(i - 1)) = IF Length > i - 1 THEN 0 ELSE (i - 1) - Length + 1
      BY <3>1, FS_Interval
    <3> QED
      BY <1>5, <2>1, <3>1, <3>2
  <2>6. Cardinality(Length..(i - 1)) <= Cardinality(dirs) /\ Cardinality(dirs) \in Nat
    BY <2>3, <2>4, FS_Subset, FS_CardinalityType
  <2> QED
    BY <1>5, <1>10, <2>1, <2>2, <2>5, <2>6
<1> QED
  BY <1>16, <1>17

LEMMA NextInv == ServerInv /\ [Next]_vars => ServerInv'
  BY ClientStep, LoopStep, WaitStep, AcceptEndsStep, OnErrorStep, ReadHeadStep, ProcessStep,
     AcceptStep DEF Next, Server, Idle

LEMMA OverrunStep == ServerInv /\ OverrunByDirs /\ [Next]_vars => OverrunByDirs'
<1> SUFFICES ASSUME ServerInv, OverrunByDirs, [Next]_vars PROVE OverrunByDirs'
  OBVIOUS
<1>1. CASE Accept
  BY <1>1, AcceptStep
<1>2. CASE Clients \/ Idle \/ UNCHANGED vars
  BY <1>2 DEF OverrunByDirs, Length, Clients, Connect, Reset, Send, Idle, vars, server
<1>3. CASE Start \/ EpollWait \/ EventsDone \/ OnError \/ AcceptExits \/ AcceptEnds \/ ReadHead \/ Process \/ Killed
  <2>1. pc' # "overrun"
    BY <1>3 DEF Start, EpollWait, EventsDone, OnError, AcceptExits, AcceptEnds, ReadHead, Process, Killed
  <2> QED
    BY <2>1 DEF OverrunByDirs
<1> QED
  BY <1>1, <1>2, <1>3 DEF Next, Server

\* Every variable of the server and of its clients keeps its type: tor_array_get is
\* never asked for an entry outside the array.
THEOREM HttpTypeCorrect == Spec => []TypeOK
<1>1. ServerInv => TypeOK
  <2> SUFFICES ASSUME ServerInv PROVE TypeOK
    OBVIOUS
  <2>1. events \in Seq([fd : Nat, kind : {"err", "in"}])
    <3>1. Event \subseteq [fd : Nat, kind : {"err", "in"}]
      BY Bounds DEF Event
    <3> QED
      BY <3>1, SeqMonotonic DEF ServerInv, Types
  <2>2. DOMAIN slot = 0..(Length - 1) /\ slot \in [DOMAIN slot -> Conn \cup {NULL}]
    BY DEF ServerInv, ArrayInv
  <2> QED
    BY <2>1, <2>2 DEF ServerInv, Types, TypeOK, Answers
<1> QED
  BY <1>1, InitServer, NextInv, PTL DEF Spec

\* Although tor_array_put never clears an entry and descriptor numbers come back, an
\* event leads do_loop to the context of its own connection, which is allocated, and
\* every event still to be handled is about a descriptor that is open.
THEOREM HttpEventFindsContext == Spec => []EventFindsContext
<1>1. ServerInv => EventFindsContext
  BY DEF ServerInv, EventFindsContext, EntryIsOwn, EntryInv, KernelInv, BatchInv
<1> QED
  BY <1>1, InitServer, NextInv, PTL DEF Spec

\* The answer is about what was asked, and a 404 for a file that is there comes from the
\* errno that a Referer's lookup left.
THEOREM HttpAnswerFits == Spec => []AnswerFits
<1>1. ServerInv => AnswerFits
  BY DEF ServerInv, ErrnoInv
<1> QED
  BY <1>1, InitServer, NextInv, PTL DEF Spec

\* tor_array_put stores behind the end of the array only when the directories that
\* list_dir left open are at least half as many as the array has entries.
THEOREM HttpOverrunByDirs == Spec => []OverrunByDirs
<1>1. Init => OverrunByDirs
  BY DEF Init, OverrunByDirs
<1> QED
  BY <1>1, InitServer, NextInv, OverrunStep, PTL DEF Spec
=============================================================================
