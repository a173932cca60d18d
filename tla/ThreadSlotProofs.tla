--------------------------- MODULE ThreadSlotProofs ---------------------------
(***************************************************************************)
(* The servers with one slot, for any number of threads and connections:   *)
(* the state keeps its types, the servers implement HandOff, and HandOff   *)
(* serves connections in the order of accept.  At the end, the service     *)
(* that thread_server.c runs (MrcpServer): it finds the engine open.       *)
(***************************************************************************)
EXTENDS ThreadSlot, MrcpServer, SequenceTheorems, FiniteSetTheorems, TLAPS

USE SlotAssumption DEF SlotAssumption

-----------------------------------------------------------------------------
(* Types *)

LEMMA InitTypes == Init => TypeOK
  BY DEF Init, TypeOK, Worker

\* Main's steps keep the types.
LEMMA MainTypes ==
  ASSUME TypeOK, UNCHANGED mainWaits,
         Accept \/ AcceptFails \/ CreateFails \/ Create \/ Created \/ MainSleeps \/ Put \/ PutOver
  PROVE  TypeOK'
<1>1. CASE Create
  BY <1>1 DEF TypeOK, Create, Worker
<1>2. CASE Put \/ PutOver
  <2>1. wpc' \in [Worker -> {"none", "lock", "wait", "process"}]
    BY <1>2 DEF TypeOK, Put, PutOver, SignalWorker, Asleep
  <2> QED
    BY <2>1, <1>2 DEF TypeOK, Put, PutOver, Fill
<1>3. CASE Accept \/ AcceptFails \/ CreateFails \/ Created \/ MainSleeps
  BY <1>3 DEF TypeOK, Accept, AcceptFails, CreateFails, Created, MainSleeps
<1> QED
  BY <1>1, <1>2, <1>3

\* What is in the slot is a connection.
SlotFilled == (ready = 1 => connfd \in 1..MaxConn)
                /\ (mpc \in {"lock", "wait"} => mconn \in 1..MaxConn)

\* A worker's steps keep the types.
LEMMA WorkTypes ==
  ASSUME TypeOK, SlotFilled, UNCHANGED mainWaits, NEW w \in Worker, Work(w)
  PROVE  TypeOK'
<1>1. wpc' \in [Worker -> {"none", "lock", "wait", "process"}]
  BY DEF TypeOK, Work, Sleep, Take, Processed
<1>2. mpc' \in {"create", "accept", "lock", "wait", "exited"}
  BY DEF TypeOK, Work, Sleep, Take, Processed, SignalMain
<1>3. taken' \in Seq(1..MaxConn)
  <2>1. CASE Take(w)
    <3>1. connfd \in 1..MaxConn /\ taken' = Append(taken, connfd)
      BY <2>1 DEF Take, SlotFilled
    <3> QED
      BY <3>1 DEF TypeOK
  <2> QED
    BY <2>1 DEF TypeOK, Work, Sleep, Processed
<1> QED
  BY <1>1, <1>2, <1>3 DEF TypeOK, Work, Sleep, Take, Processed

LEMMA SpuriousTypes == TypeOK /\ Spurious /\ UNCHANGED mainWaits => TypeOK'
  BY DEF TypeOK, Spurious, Asleep

LEMMA StepTypes == TypeOK /\ SlotFilled /\ [Next]_vars => TypeOK' /\ SlotFilled'
<1> SUFFICES ASSUME TypeOK, SlotFilled, [Next]_vars PROVE TypeOK' /\ SlotFilled'
  OBVIOUS
<1>1. CASE UNCHANGED vars
  BY <1>1 DEF TypeOK, SlotFilled, vars
<1>2. CASE Next
  <2>1. UNCHANGED mainWaits
    BY <1>2 DEF Next
  <2>2. CASE Accept \/ AcceptFails \/ CreateFails \/ Main
    <3>1. TypeOK'
      BY <2>1, <2>2, MainTypes DEF Main
    <3>2. SlotFilled'
      BY <2>2 DEF TypeOK, SlotFilled, Main, Accept, AcceptFails, CreateFails, Create, Created, MainSleeps,
                  Put, PutOver, Fill
    <3> QED
      BY <3>1, <3>2
  <2>3. CASE Spurious
    <3>1. SlotFilled'
      BY <2>3 DEF SlotFilled, Spurious
    <3> QED
      BY <3>1, <2>1, <2>3, SpuriousTypes
  <2>4. CASE Idle \/ NoThreads
    BY <2>4 DEF TypeOK, SlotFilled, vars, Idle, NoThreads
  <2>5. CASE \E w \in Worker : Work(w)
    <3> PICK w \in Worker : Work(w)
      BY <2>5
    <3>1. SlotFilled'
      BY DEF TypeOK, SlotFilled, Work, Sleep, Take, Processed, SignalMain
    <3> QED
      BY <3>1, <2>1, WorkTypes
  <2> QED
    BY <1>2, <2>2, <2>3, <2>4, <2>5 DEF Next
<1> QED
  BY <1>1, <1>2

\* Whatever the schedule, the slot, the flag and the threads keep their types.
THEOREM SlotTypeCorrect == Spec => []TypeOK
<1>1. Init => TypeOK /\ SlotFilled
  BY InitTypes DEF Init, SlotFilled
<1> QED
  BY <1>1, StepTypes, PTL DEF Spec

-----------------------------------------------------------------------------
(* The refinement *)

Queue == Promise!Accept \/ Promise!Take \/ Promise!Forget

\* Steps that leave the mapped state alone.
LEMMA Stutter ==
  ASSUME UNCHANGED <<connfd, ready, mconn, nacc, taken>>,
         mpc' = mpc \/ (mpc \notin {"lock", "wait"} /\ mpc' \notin {"lock", "wait"})
                    \/ (mpc \in {"lock", "wait"} /\ mpc' \in {"lock", "wait"})
  PROVE  UNCHANGED <<nacc, Waiting, taken>>
  BY DEF Waiting

LEMMA AcceptWaits == TypeOK /\ Accept => Promise!Accept
<1> SUFFICES ASSUME TypeOK, Accept PROVE Promise!Accept
  OBVIOUS
<1>1. CASE ready = 1
  <2>1. Waiting = <<connfd>> /\ Waiting' = <<connfd, nacc + 1>>
    BY <1>1 DEF Accept, Waiting
  <2> QED
    BY <2>1 DEF Promise!Accept, Accept, TypeOK
<1>2. CASE ready # 1
  <2>1. Waiting = <<>> /\ Waiting' = <<nacc + 1>>
    BY <1>2 DEF Accept, Waiting
  <2> QED
    BY <2>1 DEF Promise!Accept, Accept, TypeOK
<1> QED
  BY <1>1, <1>2

LEMMA PutMoves == TypeOK /\ Put => UNCHANGED <<nacc, Waiting, taken>>
<1> SUFFICES ASSUME TypeOK, Put PROVE UNCHANGED <<nacc, Waiting, taken>>
  OBVIOUS
<1>1. Waiting = <<mconn>> /\ Waiting' = <<mconn>>
  BY DEF Put, Fill, Waiting
<1> QED
  BY <1>1 DEF Put, Fill, TypeOK

LEMMA PutOverForgets ==
  TypeOK /\ PutOver => Promise!Forget \/ UNCHANGED <<nacc, Waiting, taken>>
<1> SUFFICES ASSUME TypeOK, PutOver PROVE Promise!Forget \/ UNCHANGED <<nacc, Waiting, taken>>
  OBVIOUS
<1>0. Waiting' = <<mconn>>
  BY DEF PutOver, Fill, Waiting, TypeOK
<1>1. CASE ready = 1
  <2>1. Waiting = <<connfd, mconn>>
    BY <1>1 DEF PutOver, Waiting
  <2> QED
    BY <2>1, <1>0 DEF Promise!Forget, PutOver, Fill
<1>2. CASE ready # 1
  <2>1. Waiting = <<mconn>>
    BY <1>2 DEF PutOver, Waiting
  <2> QED
    BY <2>1, <1>0 DEF PutOver, Fill
<1> QED
  BY <1>1, <1>2

LEMMA TakeTakes == ASSUME TypeOK, NEW w \in Worker, Take(w) PROVE Promise!Take
<1>1. CASE mpc \in {"lock", "wait"}
  <2>1. mpc' \in {"lock", "wait"}
    BY <1>1 DEF Take, SignalMain
  <2>2. Waiting = <<connfd, mconn>> /\ Waiting' = <<mconn>>
    BY <1>1, <2>1 DEF Take, Waiting
  <2> QED
    BY <2>2 DEF Promise!Take, Take
<1>2. CASE mpc \notin {"lock", "wait"}
  <2>1. mpc' \notin {"lock", "wait"}
    BY <1>2 DEF Take, SignalMain
  <2>2. Waiting = <<connfd>> /\ Waiting' = <<>>
    BY <1>2, <2>1 DEF Take, Waiting
  <2> QED
    BY <2>2 DEF Promise!Take, Take
<1> QED
  BY <1>1, <1>2

LEMMA StepHandsOff ==
  TypeOK /\ [Next]_vars => [Promise!Next]_<<mainWaits, nacc, Waiting, taken>>
<1> SUFFICES ASSUME TypeOK, [Next]_vars
             PROVE  UNCHANGED mainWaits /\ (Queue \/ UNCHANGED <<nacc, Waiting, taken>>)
  BY DEF Promise!Next, Queue
<1>1. CASE UNCHANGED vars
  BY <1>1 DEF vars, Waiting
<1>2. CASE Next
  <2>1. UNCHANGED mainWaits
    BY <1>2 DEF Next
  <2>2. CASE Accept
    BY <2>1, <2>2, AcceptWaits DEF Queue
  <2>3. CASE Put
    BY <2>1, <2>3, PutMoves DEF Queue
  <2>4. CASE PutOver
    BY <2>1, <2>4, PutOverForgets DEF Queue
  <2>5. CASE AcceptFails \/ CreateFails \/ Create \/ Created \/ MainSleeps \/ Spurious \/ Idle \/ NoThreads
    <3>1. UNCHANGED <<connfd, ready, mconn, nacc, taken>>
      BY <2>5 DEF AcceptFails, CreateFails, Create, Created, MainSleeps, Spurious, Idle, NoThreads, vars
    <3>2. \/ mpc' = mpc
          \/ mpc \notin {"lock", "wait"} /\ mpc' \notin {"lock", "wait"}
          \/ mpc \in {"lock", "wait"} /\ mpc' \in {"lock", "wait"}
      BY <2>5 DEF AcceptFails, CreateFails, Create, Created, MainSleeps, Spurious, Idle, NoThreads, vars
    <3> QED
      BY <2>1, <3>1, <3>2, Stutter
  <2>6. CASE \E w \in Worker : Work(w)
    <3> PICK w \in Worker : Work(w)
      BY <2>6
    <3>1. CASE Take(w)
      BY <2>1, <3>1, TakeTakes DEF Queue
    <3>2. CASE Sleep(w) \/ Processed(w)
      BY <2>1, <3>2, Stutter DEF Sleep, Processed
    <3> QED
      BY <3>1, <3>2 DEF Work
  <2> QED
    BY <1>2, <2>2, <2>3, <2>4, <2>5, <2>6 DEF Next, Main
<1> QED
  BY <1>1, <1>2

LEMMA InitHandsOff == Init => Promise!Init
<1> SUFFICES ASSUME Init PROVE Promise!Init
  OBVIOUS
<1>1. Waiting = <<>>
  BY DEF Init, Waiting
<1> QED
  BY <1>1 DEF Init, Promise!Init

\* The slot implements the hand-off, for any number of threads: connections are
\* taken once, in the order of accept, and thread_server01.c loses none.
THEOREM SlotImplementsHandOff == Spec => HandsOff
<1>1. Spec => []TypeOK
  BY SlotTypeCorrect
<1> QED
  BY <1>1, InitHandsOff, StepHandsOff, PTL DEF Spec, HandsOff, Promise!Spec

-----------------------------------------------------------------------------
(***************************************************************************)
(* What the hand-off promises.  The proof uses nothing of ThreadSlot but   *)
(* the refinement mapping: the waiting connections are the newest ones and *)
(* increase, and everything taken is older than each of them; a reliable   *)
(* server skips none.                                                      *)
(***************************************************************************)

\* The strengthening: the shape of the queue, and that it lies below nacc.
Newest ==
  /\ nacc \in Nat /\ Waiting \in Seq(Nat) /\ taken \in Seq(Nat)
  /\ Len(Waiting) <= 2
  /\ \A j \in DOMAIN Waiting : Waiting[j] <= nacc
  /\ \A i \in DOMAIN taken : taken[i] <= nacc
  /\ \A i, j \in DOMAIN Waiting : i < j => Waiting[i] < Waiting[j]

OrderInv == Newest /\ Promise!InOrder

LEMMA SeqAppended ==
  ASSUME NEW s \in Seq(Nat), NEW e \in Nat
  PROVE  /\ Append(s, e) \in Seq(Nat)
         /\ Len(Append(s, e)) = Len(s) + 1 /\ Len(s) \in Nat
         /\ DOMAIN s = 1..Len(s)
         /\ DOMAIN Append(s, e) = 1..(Len(s) + 1)
         /\ \A i \in 1..Len(s) : Append(s, e)[i] = s[i]
         /\ Append(s, e)[Len(s) + 1] = e
  BY AppendProperties, LenProperties

LEMMA SeqTail ==
  ASSUME NEW s \in Seq(Nat), s # <<>>
  PROVE  /\ Tail(s) \in Seq(Nat) /\ Head(s) = s[1] /\ Head(s) \in Nat
         /\ Len(Tail(s)) = Len(s) - 1 /\ Len(s) \in Nat \ {0}
         /\ DOMAIN s = 1..Len(s)
         /\ DOMAIN Tail(s) = 1..(Len(s) - 1)
         /\ \A i \in 1..(Len(s) - 1) : Tail(s)[i] = s[i + 1]
  BY HeadTailProperties, LenProperties, EmptySeq

LEMMA AcceptKeeps == OrderInv /\ Promise!Accept /\ UNCHANGED mainWaits => OrderInv'
<1> SUFFICES ASSUME OrderInv, Promise!Accept, UNCHANGED mainWaits PROVE OrderInv'
  OBVIOUS
<1> USE DEF OrderInv, Newest
<1>1. /\ Waiting' \in Seq(Nat) /\ Len(Waiting') = Len(Waiting) + 1 /\ Len(Waiting) \in Nat
      /\ DOMAIN Waiting = 1..Len(Waiting) /\ DOMAIN Waiting' = 1..(Len(Waiting) + 1)
      /\ \A i \in 1..Len(Waiting) : Waiting'[i] = Waiting[i]
      /\ Waiting'[Len(Waiting) + 1] = nacc + 1
  BY SeqAppended DEF Promise!Accept
<1>2. /\ nacc' = nacc + 1 /\ taken' = taken
      /\ \A i \in DOMAIN taken : taken[i] \in Nat
      /\ \A i \in DOMAIN Waiting : Waiting[i] \in Nat
  BY DEF Promise!Accept
<1>3. Newest'
  <2>1. \A j \in DOMAIN Waiting' : Waiting'[j] <= nacc'
    BY <1>1, <1>2
  <2>2. \A i \in DOMAIN taken' : taken'[i] <= nacc'
    BY <1>2
  <2>3. ASSUME NEW i \in DOMAIN Waiting', NEW j \in DOMAIN Waiting', i < j
        PROVE  Waiting'[i] < Waiting'[j]
    <3>1. i \in DOMAIN Waiting /\ Waiting'[i] = Waiting[i]
      BY <1>1, <2>3
    <3>2. CASE j \in DOMAIN Waiting
      BY <1>1, <2>3, <3>1, <3>2
    <3>3. CASE j = Len(Waiting) + 1
      BY <1>1, <1>2, <3>1, <3>3
    <3> QED BY <1>1, <3>2, <3>3
  <2>4. Len(Waiting') <= 2
    BY <1>1 DEF Promise!Accept
  <2> QED
    BY <1>1, <1>2, <2>1, <2>2, <2>3, <2>4
<1>4. Promise!InOrder'
  <2>1. \A i \in DOMAIN taken', j \in DOMAIN Waiting' : taken'[i] < Waiting'[j]
    <3> TAKE i \in DOMAIN taken', j \in DOMAIN Waiting'
    <3>1. i \in DOMAIN taken /\ taken'[i] = taken[i] /\ taken[i] \in Nat /\ taken[i] <= nacc
      BY <1>2
    <3>2. CASE j \in DOMAIN Waiting
      <4>1. Waiting'[j] = Waiting[j] /\ taken[i] < Waiting[j]
        BY <1>1, <3>1, <3>2 DEF Promise!InOrder
      <4> QED
        BY <3>1, <4>1
    <3>3. CASE j = Len(Waiting) + 1
      BY <1>1, <3>1, <3>3
    <3> QED
      BY <1>1, <3>2, <3>3
  <2>2. Len(taken) \in Nat
    BY LenProperties
  <2> QED
    BY <1>1, <1>2, <2>1, <2>2 DEF Promise!InOrder
<1> QED
  BY <1>3, <1>4

\* Taking and forgetting both move the queue on by one.
LEMMA TailFacts ==
  ASSUME Newest, Waiting # <<>>, Waiting' = Tail(Waiting), UNCHANGED nacc
  PROVE  /\ Waiting' \in Seq(Nat) /\ Len(Waiting') = Len(Waiting) - 1 /\ Len(Waiting) \in Nat \ {0}
         /\ DOMAIN Waiting = 1..Len(Waiting) /\ DOMAIN Waiting' = 1..(Len(Waiting) - 1)
         /\ \A i \in 1..(Len(Waiting) - 1) : Waiting'[i] = Waiting[i + 1]
         /\ \A i \in DOMAIN Waiting : Waiting[i] \in Nat
         /\ \A j \in DOMAIN Waiting' : Waiting'[j] <= nacc' /\ Waiting[1] < Waiting'[j]
         /\ \A i, j \in DOMAIN Waiting' : i < j => Waiting'[i] < Waiting'[j]
         /\ Len(Waiting') <= 2
<1>1. /\ Waiting' \in Seq(Nat) /\ Len(Waiting') = Len(Waiting) - 1 /\ Len(Waiting) \in Nat \ {0}
      /\ DOMAIN Waiting = 1..Len(Waiting) /\ DOMAIN Waiting' = 1..(Len(Waiting) - 1)
      /\ \A i \in 1..(Len(Waiting) - 1) : Waiting'[i] = Waiting[i + 1]
  BY SeqTail DEF Newest
<1>2. \A i \in DOMAIN Waiting : Waiting[i] \in Nat
  BY DEF Newest
<1> QED
  BY <1>1, <1>2 DEF Newest

LEMMA TakeKeeps == OrderInv /\ Promise!Take /\ UNCHANGED mainWaits => OrderInv'
<1> SUFFICES ASSUME OrderInv, Promise!Take, UNCHANGED mainWaits PROVE OrderInv'
  OBVIOUS
<1>1. Newest /\ Promise!InOrder /\ Waiting # <<>> /\ Waiting' = Tail(Waiting) /\ UNCHANGED nacc
  BY DEF OrderInv, Promise!Take
<1>2. Waiting[1] \in Nat /\ Head(Waiting) = Waiting[1] /\ 1 \in DOMAIN Waiting
  BY <1>1, SeqTail, TailFacts DEF Newest
<1>3. /\ taken' \in Seq(Nat) /\ Len(taken') = Len(taken) + 1 /\ Len(taken) \in Nat
      /\ DOMAIN taken = 1..Len(taken) /\ DOMAIN taken' = 1..(Len(taken) + 1)
      /\ \A i \in 1..Len(taken) : taken'[i] = taken[i]
      /\ taken'[Len(taken) + 1] = Waiting[1]
  BY <1>1, <1>2, SeqAppended DEF Newest, Promise!Take
<1>4. \A i \in DOMAIN taken : taken[i] \in Nat /\ taken[i] < Waiting[1]
  BY <1>1, <1>2 DEF Newest, Promise!InOrder
<1>5. Newest'
  <2>0. Waiting[1] <= nacc' /\ \A i \in DOMAIN taken : taken[i] <= nacc'
    BY <1>1, <1>2 DEF Newest
  <2>1. \A i \in DOMAIN taken' : taken'[i] <= nacc'
    BY <1>3, <2>0
  <2>2. nacc' \in Nat
    BY <1>1 DEF Newest
  <2> QED
    BY <1>1, <1>3, <2>1, <2>2, TailFacts DEF Newest
<1>6. Promise!InOrder'
  <2>1. \A i, j \in DOMAIN taken' : i < j => taken'[i] < taken'[j]
    BY <1>1, <1>3, <1>4 DEF Promise!InOrder
  <2>2. \A j \in DOMAIN Waiting' : Waiting[1] < Waiting'[j] /\ Waiting'[j] \in Nat
    BY <1>1, TailFacts
  <2>3. \A i \in DOMAIN taken' : taken'[i] <= Waiting[1] /\ taken'[i] \in Nat
    BY <1>2, <1>3, <1>4
  <2>4. \A i \in DOMAIN taken', j \in DOMAIN Waiting' : taken'[i] < Waiting'[j]
    BY <2>2, <2>3, <1>2
  <2>5. mainWaits' => Len(taken') + Len(Waiting') = nacc'
    BY <1>1, <1>3, TailFacts DEF Promise!InOrder
  <2> QED
    BY <2>1, <2>4, <2>5 DEF Promise!InOrder
<1> QED
  BY <1>5, <1>6 DEF OrderInv

LEMMA ForgetKeeps == OrderInv /\ Promise!Forget /\ UNCHANGED mainWaits => OrderInv'
<1> SUFFICES ASSUME OrderInv, Promise!Forget, UNCHANGED mainWaits PROVE OrderInv'
  OBVIOUS
<1>1. Newest /\ Promise!InOrder /\ Waiting # <<>> /\ Waiting' = Tail(Waiting) /\ UNCHANGED nacc
  BY DEF OrderInv, Promise!Forget
<1>2. taken' = taken /\ ~mainWaits'
  BY DEF Promise!Forget
<1>3. Newest'
  BY <1>1, <1>2, TailFacts DEF Newest
<1>4. \A j \in DOMAIN Waiting' : j + 1 \in DOMAIN Waiting /\ Waiting'[j] = Waiting[j + 1]
  BY <1>1, TailFacts
<1>5. Promise!InOrder'
  BY <1>1, <1>2, <1>4 DEF Promise!InOrder
<1> QED
  BY <1>3, <1>5 DEF OrderInv

\* Whatever implements the hand-off serves connections in the order of accept,
\* none twice, and if it is reliable it has served or still holds all of them.
THEOREM HandOffInOrder == Promise!Spec => []Promise!InOrder
<1>1. Promise!Init => OrderInv
  BY EmptySeq DEF Promise!Init, OrderInv, Newest, Promise!InOrder
<1>2. OrderInv /\ [Promise!Next]_<<mainWaits, nacc, Waiting, taken>> => OrderInv'
  <2> SUFFICES ASSUME OrderInv, [Promise!Next]_<<mainWaits, nacc, Waiting, taken>> PROVE OrderInv'
    OBVIOUS
  <2>1. CASE UNCHANGED <<mainWaits, nacc, Waiting, taken>>
    BY <2>1 DEF OrderInv, Newest, Promise!InOrder
  <2>2. CASE Promise!Next
    BY <2>2, AcceptKeeps, TakeKeeps, ForgetKeeps DEF Promise!Next
  <2> QED
    BY <2>1, <2>2
<1>3. OrderInv => Promise!InOrder
  BY DEF OrderInv
<1> QED
  BY <1>1, <1>2, <1>3, PTL DEF Promise!Spec

\* The workers of both one-slot servers take the connections in the order in which
\* thread_main accepted them, none twice, and with main_cond every connection
\* accepted was taken or is still in the slot or with main.
THEOREM SlotInOrder == Spec => []Promise!InOrder
  BY SlotImplementsHandOff, HandOffInOrder, PTL DEF HandsOff

-----------------------------------------------------------------------------
(***************************************************************************)
(* The service of user.c, run by the workers of thread_server.c.           *)
(* First its types.  ConnInv then says that each recognition connection is *)
(* served by one worker, that its records come in order, and that its      *)
(* client waits while service_init is carried out, because the answer to   *)
(* get comes behind it.  EngineInv rests on that: a run that is in         *)
(* service_init is between its asr_init and that answer, so that an        *)
(* asr_destroy carried out meanwhile has hit it.                           *)
(***************************************************************************)

USE MrcpAssumption DEF MrcpAssumption

Record == {"asr_init", "service_init", "use", "get", "release", "asr_destroy"}
Place == {"accept", "read", "init", "destroy", "clear", "close", "service", "asleep",
          "use_asr"}

ServiceTypes ==
  /\ inbox \in [Conn -> Seq(Record)] /\ backlog \in Seq(Conn)
  /\ tpc \in [Thread -> Place]
  /\ wconn \in [Thread -> Conn \union {NoConn}]
  /\ \A w \in Thread : tpc[w] # "accept" => wconn[w] \in Conn

\* The types of MrcpTypeOK, and what a step needs of them: opened is finite.
ServiceTypeInv ==
  /\ ServiceTypes
  /\ round \in [Client -> 0..MaxRound] /\ step \in [Client -> 1..9]
  /\ replied \subseteq Conn /\ open \subseteq Conn
  /\ user_asr \in Int /\ status \in 0..1
  /\ opened \subseteq Nat /\ live \subseteq opened /\ IsFiniteSet(opened)
  /\ unopened \in BOOLEAN /\ nfail \in 0..MaxFail
  /\ hit \subseteq Client \X (1..MaxRound)

\* The service begins with its types.
LEMMA ServiceTypeStart ==
  ASSUME MrcpInit
  PROVE  ServiceTypeInv
<1>1. ServiceTypes
  <2>1. <<>> \in Seq(Record) /\ <<>> \in Seq(Conn)
    BY EmptySeq
  <2>2. inbox \in [Conn -> Seq(Record)]
    <3>1. PICK e \in Seq(Record) : e = <<>>
      BY <2>1
    <3> QED BY <3>1 DEF MrcpInit
  <2> QED BY <2>1, <2>2 DEF ServiceTypes, MrcpInit, Place
<1>2. IsFiniteSet({})
  BY FS_EmptySet
<1>3. \A n \in 0..1 : n \in 0..MaxRound
  OBVIOUS
<1>4. round \in [Client -> 0..MaxRound] /\ step \in [Client -> 1..9]
  BY <1>3 DEF MrcpInit
<1>5. /\ user_asr = -1 /\ status = 0 /\ opened = {} /\ live = {}
      /\ unopened = FALSE /\ nfail = 0 /\ hit = {} /\ replied = {} /\ open = {}
  BY DEF MrcpInit
<1>6. user_asr \in Int /\ status \in 0..1 /\ nfail \in 0..MaxFail
  BY <1>5
<1> QED BY <1>1, <1>2, <1>4, <1>5, <1>6 DEF ServiceTypeInv

\* A run that may begin is within the bound.
LEMMA RunsBounded ==
  ASSUME round \in [Client -> 0..MaxRound],
         NEW c \in Client, Cardinality(Runs) < MaxRound
  PROVE  round[c] + 1 \in 0..MaxRound
<1>1. IsFiniteSet(Runs)
  <2>1. IsFiniteSet(1..MaxRound)
    BY FS_Interval
  <2>2. IsFiniteSet(Client \X (1..MaxRound))
    BY <2>1, FS_Product
  <2>3. Runs \in SUBSET (Client \X (1..MaxRound))
    BY DEF Runs
  <2> QED BY <2>2, <2>3, FS_Subset
<1>2. SUFFICES ASSUME round[c] = MaxRound PROVE FALSE
  OBVIOUS
<1> DEFINE f == [i \in 1..MaxRound |-> <<c, i>>]
<1>3. f \in [1..MaxRound -> Runs]
  BY <1>2 DEF Runs
<1>4. \A i, j \in 1..MaxRound : f[i] = f[j] => i = j
  OBVIOUS
<1>5. f \in Injection(1..MaxRound, Runs)
  BY <1>3, <1>4 DEF Injection, IsInjective
<1>6. Cardinality(1..MaxRound) <= Cardinality(Runs)
  BY <1>1, <1>5, FS_Injection
<1>7. Cardinality(1..MaxRound) = MaxRound /\ Cardinality(Runs) \in Nat
  BY <1>1, FS_Interval, FS_CardinalityType
<1> QED BY <1>6, <1>7

\* The client's place after a call.
LEMMA ReturnsTypes ==
  ASSUME ServiceTypeInv,
         NEW c \in Client, NEW call, At(c, call), Returns(c)
  PROVE  /\ round' \in [Client -> 0..MaxRound] /\ step' \in [Client -> 1..9]
         /\ Svc(c) \in Conn /\ Asr(c) \in Conn
<1>1. /\ round \in [Client -> 0..MaxRound] /\ step \in [Client -> 1..9]
      /\ round[c] \in 1..MaxRound /\ step[c] \in 1..8
  BY DEF ServiceTypeInv, At, Script
<1>2. /\ round' \in [Client -> 0..MaxRound] /\ step' \in [Client -> 1..9]
  <2>1. CASE UNCHANGED round
    <3>1. PICK n \in 1..9 : step' = [step EXCEPT ![c] = n]
      BY <2>1, <1>1 DEF Returns
    <3> QED BY <2>1, <3>1, <1>1
  <2>2. CASE ~UNCHANGED round
    <3>1. Cardinality(Runs) < MaxRound
      BY <2>2, Zenon DEF Returns
    <3>2. step' = [step EXCEPT ![c] = 1] /\ round' = [round EXCEPT ![c] = round[c] + 1]
      BY <2>2, Zenon DEF Returns
    <3>3. round[c] + 1 \in 0..MaxRound
      BY <3>1, <1>1, RunsBounded
    <3> QED BY <3>2, <3>3, <1>1
  <2> QED BY <2>1, <2>2
<1> QED BY <1>1, <1>2 DEF Svc, Asr, Conn

\* A record sent on connection k keeps the order of the records.
LEMMA Sent ==
  ASSUME NEW k \in Conn, NEW call \in Record,
         ServiceTypes, inbox' = [inbox EXCEPT ![k] = Append(@, call)]
  PROVE  /\ inbox' \in [Conn -> Seq(Record)]
         /\ \A q \in Conn : \A i \in DOMAIN inbox'[q] :
              \/ i \in DOMAIN inbox[q] /\ inbox'[q][i] = inbox[q][i]
              \/ q = k /\ i = Len(inbox[k]) + 1 /\ inbox'[q][i] = call
         /\ \A q \in Conn : q # k => inbox'[q] = inbox[q]
<1>1. inbox \in [Conn -> Seq(Record)]
  BY DEF ServiceTypes
<1>2. PICK s \in Seq(Record) : s = inbox[k]
  BY <1>1
<1>3. PICK r \in Seq(Record) : r = Append(s, call)
  BY <1>2, AppendProperties
<1>4. inbox' = [inbox EXCEPT ![k] = r]
  BY <1>2, <1>3
<1>5. /\ Len(r) = Len(s) + 1 /\ r[Len(s) + 1] = call /\ DOMAIN r = 1..(Len(s) + 1)
      /\ DOMAIN s = 1..Len(s) /\ Len(s) \in Nat
      /\ \A i \in 1..Len(s) : r[i] = s[i]
  BY <1>3
<1>6. inbox' \in [Conn -> Seq(Record)] /\ inbox'[k] = r
      /\ \A q \in Conn : q # k => inbox'[q] = inbox[q]
  BY <1>1, <1>4
<1>7. ASSUME NEW q \in Conn, NEW i \in DOMAIN inbox'[q]
      PROVE  \/ i \in DOMAIN inbox[q] /\ inbox'[q][i] = inbox[q][i]
             \/ q = k /\ i = Len(inbox[k]) + 1 /\ inbox'[q][i] = call
  <2>1. CASE q = k
    <3>1. inbox[q] = s /\ inbox'[q] = r
      BY <2>1, <1>2, <1>6
    <3>2. i \in DOMAIN r
      BY <3>1
    <3>3. i \in 1..Len(s) \/ i = Len(s) + 1
      BY <3>2, <1>5
    <3> QED BY <3>1, <3>3, <1>5, <2>1
  <2>2. CASE q # k
    BY <2>2, <1>6
  <2> QED BY <2>1, <2>2
<1> QED BY <1>6, <1>7

\* A connection joins the queue of listen at its end.
LEMMA Queued ==
  ASSUME NEW k \in Conn, ServiceTypes, backlog' = Append(backlog, k)
  PROVE  /\ backlog' \in Seq(Conn)
         /\ \A i \in DOMAIN backlog' :
              \/ i \in DOMAIN backlog /\ backlog'[i] = backlog[i]
              \/ i = Len(backlog) + 1 /\ backlog'[i] = k
<1>1. backlog \in Seq(Conn)
  BY DEF ServiceTypes
<1> QED BY <1>1

\* What joins the runs that are hit are runs.
LEMMA HitTypes ==
  ASSUME ServiceTypeInv, NEW c \in Client, NEW call, At(c, call), hit' = HitFrom(c, call)
  PROVE  hit' \subseteq Client \X (1..MaxRound)
<1>1. round[c] \in 1..MaxRound
  BY DEF ServiceTypeInv, At
<1> QED BY <1>1 DEF ServiceTypeInv, HitFrom

\* A call of any client keeps the types.
LEMMA CallTypes ==
  ASSUME ServiceTypeInv,
         NEW c \in Client, Call(c)
  PROVE  ServiceTypeInv'
<1>1. ASSUME NEW k, NEW call \in Record, k \in {Svc(c), Asr(c)},
             CallConnect(c, k, call)
      PROVE  ServiceTypeInv'
  <2>1. k \in Conn /\ round' \in [Client -> 0..MaxRound] /\ step' \in [Client -> 1..9]
    BY <1>1, ReturnsTypes DEF CallConnect
  <2>2. inbox' \in [Conn -> Seq(Record)]
    BY <1>1, <2>1, Sent DEF CallConnect, ServiceTypeInv
  <2>3. backlog' \in Seq(Conn)
    BY <1>1, <2>1, Queued DEF CallConnect, ServiceTypeInv
  <2>4. hit' \subseteq Client \X (1..MaxRound)
    BY <1>1, HitTypes DEF CallConnect
  <2> QED BY <1>1, <2>1, <2>2, <2>3, <2>4 DEF CallConnect, ServiceTypeInv, ServiceTypes
<1>2. ASSUME NEW k, NEW call \in Record, k \in {Svc(c), Asr(c)}, At(c, call),
             Returns(c), SendOn(k, call), open' \subseteq open,
             UNCHANGED <<replied, backlog, tpc, wconn, user_asr, status, opened, live,
                         unopened, nfail, hit>>
      PROVE  ServiceTypeInv'
  <2>1. k \in Conn /\ round' \in [Client -> 0..MaxRound] /\ step' \in [Client -> 1..9]
    BY <1>2, ReturnsTypes
  <2>2. inbox' \in [Conn -> Seq(Record)]
    <3>1. inbox' = inbox \/ inbox' = [inbox EXCEPT ![k] = Append(@, call)]
      BY <1>2 DEF SendOn
    <3> QED BY <3>1, <2>1, Sent DEF ServiceTypeInv, ServiceTypes
  <2> QED BY <1>2, <2>1, <2>2 DEF ServiceTypeInv, ServiceTypes
<1>3. ASSUME NEW k, NEW call, CallAnswered(c, k, call)
      PROVE  ServiceTypeInv'
  <2>1. round' \in [Client -> 0..MaxRound] /\ step' \in [Client -> 1..9]
    BY <1>3, ReturnsTypes DEF CallAnswered
  <2>2. replied' \subseteq replied /\ open' \subseteq open
    BY <1>3 DEF CallAnswered
  <2> QED BY <1>3, <2>1, <2>2 DEF CallAnswered, ServiceTypeInv, ServiceTypes
<1>11. ASSUME NEW call \in Record, ConnectFails(c, call)
       PROVE  ServiceTypeInv'
  <2>1. round' \in [Client -> 0..MaxRound] /\ step' \in [Client -> 1..9]
    BY <1>11, ReturnsTypes DEF ConnectFails
  <2>2. hit' \subseteq Client \X (1..MaxRound)
    BY <1>11, HitTypes DEF ConnectFails
  <2> QED BY <1>11, <2>1, <2>2 DEF ConnectFails, ServiceTypeInv, ServiceTypes
<1>4. {"asr_init", "service_init", "use", "get", "release", "asr_destroy"} \subseteq Record
  BY DEF Record
<1>5. CASE CallConnect(c, Asr(c), "asr_init")
  BY <1>5, <1>1, <1>4
<1>6. CASE CallConnect(c, Svc(c), "service_init")
  BY <1>6, <1>1, <1>4
<1>7. CASE CallSend(c, Svc(c), "use")
  BY <1>7, <1>2, <1>4 DEF CallSend
<1>8. CASE CallSend(c, Svc(c), "get")
  BY <1>8, <1>2, <1>4 DEF CallSend
<1>9. CASE CallRelease(c)
  BY <1>9, <1>2, <1>4 DEF CallRelease
<1>10. CASE CallSend(c, Asr(c), "asr_destroy")
  BY <1>10, <1>2, <1>4 DEF CallSend
<1>12. CASE ConnectFails(c, "asr_init") \/ ConnectFails(c, "service_init")
  BY <1>12, <1>11, <1>4
<1> QED BY <1>3, <1>12, <1>5, <1>6, <1>7, <1>8, <1>9, <1>10 DEF Call

\* A step of any worker keeps the types.
LEMMA ServiceWorkTypes ==
  ASSUME ServiceTypeInv, NEW w \in Thread, Serve(w) \/ SpuriousWake(w)
  PROVE  ServiceTypeInv'
<1>1. ServiceTypes
  BY DEF ServiceTypeInv
<1>2. CASE AcceptConn(w)
  <2>1. backlog \in Seq(Conn) /\ backlog # <<>>
    BY <1>1, <1>2 DEF ServiceTypes, AcceptConn
  <2>2. Head(backlog) \in Conn /\ Tail(backlog) \in Seq(Conn)
    BY <2>1
  <2>3. ServiceTypes'
    BY <1>1, <1>2, <2>2 DEF ServiceTypes, AcceptConn, Goes, Place
  <2> QED BY <1>2, <2>3 DEF AcceptConn, ServiceTypeInv
<1>3. CASE ReadRecord(w)
  <2>1. PICK k \in Conn : k = wconn[w]
    BY <1>1, <1>3 DEF ServiceTypes, ReadRecord
  <2>2. PICK s \in Seq(Record) : s = inbox[k]
    BY <1>1 DEF ServiceTypes
  <2>3. Tail(s) \in Seq(Record)
    BY <1>3, <2>1, <2>2 DEF ReadRecord
  <2>4. inbox' = [inbox EXCEPT ![k] = Tail(s)] /\ replied' \subseteq replied \union {k}
    BY <1>3, <2>1, <2>2 DEF ReadRecord
  <2>5. inbox' \in [Conn -> Seq(Record)]
    BY <1>1, <2>3, <2>4 DEF ServiceTypes
  <2>6. PICK to \in Place \ {"accept"} : tpc' = [tpc EXCEPT ![w] = to]
    BY <1>3 DEF ReadRecord, Goes, Place
  <2>7. ServiceTypes'
    BY <1>1, <1>3, <2>5, <2>6 DEF ServiceTypes, ReadRecord
  <2>8. nfail' \in 0..MaxFail /\ hit' \subseteq Client \X (1..MaxRound)
    <3>1. nfail' = nfail \/ (nfail < MaxFail /\ nfail' = nfail + 1)
      BY <1>3 DEF ReadRecord
    <3>2. hit' = hit \/ hit' = hit \union UnderWay
      BY <1>3 DEF ReadRecord
    <3> QED BY <3>1, <3>2 DEF ServiceTypeInv, UnderWay, Runs
  <2> QED BY <1>3, <2>4, <2>7, <2>8 DEF ReadRecord, ServiceTypeInv
<1>4. CASE ReadEnd(w) \/ CloseStatus(w)
  <2>1. ServiceTypes'
    BY <1>1, <1>4 DEF ServiceTypes, ReadEnd, CloseStatus, Goes, Place
  <2>2. /\ UNCHANGED <<round, step, replied, open, user_asr, opened, live, unopened, nfail, hit>>
        /\ status' \in {0, status}
    BY <1>4 DEF ReadEnd, CloseStatus
  <2> QED BY <2>1, <2>2 DEF ServiceTypeInv
<1>5. CASE InitAsr(w)
  <2>1. ServiceTypes'
    BY <1>1, <1>5 DEF ServiceTypes, InitAsr, Goes, Sleepers, Place
  <2>2. CASE UNCHANGED <<user_asr, opened, live>>
    <3>1. unopened' \in BOOLEAN
      BY <1>5 DEF InitAsr, OpenAsr
    <3>2. /\ status' = 1
          /\ UNCHANGED <<round, step, replied, open, nfail, hit>>
      BY <1>5 DEF InitAsr
    <3> QED BY <2>1, <2>2, <3>1, <3>2 DEF ServiceTypeInv
  <2>3. CASE ~UNCHANGED <<user_asr, opened, live>>
    <3>1. Cardinality(opened) \in Nat
      BY FS_CardinalityType DEF ServiceTypeInv
    <3>2. PICK h \in Nat : h = Cardinality(opened)
      BY <3>1
    <3>3. /\ user_asr' = h /\ opened' = opened \union {h} /\ live' = live \union {h}
          /\ unopened' \in BOOLEAN
      BY <3>2, <2>3, <1>5 DEF InitAsr, OpenAsr
    <3>4. IsFiniteSet(opened')
      BY <3>3, FS_AddElement DEF ServiceTypeInv
    <3> QED BY <1>5, <2>1, <3>3, <3>4 DEF InitAsr, ServiceTypeInv
  <2> QED BY <2>2, <2>3
<1>6. CASE ClearAsr(w)
  <2>1. ServiceTypes'
    BY <1>1, <1>6 DEF ServiceTypes, ClearAsr, Goes, Place
  <2>2. wconn[w] \in Conn
    BY <1>1, <1>6 DEF ServiceTypes, ClearAsr
  <2> QED BY <1>6, <2>1, <2>2 DEF ClearAsr, ServiceTypeInv
<1>7. CASE \/ DestroyAsr(w) \/ ServiceWait(w) \/ ServiceGo(w)
           \/ ServiceInit(w) \/ SpuriousWake(w)
  <2>1. ServiceTypes'
    BY <1>1, <1>7 DEF ServiceTypes, DestroyAsr, ServiceWait, ServiceGo,
                      ServiceInit, SpuriousWake, Goes, Place
  <2>2. /\ UNCHANGED <<round, step, replied, open, user_asr, status, opened, unopened, nfail,
                     hit>>
        /\ live' \subseteq live
    BY <1>7 DEF DestroyAsr, ServiceWait, ServiceGo, ServiceInit, SpuriousWake
  <2> QED BY <2>1, <2>2 DEF ServiceTypeInv
<1> QED BY <1>2, <1>3, <1>4, <1>5, <1>6, <1>7 DEF Serve

\* Every step of the service keeps the types.
LEMMA ServiceTypeStep ==
  ASSUME ServiceTypeInv, [MrcpNext]_mrcpVars
  PROVE  ServiceTypeInv'
<1>1. CASE UNCHANGED mrcpVars
  BY <1>1 DEF mrcpVars, ServiceTypeInv, ServiceTypes
<1> QED BY <1>1, CallTypes, ServiceWorkTypes DEF MrcpNext, NothingToDo

\* The service keeps its types: workers hold connections of clients, what waits to be read
\* are records of the stubs, and every open handle was opened.
THEOREM ServiceTypeCorrect ==
  MrcpSpec => []MrcpTypeOK
<1>1. MrcpInit => ServiceTypeInv
  BY ServiceTypeStart
<1>2. ServiceTypeInv /\ [MrcpNext]_mrcpVars => ServiceTypeInv'
  BY ServiceTypeStep
<1>3. ServiceTypeInv => MrcpTypeOK
  <2>1. SUFFICES ASSUME ServiceTypeInv PROVE MrcpTypeOK
    OBVIOUS
  <2>2. Len(Script) = 8 /\ Record \subseteq {Script[j] : j \in DOMAIN Script}
    BY DEF Script, Record
  <2>3. \A k \in Conn : \A i \in DOMAIN inbox[k] : inbox[k][i] \in Record
    BY <2>1 DEF ServiceTypeInv, ServiceTypes
  <2>4. \A i \in DOMAIN backlog : backlog[i] \in Conn
    BY <2>1 DEF ServiceTypeInv, ServiceTypes
  <2> QED BY <2>1, <2>2, <2>3, <2>4 DEF ServiceTypeInv, ServiceTypes, MrcpTypeOK, Place
<1> QED BY <1>1, <1>2, <1>3, PTL DEF MrcpSpec

-----------------------------------------------------------------------------

\* The call before service_init of the run that owns connection k has not returned.
NotYet(k) == round[k[1]] < k[2] \/ (round[k[1]] = k[2] /\ step[k[1]] <= 2)

\* The run sent service_init on k and does not have the answer to its get.
Awaiting(k) ==
  /\ round[k[1]] = k[2] /\ step[k[1]] \in 3..5
  /\ k \in open /\ k \notin replied

IsSvc(k) == k[3] = "svc"

\* Worker w serves connection k.
Serves(w, k) == tpc[w] # "accept" /\ wconn[w] = k

\* Before usc_mrcp_service_init nothing is known of its connection.
Unused(k) ==
  NotYet(k) => /\ inbox[k] = <<>> /\ k \notin replied
               /\ \A i \in DOMAIN backlog : backlog[i] # k
               /\ \A w \in Thread : ~Serves(w, k)

\* The connection is in the queue of listen once, or with one worker.
OneServer(k) ==
  /\ \A i, j \in DOMAIN backlog : backlog[i] = k /\ backlog[j] = k => i = j
  /\ \A i \in DOMAIN backlog : backlog[i] = k => \A w \in Thread : ~Serves(w, k)
  /\ \A v, w \in Thread : Serves(v, k) /\ Serves(w, k) => v = w

\* service_init is the first record of its connection, and the client has no answer
\* before it was read; asr_destroy comes on the other connection.
InTurn(k, i) ==
  /\ inbox[k][i] = "service_init" => i = 1 /\ IsSvc(k) /\ Awaiting(k)
  /\ inbox[k][i] = "asr_destroy" => ~IsSvc(k)

Serving == {"service", "asleep", "use_asr"}
Closing == {"destroy", "clear", "close"}

AtWork(w) ==
  /\ tpc[w] \in Serving => IsSvc(wconn[w]) /\ Awaiting(wconn[w])
  /\ tpc[w] \in Closing => ~IsSvc(wconn[w])

ConnInv ==
  /\ \A k \in Conn : IsSvc(k) => Unused(k) /\ OneServer(k)
  /\ \A k \in Conn : \A i \in DOMAIN inbox[k] : InTurn(k, i)
  /\ \A w \in Thread : AtWork(w)

\* While an asr_destroy is carried out, every run between asr_init and its answer is hit.
HitInv ==
  Destroying => \A c \in Client : round[c] > 0 /\ step[c] \in 2..5 => <<c, round[c]>> \in hit

\* status says that the engine is open, unless its last opening failed or the worker that
\* closed it has not come to set_status_close.
StatusInv ==
  status # 0 /\ ~unopened => \/ user_asr \in live
                             \/ \E v \in Thread : tpc[v] \in {"clear", "close"}

EngineInv == HitInv /\ StatusInv /\ ServiceOnLiveEngine

\* Nothing was called, so that nothing is out of turn.
LEMMA ServiceStart ==
  ASSUME MrcpInit
  PROVE  ConnInv /\ EngineInv
<1>1. /\ inbox = [k \in Conn |-> <<>>] /\ backlog = <<>> /\ replied = {} /\ open = {}
      /\ tpc = [w \in Thread |-> "accept"] /\ status = 0
  BY DEF MrcpInit
<1>2. ConnInv
  BY <1>1 DEF ConnInv, Unused, OneServer, InTurn, AtWork, Serves, Serving, Closing
<1>3. HitInv /\ StatusInv /\ ServiceOnLiveEngine
  BY <1>1 DEF HitInv, StatusInv, ServiceOnLiveEngine, Destroying
<1> QED BY <1>2, <1>3 DEF EngineInv

\* Which calls of the script are made where, and where they lead.
LEMMA Calls ==
  ASSUME ServiceTypeInv, NEW c \in Client, NEW call, At(c, call), Returns(c)
  PROVE  /\ call = Script[step[c]] /\ step[c] \in 1..8 /\ round[c] \in 1..MaxRound
         /\ (call = "asr_init" <=> step[c] = 1) /\ (call = "service_init" <=> step[c] = 2)
         /\ (call = "use" <=> step[c] = 3) /\ (call = "get" <=> step[c] = 4)
         /\ (call = "got" <=> step[c] = 5) /\ (call = "release" <=> step[c] = 6)
         /\ (call = "asr_destroy" <=> step[c] = 7) /\ (call = "destroyed" <=> step[c] = 8)
         /\ \A d \in Client : d # c => round'[d] = round[d] /\ step'[d] = step[d]
         /\ \/ round'[c] = round[c] /\ step'[c] = step[c] + 1
            \/ step[c] = 8 /\ round'[c] = round[c] + 1 /\ step'[c] = 1
<1>1. /\ Len(Script) = 8 /\ Script[1] = "asr_init" /\ Script[2] = "service_init"
      /\ Script[3] = "use" /\ Script[4] = "get" /\ Script[5] = "got"
      /\ Script[6] = "release" /\ Script[7] = "asr_destroy" /\ Script[8] = "destroyed"
  BY DEF Script
<1>2. round \in [Client -> 0..MaxRound] /\ step \in [Client -> 1..9]
  BY DEF ServiceTypeInv
<1>3. step[c] \in 1..8 /\ Script[step[c]] = call /\ round[c] \in 1..MaxRound
  BY <1>1, <1>2 DEF At
<1>4. /\ \A d \in Client : d # c => round'[d] = round[d] /\ step'[d] = step[d]
      /\ \/ round'[c] = round[c] /\ step'[c] = step[c] + 1
         \/ step[c] = 8 /\ round'[c] = round[c] + 1 /\ step'[c] = 1
  <2>1. CASE step' = [step EXCEPT ![c] = @ + 1] /\ UNCHANGED round
    BY <2>1, <1>2
  <2>2. CASE /\ step' = [step EXCEPT ![c] = 1] /\ round' = [round EXCEPT ![c] = @ + 1]
             /\ step[c] = 8
    BY <2>2, <1>2
  <2> QED BY <1>1, <2>1, <2>2 DEF Returns
<1> QED BY <1>1, <1>3, <1>4

\* A call on connection k: it keeps what is awaited, and makes no connection unused.
LEMMA CallPlaces ==
  ASSUME ServiceTypeInv, NEW c \in Client, NEW call, At(c, call), Returns(c),
         NEW k \in Conn, k[1] = c, k[2] = round[c],
         replied' \subseteq replied, open \ {k} \subseteq open',
         open \subseteq open' \/ step[c] \in 6..8,
         call = "got" => IsSvc(k) /\ ~Awaiting(k)
  PROVE  /\ \A q \in Conn : IsSvc(q) /\ Awaiting(q) => Awaiting(q)'
         /\ \A q \in Conn : NotYet(q)' => NotYet(q)
<1>1. /\ step[c] \in 1..8 /\ round[c] \in 1..MaxRound /\ (call = "got" <=> step[c] = 5)
      /\ \A d \in Client : d # c => round'[d] = round[d] /\ step'[d] = step[d]
      /\ \/ round'[c] = round[c] /\ step'[c] = step[c] + 1
         \/ step[c] = 8 /\ round'[c] = round[c] + 1 /\ step'[c] = 1
  BY Calls
<1>2. \A q \in Conn : q[1] \in Client /\ q[2] \in 1..MaxRound /\ q = <<q[1], q[2], q[3]>>
  BY DEF Conn
<1>3. ASSUME NEW q \in Conn, IsSvc(q), Awaiting(q) PROVE Awaiting(q)'
  <2>1. CASE q[1] # c
    <3>1. q # k
      BY <2>1
    <3> QED BY <2>1, <3>1, <1>1, <1>2, <1>3 DEF Awaiting
  <2>2. CASE q[1] = c
    <3>1. q[2] = k[2] /\ step[c] \in 3..5
      BY <2>2, <1>3 DEF Awaiting
    <3>2. step[c] # 5
      <4>1. SUFFICES ASSUME step[c] = 5 PROVE FALSE
        OBVIOUS
      <4>2. q[3] = k[3]
        BY <4>1, <1>1, <1>3 DEF IsSvc
      <4>3. q = k
        BY <4>2, <3>1, <2>2, <1>2
      <4> QED BY <4>1, <4>3, <1>1, <1>3
    <3>3. round'[c] = round[c] /\ step'[c] \in 3..5
      BY <3>1, <3>2, <1>1
    <3>4. q \in open' /\ q \notin replied'
      BY <3>1, <1>3 DEF Awaiting
    <3> QED BY <3>3, <3>4, <2>2, <1>3 DEF Awaiting
  <2> QED BY <2>1, <2>2
<1>4. ASSUME NEW q \in Conn, NotYet(q)' PROVE NotYet(q)
  <2>0. round[q[1]] \in 0..MaxRound /\ step[q[1]] \in 1..9 /\ q[2] \in 1..MaxRound
    BY <1>2 DEF ServiceTypeInv
  <2>1. CASE q[1] # c
    BY <2>1, <1>1, <1>2, <1>4 DEF NotYet
  <2>2. CASE q[1] = c
    BY <2>0, <2>2, <1>1, <1>4 DEF NotYet
  <2> QED BY <2>1, <2>2
<1> QED BY <1>3, <1>4

\* A call keeps ConnInv: what it sends is in turn, and the connection it opens is new.
LEMMA CallStep ==
  ASSUME ServiceTypeInv, ConnInv, NEW c \in Client, NEW call, At(c, call), Returns(c),
         NEW k \in Conn, k[1] = c, k[2] = round[c],
         replied' \subseteq replied, open \ {k} \subseteq open',
         open \subseteq open' \/ step[c] \in 6..8,
         call = "got" => IsSvc(k) /\ ~Awaiting(k),
         IsSvc(k) => step[c] # 1,
         \/ UNCHANGED inbox
         \/ call \in Record /\ inbox' = [inbox EXCEPT ![k] = Append(@, call)],
         \/ UNCHANGED backlog
         \/ backlog' = Append(backlog, k) /\ (IsSvc(k) => step[c] = 2),
         UNCHANGED inbox \/ call # "service_init" \/ (IsSvc(k) /\ k \in open'),
         call = "asr_destroy" => ~IsSvc(k),
         UNCHANGED <<tpc, wconn>>
  PROVE  ConnInv'
<1>1. /\ step[c] \in 1..8 /\ round[c] \in 1..MaxRound /\ (call = "service_init" <=> step[c] = 2)
      /\ \/ round'[c] = round[c] /\ step'[c] = step[c] + 1
         \/ step[c] = 8 /\ round'[c] = round[c] + 1 /\ step'[c] = 1
  BY Calls
<1>2. /\ \A q \in Conn : IsSvc(q) /\ Awaiting(q) => Awaiting(q)'
      /\ \A q \in Conn : NotYet(q)' => NotYet(q)
  BY CallPlaces
<1>3. ServiceTypes
  BY DEF ServiceTypeInv
<1>4. /\ \A q \in Conn : q # k => inbox'[q] = inbox[q]
      /\ \A q \in Conn : \A i \in DOMAIN inbox'[q] :
           \/ i \in DOMAIN inbox[q] /\ inbox'[q][i] = inbox[q][i]
           \/ /\ q = k /\ i = Len(inbox[k]) + 1 /\ inbox'[q][i] = call
              /\ ~UNCHANGED inbox
  <2>1. CASE UNCHANGED inbox
    BY <2>1
  <2>2. CASE call \in Record /\ inbox' = [inbox EXCEPT ![k] = Append(@, call)]
                             /\ ~UNCHANGED inbox
    BY <2>2, <1>3, Sent
  <2> QED BY <2>1, <2>2
<1>5. \A i \in DOMAIN backlog' : \/ i \in DOMAIN backlog /\ backlog'[i] = backlog[i]
                                 \/ /\ i = Len(backlog) + 1 /\ backlog'[i] = k
                                    /\ IsSvc(k) => step[c] = 2
  <2>1. CASE UNCHANGED backlog
    BY <2>1
  <2>2. CASE backlog' = Append(backlog, k) /\ (IsSvc(k) => step[c] = 2)
    BY <2>2, <1>3, Queued
  <2> QED BY <2>1, <2>2
<1>6. step[c] = 2 => NotYet(k)
  BY DEF NotYet
<1>7. \A v \in Thread : \A q : Serves(v, q)' <=> Serves(v, q)
  BY DEF Serves
<1>8. ASSUME NEW q \in Conn, IsSvc(q) PROVE Unused(q)' /\ OneServer(q)'
  <2>1. Unused(q) /\ OneServer(q)
    BY <1>8 DEF ConnInv
  <2>2. Unused(q)'
    <3>1. SUFFICES ASSUME NotYet(q)'
                   PROVE  /\ inbox'[q] = <<>> /\ q \notin replied'
                          /\ \A i \in DOMAIN backlog' : backlog'[i] # q
                          /\ \A w \in Thread : ~Serves(w, q)'
      BY DEF Unused
    <3>2. /\ inbox[q] = <<>> /\ q \notin replied
          /\ \A i \in DOMAIN backlog : backlog[i] # q
          /\ \A w \in Thread : ~Serves(w, q)
      BY <3>1, <1>2, <2>1 DEF Unused
    <3>3. q # k
      <4>1. SUFFICES ASSUME q = k PROVE FALSE
        OBVIOUS
      <4>2. round'[c] < round[c] \/ (round'[c] = round[c] /\ step'[c] <= 2)
        BY <3>1, <4>1 DEF NotYet
      <4> QED BY <4>1, <4>2, <1>1, <1>8
    <3> QED BY <3>2, <3>3, <1>4, <1>5, <1>7
  <2>3. OneServer(q)'
    <3>1. CASE q = k /\ step[c] = 2
      <4>1. /\ \A i \in DOMAIN backlog : backlog[i] # q
            /\ \A w \in Thread : ~Serves(w, q)
        BY <3>1, <1>6, <2>1 DEF Unused
      <4>2. \A i \in DOMAIN backlog' : backlog'[i] = q => i = Len(backlog) + 1
        BY <4>1, <1>5
      <4>3. \A w \in Thread : ~Serves(w, q)'
        BY <4>1, <1>7
      <4> QED BY <4>2, <4>3 DEF OneServer
    <3>2. CASE ~(q = k /\ step[c] = 2)
      <4>1. \A i \in DOMAIN backlog' : backlog'[i] = q => i \in DOMAIN backlog /\ backlog[i] = q
        BY <3>2, <1>5, <1>8
      <4> QED BY <4>1, <1>7, <2>1 DEF OneServer
    <3> QED BY <3>1, <3>2
  <2> QED BY <2>2, <2>3
<1>9. ASSUME NEW q \in Conn, NEW i \in DOMAIN inbox'[q] PROVE InTurn(q, i)'
  <2>1. CASE i \in DOMAIN inbox[q] /\ inbox'[q][i] = inbox[q][i]
    <3>1. InTurn(q, i)
      BY <2>1 DEF ConnInv
    <3> QED BY <2>1, <3>1, <1>2 DEF InTurn, IsSvc
  <2>2. CASE /\ q = k /\ i = Len(inbox[k]) + 1 /\ inbox'[q][i] = call
             /\ ~UNCHANGED inbox
    <3>1. CASE call = "service_init"
      <4>1. IsSvc(k) /\ k \in open'
        BY <3>1, <2>2
      <4>2. inbox[k] = <<>> /\ k \notin replied
        BY <4>1, <3>1, <1>1, <1>6 DEF ConnInv, Unused
      <4>3. i = 1
        BY <4>2, <2>2
      <4>4. round'[c] = round[c] /\ step'[c] = 3
        BY <3>1, <1>1
      <4>5. Awaiting(k)'
        BY <4>1, <4>2, <4>4 DEF Awaiting
      <4> QED BY <4>1, <4>3, <4>5, <3>1, <2>2 DEF InTurn, IsSvc
    <3>2. CASE call # "service_init"
      BY <3>2, <2>2 DEF InTurn, IsSvc
    <3> QED BY <3>1, <3>2
  <2> QED BY <2>1, <2>2, <1>4
<1>10. ASSUME NEW w \in Thread PROVE AtWork(w)'
  <2>1. AtWork(w)
    BY DEF ConnInv
  <2>2. tpc[w] \in Serving => wconn[w] \in Conn
    BY <1>3 DEF ServiceTypes, Serving
  <2> QED BY <2>1, <2>2, <1>2 DEF AtWork, IsSvc
<1> QED BY <1>8, <1>9, <1>10 DEF ConnInv

\* Every call of a client keeps ConnInv.
LEMMA ClientStep ==
  ASSUME ServiceTypeInv, ConnInv, NEW c \in Client, Call(c)
  PROVE  ConnInv'
<1>1. ASSUME NEW call, At(c, call)
      PROVE  /\ Svc(c) \in Conn /\ Svc(c)[1] = c /\ Svc(c)[2] = round[c] /\ IsSvc(Svc(c))
             /\ Asr(c) \in Conn /\ Asr(c)[1] = c /\ Asr(c)[2] = round[c] /\ ~IsSvc(Asr(c))
  BY <1>1 DEF ServiceTypeInv, At, Svc, Asr, Conn, IsSvc
<1>2. {"asr_init", "service_init", "use", "get", "release", "asr_destroy"} \subseteq Record
  BY DEF Record
<1>3. CASE CallConnect(c, Asr(c), "asr_init")
  <2>1. /\ At(c, "asr_init") /\ Returns(c) /\ open \subseteq open'
        /\ inbox' = [inbox EXCEPT ![Asr(c)] = Append(@, "asr_init")]
        /\ backlog' = Append(backlog, Asr(c)) /\ UNCHANGED <<replied, tpc, wconn>>
    BY <1>3 DEF CallConnect
  <2>2. /\ Asr(c) \in Conn /\ Asr(c)[1] = c /\ Asr(c)[2] = round[c] /\ ~IsSvc(Asr(c))
        /\ "asr_init" \in Record
    BY <2>1, <1>1, <1>2
  <2> QED BY <2>1, <2>2, CallStep
<1>4. CASE CallConnect(c, Svc(c), "service_init")
  <2>1. /\ At(c, "service_init") /\ Returns(c)
        /\ open \subseteq open' /\ Svc(c) \in open'
        /\ inbox' = [inbox EXCEPT ![Svc(c)] = Append(@, "service_init")]
        /\ backlog' = Append(backlog, Svc(c)) /\ UNCHANGED <<replied, tpc, wconn>>
    BY <1>4 DEF CallConnect
  <2>2. step[c] = 2
    BY <2>1, Calls
  <2>3. /\ Svc(c) \in Conn /\ Svc(c)[1] = c /\ Svc(c)[2] = round[c] /\ IsSvc(Svc(c))
        /\ "service_init" \in Record
    BY <2>1, <1>1, <1>2
  <2>4. open \ {Svc(c)} \subseteq open' /\ step[c] # 1 /\ replied' \subseteq replied
    BY <2>1, <2>2
  <2>5. PICK call \in Record : call = "service_init"
    BY <2>3
  <2>6. PICK k \in Conn : k = Svc(c)
    BY <2>3
  <2>7. /\ At(c, call) /\ Returns(c) /\ k[1] = c /\ k[2] = round[c]
        /\ replied' \subseteq replied /\ open \subseteq open' /\ open \ {k} \subseteq open'
        /\ inbox' = [inbox EXCEPT ![k] = Append(@, call)]
        /\ backlog' = Append(backlog, k) /\ (IsSvc(k) => step[c] = 2)
        /\ IsSvc(k) /\ k \in open' /\ step[c] # 1 /\ call # "got" /\ call # "asr_destroy"
        /\ UNCHANGED <<tpc, wconn>>
    BY <2>1, <2>2, <2>3, <2>4, <2>5, <2>6
  <2> QED BY <2>7, CallStep
<1>5. CASE ConnectFails(c, "asr_init") \/ ConnectFails(c, "service_init")
  <2>1. PICK call \in {"asr_init", "service_init"} : ConnectFails(c, call)
    BY <1>5
  <2> QED BY <2>1, <1>1, CallStep DEF ConnectFails
<1>6. ASSUME NEW call \in {"use", "get", "release", "asr_destroy"}, At(c, call), Returns(c),
             NEW k, k = IF call = "asr_destroy" THEN Asr(c) ELSE Svc(c), SendOn(k, call),
             open \ {k} \subseteq open', open' = open \/ call = "release",
             UNCHANGED <<replied, backlog, tpc, wconn>>
      PROVE  ConnInv'
  <2>1. step[c] # 1 /\ (call = "release" => step[c] \in 6..8)
    BY <1>6, Calls
  <2>2. k \in Conn /\ k[1] = c /\ k[2] = round[c] /\ (call = "asr_destroy" => ~IsSvc(k))
    BY <1>6, <1>1
  <2>3. UNCHANGED inbox \/ (call \in Record /\ inbox' = [inbox EXCEPT ![k] = Append(@, call)])
    BY <1>6, <1>2 DEF SendOn
  <2> QED BY <1>6, <2>1, <2>2, <2>3, CallStep
<1>7. ASSUME NEW k, NEW call \in {"got", "destroyed"}, CallAnswered(c, k, call),
             k = IF call = "got" THEN Svc(c) ELSE Asr(c)
      PROVE  ConnInv'
  <2>1. At(c, call) /\ Returns(c) /\ UNCHANGED <<inbox, backlog, tpc, wconn>>
    BY <1>7 DEF CallAnswered
  <2>2. step[c] # 1 /\ (call = "destroyed" => step[c] \in 6..8)
    BY <2>1, Calls
  <2>3. k \in Conn /\ k[1] = c /\ k[2] = round[c] /\ (call = "got" => IsSvc(k))
    BY <1>7, <1>1, <2>1
  <2>4. ~Awaiting(k)
    BY <1>7 DEF CallAnswered, Awaiting
  <2>5. /\ replied' \subseteq replied /\ open \ {k} \subseteq open'
        /\ open \subseteq open' \/ call = "destroyed"
    BY <1>7 DEF CallAnswered
  <2> QED BY <2>1, <2>2, <2>3, <2>4, <2>5, CallStep
<1>8. CASE CallSend(c, Svc(c), "use") \/ CallSend(c, Svc(c), "get")
  BY <1>8, <1>6 DEF CallSend
<1>9. CASE CallRelease(c)
  BY <1>9, <1>6 DEF CallRelease
<1>10. CASE CallSend(c, Asr(c), "asr_destroy")
  BY <1>10, <1>6 DEF CallSend
<1>11. CASE CallAnswered(c, Svc(c), "got") \/ CallAnswered(c, Asr(c), "destroyed")
  BY <1>11, <1>7
<1> QED BY <1>3, <1>4, <1>5, <1>8, <1>9, <1>10, <1>11 DEF Call

-----------------------------------------------------------------------------

\* The workers go on with the connections they have, or leave them, and nothing is read.
LEMMA WorkersMove ==
  ASSUME ServiceTypeInv, ConnInv, ServiceTypeInv',
         UNCHANGED <<round, step, inbox, open, backlog>>,
         \A q \in Conn : IsSvc(q) => (q \in replied' <=> q \in replied),
         \A v \in Thread : \/ tpc'[v] = "accept"
                           \/ tpc[v] # "accept" /\ wconn'[v] = wconn[v],
         \A v \in Thread : tpc'[v] \in Serving => tpc[v] \in Serving,
         \A v \in Thread : tpc'[v] \in Closing => tpc[v] \in Closing
  PROVE  ConnInv'
<1>1. \A v \in Thread : \A q : Serves(v, q)' => Serves(v, q)
  BY DEF Serves
<1>2. ASSUME NEW q \in Conn, IsSvc(q) PROVE Unused(q)' /\ OneServer(q)'
  <2>1. Unused(q) /\ OneServer(q)
    BY <1>2 DEF ConnInv
  <2>2. Unused(q)'
    BY <1>1, <1>2, <2>1 DEF Unused, NotYet
  <2>3. OneServer(q)'
    BY <1>1, <2>1 DEF OneServer
  <2> QED BY <2>2, <2>3
<1>3. \A q \in Conn : IsSvc(q) /\ Awaiting(q) => Awaiting(q)'
  BY DEF Awaiting
<1>4. ASSUME NEW q \in Conn, NEW i \in DOMAIN inbox'[q] PROVE InTurn(q, i)'
  <2>1. InTurn(q, i)
    BY <1>4 DEF ConnInv
  <2> QED BY <2>1, <1>3 DEF InTurn, IsSvc
<1>5. ASSUME NEW v \in Thread PROVE AtWork(v)'
  <2>1. AtWork(v)
    BY DEF ConnInv
  <2>2. tpc'[v] \in Serving => wconn'[v] \in Conn
    BY DEF ServiceTypeInv, ServiceTypes, Serving
  <2>3. tpc'[v] = "accept" => tpc'[v] \notin Serving /\ tpc'[v] \notin Closing
    BY DEF Serving, Closing
  <2> QED BY <2>1, <2>2, <2>3, <1>3 DEF AtWork, IsSvc
<1> QED BY <1>2, <1>4, <1>5 DEF ConnInv

\* The steps of a worker between reading a record and reading the next, and its leaving
\* the connection.
LEMMA HandlerStep ==
  ASSUME ServiceTypeInv, ConnInv, ServiceTypeInv', NEW w \in Thread,
         \/ InitAsr(w) \/ DestroyAsr(w) \/ ClearAsr(w) \/ CloseStatus(w) \/ ReadEnd(w)
         \/ ServiceWait(w) \/ ServiceGo(w) \/ ServiceInit(w) \/ SpuriousWake(w)
  PROVE  ConnInv'
<1>1. tpc \in [Thread -> Place] /\ wconn \in [Thread -> Conn \union {NoConn}]
  BY DEF ServiceTypeInv, ServiceTypes
<1>2. CASE InitAsr(w)
  <2>1. \/ tpc' = [tpc EXCEPT ![w] = "read"]
        \/ \E u \in Thread :
             tpc[u] = "asleep" /\ tpc' = [tpc EXCEPT ![w] = "read", ![u] = "service"]
    BY <1>2 DEF InitAsr, Goes, Sleepers
  <2>2. \A v \in Thread : \/ tpc[v] = "init" /\ tpc'[v] = "read"
                          \/ tpc'[v] = tpc[v]
                          \/ tpc[v] = "asleep" /\ tpc'[v] = "service"
    BY <1>1, <2>1, <1>2 DEF InitAsr
  <2>3. UNCHANGED <<round, step, inbox, replied, open, backlog, wconn>>
    BY <1>2 DEF InitAsr
  <2>4. \A v \in Thread : /\ tpc'[v] = "accept" \/ tpc[v] # "accept"
                          /\ tpc'[v] \in Serving => tpc[v] \in Serving
                          /\ tpc'[v] \in Closing => tpc[v] \in Closing
    BY <2>2 DEF Serving, Closing
  <2> QED BY <2>3, <2>4, WorkersMove
<1>3. CASE ~InitAsr(w)
  <2>1. PICK to \in Place :
          /\ tpc' = [tpc EXCEPT ![w] = to] /\ tpc[w] # "accept"
          /\ to \in Serving => tpc[w] \in Serving
          /\ to \in Closing => tpc[w] \in Closing
          /\ to = "accept" \/ UNCHANGED wconn
          /\ wconn' = wconn \/ wconn' = [wconn EXCEPT ![w] = NoConn]
          /\ UNCHANGED <<round, step, inbox, open, backlog>>
    BY <1>3 DEF DestroyAsr, ClearAsr, CloseStatus, ReadEnd, ServiceWait, ServiceGo,
                ServiceInit, SpuriousWake, Goes, Place, Serving, Closing
  <2>2. \A q \in Conn : IsSvc(q) => (q \in replied' <=> q \in replied)
    <3>1. CASE UNCHANGED replied
      BY <3>1
    <3>2. CASE ClearAsr(w)
      <4>1. ~IsSvc(wconn[w]) /\ replied' = replied \union {wconn[w]}
        BY <3>2 DEF ClearAsr, ConnInv, AtWork, Closing
      <4> QED BY <4>1
    <3> QED BY <1>3, <3>1, <3>2 DEF DestroyAsr, CloseStatus, ReadEnd, ServiceWait, ServiceGo,
                                    ServiceInit, SpuriousWake
  <2>3. ASSUME NEW v \in Thread
        PROVE  /\ \/ tpc'[v] = "accept"
                  \/ tpc[v] # "accept" /\ wconn'[v] = wconn[v]
               /\ tpc'[v] \in Serving => tpc[v] \in Serving
               /\ tpc'[v] \in Closing => tpc[v] \in Closing
    <3>1. CASE v = w
      BY <3>1, <2>1, <1>1
    <3>2. CASE v # w
      BY <3>2, <2>1, <1>1
    <3> QED BY <3>1, <3>2
  <2> QED BY <2>1, <2>2, <2>3, WorkersMove
<1> QED BY <1>2, <1>3

\* A worker accepts the first connection of the queue.
LEMMA AcceptStep ==
  ASSUME ServiceTypeInv, ConnInv, NEW w \in Thread, AcceptConn(w)
  PROVE  ConnInv'
<1>1. /\ backlog # <<>> /\ tpc[w] = "accept" /\ tpc' = [tpc EXCEPT ![w] = "read"]
      /\ wconn' = [wconn EXCEPT ![w] = Head(backlog)] /\ backlog' = Tail(backlog)
      /\ UNCHANGED <<round, step, inbox, replied, open>>
  BY DEF AcceptConn, Goes
<1>2. ServiceTypes
  BY DEF ServiceTypeInv
<1>3. /\ 1 \in DOMAIN backlog /\ Head(backlog) = backlog[1]
      /\ \A i \in DOMAIN backlog' : i \in Nat /\ i + 1 \in DOMAIN backlog /\ i + 1 # 1
                                    /\ backlog'[i] = backlog[i + 1]
  <2>1. PICK b \in Seq(Conn) : b = backlog
    BY <1>2 DEF ServiceTypes
  <2>2. b # <<>>
    BY <2>1, <1>1
  <2>3. /\ 1 \in DOMAIN b /\ Head(b) = b[1]
        /\ \A i \in DOMAIN Tail(b) :
             i \in Nat /\ i + 1 \in DOMAIN b /\ i + 1 # 1 /\ Tail(b)[i] = b[i + 1]
    BY <2>2
  <2> QED BY <2>1, <2>3, <1>1
<1>4. /\ tpc'[w] = "read" /\ wconn'[w] = Head(backlog)
      /\ \A v \in Thread : v # w => tpc'[v] = tpc[v] /\ wconn'[v] = wconn[v]
  BY <1>1, <1>2 DEF ServiceTypes
<1>5. \A q : /\ \A v \in Thread : v # w => (Serves(v, q)' <=> Serves(v, q))
             /\ Serves(w, q)' <=> backlog[1] = q
             /\ ~Serves(w, q)
  BY <1>1, <1>3, <1>4 DEF Serves
<1>6. ASSUME NEW q \in Conn, IsSvc(q) PROVE Unused(q)' /\ OneServer(q)'
  <2>1. Unused(q) /\ OneServer(q)
    BY <1>6 DEF ConnInv
  <2>2. Unused(q)'
    <3>1. SUFFICES ASSUME NotYet(q)
                   PROVE  /\ inbox[q] = <<>> /\ q \notin replied
                          /\ \A i \in DOMAIN backlog' : backlog'[i] # q
                          /\ \A v \in Thread : ~Serves(v, q)'
      BY <1>1 DEF Unused, NotYet
    <3>2. /\ inbox[q] = <<>> /\ q \notin replied
          /\ \A i \in DOMAIN backlog : backlog[i] # q
          /\ \A v \in Thread : ~Serves(v, q)
      BY <3>1, <2>1 DEF Unused
    <3> QED BY <3>2, <1>3, <1>5
  <2>3. /\ \A i, j \in DOMAIN backlog : backlog[i] = q /\ backlog[j] = q => i = j
        /\ \A i \in DOMAIN backlog : backlog[i] = q => \A v \in Thread : ~Serves(v, q)
        /\ \A u, v \in Thread : Serves(u, q) /\ Serves(v, q) => u = v
    BY <2>1 DEF OneServer
  <2>4. \A i, j \in DOMAIN backlog' : backlog'[i] = q /\ backlog'[j] = q => i = j
    <3>1. SUFFICES ASSUME NEW i \in DOMAIN backlog', NEW j \in DOMAIN backlog',
                          backlog'[i] = q, backlog'[j] = q
                   PROVE  i = j
      OBVIOUS
    <3>2. i + 1 = j + 1 /\ i \in Nat /\ j \in Nat
      BY <3>1, <2>3, <1>3
    <3> QED BY <3>2
  <2>5. \A i \in DOMAIN backlog' : backlog'[i] = q => \A v \in Thread : ~Serves(v, q)'
    BY <2>3, <1>3, <1>5
  <2>6. \A u, v \in Thread : Serves(u, q)' /\ Serves(v, q)' => u = v
    BY <2>3, <1>3, <1>5
  <2> QED BY <2>2, <2>4, <2>5, <2>6 DEF OneServer
<1>7. \A q : Awaiting(q)' <=> Awaiting(q)
  BY <1>1 DEF Awaiting
<1>8. \A q \in Conn : \A i \in DOMAIN inbox'[q] : InTurn(q, i)'
  BY <1>1, <1>7 DEF ConnInv, InTurn, IsSvc
<1>9. ASSUME NEW v \in Thread PROVE AtWork(v)'
  <2>1. AtWork(v)
    BY DEF ConnInv
  <2> QED BY <2>1, <1>4, <1>7 DEF AtWork, IsSvc, Serving, Closing
<1> QED BY <1>6, <1>8, <1>9 DEF ConnInv

\* A worker reads a record and turns to its handler.
LEMMA ReadStep ==
  ASSUME ServiceTypeInv, ConnInv, NEW w \in Thread, ReadRecord(w)
  PROVE  ConnInv'
<1>1. ServiceTypes
  BY DEF ServiceTypeInv
<1>2. tpc[w] = "read" /\ UNCHANGED <<round, step, open, backlog, wconn>>
  BY DEF ReadRecord
<1>3. PICK k \in Conn : k = wconn[w]
  BY <1>1, <1>2 DEF ServiceTypes
<1>4. PICK s \in Seq(Record) : s = inbox[k]
  BY <1>1 DEF ServiceTypes
<1>5. s # <<>>
  BY <1>3, <1>4 DEF ReadRecord
<1>6. PICK call \in Record : call = Head(s) /\ call = s[1] /\ 1 \in DOMAIN s
  <2>1. DOMAIN s = 1..Len(s) /\ Len(s) \in Nat /\ (Len(s) = 0 <=> s = <<>>)
    BY EmptySeq, LenProperties
  <2>2. Head(s) = s[1] /\ Head(s) \in Record
    BY <1>5, HeadTailProperties
  <2>3. 1 \in DOMAIN s
    BY <2>1, <1>5
  <2> QED BY <2>2, <2>3
<1>7. PICK rest \in Seq(Record) : rest = Tail(s)
  <2>1. Tail(s) \in Seq(Record)
    BY <1>5
  <2> QED BY <2>1
<1>8. \A i \in DOMAIN rest : i \in Nat /\ i + 1 \in DOMAIN s /\ i + 1 # 1 /\ rest[i] = s[i + 1]
  BY <1>5, <1>7
<1>9. /\ inbox' = [inbox EXCEPT ![k] = rest]
      /\ \A q : q # k \/ call # "get" => (q \in replied' <=> q \in replied)
  BY <1>3, <1>4, <1>6, <1>7 DEF ReadRecord
<1>10. PICK to \in {"read", "init", "destroy", "service"} :
         /\ tpc' = [tpc EXCEPT ![w] = to]
         /\ to = "service" => call = "service_init"
         /\ to = "destroy" => call = "asr_destroy"
  BY <1>3, <1>4, <1>6 DEF ReadRecord, Goes
<1>11. tpc'[w] = to /\ \A v \in Thread : v # w => tpc'[v] = tpc[v]
  BY <1>1, <1>10 DEF ServiceTypes
<1>12. inbox'[k] = rest /\ \A q \in Conn : q # k => inbox'[q] = inbox[q]
  BY <1>1, <1>9 DEF ServiceTypes
<1>13. /\ \A q \in Conn : \A i \in DOMAIN inbox[q] : InTurn(q, i)
       /\ \A v \in Thread : AtWork(v)
  BY DEF ConnInv
<1>14. Serves(w, k) /\ \A v \in Thread : \A q : Serves(v, q)' <=> Serves(v, q)
  BY <1>2, <1>3, <1>10, <1>11 DEF Serves
<1>15. ASSUME NEW q \in Conn, IsSvc(q) PROVE Unused(q)' /\ OneServer(q)'
  <2>1. Unused(q) /\ OneServer(q)
    BY <1>15 DEF ConnInv
  <2>2. ASSUME NotYet(q) PROVE inbox'[q] = inbox[q] /\ (q \in replied' <=> q \in replied)
    <3>1. q # k
      BY <2>1, <2>2, <1>14 DEF Unused
    <3> QED BY <3>1, <1>9, <1>12
  <2>3. Unused(q)'
    BY <2>1, <2>2, <1>2, <1>14 DEF Unused, NotYet
  <2> QED BY <2>1, <2>3, <1>2, <1>14 DEF OneServer
\* The answer to get goes to a client whose service_init is through.
<1>16. \A q \in Conn : Awaiting(q) /\ (q # k \/ call # "get") => Awaiting(q)'
  BY <1>2, <1>9 DEF Awaiting
<1>17. ASSUME NEW q \in Conn, NEW i \in DOMAIN inbox'[q] PROVE InTurn(q, i)'
  <2>1. CASE q = k
    <3>1. i \in DOMAIN rest /\ inbox'[q][i] = rest[i]
      BY <2>1, <1>12
    <3>2. inbox[k][i + 1] = rest[i] /\ i + 1 \in DOMAIN inbox[k] /\ i + 1 # 1
      BY <3>1, <1>4, <1>8
    <3>3. InTurn(k, i + 1)
      BY <3>2, <1>13
    <3> QED BY <2>1, <3>1, <3>2, <3>3 DEF InTurn, IsSvc
  <2>2. CASE q # k
    BY <2>2, <1>12, <1>13, <1>16 DEF InTurn, IsSvc
  <2> QED BY <2>1, <2>2
<1>18. ASSUME NEW v \in Thread PROVE AtWork(v)'
  <2>1. CASE v = w
    <3>1. InTurn(k, 1) /\ inbox[k][1] = call
      BY <1>4, <1>6, <1>13
    <3>2. to = "service" => IsSvc(k) /\ Awaiting(k)'
      BY <3>1, <1>10, <1>16 DEF InTurn
    <3>3. to = "destroy" => ~IsSvc(k)
      BY <3>1, <1>10 DEF InTurn
    <3> QED BY <2>1, <3>2, <3>3, <1>2, <1>3, <1>11 DEF AtWork, IsSvc, Serving, Closing
  <2>2. CASE v # w
    <3>1. tpc'[v] = tpc[v] /\ wconn'[v] = wconn[v] /\ AtWork(v)
      BY <2>2, <1>2, <1>11, <1>13
    <3>2. ASSUME tpc[v] \in Serving PROVE IsSvc(wconn[v]) /\ Awaiting(wconn[v])'
      <4>1. wconn[v] \in Conn /\ Serves(v, wconn[v])
        BY <3>2, <1>1 DEF ServiceTypes, Serves, Serving
      <4>2. IsSvc(wconn[v]) /\ Awaiting(wconn[v])
        BY <3>1, <3>2 DEF AtWork
      <4>3. wconn[v] # k
        BY <4>1, <4>2, <2>2, <1>14 DEF ConnInv, OneServer
      <4> QED BY <4>1, <4>2, <4>3, <3>1, <1>16
    <3> QED BY <3>1, <3>2 DEF AtWork, IsSvc
  <2> QED BY <2>1, <2>2
<1> QED BY <1>15, <1>17, <1>18 DEF ConnInv

-----------------------------------------------------------------------------

\* A call begins a run that an asr_destroy under way hits, or it is behind its asr_init.
LEMMA CallEngine ==
  ASSUME ServiceTypeInv, EngineInv, NEW c \in Client, Call(c)
  PROVE  EngineInv'
<1>1. PICK call : At(c, call) /\ Returns(c)
  BY DEF Call, CallConnect, ConnectFails, CallSend, CallRelease, CallAnswered
<1>2. UNCHANGED <<tpc, wconn, user_asr, status, live, unopened>>
  BY DEF Call, CallConnect, ConnectFails, CallSend, CallRelease, CallAnswered
<1>3. /\ (call = "asr_init" <=> step[c] = 1) /\ step[c] \in 1..8
      /\ \A d \in Client : d # c => round'[d] = round[d] /\ step'[d] = step[d]
      /\ \/ round'[c] = round[c] /\ step'[c] = step[c] + 1
         \/ step[c] = 8 /\ round'[c] = round[c] + 1 /\ step'[c] = 1
  BY <1>1, Calls
<1>4. hit \subseteq hit' /\ (step[c] = 1 /\ Destroying => <<c, round[c]>> \in hit')
  <2>1. ASSUME NEW k, NEW name \in {"asr_init", "service_init"},
               CallConnect(c, k, name) \/ ConnectFails(c, name)
        PROVE  hit \subseteq hit' /\ (step[c] = 1 /\ Destroying => <<c, round[c]>> \in hit')
    <3>1. At(c, name) /\ Returns(c) /\ hit' = HitFrom(c, name)
      BY <2>1 DEF CallConnect, ConnectFails
    <3>2. step[c] = 1 => name = "asr_init"
      BY <3>1, Calls
    <3> QED BY <3>1, <3>2 DEF HitFrom
  <2>2. ASSUME NEW name \in {"use", "get", "got", "release", "asr_destroy", "destroyed"},
               At(c, name), Returns(c), UNCHANGED hit
        PROVE  hit \subseteq hit' /\ (step[c] = 1 /\ Destroying => <<c, round[c]>> \in hit')
    BY <2>2, Calls
  <2> QED BY <2>1, <2>2 DEF Call, CallSend, CallRelease, CallAnswered
<1>5. HitInv'
  <2>1. SUFFICES ASSUME Destroying, NEW d \in Client, round'[d] > 0, step'[d] \in 2..5
                 PROVE  <<d, round'[d]>> \in hit'
    BY <1>2 DEF HitInv, Destroying
  <2>2. CASE d # c
    BY <2>1, <2>2, <1>3, <1>4 DEF EngineInv, HitInv
  <2>3. CASE d = c
    <3>1. round'[c] = round[c] /\ step[c] \in 1..4
      BY <2>1, <2>3, <1>3
    <3> QED BY <2>1, <2>3, <3>1, <1>4 DEF EngineInv, HitInv
  <2> QED BY <2>2, <2>3
<1>6. StatusInv' /\ ServiceOnLiveEngine'
  BY <1>2, <1>4 DEF EngineInv, StatusInv, ServiceOnLiveEngine
<1> QED BY <1>5, <1>6 DEF EngineInv

\* A worker that reads asr_destroy hits the runs that are under way; no other record is one.
LEMMA ReadEngine ==
  ASSUME ServiceTypeInv, EngineInv, NEW w \in Thread, ReadRecord(w)
  PROVE  EngineInv'
<1>1. tpc \in [Thread -> Place]
  BY DEF ServiceTypeInv, ServiceTypes
<1>2. /\ tpc[w] = "read" /\ hit \subseteq hit'
      /\ UNCHANGED <<round, step, wconn, user_asr, status, live, unopened>>
  BY DEF ReadRecord
<1>3. PICK to \in {"read", "init", "destroy", "service"} :
        tpc' = [tpc EXCEPT ![w] = to] /\ (to = "destroy" => hit' = hit \union UnderWay)
  BY DEF ReadRecord, Goes
<1>4. tpc'[w] = to /\ \A v \in Thread : v # w => tpc'[v] = tpc[v]
  BY <1>1, <1>3
<1>5. HitInv'
  <2>1. SUFFICES ASSUME Destroying', NEW c \in Client, round[c] > 0, step[c] \in 2..5
                 PROVE  <<c, round[c]>> \in hit'
    BY <1>2 DEF HitInv
  <2>2. CASE to = "destroy"
    <3>1. round[c] \in 1..MaxRound
      BY <2>1 DEF ServiceTypeInv
    <3>2. <<c, round[c]>> \in UnderWay
      BY <2>1, <3>1 DEF UnderWay, Runs
    <3> QED BY <3>2, <2>2, <1>3
  <2>3. CASE to # "destroy"
    <3>1. Destroying
      BY <2>1, <2>3, <1>4 DEF Destroying
    <3> QED BY <3>1, <2>1, <1>2 DEF EngineInv, HitInv
  <2> QED BY <2>2, <2>3
<1>6. StatusInv'
  <2>1. \A v \in Thread : tpc[v] \in {"clear", "close"} => tpc'[v] \in {"clear", "close"}
    BY <1>2, <1>4
  <2> QED BY <2>1, <1>2 DEF EngineInv, StatusInv
<1>7. ServiceOnLiveEngine'
  <2>1. \A v \in Thread : tpc'[v] = "use_asr" => tpc[v] = "use_asr"
    BY <1>4
  <2> QED BY <2>1, <1>2 DEF EngineInv, ServiceOnLiveEngine
<1> QED BY <1>5, <1>6, <1>7 DEF EngineInv

\* The run whose service_init a worker carries out is between asr_init and the answer.
LEMMA ServedRunIsHit ==
  ASSUME ServiceTypeInv, ConnInv, HitInv, Destroying,
         NEW w \in Thread, tpc[w] \in Serving
  PROVE  <<wconn[w][1], wconn[w][2]>> \in hit
<1>1. Awaiting(wconn[w]) /\ wconn[w] \in Conn
  BY DEF ConnInv, AtWork, ServiceTypeInv, ServiceTypes, Serving
<1>2. PICK k \in Conn : k = wconn[w]
  BY <1>1
<1>3. /\ k[1] \in Client /\ k[2] \in 1..MaxRound
      /\ round[k[1]] = k[2] /\ step[k[1]] \in 3..5
  BY <1>1, <1>2 DEF Awaiting, Conn
<1>4. <<k[1], round[k[1]]>> \in hit
  BY <1>3 DEF HitInv
<1> QED BY <1>2, <1>3, <1>4

\* The engine is opened, closed and used: a service that goes on finds status of an engine
\* that is open, or is hit.
LEMMA HandlerEngine ==
  ASSUME ServiceTypeInv, ConnInv, EngineInv, NEW w \in Thread,
         \/ InitAsr(w) \/ DestroyAsr(w) \/ ClearAsr(w) \/ CloseStatus(w) \/ ReadEnd(w)
         \/ ServiceWait(w) \/ ServiceGo(w) \/ ServiceInit(w) \/ SpuriousWake(w)
         \/ AcceptConn(w)
  PROVE  EngineInv'
<1>1. tpc \in [Thread -> Place] /\ wconn \in [Thread -> Conn \union {NoConn}]
  BY DEF ServiceTypeInv, ServiceTypes
<1>2. UNCHANGED <<round, step, hit>>
  BY DEF InitAsr, DestroyAsr, ClearAsr, CloseStatus, ReadEnd, ServiceWait, ServiceGo,
         ServiceInit, SpuriousWake, AcceptConn
<1>3. HitInv /\ StatusInv /\ ServiceOnLiveEngine
  BY DEF EngineInv
<1>4. ASSUME Destroying' => Destroying PROVE HitInv'
  BY <1>2, <1>3, <1>4 DEF HitInv
<1>5. CASE InitAsr(w)
  <2>1. \/ tpc' = [tpc EXCEPT ![w] = "read"]
        \/ \E u \in Thread :
             tpc[u] = "asleep" /\ tpc' = [tpc EXCEPT ![w] = "read", ![u] = "service"]
    BY <1>5 DEF InitAsr, Goes, Sleepers
  <2>2. \A v \in Thread : \/ tpc[v] = "init" /\ tpc'[v] = "read"
                          \/ tpc'[v] = tpc[v]
                          \/ tpc[v] = "asleep" /\ tpc'[v] = "service"
    BY <1>1, <2>1, <1>5 DEF InitAsr
  <2>3. user_asr' \in live' \/ unopened'
    BY <1>5 DEF InitAsr, OpenAsr
  <2>4. Destroying' => Destroying
    BY <2>2 DEF Destroying
  <2>5. StatusInv' /\ ServiceOnLiveEngine'
    BY <2>3 DEF StatusInv, ServiceOnLiveEngine
  <2> QED BY <2>4, <2>5, <1>4 DEF EngineInv
<1>6. CASE DestroyAsr(w) \/ ClearAsr(w)
  <2>1. PICK to \in {"clear", "close"} :
          /\ tpc' = [tpc EXCEPT ![w] = to] /\ tpc[w] \in {"destroy", "clear"}
          /\ UNCHANGED wconn
    BY <1>6 DEF DestroyAsr, ClearAsr, Goes
  <2>2. tpc'[w] = to /\ \A v \in Thread : v # w => tpc'[v] = tpc[v]
    BY <1>1, <2>1
  <2>3. Destroying
    BY <2>1 DEF Destroying
  <2>4. StatusInv'
    BY <2>1, <2>2 DEF StatusInv
  <2>5. ASSUME NEW v \in Thread, tpc'[v] = "use_asr"
        PROVE  <<wconn'[v][1], wconn'[v][2]>> \in hit'
    <3>1. tpc[v] \in Serving /\ wconn'[v] = wconn[v]
      BY <2>1, <2>2, <2>5 DEF Serving
    <3> QED BY <3>1, <2>3, <1>2, <1>3, ServedRunIsHit
  <2>6. ServiceOnLiveEngine'
    BY <2>5 DEF ServiceOnLiveEngine
  <2> QED BY <2>3, <2>4, <2>6, <1>4 DEF EngineInv
<1>7. CASE CloseStatus(w) \/ ReadEnd(w) \/ AcceptConn(w)
  <2>1. PICK to \in {"accept", "read"} :
          tpc' = [tpc EXCEPT ![w] = to] /\ UNCHANGED <<user_asr, live, unopened>>
    BY <1>7 DEF CloseStatus, ReadEnd, AcceptConn, Goes
  <2>2. tpc'[w] = to /\ \A v \in Thread : v # w => tpc'[v] = tpc[v]
    BY <1>1, <2>1
  <2>3. PICK k : wconn' = [wconn EXCEPT ![w] = k]
    BY <1>7, Zenon DEF CloseStatus, ReadEnd, AcceptConn
  <2>4. \A v \in Thread : v # w => wconn'[v] = wconn[v]
    BY <1>1, <2>3
  <2>5. Destroying' => Destroying
    BY <2>2 DEF Destroying
  <2>6. StatusInv'
    <3>1. CASE CloseStatus(w)
      BY <3>1 DEF CloseStatus, StatusInv
    <3>2. CASE ~CloseStatus(w)
      <4>1. tpc[w] \notin {"clear", "close"} /\ status' = status
        BY <3>2, <1>7 DEF ReadEnd, AcceptConn
      <4> QED BY <4>1, <2>1, <2>2, <1>3 DEF StatusInv
    <3> QED BY <3>1, <3>2
  <2>7. ServiceOnLiveEngine'
    BY <2>1, <2>2, <2>4, <1>2, <1>3 DEF ServiceOnLiveEngine
  <2> QED BY <2>5, <2>6, <2>7, <1>4 DEF EngineInv
<1>8. CASE ServiceWait(w) \/ ServiceGo(w) \/ ServiceInit(w) \/ SpuriousWake(w)
  <2>1. PICK to \in {"asleep", "use_asr", "read", "service"} :
          /\ tpc' = [tpc EXCEPT ![w] = to] /\ tpc[w] \in Serving
          /\ to = "use_asr" => status # 0
          /\ UNCHANGED <<wconn, user_asr, status, live, unopened>>
    BY <1>8 DEF ServiceWait, ServiceGo, ServiceInit, SpuriousWake, Goes, Serving
  <2>2. tpc'[w] = to /\ \A v \in Thread : v # w => tpc'[v] = tpc[v]
    BY <1>1, <2>1
  <2>3. Destroying' => Destroying
    BY <2>2 DEF Destroying
  <2>4. StatusInv'
    <3>1. \A v \in Thread : tpc[v] \in {"clear", "close"} => tpc'[v] \in {"clear", "close"}
      BY <2>1, <2>2 DEF Serving
    <3> QED BY <3>1, <2>1, <1>3 DEF StatusInv
  <2>5. ServiceOnLiveEngine'
    <3>1. SUFFICES ASSUME NEW v \in Thread, tpc'[v] = "use_asr",
                          <<wconn'[v][1], wconn'[v][2]>> \notin hit', ~unopened'
                   PROVE  user_asr' \in live'
      BY DEF ServiceOnLiveEngine
    <3>2. CASE v # w
      BY <3>1, <3>2, <2>1, <2>2, <1>2, <1>3 DEF ServiceOnLiveEngine
    <3>3. CASE v = w
      <4>1. status # 0 /\ <<wconn[w][1], wconn[w][2]>> \notin hit
        BY <3>1, <3>3, <2>1, <2>2, <1>2
      <4>2. ~Destroying
        BY <4>1, <2>1, <1>3, ServedRunIsHit
      <4>3. user_asr \in live
        BY <3>1, <4>1, <4>2, <2>1, <1>3 DEF StatusInv, Destroying
      <4> QED BY <4>3, <2>1
    <3> QED BY <3>2, <3>3
  <2> QED BY <2>3, <2>4, <2>5, <1>4 DEF EngineInv
<1> QED BY <1>5, <1>6, <1>7, <1>8

\* Every step of the service keeps the invariant.
LEMMA ServiceStep ==
  ASSUME ServiceTypeInv, ServiceTypeInv', ConnInv, EngineInv, [MrcpNext]_mrcpVars
  PROVE  ConnInv' /\ EngineInv'
<1>1. ASSUME NEW c \in Client, Call(c) PROVE ConnInv' /\ EngineInv'
  BY <1>1, ClientStep, CallEngine
<1>2. ASSUME NEW w \in Thread, Serve(w) \/ SpuriousWake(w) PROVE ConnInv' /\ EngineInv'
  <2>1. CASE ReadRecord(w)
    BY <2>1, ReadStep, ReadEngine
  <2>2. CASE AcceptConn(w)
    BY <2>2, AcceptStep, HandlerEngine
  <2>3. CASE \/ InitAsr(w) \/ DestroyAsr(w) \/ ClearAsr(w) \/ CloseStatus(w) \/ ReadEnd(w)
             \/ ServiceWait(w) \/ ServiceGo(w) \/ ServiceInit(w) \/ SpuriousWake(w)
    BY <2>3, HandlerStep, HandlerEngine
  <2> QED BY <1>2, <2>1, <2>2, <2>3 DEF Serve
<1>3. CASE UNCHANGED mrcpVars
  <2>1. ConnInv'
    BY <1>3 DEF mrcpVars, ConnInv, Unused, OneServer, InTurn, AtWork, Awaiting, NotYet,
                Serves, IsSvc
  <2>2. EngineInv'
    BY <1>3 DEF mrcpVars, EngineInv, HitInv, StatusInv, ServiceOnLiveEngine, Destroying
  <2> QED BY <2>1, <2>2
<1> QED BY <1>1, <1>2, <1>3 DEF MrcpNext, NothingToDo

\* usc_mrcp_service_init gets an open engine in every run of every client, whatever fails
\* and however runs interleave, but for the runs that met an asr_destroy between their
\* asr_init and their answer, and as long as the last opening of the engine succeeded.
THEOREM ServiceFindsEngine ==
  MrcpSpec => []ServiceOnLiveEngine
<1>1. MrcpInit => ServiceTypeInv /\ ConnInv /\ EngineInv
  BY ServiceTypeStart, ServiceStart
<1>2. ServiceTypeInv /\ [MrcpNext]_mrcpVars => ServiceTypeInv'
  BY ServiceTypeStep
<1>3. ServiceTypeInv /\ ConnInv /\ EngineInv /\ [MrcpNext]_mrcpVars
        => (ServiceTypeInv /\ ConnInv /\ EngineInv)'
  BY <1>2, ServiceStep
<1>4. EngineInv => ServiceOnLiveEngine
  BY DEF EngineInv
<1> QED BY <1>1, <1>3, <1>4, PTL DEF MrcpSpec

=============================================================================
