------------------------------ MODULE ThreadSlot ------------------------------
(***************************************************************************)
(* thread/thread_server01.c: the main thread accepts connections and hands *)
(* them to worker threads through a single slot (connfd, ready).  Workers  *)
(* sleep on cond while the slot is empty, the main thread on main_cond     *)
(* while it is full.                                                       *)
(*                                                                         *)
(* The server is thread_server01.c when mainWaits holds, and otherwise the *)
(* earlier thread_server_2err.c, which has no main_cond and overwrites.    *)
(*                                                                         *)
(* The slot is only touched inside the mutex: a critical section is one    *)
(* action, and pthread_cond_wait ends it.  Connections are numbered in     *)
(* the order of accept.                                                    *)
(***************************************************************************)
EXTENDS Integers, Sequences

CONSTANTS
  NThreads,   \* the option -n, at most the size of the table tids
  Servers,    \* which of the two servers may run, as values of mainWaits
  MaxConn     \* bound: connections accepted

ASSUME SlotAssumption == NThreads \in Nat /\ Servers \subseteq BOOLEAN /\ MaxConn \in Nat

VARIABLES
  mainWaits,      \* which of the two servers runs
  connfd, ready,  \* the slot
  wpc,            \* where each worker is
  mpc, mconn,     \* the main thread: where it is, and its connfd
  created,        \* threads thread_pool_create has asked for
  nacc,           \* connections accepted so far
  taken           \* history: connections in the order the workers took them

vars == <<mainWaits, connfd, ready, wpc, mpc, mconn, created, nacc, taken>>

Worker == 1..NThreads
Asleep == {w \in Worker : wpc[w] = "wait"}

Init ==
  /\ mainWaits \in Servers
  /\ connfd = 0 /\ ready = 0
  /\ wpc = [w \in Worker |-> "none"]
  /\ mpc = "create" /\ mconn = 0 /\ created = 0 /\ nacc = 0 /\ taken = <<>>

\* calloc or an init fails before the first thread: main goes on with a pool
\* pointer nobody set, and dies.
CreateFails ==
  /\ mpc = "create" /\ created = 0
  /\ mpc' = "exited"
  /\ UNCHANGED <<connfd, ready, wpc, mconn, created, nacc, taken>>

\* The result of pthread_create is not looked at.
Create ==
  /\ mpc = "create" /\ created < NThreads
  /\ created' = created + 1
  /\ \E to \in {"lock", "none"} : wpc' = [wpc EXCEPT ![created + 1] = to]
  /\ UNCHANGED <<connfd, ready, mpc, mconn, nacc, taken>>

Created ==
  /\ mpc = "create" /\ created = NThreads
  /\ mpc' = "accept"
  /\ UNCHANGED <<connfd, ready, wpc, mconn, created, nacc, taken>>

-----------------------------------------------------------------------------
(* thread_main *)

Accept ==
  /\ mpc = "accept" /\ nacc < MaxConn
  /\ nacc' = nacc + 1 /\ mconn' = nacc + 1 /\ mpc' = "lock"
  /\ UNCHANGED <<connfd, ready, wpc, created, taken>>

\* thread_main returns, main returns: the process is gone.
AcceptFails ==
  /\ mpc = "accept"
  /\ mpc' = "exited"
  /\ UNCHANGED <<connfd, ready, wpc, mconn, created, nacc, taken>>

MainSleeps ==
  /\ mainWaits /\ mpc = "lock" /\ ready = 1
  /\ mpc' = "wait"
  /\ UNCHANGED <<connfd, ready, wpc, mconn, created, nacc, taken>>

\* pthread_cond_signal(&pool->cond)
SignalWorker == \/ Asleep = {} /\ UNCHANGED wpc
                \/ \E w \in Asleep : wpc' = [wpc EXCEPT ![w] = "lock"]

Fill == /\ connfd' = mconn /\ ready' = 1 /\ mpc' = "accept"
        /\ UNCHANGED <<mconn, created, nacc, taken>>

\* Fault: the slot is not looked at before it is filled.
PutBlindly == mainWaits /\ mpc = "lock" /\ Fill /\ SignalWorker

\* Fault: the workers are not signalled.
PutSilently == mainWaits /\ mpc = "lock" /\ ready = 0 /\ Fill /\ UNCHANGED wpc

Put == mainWaits /\ mpc = "lock" /\ ready = 0 /\ Fill /\ SignalWorker

\* thread_server_2err.c
PutOver == ~mainWaits /\ mpc = "lock" /\ Fill /\ SignalWorker

-----------------------------------------------------------------------------
(* thread_worker *)

Sleep(w) ==
  /\ mpc # "exited" /\ wpc[w] = "lock" /\ ready = 0
  /\ wpc' = [wpc EXCEPT ![w] = "wait"]
  /\ UNCHANGED <<connfd, ready, mpc, mconn, created, nacc, taken>>

\* pthread_cond_signal(&p->main_cond), in thread_server01.c only.
SignalMain == mpc' = IF mainWaits /\ mpc = "wait" THEN "lock" ELSE mpc

Take(w) ==
  /\ mpc # "exited" /\ wpc[w] = "lock" /\ ready = 1
  /\ taken' = Append(taken, connfd) /\ ready' = 0
  /\ SignalMain
  /\ wpc' = [wpc EXCEPT ![w] = "process"]
  /\ UNCHANGED <<connfd, mconn, created, nacc>>

Processed(w) ==
  /\ mpc # "exited" /\ wpc[w] = "process"
  /\ wpc' = [wpc EXCEPT ![w] = "lock"]
  /\ UNCHANGED <<connfd, ready, mpc, mconn, created, nacc, taken>>

\* pthread_cond_wait may return without a signal.
Spurious ==
  /\ mpc # "exited"
  /\ \/ /\ mpc = "wait" /\ mpc' = "lock" /\ UNCHANGED wpc
     \/ /\ \E w \in Asleep : wpc' = [wpc EXCEPT ![w] = "lock"]
        /\ UNCHANGED mpc
  /\ UNCHANGED <<connfd, ready, mconn, created, nacc, taken>>

-----------------------------------------------------------------------------

Work(w) == Sleep(w) \/ Take(w) \/ Processed(w)

Main == Create \/ Created \/ MainSleeps \/ Put \/ PutOver

\* The process is gone, or no more clients come.
Idle == /\ mpc = "exited" \/ (mpc = "accept" /\ nacc = MaxConn)
        /\ UNCHANGED vars

\* pthread_create failed every time: main fills the slot and waits for ever.
NoThreads == /\ mpc = "wait" /\ \A w \in Worker : wpc[w] = "none"
             /\ UNCHANGED vars

Next == /\ \/ CreateFails \/ Accept \/ AcceptFails \/ Spurious \/ Main \/ Idle \/ NoThreads
           \/ \E w \in Worker : Work(w)
        /\ UNCHANGED mainWaits

Spec == Init /\ [][Next]_vars

\* The threads are scheduled; clients and spurious wakeups are not owed.
Fairness == /\ WF_vars(Main /\ UNCHANGED mainWaits)
            /\ \A w \in Worker : WF_vars(Work(w) /\ UNCHANGED mainWaits)

FairSpec == Spec /\ Fairness

-----------------------------------------------------------------------------
(* Properties *)

\* Every variable keeps its type.
TypeOK ==
  /\ mainWaits \in Servers /\ connfd \in 0..MaxConn /\ ready \in 0..1
  /\ wpc \in [Worker -> {"none", "lock", "wait", "process"}]
  /\ mpc \in {"create", "accept", "lock", "wait", "exited"}
  /\ mconn \in 0..MaxConn /\ created \in 0..NThreads /\ nacc \in 0..MaxConn
  /\ taken \in Seq(1..MaxConn)

\* The connections no worker has taken: the one in the slot, then main's own.
Waiting == LET own == mpc \in {"lock", "wait"}
           IN IF ready = 1 THEN IF own THEN <<connfd, mconn>> ELSE <<connfd>>
                           ELSE IF own THEN <<mconn>> ELSE <<>>

Promise == INSTANCE HandOff
             WITH reliable <- mainWaits, accepted <- nacc, waiting <- Waiting, taken <- taken

\* One slot, one flag and two condition variables are a hand-off in the order of
\* accept: every step of main and of the workers is a step of HandOff.  The slot
\* of thread_server01.c is never overwritten and never read twice;
\* thread_server_2err.c may overwrite it, and that is all it may do wrong.
HandsOff == Promise!Spec

\* Main and the workers never sleep on each other: as long as a thread exists,
\* what is in the slot is taken and the main thread gets rid of its connection.
NoStandstill ==
  /\ ready = 1 ~> (ready = 0 \/ mpc = "exited" \/ \A w \in Worker : wpc[w] = "none")
  /\ mpc = "wait" ~> (mpc = "accept" \/ \A w \in Worker : wpc[w] = "none")

=============================================================================
