------------------------------ MODULE ThreadRing ------------------------------
(***************************************************************************)
(* thread/thread_server02.c: the main thread accepts connections and puts  *)
(* them into a ring of MAX_THREADS descriptors, worker threads take them   *)
(* out.  One mutex guards the ring, one condition variable announces a     *)
(* connection.  Nothing checks that the ring has room.                     *)
(*                                                                         *)
(* Every access to the ring is inside the mutex, so a critical section is  *)
(* one action; pthread_cond_wait ends the section and sleeps.  Connections *)
(* are numbered in the order of accept.  The default mutex and condition   *)
(* variable do not fail, so the exits on their errors are left out.        *)
(***************************************************************************)
EXTENDS Integers, Sequences

CONSTANTS
  MAX_THREADS,  \* size of the ring and of the thread table
  ArgN,         \* the option -n, -1 when it is not given
  MaxConn       \* bound: connections accepted

ASSUME RingAssumption == /\ MAX_THREADS \in Nat \ {0} /\ ArgN \in Int
                         /\ MaxConn \in Nat

VARIABLES
  fds, iget, iput,  \* the ring
  wpc, wconn,       \* each worker: where it is, and its connfd
  mpc, mconn,       \* the main thread: where it is, and its connfd
  created,          \* threads thread_pool_create has asked for
  nacc,             \* connections accepted so far
  pending,          \* history: the queue the ring stands for
  taken,            \* history: connections in the order the workers took them
  overrun           \* history: a put has hit a ring without room

vars == <<fds, iget, iput, wpc, wconn, mpc, mconn, created, nacc, pending,
          taken, overrun>>

Conn == 1..MaxConn
Slots == 0..(MAX_THREADS - 1)
Worker == 1..MAX_THREADS
NThreads == IF ArgN <= 0 \/ ArgN > MAX_THREADS THEN MAX_THREADS ELSE ArgN
Asleep == {w \in Worker : wpc[w] = "wait"}

Init ==
  /\ fds = [i \in Slots |-> 0] /\ iget = 0 /\ iput = 0  \* calloc
  /\ wpc = [w \in Worker |-> "none"] /\ wconn = [w \in Worker |-> 0]
  /\ mpc = "create" /\ mconn = 0 /\ created = 0
  /\ nacc = 0 /\ pending = <<>> /\ taken = <<>> /\ overrun = FALSE

-----------------------------------------------------------------------------
(* thread_pool_create: the workers run while the next one is created, and  *)
(* nobody looks at the result of pthread_create.                           *)

Create ==
  /\ mpc = "create" /\ created < NThreads
  /\ created' = created + 1
  /\ \E to \in {"lock", "none"} : wpc' = [wpc EXCEPT ![created + 1] = to]
  /\ UNCHANGED <<fds, iget, iput, wconn, mpc, mconn, nacc, pending, taken, overrun>>

Created ==
  /\ mpc = "create" /\ created = NThreads
  /\ mpc' = "accept"
  /\ UNCHANGED <<fds, iget, iput, wpc, wconn, mconn, created, nacc, pending,
                 taken, overrun>>

\* calloc or an init fails before the first thread: main goes on with a pool
\* pointer nobody set, and dies.
CreateFails ==
  /\ mpc = "create" /\ created = 0
  /\ mpc' = "exited"
  /\ UNCHANGED <<fds, iget, iput, wpc, wconn, mconn, created, nacc, pending,
                 taken, overrun>>

-----------------------------------------------------------------------------
(* thread_main *)

Accept ==
  /\ mpc = "accept" /\ nacc < MaxConn
  /\ nacc' = nacc + 1 /\ mconn' = nacc + 1 /\ mpc' = "put"
  /\ UNCHANGED <<fds, iget, iput, wpc, wconn, created, pending, taken, overrun>>

\* thread_main returns -1 and main exits.
AcceptFails ==
  /\ mpc = "accept"
  /\ mpc' = "exited"
  /\ UNCHANGED <<fds, iget, iput, wpc, wconn, mconn, created, nacc, pending,
                 taken, overrun>>

\* The ring tells MAX_THREADS - 1 entries from none, and MAX_THREADS as long
\* as iget has its initial value.
NoRoom == Len(pending) >= IF iget = 0 THEN MAX_THREADS ELSE MAX_THREADS - 1

\* pthread_cond_signal wakes one of the sleeping workers, if there is any.
Signal == \/ Asleep = {} /\ UNCHANGED wpc
          \/ \E w \in Asleep : wpc' = [wpc EXCEPT ![w] = "lock"]

\* Fault: the index wraps one slot late.
PutLateWrap ==
  /\ mpc = "put"
  /\ LET at == IF iput = MAX_THREADS THEN 1 % MAX_THREADS ELSE iput IN
       /\ fds' = [fds EXCEPT ![at] = mconn]
       /\ iput' = at + 1
  /\ Signal
  /\ pending' = Append(pending, mconn) /\ overrun' = (overrun \/ NoRoom)
  /\ mpc' = "accept"
  /\ UNCHANGED <<iget, wconn, mconn, created, nacc, taken>>

\* Fault: the put does not signal.
PutSilently ==
  /\ mpc = "put"
  /\ LET at == IF iput = MAX_THREADS THEN 0 ELSE iput IN
       /\ fds' = [fds EXCEPT ![at] = mconn]
       /\ iput' = at + 1
  /\ pending' = Append(pending, mconn) /\ overrun' = (overrun \/ NoRoom)
  /\ mpc' = "accept"
  /\ UNCHANGED <<iget, wpc, wconn, mconn, created, nacc, taken>>

Put ==
  /\ mpc = "put"
  /\ LET at == IF iput = MAX_THREADS THEN 0 ELSE iput IN
       /\ fds' = [fds EXCEPT ![at] = mconn]
       /\ iput' = at + 1
  /\ Signal
  /\ pending' = Append(pending, mconn) /\ overrun' = (overrun \/ NoRoom)
  /\ mpc' = "accept"
  /\ UNCHANGED <<iget, wconn, mconn, created, nacc, taken>>

-----------------------------------------------------------------------------
(* thread_worker *)

Sleep(w) ==
  /\ mpc # "exited" /\ wpc[w] = "lock" /\ iput = iget
  /\ wpc' = [wpc EXCEPT ![w] = "wait"]
  /\ UNCHANGED <<fds, iget, iput, wconn, mpc, mconn, created, nacc, pending,
                 taken, overrun>>

\* pthread_cond_wait may return without a signal.
Spurious(w) ==
  /\ mpc # "exited" /\ wpc[w] = "wait"
  /\ wpc' = [wpc EXCEPT ![w] = "lock"]
  /\ UNCHANGED <<fds, iget, iput, wconn, mpc, mconn, created, nacc, pending,
                 taken, overrun>>

Take(w) ==
  /\ mpc # "exited" /\ wpc[w] = "lock" /\ iput # iget
  /\ LET at == IF iget = MAX_THREADS THEN 0 ELSE iget IN
       /\ wconn' = [wconn EXCEPT ![w] = fds[at]]
       /\ iget' = at + 1
       /\ taken' = Append(taken, fds[at])
  /\ pending' = IF pending = <<>> THEN <<>> ELSE Tail(pending)
  /\ wpc' = [wpc EXCEPT ![w] = "process"]
  /\ UNCHANGED <<fds, iput, mpc, mconn, created, nacc, overrun>>

\* process_msg returned.
Processed(w) ==
  /\ mpc # "exited" /\ wpc[w] = "process"
  /\ wpc' = [wpc EXCEPT ![w] = "lock"] /\ wconn' = [wconn EXCEPT ![w] = 0]
  /\ UNCHANGED <<fds, iget, iput, mpc, mconn, created, nacc, pending, taken, overrun>>

-----------------------------------------------------------------------------

Work(w) == Sleep(w) \/ Take(w) \/ Processed(w)

Main == Create \/ Created \/ Put

Env == CreateFails \/ Accept \/ AcceptFails \/ \E w \in Worker : Spurious(w)

\* The process is gone, or the server waits for clients that do not come.
Idle ==
  /\ \/ mpc = "exited"
     \/ mpc = "accept" /\ nacc = MaxConn
  /\ UNCHANGED vars

Next == Env \/ Main \/ Idle \/ \E w \in Worker : Work(w)

Spec == Init /\ [][Next]_vars

\* The threads are scheduled; no client has to come, and no wakeup is spurious
\* by right.
Fairness == WF_vars(Main) /\ \A w \in Worker : WF_vars(Work(w))

FairSpec == Spec /\ Fairness

-----------------------------------------------------------------------------
(* Properties *)

\* Every variable keeps its type; the indices stay within the ring.
TypeOK ==
  /\ fds \in [Slots -> Conn \cup {0}]
  /\ iget \in 0..MAX_THREADS /\ iput \in 0..MAX_THREADS
  /\ wpc \in [Worker -> {"none", "lock", "wait", "process"}]
  /\ wconn \in [Worker -> Conn \cup {0}]
  /\ mpc \in {"create", "accept", "put", "exited"} /\ mconn \in Conn \cup {0}
  /\ created \in 0..MAX_THREADS /\ nacc \in 0..MaxConn
  /\ pending \in Seq(Conn) /\ taken \in Seq(Conn \cup {0}) /\ overrun \in BOOLEAN

\* The slot of the k-th connection waiting in the ring.
SlotOf(k) == IF iget + k - 1 >= MAX_THREADS THEN iget + k - 1 - MAX_THREADS
                                            ELSE iget + k - 1

\* Until a connection is put into a ring without room, the ring is a queue:
\* the test iput == iget finds it empty exactly when nothing waits, and its
\* slots hold the waiting connections in order, however often it has wrapped.
QueueUntilOverrun ==
  ~overrun =>
    /\ (iput = iget) <=> (pending = <<>>)
    /\ \A k \in DOMAIN pending : fds[SlotOf(k)] = pending[k]

\* A signal is never missed: a waiting connection is taken, unless the process
\* exits, no thread could be created, or the ring has overrun.
WaitingServed ==
  \A c \in Conn :
    (\E k \in DOMAIN pending : pending[k] = c)
      ~> \/ \E k \in DOMAIN taken : taken[k] = c
         \/ mpc = "exited" \/ overrun \/ \A w \in Worker : wpc[w] = "none"

=============================================================================
