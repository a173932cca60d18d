------------------------------ MODULE ProcessPool ------------------------------
(***************************************************************************)
(* The process pool of processpool/src/processpool.c.                      *)
(*                                                                         *)
(* A parent process writes task records into a stream socket pair, the     *)
(* children it forked read them and run them.  Nothing but the socket is   *)
(* shared: the parent never learns which child runs a task, nor that a     *)
(* child has left.  A child leaves when it finds the socket empty for      *)
(* longer than its timeout; a parent whose socket stays full for longer    *)
(* than its timeout may fork another child (PP_AUTO_ADD).                  *)
(*                                                                         *)
(* Data abstraction: a task record is named by the call of pp_pool_add     *)
(* that writes it and by the loop counter ntry of that call, so that the   *)
(* two records one call can write are told apart (on the socket they are   *)
(* equal).  A record is 24 bytes long and a local stream socket takes and  *)
(* yields it whole, so reads and writes of a record are atomic.  Time is   *)
(* not modelled: a select may time out whenever nothing is ready.          *)
(***************************************************************************)
EXTENDS Integers, Sequences

CONSTANTS
  ArgNp,         \* the first argument of pp_pool_new
  ArgMin,        \* the optional arguments of pp_pool_new
  ArgFlags,
  ArgMs,
  Garbage,       \* what an int of malloc'ed memory may hold
  GarbageFlags,  \* the same for the flags word
  SockCap,       \* records the socket buffer holds
  MaxAdds,       \* bound: calls of pp_pool_add
  MaxAddn,       \* bound: processes asked for by one pp_pool_process_addn
  KernelErrors   \* whether write and select may fail for other reasons

\* It ends the arguments, and cannot be one of them.
PP_NULL == -2

Flag == {"AUTO_ADD", "AUTO_DEL", "MIN_CREATE", "MAX_CREATE"}

ASSUME ArgAssumption == /\ ArgNp \subseteq Int /\ ArgMin \subseteq Int \ {PP_NULL}
                        /\ ArgMs \subseteq Int \ {PP_NULL} /\ Garbage \subseteq Int
                        /\ ArgFlags \subseteq SUBSET Flag
                        /\ GarbageFlags \subseteq SUBSET Flag
ASSUME BoundAssumption == /\ SockCap \in Nat \ {0} /\ MaxAdds \in Nat
                          /\ MaxAddn \in Nat /\ KernelErrors \in BOOLEAN

VARIABLES
  pool,     \* struct pp_pool_t, in the parent
  pc,       \* where the parent is
  back,     \* who called pp_pool_process_addn
  togo,     \* n - i of pp_pool_process_addn
  ntry,     \* the counter of the loop in pp_pool_add
  nadd,     \* calls of pp_pool_add so far; the last one is the current one
  result,   \* what each call of pp_pool_add returned
  sock,     \* records between fd[PARENT] and fd[CHILD]
  child,    \* the forked children, in order
  run0,     \* history: run_process as malloc left it
  written,  \* history: records that entered the socket
  done      \* history: records some child has run

parentVars == <<pool, pc, back, togo, ntry, nadd, result, run0, written>>
vars == <<pool, pc, back, togo, ntry, nadd, result, sock, child, run0,
          written, done>>

Call == 1..MaxAdds
Rec == [call : Call, try : 1..2]
NoRec == [call |-> 0, try |-> 0]
Result == {"none", "ok", "timeout", "error"}
Pool == [max : Int, min : Int, run : Int, flags : SUBSET Flag, ms : Int]
Child == [pc : {"read", "select", "run", "bye", "exited"}, rec : Rec \cup {NoRec}]

Queued == {sock[i] : i \in DOMAIN sock}
Running == {c \in DOMAIN child : child[c].pc = "run"}
Held == {child[c].rec : c \in Running}
Live == {c \in DOMAIN child : child[c].pc # "exited"}

Init ==
  /\ pool = [max |-> 0, min |-> 0, run |-> 0, flags |-> {}, ms |-> 500]
  /\ pc = "start" /\ back = "new" /\ togo = 0 /\ ntry = 0 /\ nadd = 0
  /\ result = [i \in Call |-> "none"]
  /\ sock = <<>> /\ child = <<>>
  /\ run0 = 0 /\ written = {} /\ done = {}

-----------------------------------------------------------------------------
(* pp_pool_new *)

(***************************************************************************)
(* What malloc, the two assignments after it and pp_pool_args_set leave in *)
(* the pool: n of the optional arguments come before PP_NULL, the fields   *)
(* the others would set keep what malloc found.  Nothing sets run.         *)
(***************************************************************************)
NewFields(np, n) ==
  [max   : {np},
   min   : IF n >= 1 THEN ArgMin ELSE Garbage,
   run   : Garbage,
   flags : IF n >= 2 THEN ArgFlags ELSE GarbageFlags,
   ms    : IF n >= 3 THEN ArgMs ELSE {500}]

ValidPool(p) == /\ p.min <= p.max
                /\ p.min >= 0
                /\ ~({"MIN_CREATE", "MAX_CREATE"} \subseteq p.flags)

NeedNprocess(p) == IF "MIN_CREATE" \in p.flags THEN p.min ELSE p.max

PoolNewFails ==
  /\ pc = "start"
  /\ \/ \E np \in ArgNp : np <= 0
     \/ KernelErrors              \* socketpair or fcntl fails
     \/ \E np \in ArgNp, n \in 0..3 : \E p \in NewFields(np, n) : ~ValidPool(p)
  /\ pc' = "null"
  /\ UNCHANGED <<pool, back, togo, ntry, nadd, result, sock, child, run0,
                 written, done>>

PoolNew(np, n) ==
  /\ pc = "start" /\ np > 0
  /\ \E p \in NewFields(np, n) :
       /\ ValidPool(p)
       /\ pool' = p /\ run0' = p.run /\ togo' = NeedNprocess(p)
  /\ pc' = "addn" /\ back' = "new"
  /\ UNCHANGED <<ntry, nadd, result, sock, child, written, done>>

-----------------------------------------------------------------------------
(* pp_pool_process_addn and pp_pool_process_add_core *)

\* The call of pp_pool_add in progress returns r.
AddReturns(r) == /\ result' = [result EXCEPT ![nadd] = r]
                 /\ pc' = "idle" /\ ntry' = 0

\* Fault: the loop counter is not decremented.
NextTryStuck == pc' = "write" /\ UNCHANGED <<ntry, result>>

\* ntry--, and the test of the for statement of pp_pool_add.
NextTry == IF ntry > 1
             THEN pc' = "write" /\ ntry' = ntry - 1 /\ UNCHANGED result
             ELSE AddReturns("ok")

AddnCall(n) ==
  /\ pc = "idle"
  /\ pc' = "addn" /\ back' = "api" /\ togo' = n
  /\ UNCHANGED <<pool, ntry, nadd, result, sock, child, run0, written, done>>

AddCoreFull ==
  /\ pc = "addn" /\ togo > 0 /\ pool.run > pool.max
  /\ togo' = togo - 1
  /\ UNCHANGED <<pool, pc, back, ntry, nadd, result, sock, child, run0,
                 written, done>>

\* Fault: the parent forgets to count the fork.
AddCoreForkUncounted ==
  /\ pc = "addn" /\ togo > 0 /\ pool.run <= pool.max
  /\ child' = Append(child, [pc |-> "read", rec |-> NoRec])
  /\ togo' = togo - 1
  /\ UNCHANGED <<pool, pc, back, ntry, nadd, result, sock, run0, written, done>>

AddCoreFork ==
  /\ pc = "addn" /\ togo > 0 /\ pool.run <= pool.max
  /\ pool' = [pool EXCEPT !.run = @ + 1]
  /\ child' = Append(child, [pc |-> "read", rec |-> NoRec])
  /\ togo' = togo - 1
  /\ UNCHANGED <<pc, back, ntry, nadd, result, sock, run0, written, done>>

AddCoreForkFails ==
  /\ KernelErrors
  /\ pc = "addn" /\ togo > 0 /\ pool.run <= pool.max
  /\ togo' = 0
  /\ \/ back = "new" /\ pc' = "exit" /\ UNCHANGED <<ntry, result>>
     \/ back = "api" /\ pc' = "idle" /\ UNCHANGED <<ntry, result>>
     \/ back = "add" /\ AddReturns("error")
  /\ UNCHANGED <<pool, back, nadd, sock, child, run0, written, done>>

AddnReturns ==
  /\ pc = "addn" /\ togo = 0
  /\ \/ back \in {"new", "api"} /\ pc' = "idle" /\ UNCHANGED <<ntry, result>>
     \/ back = "add" /\ NextTry
  /\ UNCHANGED <<pool, back, togo, nadd, sock, child, run0, written, done>>

-----------------------------------------------------------------------------
(* pp_pool_add and writen_timedwait *)

PoolAdd ==
  /\ pc = "idle" /\ nadd < MaxAdds
  /\ nadd' = nadd + 1 /\ ntry' = 2 /\ pc' = "write"
  /\ UNCHANGED <<pool, back, togo, result, sock, child, run0, written, done>>

CurRec == [call |-> nadd, try |-> ntry]

Write ==
  /\ pc = "write" /\ Len(sock) < SockCap
  /\ sock' = Append(sock, CurRec)
  /\ written' = written \cup {CurRec}
  /\ NextTry
  /\ UNCHANGED <<pool, back, togo, nadd, child, run0, done>>

WriteAgain ==  \* EAGAIN
  /\ pc = "write" /\ Len(sock) >= SockCap
  /\ pc' = "wselect"
  /\ UNCHANGED <<pool, back, togo, ntry, nadd, result, sock, child, run0,
                 written, done>>

WriteReady ==
  /\ pc = "wselect" /\ pool.ms >= -1 /\ Len(sock) < SockCap
  /\ pc' = "write"
  /\ UNCHANGED <<pool, back, togo, ntry, nadd, result, sock, child, run0,
                 written, done>>

\* Fault: a timeout without PP_AUTO_ADD falls through to the next try.
WriteTimedOutIgnored ==
  /\ pc = "wselect" /\ pool.ms >= 0 /\ Len(sock) >= SockCap
  /\ NextTry
  /\ UNCHANGED <<pool, back, togo, nadd, sock, child, run0, written, done>>

WriteTimedOut ==
  /\ pc = "wselect" /\ pool.ms >= 0 /\ Len(sock) >= SockCap
  /\ \/ /\ "AUTO_ADD" \in pool.flags
        /\ pc' = "addn" /\ back' = "add" /\ togo' = 1
        /\ UNCHANGED <<ntry, result>>
     \/ /\ "AUTO_ADD" \notin pool.flags
        /\ AddReturns("timeout")
        /\ UNCHANGED <<back, togo>>
  /\ UNCHANGED <<pool, nadd, sock, child, run0, written, done>>

\* Any other error: select rejects a timeout below -1, the kernel may fail.
WriteFails ==
  /\ \/ pc = "wselect" /\ (pool.ms < -1 \/ KernelErrors)
     \/ pc = "write" /\ KernelErrors
  /\ AddReturns("error")
  /\ UNCHANGED <<pool, back, togo, nadd, sock, child, run0, written, done>>

-----------------------------------------------------------------------------
(* pp_pool_wait and pp_pool_free, in the parent *)

PoolWait ==
  /\ pc = "idle" /\ pc' = "wait"
  /\ UNCHANGED <<pool, back, togo, ntry, nadd, result, sock, child, run0,
                 written, done>>

\* wait(2) fails once every child has been reaped.
WaitReturns ==
  /\ pc = "wait" /\ Live = {}
  /\ pc' = "idle"
  /\ UNCHANGED <<pool, back, togo, ntry, nadd, result, sock, child, run0,
                 written, done>>

\* The children keep both ends of the socket open.
PoolFree ==
  /\ pc = "idle" /\ pc' = "freed"
  /\ UNCHANGED <<pool, back, togo, ntry, nadd, result, sock, child, run0,
                 written, done>>

-----------------------------------------------------------------------------
(* pp_pool_process_loop and readn_timedwait, in child c *)

SetChild(c, to, r) == child' = [child EXCEPT ![c] = [pc |-> to, rec |-> r]]

\* Fault: the record is peeked at and stays in the socket.
ChildReadPeek(c) ==
  /\ child[c].pc = "read" /\ sock # <<>>
  /\ SetChild(c, "run", Head(sock))
  /\ UNCHANGED <<sock, done>> /\ UNCHANGED parentVars

\* Fault: the newest record is taken first.
ChildReadNewest(c) ==
  /\ child[c].pc = "read" /\ sock # <<>>
  /\ SetChild(c, "run", sock[Len(sock)])
  /\ sock' = SubSeq(sock, 1, Len(sock) - 1)
  /\ UNCHANGED done /\ UNCHANGED parentVars

ChildRead(c) ==
  /\ child[c].pc = "read" /\ sock # <<>>
  /\ SetChild(c, "run", Head(sock))
  /\ sock' = Tail(sock)
  /\ UNCHANGED done /\ UNCHANGED parentVars

ChildAgain(c) ==  \* EAGAIN
  /\ child[c].pc = "read" /\ sock = <<>>
  /\ SetChild(c, "select", NoRec)
  /\ UNCHANGED <<sock, done>> /\ UNCHANGED parentVars

ChildReady(c) ==
  /\ child[c].pc = "select" /\ pool.ms >= 0 /\ sock # <<>>
  /\ SetChild(c, "read", NoRec)
  /\ UNCHANGED <<sock, done>> /\ UNCHANGED parentVars

\* Fault: the child waits without a timeout.
ChildLeavesNever(c) ==
  /\ child[c].pc = "select" /\ pool.ms < 0
  /\ SetChild(c, "bye", NoRec)
  /\ UNCHANGED <<sock, done>> /\ UNCHANGED parentVars

\* Fault: the child leaves without looking whether a record has come.
ChildLeavesBlindly(c) ==
  /\ child[c].pc = "select"
  /\ SetChild(c, "bye", NoRec)
  /\ UNCHANGED <<sock, done>> /\ UNCHANGED parentVars

\* The timeout of a child is 2 * ms: select rejects every negative one.
ChildLeaves(c) ==
  /\ child[c].pc = "select"
  /\ sock = <<>> \/ pool.ms < 0 \/ KernelErrors
  /\ SetChild(c, "bye", NoRec)
  /\ UNCHANGED <<sock, done>> /\ UNCHANGED parentVars

ChildRan(c) ==  \* arg.func(arg.arg) returned
  /\ child[c].pc = "run"
  /\ SetChild(c, "read", NoRec)
  /\ done' = done \cup {child[c].rec}
  /\ UNCHANGED sock /\ UNCHANGED parentVars

ChildExit(c) ==  \* pp_pool_free closes the child's own descriptors
  /\ child[c].pc = "bye"
  /\ SetChild(c, "exited", NoRec)
  /\ UNCHANGED <<sock, done>> /\ UNCHANGED parentVars

-----------------------------------------------------------------------------

ChildStep(c) == \/ ChildRead(c) \/ ChildAgain(c) \/ ChildReady(c)
                \/ ChildLeaves(c) \/ ChildRan(c) \/ ChildExit(c)

\* The parent inside a call of the library.
InCall == \/ AddCoreFull \/ AddCoreFork \/ AddCoreForkFails \/ AddnReturns
          \/ Write \/ WriteAgain \/ WriteReady \/ WriteTimedOut \/ WriteFails
          \/ WaitReturns

\* The client program makes its next call.
Client == \/ PoolNewFails
          \/ \E np \in ArgNp, n \in 0..3 : PoolNew(np, n)
          \/ PoolAdd
          \/ \E n \in 1..MaxAddn : AddnCall(n)
          \/ PoolWait
          \/ PoolFree

Terminated == pc \in {"null", "exit", "freed"} /\ Live = {}

Done == Terminated /\ UNCHANGED vars

Next == Client \/ InCall \/ (\E c \in DOMAIN child : ChildStep(c)) \/ Done

Spec == Init /\ [][Next]_vars

\* Bound on the pids, for the fairness of the children.
MaxChildren == 8

\* The scheduler runs the parent inside a call and every child; what the
\* client calls next, and whether the kernel fails, is up to them.
Fairness == /\ WF_vars(InCall)
            /\ \A c \in 1..MaxChildren : WF_vars(c \in DOMAIN child /\ ChildStep(c))

FairSpec == Spec /\ Fairness

-----------------------------------------------------------------------------
(* Properties *)

\* Every variable keeps its type, and the socket its limit.
TypeOK ==
  /\ pool \in Pool
  /\ pc \in {"start", "addn", "idle", "write", "wselect", "wait", "null",
             "exit", "freed"}
  /\ back \in {"new", "add", "api"}
  /\ togo \in Nat /\ ntry \in 0..2 /\ nadd \in 0..MaxAdds
  /\ result \in [Call -> Result]
  /\ sock \in Seq(Rec) /\ Len(sock) <= SockCap
  /\ child \in Seq(Child)
  /\ run0 \in Int /\ written \subseteq Rec /\ done \subseteq Rec

\* Record r was handed to the socket before record q.
Before(r, q) == r.call < q.call \/ (r.call = q.call /\ r.try > q.try)

\* However the children race for the socket, every record written is in one
\* place: in the socket, with the one child running it, or run; no record is
\* read by two children, lost on the way or run again.
Delivery ==
  /\ written = done \cup Held \cup Queued
  /\ done \cap Held = {} /\ done \cap Queued = {} /\ Held \cap Queued = {}
  /\ \A i, j \in DOMAIN sock : sock[i] = sock[j] => i = j
  /\ \A c, d \in Running : child[c].rec = child[d].rec => c = d

\* The children start records in the order in which pp_pool_add wrote them.
StartedInOrder ==
  /\ \A i, j \in DOMAIN sock : i < j => Before(sock[i], sock[j])
  /\ \A r \in done \cup Held, q \in Queued : Before(r, q)

\* run_process counts the forks and never a child that has left: over its
\* whole life a pool forks at most max_process + 1 children, less what malloc
\* left in run_process.
ForkBudget ==
  /\ pool.run = run0 + Len(child)
  /\ child # <<>> => Len(child) <= pool.max + 1 - run0

\* What the return value of pp_pool_add tells about the socket.  Without
\* PP_AUTO_ADD, 0 means that the record went in twice and PP_TIMEOUT that it
\* went in at most once; with PP_AUTO_ADD there is no PP_TIMEOUT.  A call that
\* has not begun has written nothing.
AddResult ==
  \A i \in Call :
    /\ result[i] = "ok" /\ "AUTO_ADD" \notin pool.flags
         => \A t \in 1..2 : [call |-> i, try |-> t] \in written
    /\ result[i] = "timeout"
         => "AUTO_ADD" \notin pool.flags /\ [call |-> i, try |-> 1] \notin written
    /\ result[i] = "none" /\ pc = "idle"
         => \A t \in 1..2 : [call |-> i, try |-> t] \notin written

\* A call of pp_pool_add, pp_pool_new or pp_pool_process_addn ends: the parent
\* never stays in select, because a full socket times out.
CallsReturn == (pc \in {"write", "wselect", "addn"}) ~> (pc \in {"idle", "exit"})

\* pp_pool_wait ends although nothing tells the children to stop: each of them
\* leaves after the socket has been empty for long enough.
WaitEnds == (pc = "wait") ~> (pc = "idle")

\* A record in the socket is run as long as one child has not given up when it
\* is written: a child that finds the socket full again goes back to reading.
QueuedServed ==
  \A r \in Rec :
    (r \in Queued /\ \E c \in DOMAIN child : child[c].pc \in {"read", "select", "run"})
      ~> (r \in done)

=============================================================================
