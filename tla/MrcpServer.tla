------------------------------ MODULE MrcpServer ------------------------------
(***************************************************************************)
(* The speech recognition service of thread/: clients call the stubs of    *)
(* libusc_mrcp.c, each of which sends a record naming a function; the      *)
(* workers of thread_server.c take turns at accept and run process_msg of  *)
(* user.c on the connection they got, until it is closed.                  *)
(*                                                                         *)
(* The workers share one engine handle (user_asr) and a flag (status) that *)
(* says whether it is open.  A client uses two connections: one to open    *)
(* and close the engine, one for the recognition.  Opening is not          *)
(* answered, so the second connection waits on user_cond until status is   *)
(* set.  user_asr is tested and cleared, and status is cleared, without    *)
(* user_mutex: those steps are separate actions.                           *)
(*                                                                         *)
(* What can fail: sock_connect, after which the test program goes on with  *)
(* a handle that is no descriptor; usc_mrcp_asr_init of the engine, whose  *)
(* result is only printed; and the result of the recognition, after which  *)
(* no answer of full length is sent.                                       *)
(*                                                                         *)
(* Records are named by the function they call; the functions that only    *)
(* use the handle of the connection are one message, "use".  The engine is *)
(* external: opening it yields a fresh handle.                             *)
(***************************************************************************)
EXTENDS Integers, Sequences, FiniteSets

CONSTANTS
  Client,    \* client programs
  MaxRound,  \* bound: runs of the test program, of all clients together
  MaxFail,   \* bound: connects and recognitions that fail
  NWorkers   \* workers of the pool

ASSUME MrcpAssumption ==
  /\ IsFiniteSet(Client) /\ MaxRound \in Nat \ {0}
  /\ MaxFail \in Nat /\ NWorkers \in Nat \ {0}

VARIABLES
  round, step,  \* each client: its position in the calls of the test program;
                \* round 0 is a client that is never started
  inbox,        \* records sent on a connection and not yet read
  replied,      \* connections with an answer the client has not read
  open,         \* connections the client has not closed
  backlog,      \* connections nobody has accepted, in order
  tpc, wconn,   \* each worker: where it is, and its connection
  user_asr,     \* the engine handle, -1 when there is none
  status,
  opened,       \* history: engine handles that were ever opened
  live,         \* the engine's open handles
  unopened,     \* history: the last opening of the engine failed
  nfail,        \* history: connects and recognitions that failed
  hit           \* history: the runs between asr_init and the answer of get that met
                \* an asr_destroy carried out by a worker

mrcpVars == <<round, step, inbox, replied, open, backlog, tpc, wconn, user_asr,
          status, opened, live, unopened, nfail, hit>>

Conn == Client \X (1..MaxRound) \X {"asr", "svc"}
Thread == 1..NWorkers
NoConn == <<>>

\* The calls of main in libusc_mrcp.c; "got" and "destroyed" wait for the answer
\* of the call before them.
Script == <<"asr_init", "service_init", "use", "get", "got", "release",
            "asr_destroy", "destroyed">>

Asr(c) == <<c, round[c], "asr">>
Svc(c) == <<c, round[c], "svc">>

MrcpInit ==
  /\ round \in [Client -> 0..1] /\ step = [c \in Client |-> 1]
  /\ inbox = [k \in Conn |-> <<>>]
  /\ replied = {} /\ open = {} /\ backlog = <<>>
  /\ tpc = [w \in Thread |-> "accept"] /\ wconn = [w \in Thread |-> NoConn]
  /\ user_asr = -1 /\ status = 0 /\ opened = {} /\ live = {}
  /\ unopened = FALSE /\ nfail = 0 /\ hit = {}

-----------------------------------------------------------------------------
(* libusc_mrcp.c, in client c *)

At(c, call) == round[c] > 0 /\ step[c] <= Len(Script) /\ Script[step[c]] = call

Runs == {r \in Client \X (1..MaxRound) : r[2] <= round[r[1]]}

\* The call returns, and the test program makes the next one, or is started again.
Returns(c) ==
  IF step[c] = Len(Script) /\ Cardinality(Runs) < MaxRound
    THEN /\ step' = [step EXCEPT ![c] = 1]
         /\ round' = [round EXCEPT ![c] = @ + 1]
    ELSE /\ step' = [step EXCEPT ![c] = @ + 1]
         /\ UNCHANGED round

\* A worker has read an asr_destroy and is not through with it.
Destroying == \E w \in Thread : tpc[w] \in {"destroy", "clear", "close"}

HitFrom(c, call) ==
  IF call = "asr_init" /\ Destroying THEN hit \cup {<<c, round[c]>>} ELSE hit

\* sock_connect, then the first record.
CallConnect(c, k, call) ==
  /\ At(c, call)
  /\ open' = open \cup {k} /\ backlog' = Append(backlog, k)
  /\ inbox' = [inbox EXCEPT ![k] = Append(@, call)]
  /\ hit' = HitFrom(c, call)
  /\ Returns(c)
  /\ UNCHANGED <<replied, tpc, wconn, user_asr, status, opened, live, unopened, nfail>>

\* sock_connect fails: the stub returns -1 and leaves the handle unset; main prints that
\* and makes its next call.
ConnectFails(c, call) ==
  /\ At(c, call) /\ nfail < MaxFail
  /\ nfail' = nfail + 1
  /\ hit' = HitFrom(c, call)
  /\ Returns(c)
  /\ UNCHANGED <<inbox, replied, open, backlog, tpc, wconn, user_asr, status, opened,
                 live, unopened>>

\* writen on a handle that is no descriptor writes nothing.
SendOn(k, call) ==
  inbox' = IF k \in open THEN [inbox EXCEPT ![k] = Append(@, call)] ELSE inbox

CallSend(c, k, call) ==
  /\ At(c, call)
  /\ SendOn(k, call)
  /\ Returns(c)
  /\ UNCHANGED <<replied, open, backlog, tpc, wconn, user_asr, status, opened, live,
                 unopened, nfail, hit>>

CallRelease(c) ==
  /\ At(c, "release")
  /\ SendOn(Svc(c), "release")
  /\ open' = open \ {Svc(c)}
  /\ Returns(c)
  /\ UNCHANGED <<replied, backlog, tpc, wconn, user_asr, status, opened, live,
                 unopened, nfail, hit>>

\* readvrec1 and readn wait for the answer; on a handle that is no descriptor they
\* return at once.
CallAnswered(c, k, call) ==
  /\ At(c, call) /\ (k \in replied \/ k \notin open)
  /\ replied' = replied \ {k}
  /\ open' = IF call = "destroyed" THEN open \ {k} ELSE open
  /\ Returns(c)
  /\ UNCHANGED <<inbox, backlog, tpc, wconn, user_asr, status, opened, live, unopened,
                 nfail, hit>>

Call(c) ==
  \/ CallConnect(c, Asr(c), "asr_init")
  \/ CallConnect(c, Svc(c), "service_init")
  \/ ConnectFails(c, "asr_init")
  \/ ConnectFails(c, "service_init")
  \/ CallSend(c, Svc(c), "use")
  \/ CallSend(c, Svc(c), "get")
  \/ CallAnswered(c, Svc(c), "got")
  \/ CallRelease(c)
  \/ CallSend(c, Asr(c), "asr_destroy")
  \/ CallAnswered(c, Asr(c), "destroyed")

-----------------------------------------------------------------------------
(* thread_worker of thread_server.c: accept inside the pool's mutex *)

Goes(w, to) == tpc' = [tpc EXCEPT ![w] = to]

AcceptConn(w) ==
  /\ tpc[w] = "accept" /\ backlog # <<>>
  /\ wconn' = [wconn EXCEPT ![w] = Head(backlog)] /\ backlog' = Tail(backlog)
  /\ Goes(w, "read")
  /\ UNCHANGED <<round, step, inbox, replied, open, user_asr, status, opened, live,
                 unopened, nfail, hit>>

-----------------------------------------------------------------------------
(* process_msg of user.c, in worker w *)

\* The runs between asr_init and the answer of get.
UnderWay == {q \in Runs : round[q[1]] = q[2] /\ step[q[1]] \in 2..5}

\* readvrec returns a record, which is left to the handler named by it.  The engine may
\* have no result: the length of the answer is then negative, and what is sent of it is
\* less than a head.
ReadRecord(w) ==
  /\ tpc[w] = "read" /\ inbox[wconn[w]] # <<>>
  /\ inbox' = [inbox EXCEPT ![wconn[w]] = Tail(@)]
  /\ LET call == Head(inbox[wconn[w]]) IN
       /\ Goes(w, CASE call = "asr_init" /\ user_asr # -1 -> "read"
                    [] call = "asr_init" /\ user_asr = -1 -> "init"
                    [] call = "asr_destroy" -> "destroy"
                    [] call = "service_init" -> "service"
                    [] OTHER -> "read")
       /\ \/ /\ replied' = IF call = "get" THEN replied \cup {wconn[w]} ELSE replied
             /\ UNCHANGED nfail
          \/ /\ call = "get" /\ nfail < MaxFail
             /\ nfail' = nfail + 1 /\ UNCHANGED replied
       /\ hit' = IF call = "asr_destroy" THEN hit \cup UnderWay ELSE hit
  /\ UNCHANGED <<round, step, open, backlog, wconn, user_asr, status, opened, live,
                 unopened>>

\* readvrec returns 0 at the end of the connection.
ReadEnd(w) ==
  /\ tpc[w] = "read" /\ inbox[wconn[w]] = <<>> /\ wconn[w] \notin open
  /\ Goes(w, "accept") /\ wconn' = [wconn EXCEPT ![w] = NoConn]
  /\ UNCHANGED <<round, step, inbox, replied, open, backlog, user_asr, status,
                 opened, live, unopened, nfail, hit>>

\* SIGNAL(&user_cond) wakes one of the sleepers.
Sleepers == {v \in Thread : tpc[v] = "asleep"}

\* usc_mrcp_asr_init(&user_asr, ...): a fresh handle, or a failure that leaves none.
OpenAsr ==
  LET h == Cardinality(opened) IN
    \/ /\ user_asr' = h /\ opened' = opened \cup {h} /\ live' = live \cup {h}
       /\ unopened' = FALSE
    \/ /\ UNCHANGED <<user_asr, opened, live>>
       /\ unopened' = TRUE

\* Fault: status is set without a signal.
InitAsrSilently(w) ==
  /\ tpc[w] = "init"
  /\ OpenAsr /\ status' = 1
  /\ Goes(w, "read")
  /\ UNCHANGED <<round, step, inbox, replied, open, backlog, wconn, nfail, hit>>

\* The section of asr_init under user_mutex; user_asr is not tested again, and status
\* is set whatever usc_mrcp_asr_init returned.
InitAsr(w) ==
  /\ tpc[w] = "init"
  /\ OpenAsr /\ status' = 1
  /\ IF Sleepers = {}
       THEN Goes(w, "read")
       ELSE \E v \in Sleepers : tpc' = [tpc EXCEPT ![w] = "read", ![v] = "service"]
  /\ UNCHANGED <<round, step, inbox, replied, open, backlog, wconn, nfail, hit>>

\* usc_mrcp_asr_destroy(user_asr)
DestroyAsr(w) ==
  /\ tpc[w] = "destroy"
  /\ live' = live \ {user_asr}
  /\ Goes(w, "clear")
  /\ UNCHANGED <<round, step, inbox, replied, open, backlog, wconn, user_asr,
                 status, opened, unopened, nfail, hit>>

\* user_asr = -1; send_rv
ClearAsr(w) ==
  /\ tpc[w] = "clear"
  /\ user_asr' = -1 /\ replied' = replied \cup {wconn[w]}
  /\ Goes(w, "close")
  /\ UNCHANGED <<round, step, inbox, open, backlog, wconn, status, opened, live,
                 unopened, nfail, hit>>

\* set_status_close, then quit
CloseStatus(w) ==
  /\ tpc[w] = "close"
  /\ status' = 0
  /\ Goes(w, "accept") /\ wconn' = [wconn EXCEPT ![w] = NoConn]
  /\ UNCHANGED <<round, step, inbox, replied, open, backlog, user_asr, opened, live,
                 unopened, nfail, hit>>

\* The wait of service_init under user_mutex.
ServiceWait(w) ==
  /\ tpc[w] = "service" /\ status = 0
  /\ Goes(w, "asleep")
  /\ UNCHANGED <<round, step, inbox, replied, open, backlog, wconn, user_asr,
                 status, opened, live, unopened, nfail, hit>>

\* Fault: status is not looked at.
ServiceGoBlindly(w) ==
  /\ tpc[w] = "service"
  /\ Goes(w, "use_asr")
  /\ UNCHANGED <<round, step, inbox, replied, open, backlog, wconn, user_asr,
                 status, opened, live, unopened, nfail, hit>>

ServiceGo(w) ==
  /\ tpc[w] = "service" /\ status # 0
  /\ Goes(w, "use_asr")
  /\ UNCHANGED <<round, step, inbox, replied, open, backlog, wconn, user_asr,
                 status, opened, live, unopened, nfail, hit>>

\* usc_mrcp_service_init(&Handle, user_asr, NULL)
ServiceInit(w) ==
  /\ tpc[w] = "use_asr"
  /\ Goes(w, "read")
  /\ UNCHANGED <<round, step, inbox, replied, open, backlog, wconn, user_asr,
                 status, opened, live, unopened, nfail, hit>>

\* pthread_cond_wait may return without a signal.
SpuriousWake(w) ==
  /\ tpc[w] = "asleep"
  /\ Goes(w, "service")
  /\ UNCHANGED <<round, step, inbox, replied, open, backlog, wconn, user_asr,
                 status, opened, live, unopened, nfail, hit>>

-----------------------------------------------------------------------------

Serve(w) ==
  \/ AcceptConn(w) \/ ReadRecord(w) \/ ReadEnd(w) \/ InitAsr(w)
  \/ DestroyAsr(w) \/ ClearAsr(w) \/ CloseStatus(w)
  \/ ServiceWait(w) \/ ServiceGo(w) \/ ServiceInit(w)

Finished(c) == step[c] > Len(Script) \/ round[c] = 0

\* Nobody calls any more, and the workers wait for a record or a connection.
NothingToDo ==
  /\ \A c \in Client : Finished(c) \/ step[c] \in {5, 8}
  /\ \A w \in Thread : tpc[w] \in {"accept", "read", "asleep"}
  /\ UNCHANGED mrcpVars

MrcpNext ==
  \/ \E c \in Client : Call(c)
  \/ \E w \in Thread : Serve(w) \/ SpuriousWake(w)
  \/ NothingToDo

MrcpSpec == MrcpInit /\ [][MrcpNext]_mrcpVars

\* The clients and the workers are scheduled; spurious wakeups are not owed.
MrcpFairness ==
  /\ \A c \in Client : WF_mrcpVars(Call(c))
  /\ \A w \in Thread : WF_mrcpVars(Serve(w))

MrcpFairSpec == MrcpSpec /\ MrcpFairness

-----------------------------------------------------------------------------
(* Properties *)

\* Every variable keeps its type.
MrcpTypeOK ==
  /\ round \in [Client -> 0..MaxRound] /\ step \in [Client -> 1..(Len(Script) + 1)]
  /\ \A k \in Conn : \A i \in DOMAIN inbox[k] :
       inbox[k][i] \in {Script[j] : j \in DOMAIN Script}
  /\ replied \subseteq Conn /\ open \subseteq Conn
  /\ \A i \in DOMAIN backlog : backlog[i] \in Conn
  /\ tpc \in [Thread -> {"accept", "read", "init", "destroy", "clear", "close",
                          "service", "asleep", "use_asr"}]
  /\ wconn \in [Thread -> Conn \cup {NoConn}]
  /\ user_asr \in Int /\ status \in 0..1
  /\ opened \subseteq Nat /\ live \subseteq opened
  /\ unopened \in BOOLEAN /\ nfail \in 0..MaxFail /\ hit \subseteq Client \X (1..MaxRound)

\* usc_mrcp_service_init gets an open engine, in every run of every client, although
\* user_asr is read without user_mutex and status is cleared late: unless the last opening
\* of the engine failed, or a worker carried out another run's asr_destroy between this
\* run's asr_init and the answer to its get.
ServiceOnLiveEngine ==
  \A w \in Thread :
    LET k == wconn[w] IN
      tpc[w] = "use_asr" /\ <<k[1], k[2]>> \notin hit /\ ~unopened
        => user_asr \in live

\* Every run of the test program gets to its end: its unanswered asr_init reaches the
\* service_init of the other connection, whoever opens the engine, and both answers come.
\* The exceptions are a run that met an asr_destroy of another run, which may sleep on
\* user_cond for ever, and the failures that leave a client without an answer.
ClientsFinish ==
  \A c \in Client :
    []<>(Finished(c) \/ <<c, round[c]>> \in hit \/ nfail > 0)

=============================================================================
