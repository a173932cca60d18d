-------------------------------- MODULE AntDns --------------------------------
(***************************************************************************)
(* mini_ant: how the two threads of the crawler hand urls to each other.   *)
(* The http thread calls url_add for every url that passed the filter: the *)
(* first url of a host puts a cache_val with a queue of its own into       *)
(* cache_dns and the host name into queue_dns, later urls join that queue, *)
(* and once the host is resolved urls go straight to total->down, the      *)
(* queue of the http loop.  The resolver (thread_dns_main) sends the names *)
(* over at most MAX_NCONN tcp connections to the name server, and          *)
(* process_cache_dns moves the queue of an answered host to total->down    *)
(* and frees it.                                                           *)
(*                                                                         *)
(* A section under one mutex is one action, except process_cache_dns: the  *)
(* http thread reads val->flags without a lock and appends to val->down    *)
(* under ANT_ITEM_DOWN, which the resolver does not take, so the steps of  *)
(* process_cache_dns are actions of their own.  down->ip points into the   *)
(* cache_val or is copied from it, so the address of a url is its host's.  *)
(***************************************************************************)
EXTENDS Integers, Sequences, FiniteSets, Functions

CONSTANTS
  Domain,     \* host names
  Url,        \* the urls: pairs of a host and a number
  Sock,       \* descriptors; at least MAX_NCONN
  MAX_NCONN,  \* connections to the name server
  Batch,      \* names sent in a row on a connection
  ANT_MAX_EVENTS,  \* connections of the http loop: opt.maxconn
  Tasks,      \* urls the http loop takes in a turn
  MaxFail     \* bound: failures of the network and of system calls, connections
              \* that hang, and answers the server repeats

ASSUME DnsAssumption ==
  /\ Url \subseteq Domain \X (Nat \ {0}) /\ MAX_NCONN \in Nat \ {0} /\ Batch \in Nat \ {0}
  /\ ANT_MAX_EVENTS \in Nat \ {0} /\ Tasks \in Nat \ {0}
  /\ MaxFail \in Nat /\ 0 \notin Sock
  /\ IsFiniteSet(Sock) /\ Cardinality(Sock) >= MAX_NCONN

VARIABLES
  hpc, hurl,  \* http thread: its place in url_add, and the url
  added,      \* urls given to url_add or put into total->down directly
  val,        \* cache_dns: flags, ip and down of every host
  queue_dns,  \* names to be sent
  down,       \* total->down: its elements from the head to the tail,
  behind,     \* the elements linked behind the tail,
  size,       \* and its count
  taken,      \* urls the http loop has taken
  htask,      \* http loop: urls it may still take in this turn, 0 outside
  nconn, nstuck,  \* its connections, and those that will never end
  rpc, resp,  \* resolver: its place, and the answer it works on: host and outcome
  net,        \* each connection as the kernel sees it
  reg,        \* each descriptor: the events epoll watches
  ev,         \* events of this epoll_wait that are not handled yet
  cache_sock, nsock, check,
  slot, ntask,  \* the loops that send names
  sent, ans,  \* each connection: queries without an answer, answers to read
  nfail,
  alive,      \* "run", or how the process ended
  lost,       \* history: urls that went into a queue nobody will read
  dropped     \* history: hosts whose query or answer was thrown away

loop == <<taken, htask, nconn, nstuck>>
hvars == <<hpc, hurl, added, loop>>
list == <<down, behind, size>>
cvars == <<val, queue_dns, list>>
svars == <<net, reg, ev, cache_sock, nsock, check, sent, ans>>
vars == <<hpc, hurl, added, loop, val, queue_dns, list, rpc, resp, net, reg, ev,
          cache_sock, nsock, check, slot, ntask, sent, ans, nfail, alive, lost, dropped>>

Host(u) == u[1]
NoUrl == <<>>
NoResp == <<>>
NoVal == [known |-> FALSE, flags |-> 0, ip |-> "unset", q |-> "null", down |-> <<>>]
Open == {s \in Sock : net[s] # "closed"}
Slot == 1..MAX_NCONN

\* process_cache_dns holds ANT_CACHE_DNS, and ANT_DOWN towards its end.
HoldsCacheDns == rpc \in {"answer", "flag", "lock", "join", "free", "null"}
HoldsDown == rpc \in {"join", "free", "null"}

Init ==
  /\ hpc = "idle" /\ hurl = NoUrl /\ added = {} /\ taken = {}
  /\ htask = 0 /\ nconn = 0 /\ nstuck = 0
  /\ val = [d \in Domain |-> NoVal] /\ queue_dns = <<>>
  /\ down = <<>> /\ behind = <<>> /\ size = 0
  /\ rpc = "none" /\ resp = NoResp
  /\ net = [s \in Sock |-> "closed"] /\ reg = [s \in Sock |-> {}]
  /\ ev = [s \in Sock |-> {}]
  /\ cache_sock = [i \in Slot |-> 0] /\ nsock = 0 /\ check = TRUE
  /\ slot = 1 /\ ntask = Batch
  /\ sent = [s \in Sock |-> {}] /\ ans = [s \in Sock |-> {}]
  /\ nfail = 0 /\ alive = "run" /\ lost = {} /\ dropped = {}

-----------------------------------------------------------------------------
(* The http thread *)

\* main starts the resolver when the options named at least one url.
Start ==
  /\ alive = "run" /\ rpc = "none" /\ hpc = "idle" /\ added # {}
  /\ rpc' = "create"
  /\ UNCHANGED <<hvars, cvars, svars, resp, slot, ntask, nfail, alive, lost, dropped>>

\* url_add looks its host up without a lock; nobody else inserts.  The urls of
\* a host are numbered as they come.
UrlAdd(u) ==
  /\ alive = "run" /\ hpc = "idle" /\ htask = 0 /\ u \notin added
  /\ u[2] > 1 => <<Host(u), u[2] - 1>> \in added
  /\ hurl' = u /\ added' = added \union {u}
  /\ hpc' = IF ~val[Host(u)].known THEN "put"
            ELSE IF val[Host(u)].flags = 1 THEN "direct" ELSE "item"
  /\ UNCHANGED <<loop, cvars, svars, rpc, resp, slot, ntask, nfail, alive, lost,
                 dropped>>

\* The new cache_val holds a queue with the url when it becomes visible.
PutVal ==
  /\ alive = "run" /\ hpc = "put" /\ ~HoldsCacheDns
  /\ val' = [val EXCEPT ![Host(hurl)] =
               [known |-> TRUE, flags |-> 0, ip |-> "unset", q |-> "queue",
                down |-> <<hurl>>]]
  /\ hpc' = "name"
  /\ UNCHANGED <<hurl, added, loop, queue_dns, list, svars, rpc, resp, slot, ntask,
                 nfail, alive, lost, dropped>>

\* Fault: only one name waits at a time.
PutNameOver ==
  /\ alive = "run" /\ hpc = "name"
  /\ queue_dns' = <<Host(hurl)>>
  /\ hpc' = "idle" /\ hurl' = NoUrl
  /\ UNCHANGED <<added, loop, val, list, svars, rpc, resp, slot, ntask, nfail, alive,
                 lost, dropped>>

PutName ==
  /\ alive = "run" /\ hpc = "name"
  /\ queue_dns' = Append(queue_dns, Host(hurl))
  /\ hpc' = "idle" /\ hurl' = NoUrl
  /\ UNCHANGED <<added, loop, val, list, svars, rpc, resp, slot, ntask, nfail, alive,
                 lost, dropped>>

\* queue_put on total->down.  Elements behind the tail stay behind it.  A tail
\* that was taken before them is freed memory: the process dies, or the element
\* is linked to nothing but counted.
Put(u) ==
  \/ /\ down # <<>> \/ behind = <<>>
     /\ down' = Append(down, u) /\ size' = size + 1
     /\ UNCHANGED <<behind, alive, lost>>
  \/ /\ down = <<>> /\ behind # <<>>
     /\ alive' \in {"run", "crash"} /\ lost' = lost \union {u}
     /\ size' = size + 1 /\ UNCHANGED <<down, behind>>

\* The host was resolved: the url goes to total->down.
DownDirect ==
  /\ alive = "run" /\ hpc = "direct" /\ ~HoldsDown
  /\ Put(hurl) /\ hpc' = "idle" /\ hurl' = NoUrl
  /\ UNCHANGED <<added, loop, val, queue_dns, svars, rpc, resp, slot, ntask, nfail,
                 dropped>>

\* Fault: a url of a host that is not resolved goes to total->down.
ReadQueueWrong ==
  /\ alive = "run" /\ hpc = "item"
  /\ Put(hurl) /\ hpc' = "idle" /\ hurl' = NoUrl
  /\ UNCHANGED <<added, loop, val, queue_dns, svars, rpc, resp, slot, ntask, nfail,
                 dropped>>

\* It was not: down_add gets the pointer val->down, under ANT_ITEM_DOWN.
ReadQueue ==
  /\ alive = "run" /\ hpc = "item"
  /\ IF val[Host(hurl)].q = "null" THEN alive' = "crash" /\ UNCHANGED hpc
                                   ELSE hpc' = "append" /\ UNCHANGED alive
  /\ UNCHANGED <<hurl, added, loop, cvars, svars, rpc, resp, slot, ntask, nfail, lost,
                 dropped>>

\* queue_put through that pointer.
AppendUrl ==
  /\ alive = "run" /\ hpc = "append" /\ val[Host(hurl)].q = "queue"
  /\ val' = [val EXCEPT ![Host(hurl)].down = Append(@, hurl)]
  /\ hpc' = "idle" /\ hurl' = NoUrl
  /\ UNCHANGED <<added, loop, queue_dns, list, svars, rpc, resp, slot, ntask, nfail,
                 alive, lost, dropped>>

\* The queue was freed: the element is written into freed memory, or the process
\* dies.
AppendRaces ==
  /\ alive = "run" /\ hpc = "append" /\ val[Host(hurl)].q # "queue"
  /\ \/ alive' = "crash" /\ UNCHANGED <<hpc, hurl, lost>>
     \/ /\ lost' = lost \union {hurl} /\ hpc' = "idle" /\ hurl' = NoUrl
        /\ UNCHANGED alive
  /\ UNCHANGED <<added, loop, cvars, svars, rpc, resp, slot, ntask, nfail, dropped>>

\* The loop over total->down in http_event_loop, which starts after the resolver.
TakeBegin ==
  /\ alive = "run" /\ hpc = "idle" /\ htask = 0 /\ rpc # "none"
  /\ htask' = Tasks
  /\ UNCHANGED <<hpc, hurl, added, taken, nconn, nstuck, cvars, svars, rpc, resp, slot,
                 ntask, nfail, alive, lost, dropped>>

\* queue_get, without a look at the head it takes, and do_create, which may fail.
Take ==
  /\ alive = "run" /\ htask > 0 /\ nconn < ANT_MAX_EVENTS /\ ~HoldsDown /\ size > 0
  /\ htask' = htask - 1
  /\ \/ /\ down = <<>> /\ behind = <<>>
        /\ alive' = "crash" /\ UNCHANGED <<taken, nconn, list, nfail>>
     \/ /\ down # <<>> \/ behind # <<>>
        /\ LET q == IF down = <<>> THEN behind ELSE down
           IN  /\ taken' = taken \union {Head(q)}
               /\ IF down = <<>> THEN behind' = Tail(q) /\ UNCHANGED down
                                 ELSE down' = Tail(q) /\ UNCHANGED behind
        /\ size' = size - 1 /\ nconn' = nconn + 1
        /\ \/ UNCHANGED <<alive, nfail>>
           \/ nfail < MaxFail /\ nfail' = nfail + 1 /\ alive' = "exit"
  /\ UNCHANGED <<hpc, hurl, added, nstuck, val, queue_dns, svars, rpc, resp, slot, ntask,
                 lost, dropped>>

TakeEnd ==
  /\ alive = "run" /\ htask > 0
  /\ nconn = ANT_MAX_EVENTS \/ (size = 0 /\ ~HoldsDown)
  /\ htask' = 0
  /\ UNCHANGED <<hpc, hurl, added, taken, nconn, nstuck, cvars, svars, rpc, resp, slot,
                 ntask, nfail, alive, lost, dropped>>

\* A page is through and its connection closed.
ConnEnds ==
  /\ alive = "run" /\ hpc = "idle" /\ htask = 0 /\ nconn > nstuck
  /\ nconn' = nconn - 1
  /\ UNCHANGED <<hpc, hurl, added, taken, htask, nstuck, cvars, svars, rpc, resp, slot,
                 ntask, nfail, alive, lost, dropped>>

\* A server that never answers: nothing ever closes the connection.
ConnStuck ==
  /\ alive = "run" /\ nconn > nstuck /\ nfail < MaxFail /\ nfail' = nfail + 1
  /\ nstuck' = nstuck + 1
  /\ UNCHANGED <<hpc, hurl, added, taken, htask, nconn, cvars, svars, rpc, resp, slot,
                 ntask, alive, lost, dropped>>

HttpThread == PutVal \/ PutName \/ DownDirect \/ ReadQueue \/ AppendUrl
              \/ AppendRaces \/ TakeBegin \/ Take \/ TakeEnd \/ ConnEnds

-----------------------------------------------------------------------------
(* thread_dns_main: connections *)

\* Fault: clean_fd leaves the descriptor in cache_sock.
CleanFdKeepsCache(s) ==
  /\ UNCHANGED cache_sock
  /\ nsock' = nsock - 1
  /\ net' = [net EXCEPT ![s] = "closed"] /\ reg' = [reg EXCEPT ![s] = {}]
  /\ sent' = [sent EXCEPT ![s] = {}] /\ ans' = [ans EXCEPT ![s] = {}]

\* What clean_fd does to the sockets; the kernel forgets what was under way.
CleanFd(s) ==
  /\ cache_sock' = [i \in Slot |-> IF cache_sock[i] = s THEN 0 ELSE cache_sock[i]]
  /\ nsock' = nsock - 1
  /\ net' = [net EXCEPT ![s] = "closed"] /\ reg' = [reg EXCEPT ![s] = {}]
  /\ sent' = [sent EXCEPT ![s] = {}] /\ ans' = [ans EXCEPT ![s] = {}]

\* Hosts whose query or answer a connection takes with it.
UnderWay(s) == sent[s] \union {a[1] : a \in ans[s]}

CreateSock(s) ==
  /\ alive = "run" /\ rpc = "create" /\ nsock < MAX_NCONN /\ net[s] = "closed"
  /\ net' = [net EXCEPT ![s] = "connecting"]
  /\ reg' = [reg EXCEPT ![s] = {"in", "out"}]
  /\ nsock' = nsock + 1
  /\ UNCHANGED <<hvars, cvars, rpc, resp, ev, cache_sock, check, slot, ntask, sent, ans,
                 nfail, alive, lost, dropped>>

\* socket, connect or epoll_ctl fails: the thread returns, the process goes on.
CreateFails ==
  /\ alive = "run" /\ rpc = "create" /\ nsock < MAX_NCONN /\ nfail < MaxFail
  /\ rpc' = "end" /\ nfail' = nfail + 1
  /\ UNCHANGED <<hvars, cvars, svars, resp, slot, ntask, alive, lost, dropped>>

Created ==
  /\ alive = "run" /\ rpc = "create" /\ nsock >= MAX_NCONN
  /\ rpc' = "wait"
  /\ UNCHANGED <<hvars, cvars, svars, resp, slot, ntask, nfail, alive, lost, dropped>>

\* What epoll reports: a connection that was reset shows an error, one the peer
\* closed is readable.
Ready(s) ==
  CASE net[s] = "reset" -> {"err"}
    [] net[s] = "eof"   -> reg[s] \intersect {"in", "out"}
    [] net[s] = "up"    -> reg[s] \intersect
                             ((IF ans[s] # {} THEN {"in"} ELSE {}) \union {"out"})
    [] OTHER            -> {}

EpollWait ==
  /\ alive = "run" /\ rpc = "wait" /\ \E s \in Sock : Ready(s) # {}
  /\ ev' = [s \in Sock |-> Ready(s)] /\ rpc' = "event"
  /\ UNCHANGED <<hvars, cvars, resp, net, reg, cache_sock, nsock, check, slot, ntask,
                 sent, ans, nfail, alive, lost, dropped>>

\* Fault: epoll_wait waits for events only.
NoTimeout == alive = "run" /\ rpc = "wait" /\ UNCHANGED vars

\* Two seconds without an event end the process if there never was one, and are
\* otherwise the chance to send the names that came in meanwhile.
EpollTimeout ==
  /\ alive = "run" /\ rpc = "wait" /\ \A s \in Sock : Ready(s) = {}
  /\ IF check THEN alive' = "exit" /\ UNCHANGED <<rpc, slot, ntask>>
              ELSE rpc' = "send" /\ slot' = 1 /\ ntask' = Batch /\ UNCHANGED alive
  /\ UNCHANGED <<hvars, cvars, svars, resp, nfail, lost, dropped>>

EvError(s) ==
  /\ alive = "run" /\ rpc = "event" /\ "err" \in ev[s]
  /\ CleanFd(s) /\ ev' = [ev EXCEPT ![s] = {}]
  /\ dropped' = dropped \union UnderWay(s)
  /\ UNCHANGED <<hvars, cvars, rpc, resp, check, slot, ntask, nfail, alive, lost>>

\* dns_recv_packet returns 0 at the end of the stream, or an error.
EvClose(s) ==
  /\ alive = "run" /\ rpc = "event" /\ "in" \in ev[s]
  /\ \/ net[s] = "eof" /\ ans[s] = {} /\ UNCHANGED nfail
     \/ nfail < MaxFail /\ nfail' = nfail + 1
  /\ check' = FALSE
  /\ CleanFd(s) /\ ev' = [ev EXCEPT ![s] = {}]
  /\ dropped' = dropped \union UnderWay(s)
  /\ UNCHANGED <<hvars, cvars, rpc, resp, slot, ntask, alive, lost>>

EvAnswer(s, a) ==
  /\ alive = "run" /\ rpc = "event" /\ "in" \in ev[s] /\ a \in ans[s]
  /\ check' = FALSE
  /\ ans' = [ans EXCEPT ![s] = @ \ {a}] /\ ev' = [ev EXCEPT ![s] = @ \ {"in"}]
  /\ resp' = a /\ rpc' = "answer"
  /\ UNCHANGED <<hvars, cvars, net, reg, cache_sock, nsock, slot, ntask, sent, nfail,
                 alive, lost, dropped>>

\* The connection is made: it goes into the first free entry of cache_sock, and
\* epoll watches for input only.  When epoll_ctl fails the thread returns.
EvConnected(s) ==
  /\ alive = "run" /\ rpc = "event" /\ ev[s] = {"out"}
  /\ check' = FALSE
  /\ LET free == {i \in Slot : cache_sock[i] = 0}
     IN  cache_sock' = [i \in Slot |-> IF i \in free /\ \A j \in free : i <= j
                                         THEN s ELSE cache_sock[i]]
  /\ ev' = [ev EXCEPT ![s] = {}]
  /\ \/ reg' = [reg EXCEPT ![s] = {"in"}] /\ UNCHANGED <<rpc, nfail>>
     \/ nfail < MaxFail /\ nfail' = nfail + 1 /\ rpc' = "end" /\ UNCHANGED reg
  /\ UNCHANGED <<hvars, cvars, resp, net, nsock, slot, ntask, sent, ans, alive, lost,
                 dropped>>

\* Nothing could be read: process_cache_dns looks for the empty name.
EvAgain(s) ==
  /\ alive = "run" /\ rpc = "event" /\ "in" \in ev[s]
  /\ nfail < MaxFail /\ nfail' = nfail + 1
  /\ check' = FALSE /\ ev' = [ev EXCEPT ![s] = @ \ {"in"}]
  /\ UNCHANGED <<hvars, cvars, rpc, resp, net, reg, cache_sock, nsock, slot, ntask, sent,
                 ans, alive, lost, dropped>>

EventsDone ==
  /\ alive = "run" /\ rpc = "event" /\ \A s \in Sock : ev[s] = {}
  /\ rpc' = "send" /\ slot' = 1 /\ ntask' = Batch
  /\ UNCHANGED <<hvars, cvars, svars, resp, nfail, alive, lost, dropped>>

-----------------------------------------------------------------------------
(* process_cache_dns *)

\* Fault: a second answer is treated like the first.
AnswerTwice ==
  /\ alive = "run" /\ rpc = "answer"
  /\ IF resp[2] = "bad"
       THEN /\ rpc' = "event" /\ dropped' = dropped \union {resp[1]} /\ UNCHANGED val
       ELSE /\ rpc' = "flag" /\ val' = [val EXCEPT ![resp[1]].ip = resp[2]]
            /\ UNCHANGED dropped
  /\ UNCHANGED <<hvars, queue_dns, list, svars, resp, slot, ntask, nfail, alive, lost>>

\* "bad" is an answer with other flags than 0x8180, or one that names no host; an
\* answer without an A record is as good as one with an address, and its zeros
\* are stored.
Answer ==
  /\ alive = "run" /\ rpc = "answer"
  /\ \/ /\ val[resp[1]].flags = 1
        /\ rpc' = "event" /\ resp' = NoResp /\ UNCHANGED <<val, dropped>>
     \/ /\ val[resp[1]].flags = 0 /\ resp[2] = "bad"
        /\ rpc' = "event" /\ resp' = NoResp
        /\ dropped' = dropped \union {resp[1]} /\ UNCHANGED val
     \/ /\ val[resp[1]].flags = 0 /\ resp[2] # "bad"
        /\ rpc' = "flag" /\ val' = [val EXCEPT ![resp[1]].ip = resp[2]]
        /\ UNCHANGED <<dropped, resp>>
  /\ UNCHANGED <<hvars, queue_dns, list, svars, slot, ntask, nfail, alive, lost>>

SetFlag ==
  /\ alive = "run" /\ rpc = "flag"
  /\ val' = [val EXCEPT ![resp[1]].flags = 1] /\ rpc' = "lock"
  /\ UNCHANGED <<hvars, queue_dns, list, svars, resp, slot, ntask, nfail, alive, lost,
                 dropped>>

LockDown ==
  /\ alive = "run" /\ rpc = "lock" /\ rpc' = "join"
  /\ UNCHANGED <<hvars, cvars, svars, resp, slot, ntask, nfail, alive, lost, dropped>>

\* Fault: the queue replaces total->down.
JoinOver ==
  /\ alive = "run" /\ rpc = "join"
  /\ down' = val[resp[1]].down /\ size' = Len(val[resp[1]].down)
  /\ val' = [val EXCEPT ![resp[1]].down = <<>>]
  /\ rpc' = "free"
  /\ UNCHANGED <<hvars, queue_dns, behind, svars, resp, slot, ntask, nfail, alive, lost,
                 dropped>>

\* queue_join_init: elements behind the tail are cut off, and a tail that was
\* freed is written to.
JoinQueue(q) ==
  \/ /\ down = <<>> /\ behind = <<>>
     /\ down' = q /\ size' = Len(q) /\ UNCHANGED <<behind, alive, lost>>
  \/ /\ down # <<>>
     /\ down' = down \o q /\ size' = size + Len(q)
     /\ lost' = lost \union Range(behind) /\ behind' = <<>> /\ UNCHANGED alive
  \/ /\ down = <<>> /\ behind # <<>>
     /\ alive' \in {"run", "crash"} /\ lost' = lost \union Range(q)
     /\ size' = size + Len(q) /\ UNCHANGED <<down, behind>>

\* It asserts that there is a queue.
Join ==
  /\ alive = "run" /\ rpc = "join"
  /\ \/ /\ val[resp[1]].q = "null"
        /\ alive' = "abort" /\ UNCHANGED <<val, list, rpc, lost>>
     \/ /\ val[resp[1]].q # "null" /\ JoinQueue(val[resp[1]].down)
        /\ val' = [val EXCEPT ![resp[1]].down = <<>>] /\ rpc' = "free"
  /\ UNCHANGED <<hvars, queue_dns, svars, resp, slot, ntask, nfail, dropped>>

\* The http thread appends to the queue that queue_join_init is joining: the
\* process dies, or the element is in the list but behind its tail, not counted,
\* or both.
JoinRaces ==
  /\ alive = "run" /\ rpc = "join" /\ hpc = "append" /\ Host(hurl) = resp[1]
  /\ val[resp[1]].q = "queue" /\ (down # <<>> \/ behind = <<>>)
  /\ LET q == val[resp[1]].down
         n == IF down = <<>> THEN Len(q) ELSE size + Len(q)
     IN  \/ /\ alive' = "crash" /\ lost' = lost \union Range(Append(q, hurl))
            /\ UNCHANGED list
         \/ /\ \/ /\ down' = down \o q /\ behind' = <<hurl>>
                  /\ size' \in n..(n + 1)
               \/ /\ down' = down \o Append(q, hurl) /\ behind' = <<>>
                  /\ size' = n
            /\ lost' = lost \union Range(behind) /\ UNCHANGED alive
  /\ val' = [val EXCEPT ![resp[1]].down = <<>>]
  /\ rpc' = "free" /\ hpc' = "idle" /\ hurl' = NoUrl
  /\ UNCHANGED <<added, loop, queue_dns, svars, resp, slot, ntask, nfail, dropped>>

\* What was appended since the join goes with the queue.
FreeQueue ==
  /\ alive = "run" /\ rpc = "free"
  /\ lost' = lost \union Range(val[resp[1]].down)
  /\ val' = [val EXCEPT ![resp[1]].q = "freed", ![resp[1]].down = <<>>]
  /\ rpc' = "null"
  /\ UNCHANGED <<hvars, queue_dns, list, svars, resp, slot, ntask, nfail, alive, dropped>>

NullQueue ==
  /\ alive = "run" /\ rpc = "null"
  /\ val' = [val EXCEPT ![resp[1]].q = "null"] /\ rpc' = "event" /\ resp' = NoResp
  /\ UNCHANGED <<hvars, queue_dns, list, svars, slot, ntask, nfail, alive, lost,
                 dropped>>

-----------------------------------------------------------------------------
(* thread_dns_main: sending *)

Sending(s) == /\ alive = "run" /\ rpc = "send" /\ slot \in Slot
              /\ cache_sock[slot] = s /\ ntask > 0 /\ queue_dns # <<>>

SendName(s) ==
  /\ Sending(s)
  /\ queue_dns' = Tail(queue_dns) /\ ntask' = ntask - 1
  /\ sent' = [sent EXCEPT ![s] = @ \union {Head(queue_dns)}]
  /\ UNCHANGED <<hvars, val, list, rpc, resp, net, reg, ev, cache_sock, nsock, check,
                 slot, ans, nfail, alive, lost, dropped>>

\* EAGAIN counts as sent, but the name is freed.
SendAgain(s) ==
  /\ Sending(s) /\ nfail < MaxFail
  /\ queue_dns' = Tail(queue_dns) /\ ntask' = ntask - 1 /\ nfail' = nfail + 1
  /\ dropped' = dropped \union {Head(queue_dns)}
  /\ UNCHANGED <<hvars, val, list, rpc, resp, svars, slot, alive, lost>>

\* Any other error closes the connection; the name is freed as well.
SendFails(s) ==
  /\ Sending(s)
  /\ \/ net[s] = "reset" /\ UNCHANGED nfail
     \/ nfail < MaxFail /\ nfail' = nfail + 1
  /\ queue_dns' = Tail(queue_dns)
  /\ CleanFd(s)
  /\ dropped' = dropped \union UnderWay(s) \union {Head(queue_dns)}
  /\ slot' = slot + 1 /\ ntask' = Batch
  /\ UNCHANGED <<hvars, val, list, rpc, resp, ev, check, alive, lost>>

NextSlot ==
  /\ alive = "run" /\ rpc = "send" /\ slot \in Slot
  /\ cache_sock[slot] = 0 \/ ntask = 0 \/ queue_dns = <<>>
  /\ slot' = slot + 1 /\ ntask' = Batch
  /\ UNCHANGED <<hvars, cvars, svars, rpc, resp, nfail, alive, lost, dropped>>

SendDone ==
  /\ alive = "run" /\ rpc = "send" /\ slot \notin Slot
  /\ rpc' = "create" /\ slot' = 1
  /\ UNCHANGED <<hvars, cvars, svars, resp, ntask, nfail, alive, lost, dropped>>

Resolver ==
  \/ Created \/ EpollWait \/ EpollTimeout \/ EventsDone
  \/ Answer \/ SetFlag \/ LockDown \/ Join \/ FreeQueue \/ NullQueue
  \/ NextSlot \/ SendDone \/ CreateFails
  \/ \E s \in Sock : \/ CreateSock(s) \/ EvError(s) \/ EvClose(s) \/ EvConnected(s)
                     \/ EvAgain(s) \/ SendName(s) \/ SendAgain(s) \/ SendFails(s)
                     \/ \E a \in ans[s] : EvAnswer(s, a)

-----------------------------------------------------------------------------
(* The name server and the network *)

Connected(s) ==
  /\ alive = "run" /\ net[s] = "connecting"
  /\ net' = [net EXCEPT ![s] = "up"]
  /\ UNCHANGED <<hvars, cvars, rpc, resp, reg, ev, cache_sock, nsock, check, slot, ntask,
                 sent, ans, nfail, alive, lost, dropped>>

\* The server answers a query.
ServerAnswers(s, d, kind) ==
  /\ alive = "run" /\ net[s] = "up" /\ d \in sent[s]
  /\ ans' = [ans EXCEPT ![s] = @ \union {<<d, kind>>}]
  /\ sent' = [sent EXCEPT ![s] = @ \ {d}]
  /\ UNCHANGED <<hvars, cvars, rpc, resp, net, reg, ev, cache_sock, nsock, check, slot,
                 ntask, nfail, alive, lost, dropped>>

\* It may answer more than once.
ServerRepeats(s, d, kind) ==
  /\ alive = "run" /\ net[s] = "up" /\ d \in sent[s]
  /\ nfail < MaxFail /\ nfail' = nfail + 1
  /\ ans' = [ans EXCEPT ![s] = @ \union {<<d, kind>>}]
  /\ UNCHANGED <<hvars, cvars, rpc, resp, net, reg, ev, cache_sock, nsock, check, slot,
                 ntask, sent, alive, lost, dropped>>

NetFails(s) ==
  /\ alive = "run" /\ nfail < MaxFail /\ nfail' = nfail + 1
  /\ net[s] \in {"connecting", "up"}
  /\ \E to \in {"reset", "eof"} :
       /\ to = "eof" => net[s] = "up"
       /\ net' = [net EXCEPT ![s] = to]
  /\ UNCHANGED <<hvars, cvars, rpc, resp, reg, ev, cache_sock, nsock, check, slot, ntask,
                 sent, ans, alive, lost, dropped>>

Kind == {"addr", "none", "bad"}

\* The crawler has ended, or waits for pages that bring new urls.
Rests == (alive # "run" \/ rpc = "end") /\ UNCHANGED vars

Next == Start \/ (\E u \in Url : UrlAdd(u)) \/ HttpThread \/ ConnStuck \/ JoinRaces
        \/ Resolver
        \/ (\E s \in Sock : Connected(s) \/ NetFails(s))
        \/ (\E s \in Sock, d \in Domain, kind \in Kind :
              ServerAnswers(s, d, kind) \/ ServerRepeats(s, d, kind))
        \/ Rests

Spec == Init /\ [][Next]_vars

\* Both threads run, a server that is connected answers, and a page that has
\* arrived is handled in one of the next turns of the http loop.
FairSpec == Spec /\ WF_vars(Start) /\ WF_vars(HttpThread) /\ WF_vars(Resolver)
                 /\ SF_vars(ConnEnds)
                 /\ (\A s \in Sock : WF_vars(Connected(s)))
                 /\ \A s \in Sock, d \in Domain :
                      WF_vars(\E kind \in Kind : ServerAnswers(s, d, kind))

-----------------------------------------------------------------------------
(* Properties *)

\* Every variable has its type: the cache of dns answers, the queues, the sockets
\* of thread_dns_main and the places of both threads.
TypeOK ==
  /\ hpc \in {"idle", "put", "name", "direct", "item", "append"}
  /\ hurl \in Url \union {NoUrl} /\ (hpc = "idle") = (hurl = NoUrl)
  /\ added \subseteq Url /\ taken \subseteq Url /\ lost \subseteq Url
  /\ val \in [Domain -> [known : BOOLEAN, flags : 0..1, ip : {"unset", "none", "addr"},
                         q : {"null", "queue", "freed"}, down : Seq(Url)]]
  /\ queue_dns \in Seq(Domain)
  /\ down \in Seq(Url) /\ behind \in Seq(Url) /\ size \in Nat
  /\ htask \in 0..Tasks /\ nconn \in 0..ANT_MAX_EVENTS /\ nstuck \in 0..nconn
  /\ rpc \in {"none", "create", "wait", "event", "answer", "flag", "lock", "join",
              "free", "null", "send", "end"}
  /\ resp \in (Domain \X Kind) \union {NoResp}
  /\ net \in [Sock -> {"closed", "connecting", "up", "eof", "reset"}]
  /\ reg \in [Sock -> SUBSET {"in", "out"}]
  /\ ev \in [Sock -> SUBSET {"in", "out", "err"}]
  /\ cache_sock \in [Slot -> Sock \union {0}] /\ nsock \in 0..MAX_NCONN
  /\ check \in BOOLEAN /\ slot \in 1..(MAX_NCONN + 1) /\ ntask \in 0..Batch
  /\ sent \in [Sock -> SUBSET Domain]
  /\ ans \in [Sock -> SUBSET (Domain \X Kind)]
  /\ nfail \in 0..MaxFail /\ alive \in {"run", "exit", "crash", "abort"}
  /\ dropped \subseteq Domain

Count(q, u) == Cardinality({i \in DOMAIN q : q[i] = u})

\* A url that url_add accepted is in exactly one place: in the hands of the http
\* thread, in the queue of its host, in total->down, taken by the http loop, or
\* lost in a freed queue or off the chain of total->down.
UrlInOnePlace ==
  \A u \in added :
    (IF hurl = u /\ hpc # "name" THEN 1 ELSE 0) + Count(val[Host(u)].down, u)
      + Count(down, u) + Count(behind, u) + (IF u \in taken THEN 1 ELSE 0)
      + (IF u \in lost THEN 1 ELSE 0) = 1

\* The http loop connects to *down->ip: a url gets to total->down only after
\* process_cache_dns has taken an answer for its host.  The answer may have had
\* no address in it: then ip is "none", the zeros that response.ip began with.
AnswerBeforeDownload ==
  \A u \in Range(down) \union Range(behind) \union taken :
    val[Host(u)].flags = 1 /\ val[Host(u)].ip # "unset"

\* A host with waiting urls has its name in queue_dns, its query on a connection
\* that is still open or its answer in process_cache_dns, unless the resolver
\* itself threw the query or the answer away: no name gets lost between
\* url_add, queue_dns, cache_sock and clean_fd.
WaitingHostAsked ==
  \A d \in Domain : val[d].known /\ val[d].flags = 0 =>
    \/ hpc = "name" /\ Host(hurl) = d
    \/ d \in Range(queue_dns) \union dropped
    \/ \E s \in Open : d \in UnderWay(s)
    \/ rpc \in {"answer", "flag"} /\ resp[1] = d

\* nsock counts the open connections, and cache_sock holds each connection that
\* was made, once, and no closed one: names are never sent on a descriptor that
\* clean_fd closed.
SocketTable ==
  /\ nsock = Cardinality(Open)
  /\ \A i \in Slot : cache_sock[i] # 0 => cache_sock[i] \in Open
  /\ \A s \in Open : Cardinality({i \in Slot : cache_sock[i] = s}) =
                       IF reg[s] = {"in"} \/ (rpc = "end" /\ s \in Range(cache_sock))
                         THEN 1 ELSE 0

\* However often the server answers, process_cache_dns never hands a queue that
\* is gone to queue_join_init, whose assert would end the process.
JoinedOnce == alive # "abort"

\* A url in total->down that its size does not count on.
Uncounted(u) == /\ u \in Range(down) \union Range(behind)
                /\ size < Len(down) + Len(behind)

\* A url that was added is taken by the http loop in the end, unless it raced
\* with its host's answer or an earlier race left total->down short, every
\* connection of the http loop hangs, the resolver threw the query away or ended,
\* or the process did: names that arrive while epoll_wait sleeps are sent.
UrlDownloaded ==
  \A u \in Url :
    []<>(\/ u \notin added \/ u \in taken \union lost \/ Uncounted(u)
         \/ nstuck = ANT_MAX_EVENTS \/ Host(u) \in dropped \/ rpc = "end" \/ alive # "run")

\* The comment in url_add: the url of a host that is in the cache is put into
\* total->down or appended to the queue of the host.
NoUrlLost == lost = {} /\ alive # "crash"
=============================================================================
