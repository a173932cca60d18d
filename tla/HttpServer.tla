------------------------------ MODULE HttpServer ------------------------------
(***************************************************************************)
(* http_server (mini_tor): one thread waits in epoll_wait, accepts         *)
(* connections, and answers the first thing that arrives on each of them   *)
(* with a file or a directory listing.  cache_sock, a growing array        *)
(* indexed by descriptor, leads from an event to the http_context of its   *)
(* connection; its entries are written at accept and never cleared.        *)
(*                                                                         *)
(* Connections are numbered in the order in which they are made, and the   *)
(* http_context that accept creates for one has its number.  Descriptors   *)
(* are numbered from the first free one after do_loop has set up.  A       *)
(* request is described by what stat says of the file name the server puts *)
(* together, and by its Referer, of which the server takes stat first.     *)
(* errno is one variable of the process: calls that succeed leave it       *)
(* alone.  Methods other than GET are not modelled.                        *)
(***************************************************************************)
EXTENDS Integers, Sequences, FiniteSets

CONSTANTS
  N,              \* connections that clients may make
  MaxAtOnce,      \* connections that clients have at the same time
  MaxFd,          \* descriptors the process may have besides those of do_loop
  Request,        \* the requests clients may send
  MaxReset,       \* connections that clients may reset
  TOR_MAX_EVENT   \* events of one epoll_wait, and first length of cache_sock

ASSUME ServerAssumption ==
  /\ N \in Nat \ {0} /\ MaxAtOnce \in Nat /\ MaxFd \in Nat \ {0} /\ TOR_MAX_EVENT \in Nat \ {0}
  /\ MaxReset \in Nat
  /\ Request \subseteq [target : {"root", "dir", "file", "denied", "missing"},
                       ref : {"none", "dir", "gone"}]
  \* The Referer of a request for "/" is never read.
  /\ \A r \in Request : r.target = "root" => r.ref = "none"

VARIABLES
  net,      \* each connection: new, queued (in listen's queue), open, failed
            \* (closed after an error event) or done (closed by http_free)
  inp,      \* what can be read: nothing, part of a head, a request, or the end
  reset,    \* connections the client has reset
  backlog,  \* listen's queue
  fd,       \* the descriptor of each open connection
  dirs,     \* descriptors of the directories that were listed
  slot,     \* cache_sock->array; its length is its domain
  ncurr,    \* cache_sock->ncurr
  live,     \* http_contexts allocated and not freed
  events,   \* events of this epoll_wait still to be handled
  pc, http, \* where do_loop is, and its http
  errno,
  head,     \* what http_read_head has made of the head
  last,     \* the last answer of this round, with what was asked
  gone      \* whether a Referer named a directory that is not there

client == <<net, inp, reset, backlog, fd>>
server == <<dirs, slot, ncurr, live, events, pc, http, errno, head, last, gone>>
vars == <<client, server>>

sfd == 0
NULL == 0
Conn == 1..N
Nothing == [target |-> "nothing", ref |-> "none"]
Part == [target |-> "part", ref |-> "none"]
Eof == [target |-> "eof", ref |-> "none"]
Open == {c \in Conn : net[c] = "open"}
NoAnswer == [req |-> Nothing, code |-> 0, body |-> "none"]

tor_array_new(n) == [i \in 0..(n - 1) |-> NULL]

Init ==
  /\ net = [c \in Conn |-> "new"] /\ inp = [c \in Conn |-> Nothing]
  /\ reset = {} /\ backlog = <<>> /\ fd = [c \in Conn |-> -1] /\ dirs = {}
  /\ slot = tor_array_new(TOR_MAX_EVENT) /\ ncurr = 0 /\ live = {}
  /\ events = <<>> /\ pc = "start" /\ http = NULL /\ errno = "0"
  /\ head = "none" /\ last = NoAnswer /\ gone = FALSE

-----------------------------------------------------------------------------
(* Clients *)

Connect(c) ==
  /\ net[c] = "new" /\ pc # "start" /\ \A b \in 1..(c - 1) : net[b] # "new"
  /\ Cardinality({b \in Conn : net[b] \in {"queued", "open"}}) < MaxAtOnce
  /\ net' = [net EXCEPT ![c] = "queued"] /\ backlog' = Append(backlog, c)
  /\ UNCHANGED <<inp, reset, fd, server>>

\* A head arrives in one piece or in two, or the client closes its side.  What
\* arrives before accept is as if it came right after.
Send(c, to) ==
  /\ net[c] = "open" /\ c \notin reset
  /\ \/ inp[c] = Nothing
     \/ inp[c] = Part /\ to \in Request
  /\ inp' = [inp EXCEPT ![c] = to]
  /\ UNCHANGED <<net, reset, backlog, fd, server>>

Reset(c) ==
  /\ net[c] = "open" /\ c \notin reset
  /\ Cardinality(reset \cup {b \in Conn : net[b] = "failed"}) < MaxReset
  /\ reset' = reset \cup {c}
  /\ UNCHANGED <<net, inp, backlog, fd, server>>

Clients == \E c \in Conn : \/ Connect(c) \/ Reset(c)
                           \/ \E to \in Request \cup {Part, Eof} : Send(c, to)

\* close(n): the connection with that number is gone, whoever meant it.
Close(n, how) ==
  LET shut == {c \in Open : fd[c] = n} IN
  /\ net' = [c \in Conn |-> IF c \in shut THEN how ELSE net[c]]
  /\ inp' = [c \in Conn |-> IF c \in shut THEN Nothing ELSE inp[c]]
  /\ fd' = [c \in Conn |-> IF c \in shut THEN -1 ELSE fd[c]]
  /\ reset' = reset \ shut

-----------------------------------------------------------------------------
(* do_loop: setting up, and epoll_wait *)

\* create_and_bind, set_fl, listen, epoll_create1 and fd_add, or exit.
Start ==
  /\ pc = "start" /\ pc' \in {"wait", "exited"}
  /\ UNCHANGED <<client, dirs, slot, ncurr, live, events, http, errno, head, last, gone>>

Readable(c) == c \in Open /\ (inp[c] # Nothing \/ c \in reset)

Kind(c) == IF c \in reset THEN "err" ELSE "in"

Ready == {[fd |-> fd[c], kind |-> Kind(c)] : c \in {k \in Conn : Readable(k)}}
           \cup {[fd |-> sfd, kind |-> "in"] : i \in DOMAIN backlog}

\* Orders in which the kernel may report the ready descriptors.
Batches ==
  LET n == IF Cardinality(Ready) < TOR_MAX_EVENT THEN Cardinality(Ready) ELSE TOR_MAX_EVENT
  IN {b \in [1..n -> Ready] : \A i, j \in 1..n : i # j => b[i] # b[j]}

EpollWait ==
  /\ pc = "wait" /\ Ready # {}
  /\ events' \in Batches /\ pc' = "event" /\ last' = NoAnswer
  /\ UNCHANGED <<client, dirs, slot, ncurr, live, http, errno, head, gone>>

EventsDone ==
  /\ pc = "event" /\ events = <<>>
  /\ pc' = "wait"
  /\ UNCHANGED <<client, dirs, slot, ncurr, live, events, http, errno, head, last, gone>>

\* Fault: the error is logged and the descriptor stays open.
ErrorLogged ==
  /\ pc = "event" /\ events # <<>> /\ Head(events).kind = "err"
  /\ events' = Tail(events)
  /\ UNCHANGED <<client, dirs, slot, ncurr, live, pc, http, errno, head, last, gone>>

\* EPOLLERR or EPOLLHUP: the descriptor is closed, and nothing else.
OnError ==
  /\ pc = "event" /\ events # <<>> /\ Head(events).kind = "err"
  /\ Close(Head(events).fd, "failed")
  /\ events' = Tail(events)
  /\ UNCHANGED <<backlog, dirs, slot, ncurr, live, pc, http, errno, head, last, gone>>

-----------------------------------------------------------------------------
(* Accepting: http_new and tor_array_put *)

Free == (1..MaxFd) \ (dirs \cup {fd[c] : c \in Open})

\* The number the kernel gives to a new descriptor.
LowestFree == CHOOSE n \in Free : \A m \in Free : n <= m

Length == Cardinality(DOMAIN slot)

\* Fault: the array is not doubled when ceil gives 1.
GrownShort(len, i) == IF i < len THEN len ELSE len * ((i + len - 1) \div len)

\* The length of the array before element i is stored: ceil(i / length) times
\* the old one, but at least twice.
Grown(len, i) ==
  IF i < len THEN len
             ELSE LET n == (i + len - 1) \div len IN len * (IF n = 1 THEN 2 ELSE n)

\* Whether entry i has never been written; what calloc and memset left is zero.
iszero(i) == i >= Length \/ slot[i] = NULL

tor_array_get(i) == slot[i]

\* Fault: an entry that is in use is kept.
PutIfEmpty(i, h) ==
  /\ slot' = [k \in 0..(Grown(Length, i) - 1) |->
                IF k < Length /\ slot[k] # NULL THEN slot[k] ELSE IF k = i THEN h ELSE NULL]
  /\ ncurr' = IF iszero(i) THEN ncurr + 1 ELSE ncurr
  /\ UNCHANGED pc

\* An element stored behind the end of the array is undefined behaviour, and
\* nothing is said of the process after it.
tor_array_put(i, h) ==
  /\ slot' = [k \in 0..(Grown(Length, i) - 1) |->
                IF k = i THEN h ELSE IF k < Length THEN slot[k] ELSE NULL]
  /\ ncurr' = IF iszero(i) THEN ncurr + 1 ELSE ncurr
  /\ pc' = IF i < Grown(Length, i) THEN pc ELSE "overrun"

http_new(c) == live' = live \cup {c}

AtSfd == events # <<>> /\ Head(events) = [fd |-> sfd, kind |-> "in"]

Accept ==
  /\ pc = "event" /\ AtSfd /\ backlog # <<>> /\ Free # {}
  /\ LET c == Head(backlog) IN
       /\ net' = [net EXCEPT ![c] = "open"]
       /\ fd' = [fd EXCEPT ![c] = LowestFree]
       /\ http_new(c)
       /\ tor_array_put(LowestFree, c)
  /\ backlog' = Tail(backlog)
  /\ UNCHANGED <<inp, reset, dirs, events, http, errno, head, last, gone>>

\* set_fl or fd_add fails for the new connection.
AcceptExits ==
  /\ pc = "event" /\ AtSfd /\ backlog # <<>> /\ Free # {}
  /\ pc' = "exited"
  /\ UNCHANGED <<client, dirs, slot, ncurr, live, events, http, errno, head, last, gone>>

\* accept has no connection (EAGAIN) or no descriptor: the loop is left.
AcceptEnds ==
  /\ pc = "event" /\ AtSfd /\ (backlog = <<>> \/ Free = {})
  /\ errno' = IF backlog = <<>> THEN "EAGAIN" ELSE "EMFILE"
  /\ events' = Tail(events)
  /\ UNCHANGED <<client, dirs, slot, ncurr, live, pc, http, head, last, gone>>

-----------------------------------------------------------------------------
(* Answering: http_read_head, http_join_head_body, http_write, http_free *)

\* process_line: a path of "/" alone ends the parsing with an error before the
\* Referer is reached; the directory a Referer names is looked up.
process_line(r) ==
  LET absent == r.ref = "gone"
  IN /\ errno' = IF absent THEN "ENOENT" ELSE errno
     /\ gone' = (gone \/ absent)

\* Whether recv fails; an interrupted one is made again.
sock_read(h) == IF h \in reset THEN "failed" ELSE "read"

http_read_head(h) ==
  \/ /\ sock_read(h) = "failed"
     /\ head' = "reset" /\ errno' = "ECONNRESET" /\ UNCHANGED gone
  \/ /\ sock_read(h) = "read" /\ inp[h] \notin Request
     /\ head' = "none" /\ UNCHANGED <<errno, gone>>
  \/ /\ sock_read(h) = "read" /\ inp[h] \in Request
     /\ head' = "parsed" /\ process_line(inp[h])

ReadHead ==
  /\ pc = "event" /\ events # <<>> /\ ~AtSfd /\ Head(events).kind = "in"
  /\ http' = tor_array_get(Head(events).fd)
  /\ http_read_head(http')
  /\ pc' = "process" /\ events' = Tail(events)
  /\ UNCHANGED <<client, dirs, slot, ncurr, live, last>>

\* What stat finds: without a parsed head http->path is empty and the name is
\* that of the data directory.
Found == IF head = "parsed" THEN inp[http].target ELSE "root"

\* errno after stat, and opendir or open, which need a descriptor.
StatErrno == CASE Found = "missing" -> "ENOENT" [] Found = "denied" -> "EACCES"
               [] OTHER -> IF Free = {} THEN "EMFILE" ELSE errno

\* Fault: errno is read before the file is looked up.
CodeEarly == IF errno = "ENOENT" THEN 404 ELSE 200

Code == IF StatErrno = "ENOENT" THEN 404 ELSE 200

Body == IF Free = {} \/ Found \in {"missing", "denied"} THEN "none"
        ELSE IF Found = "file" THEN "file" ELSE "list"

\* list_dir never closes the directory.
list_dir == dirs' = IF Body = "list" THEN dirs \cup {LowestFree} ELSE dirs

\* close(-1) unless a file was opened.
CloseErrno == IF Body = "file" THEN StatErrno ELSE "EBADF"

http_free == Close(fd[http], "done") /\ live' = live \ {http}

\* writev fails on a connection that was reset.  It is the first write of its
\* connection, so some bytes go out, but of a long answer perhaps not all: the result
\* is not looked at.  last is the answer that was made.
http_write ==
  IF http \in reset THEN last' = last /\ errno' = "EPIPE"
  ELSE /\ last' = [req |-> IF head = "parsed" THEN inp[http] ELSE Part,
                  code |-> Code, body |-> Body]
       /\ errno' = CloseErrno

Process ==
  /\ pc = "process"
  /\ list_dir /\ http_write
  /\ http_free
  /\ pc' = "event" /\ http' = NULL /\ head' = "none"
  /\ UNCHANGED <<backlog, slot, ncurr, events, gone>>

\* SIGPIPE, which nothing catches: the reset was already reported by recv, or the
\* client had closed its side before.
Killed ==
  /\ pc = "process" /\ http \in reset /\ (head = "reset" \/ inp[http] = Eof)
  /\ pc' = "exited"
  /\ UNCHANGED <<client, dirs, slot, ncurr, live, events, http, errno, head, last, gone>>

-----------------------------------------------------------------------------

\* Nobody has anything to say, or the process is gone or lost.
Idle == /\ pc \in {"exited", "overrun"} \/ (pc = "wait" /\ Ready = {})
        /\ UNCHANGED vars

Server == \/ Start \/ EpollWait \/ EventsDone \/ OnError \/ Accept \/ AcceptExits
          \/ AcceptEnds \/ ReadHead \/ Process \/ Killed

Next == Clients \/ Server \/ Idle

Spec == Init /\ [][Next]_vars

\* The process is scheduled; clients owe nothing.
FairSpec == Spec /\ WF_vars(Server)

-----------------------------------------------------------------------------
(* Properties *)

\* Every variable keeps its type.
TypeOK ==
  /\ net \in [Conn -> {"new", "queued", "open", "failed", "done"}]
  /\ inp \in [Conn -> Request \cup {Nothing, Part, Eof}]
  /\ reset \subseteq Conn /\ backlog \in Seq(Conn)
  /\ fd \in [Conn -> -1..MaxFd] /\ dirs \subseteq 1..MaxFd /\ DOMAIN slot = 0..(Length - 1)
  /\ slot \in [DOMAIN slot -> Conn \cup {NULL}] /\ ncurr \in Nat /\ live \subseteq Conn
  /\ events \in Seq([fd : Nat, kind : {"err", "in"}])
  /\ pc \in {"start", "wait", "event", "process", "exited", "overrun"}
  /\ http \in Conn \cup {NULL} /\ head \in {"none", "parsed", "reset"}
  /\ errno \in {"0", "EAGAIN", "ENOENT", "EACCES", "EBADF", "EMFILE", "EPIPE", "ECONNRESET"}
  /\ last \in [req : Request \cup {Nothing, Part}, code : {0, 200, 404},
               body : {"none", "list", "file"}] /\ gone \in BOOLEAN

\* A context outlives its connection exactly when an error event closed it: that
\* one is never freed, and no other is left behind.
LeakedByError == live = {c \in Conn : net[c] \in {"open", "failed"}}

\* The entry of an open descriptor is the context made for its connection, and no
\* two open connections share a descriptor.
EntryIsOwn ==
  \A c \in Open : /\ fd[c] \in DOMAIN slot /\ slot[fd[c]] = c
                 /\ \A d \in Open : fd[d] = fd[c] => d = c

\* Although entries of cache_sock are never cleared, and descriptor numbers are
\* used again after http_free and after an error event, an event leads to the
\* context of its own connection, which has not been freed; every event still to
\* be handled is about an open descriptor, even after earlier events of the same
\* epoll_wait closed theirs.
EventFindsContext ==
  pc # "overrun" =>
    /\ EntryIsOwn /\ LeakedByError
    /\ \A i \in DOMAIN events : events[i].fd = sfd \/ \E c \in Open : fd[c] = events[i].fd
    /\ pc = "process" => http \in Open

\* tor_array_put stores behind the end of the array only when the directories
\* that list_dir left open have pushed the next descriptor past as many numbers
\* as the array had entries: as long as none is left open it never does.
OverrunByDirs == pc = "overrun" => 2 * Cardinality(dirs) >= Length

\* The answer is about the file that was asked for, or the data directory when
\* the head had not arrived whole, and a file that is not there is 404.  A 404
\* for one that is there comes from errno left by the lookup of the directory a
\* Referer named, this request's or an earlier one's.
AnswerFits ==
  /\ last.body = "file" => last.req.target = "file"
  /\ last.req.target = "missing" => last.code = 404 /\ last.body = "none"
  /\ last.code = 404 /\ last.req.target # "missing" => gone

\* A connection that sent something is answered, closed, or the process is gone.
RequestServed ==
  \A c \in Conn : net[c] = "open" /\ inp[c] # Nothing
                    ~> net[c] \in {"failed", "done"} \/ pc \in {"exited", "overrun"}

=============================================================================
