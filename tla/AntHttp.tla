------------------------------- MODULE AntHttp -------------------------------
(***************************************************************************)
(* mini_ant: the http thread.  http_event_loop takes urls from             *)
(* total->down, opens a connection for each, at most opt.maxconn at a      *)
(* time, and drives them with epoll: do_write sends the request, do_read   *)
(* reads head and body (ant_http.c) and dumps the page, do_error closes    *)
(* the connection and opens a new one.  The array socks leads from a       *)
(* descriptor to its http_info.                                            *)
(*                                                                         *)
(* The loop is one thread, so the handling of one event is one action.     *)
(* What other components put into total->down comes from Supply.  A        *)
(* response is abstracted to its code, its framing and how much of it has  *)
(* arrived; the bytes of the page are left out.  sock_read blocks in       *)
(* select, so a handler that needs bytes waits for them, and the loop with *)
(* it.                                                                     *)
(***************************************************************************)
EXTENDS Integers, Sequences, FiniteSets, FiniteSetsExt

CONSTANTS
  Url,
  Code,     \* answers of the servers
  Mode,     \* framings of the servers: "length", "chunked" or "close"
  maxconn,  \* opt.maxconn
  Fd,       \* descriptors
  NTask,    \* connections opened between two calls of epoll_wait
  MaxTry,   \* retries of a connection; 2 in the code
  MaxAdd,   \* bound: urls put into total->down
  MaxFail   \* bound: failures of the network and of system calls

ASSUME HttpAssumption ==
  /\ maxconn \in Nat \ {0} /\ NTask \in Nat \ {0}
  /\ MaxTry \in Nat /\ MaxAdd \in Nat /\ MaxFail \in Nat
  /\ IsFiniteSet(Fd) /\ Fd = 1..Cardinality(Fd)
  /\ Cardinality(Fd) >= maxconn + MaxFail

VARIABLES
  down,       \* total->down
  cache_url,  \* urls that are done with
  info,       \* every http_info: live until http_clean frees it
  socks,      \* descriptor -> http_info, 0 when the entry is clear
  nconn,
  pc, ntask,  \* the place in http_event_loop
  ev,         \* events of this epoll_wait that are not handled yet
  net,        \* the kernel: every descriptor and what epoll watches on it
  nadd, nfail,
  alive,      \* FALSE once the process has exited
  dumped      \* history: how often html_dump wrote the page of a url, in earlier runs too

vars == <<down, cache_url, info, socks, nconn, pc, ntask, ev, net, nadd, nfail, alive,
          dumped>>

Info == 1..maxconn  \* as many as nconn allows
ANT_DUMP == {"write", "head", "body"}

\* A descriptor: stage is how much of the response has arrived (1 is a piece of
\* the head, 2 the head and a part of the body, 3 all).
Closed == [st |-> "closed", reg |-> {}, req |-> FALSE, stage |-> 0, eof |-> FALSE,
           code |-> 0, mode |-> "close"]
NoInfo == [live |-> FALSE, fd |-> -1, url |-> 0, status |-> {}, try |-> 0, code |-> 0,
           lines |-> FALSE, mode |-> "close"]

Init ==
  /\ down = <<>> /\ cache_url \in SUBSET Url
  /\ info = [i \in Info |-> NoInfo] /\ socks = [f \in Fd |-> 0] /\ nconn = 0
  /\ pc = "fill" /\ ntask = NTask /\ ev = [f \in Fd |-> {}]
  /\ net = [f \in Fd |-> Closed]
  /\ nadd = 0 /\ nfail = 0 /\ alive = TRUE
  /\ dumped = [u \in Url |-> IF u \in cache_url THEN 1 ELSE 0]

Live == {i \in Info : info[i].live}

-----------------------------------------------------------------------------
(* Urls come in: from the resolver, or from filter_add in the loop itself. *)

Supply(u) ==
  /\ alive /\ nadd < MaxAdd
  /\ nadd' = nadd + 1 /\ down' = Append(down, u)
  /\ UNCHANGED <<cache_url, info, socks, nconn, pc, ntask, ev, net, nfail, alive, dumped>>

-----------------------------------------------------------------------------
(* do_create and do_error *)

Fails(k) == IF k = "ok" THEN UNCHANGED nfail ELSE nfail < MaxFail /\ nfail' = nfail + 1

\* do_create for http_info i, whose fields are h, with sockets sk and kernel nt.
\* Without a socket nothing is opened; when connect fails at once, the new
\* descriptor is lost; epoll_ctl may fail when everything else is done.
DoCreate(i, h, sk, nt, k) ==
  LET f == Min({g \in Fd : nt[g].st = "closed"})
  IN  /\ Fails(k)
      /\ IF k \in {"socket", "connect"}
           THEN /\ info' = [info EXCEPT ![i] = h] /\ socks' = sk
                /\ net' = IF k = "socket" THEN nt
                          ELSE [nt EXCEPT ![f] = [Closed EXCEPT !.st = "leaked"]]
           ELSE /\ info' = [info EXCEPT ![i] = [h EXCEPT !.fd = f]]
                /\ socks' = [sk EXCEPT ![f] = i]
                /\ net' = [nt EXCEPT ![f] =
                     [Closed EXCEPT !.st = "connecting",
                                    !.reg = IF k = "ok" THEN {"in", "out"} ELSE {}]]

\* do_error: one error more than MaxTry ends the process.
GivesUp(i) == info[i].try >= MaxTry

Retried(h) == [h EXCEPT !.fd = -1, !.try = @ + 1, !.status = {}]

\* For http_info i, whose fields are h.
Reopen(i, h, k) ==
  DoCreate(i, Retried(h), [socks EXCEPT ![h.fd] = 0], [net EXCEPT ![h.fd] = Closed], k)

Exit == /\ alive' = FALSE
        /\ UNCHANGED <<info, socks, net, nfail>>

-----------------------------------------------------------------------------
(* http_event_loop: new connections *)

Room == nconn < maxconn

Fill(k) ==
  /\ alive /\ pc = "fill" /\ ntask > 0 /\ Room /\ down # <<>>
  /\ down' = Tail(down) /\ nconn' = nconn + 1 /\ ntask' = ntask - 1
  /\ \E i \in Info \ Live :
       /\ \A j \in Info \ Live : i <= j
       /\ DoCreate(i, [NoInfo EXCEPT !.live = TRUE, !.url = Head(down)], socks, net, k)
  /\ alive' = (k = "ok")
  /\ UNCHANGED <<cache_url, pc, ev, nadd, dumped>>

FillDone ==
  /\ alive /\ pc = "fill" /\ (ntask = 0 \/ ~Room \/ down = <<>>)
  /\ pc' = "wait"
  /\ UNCHANGED <<down, cache_url, info, socks, nconn, ntask, ev, net, nadd, nfail, alive,
                 dumped>>

Ready(f) ==
  CASE net[f].st = "reset" -> {"err"}
    [] net[f].st = "up" -> net[f].reg \intersect
         ({"out"} \union IF net[f].stage > 0 \/ net[f].eof THEN {"in"} ELSE {})
    [] OTHER -> {}

Wait ==
  /\ alive /\ pc = "wait"
  /\ ev' = [f \in Fd |-> Ready(f)]
  /\ pc' = IF \E f \in Fd : Ready(f) # {} THEN "event" ELSE "fill"
  /\ ntask' = NTask
  /\ UNCHANGED <<down, cache_url, info, socks, nconn, net, nadd, nfail, alive, dumped>>

EventsDone ==
  /\ alive /\ pc = "event" /\ \A f \in Fd : ev[f] = {}
  /\ pc' = "fill"
  /\ UNCHANGED <<down, cache_url, info, socks, nconn, ntask, ev, net, nadd, nfail, alive,
                 dumped>>

-----------------------------------------------------------------------------
(* http_event_loop: one event, for http_info socks[f] *)

\* The entry of socks must lead to a connection with this descriptor.
Stray(f) == socks[f] = 0 \/ ~info[socks[f]].live \/ info[socks[f]].fd # f

Handles(f) == /\ alive /\ pc = "event" /\ ev[f] # {} /\ ~Stray(f)
              /\ ev' = [ev EXCEPT ![f] = {}]
              /\ UNCHANGED <<pc, ntask>>

Known(f) == info[socks[f]].url \in cache_url

\* EPOLLERR, EPOLLHUP: a failure of do_create ends the loop.
OnError(f, k) ==
  /\ Handles(f) /\ "err" \in ev[f]
  /\ IF GivesUp(socks[f])
       THEN k = "ok" /\ Exit
       ELSE Reopen(socks[f], info[socks[f]], k) /\ alive' = (k = "ok")
  /\ UNCHANGED <<down, cache_url, nconn, nadd, dumped>>

\* Fault: http_clean does not close the descriptor.
CleanKeepsFd(f) == /\ info' = [info EXCEPT ![socks[f]] = NoInfo]
                   /\ UNCHANGED net

\* http_clean of the connection of descriptor f.
Clean(f) == /\ info' = [info EXCEPT ![socks[f]] = NoInfo]
            /\ net' = [net EXCEPT ![f] = Closed]

\* Fault: the jump to clean misses nconn--.
OnKnownKeepsCount(f) ==
  /\ Handles(f) /\ "err" \notin ev[f] /\ Known(f)
  /\ Clean(f)
  /\ UNCHANGED <<down, cache_url, socks, nconn, nadd, nfail, alive, dumped>>

\* The url was downloaded by another connection meanwhile; socks keeps its entry.
OnKnown(f) ==
  /\ Handles(f) /\ "err" \notin ev[f] /\ Known(f)
  /\ Clean(f) /\ nconn' = nconn - 1
  /\ UNCHANGED <<down, cache_url, socks, nadd, nfail, alive, dumped>>

\* http_read_head of connection h on descriptor n: the code is read from the first
\* line ever read, and a head without its end counts as read.  The sizes of an
\* earlier head are forgotten first.
ReadHead(h, n) ==
  IF "head" \in h.status THEN h
  ELSE IF n.st = "reset" THEN [h EXCEPT !.mode = "close"]
  ELSE IF n.stage < 2 THEN [h EXCEPT !.status = @ \union {"head"}, !.mode = "close"]
  ELSE [h EXCEPT !.status = @ \union {"head"}, !.mode = n.mode, !.lines = TRUE,
                 !.code = IF h.lines THEN @ ELSE n.code]

\* Input before the request: an error.  The line for the log reads the head, and
\* nobody looks at the result of do_error.
OnBoth(f, k) ==
  /\ Handles(f) /\ ev[f] = {"in", "out"} /\ ~Known(f)
  /\ IF GivesUp(socks[f])
       THEN k = "ok" /\ Exit
       ELSE /\ Reopen(socks[f], ReadHead(info[socks[f]], net[f]), k)
            /\ UNCHANGED alive
  /\ UNCHANGED <<down, cache_url, nconn, nadd, dumped>>

\* The request is sent whole, once.
http_send_head(h) == [h EXCEPT !.status = @ \union {"write"}]

\* do_write: the request is sent, and epoll watches for input only.
OnWrite(f) ==
  /\ Handles(f) /\ ev[f] = {"out"} /\ ~Known(f)
  /\ info' = [info EXCEPT ![socks[f]] = http_send_head(@)]
  /\ net' = [net EXCEPT ![f].req = TRUE, ![f].reg = {"in"}]
  /\ UNCHANGED <<down, cache_url, socks, nconn, nadd, nfail, alive, dumped>>

\* send fails: do_error opens a new connection, which then watches for input only
\* although nothing was sent on it.  Without one, epoll_ctl fails and exits.
OnWriteFails(f) ==
  /\ Handles(f) /\ ev[f] = {"out"} /\ ~Known(f)
  /\ nfail < MaxFail /\ nfail' = nfail + 1
  /\ \/ alive' = FALSE /\ UNCHANGED <<info, socks, net>>
     \/ /\ ~GivesUp(socks[f])
        /\ LET nt == [net EXCEPT ![f] = Closed]
               g == Min({h \in Fd : nt[h].st = "closed"})
           IN  /\ info' = [info EXCEPT ![socks[f]] =
                               [Retried(info[socks[f]]) EXCEPT !.fd = g]]
               /\ socks' = [[socks EXCEPT ![f] = 0] EXCEPT ![g] = socks[f]]
               /\ net' = [nt EXCEPT ![g] = [Closed EXCEPT !.st = "connecting",
                                                          !.reg = {"in"}]]
        /\ UNCHANGED alive
  /\ UNCHANGED <<down, cache_url, nconn, nadd, dumped>>

\* http_read_body (see AntBody): a body that ends with the connection is complete at
\* its end, and a chunked one also when what has arrived, or all that will, ends in
\* front of a chunk or inside the line with its size.
BodyComplete(h, n, between) ==
  /\ n.st # "reset"
  /\ IF h.mode = "close" THEN n.eof
                         ELSE n.stage = 3 \/ (h.mode = "chunked" /\ between)

ReadBody(h, n, between) ==
  IF h.code = 200 /\ BodyComplete(h, n, between)
    THEN [h EXCEPT !.status = @ \union {"body"}] ELSE h

\* filter_add of a location or of the links of a page may add to total->down.
MayAdd == \/ UNCHANGED <<down, nadd>>
          \/ nadd < MaxAdd /\ nadd' = nadd + 1 /\ \E u \in Url : down' = Append(down, u)

\* Fault: the url of a page is not put into cache_url.
OnReadForgets(f, between) ==
  /\ Handles(f) /\ ev[f] = {"in"} /\ ~Known(f)
  /\ LET h == ReadBody(ReadHead(info[socks[f]], net[f]), net[f], between)
         dump == h.code = 200 /\ h.status = ANT_DUMP
     IN  /\ dumped' = IF dump THEN [dumped EXCEPT ![h.url] = @ + 1] ELSE dumped
         /\ IF dump \/ h.code = 301 THEN MayAdd ELSE UNCHANGED <<down, nadd>>
         /\ IF h.status = ANT_DUMP \/ h.code # 200
              THEN /\ socks' = [socks EXCEPT ![f] = 0]
                   /\ Clean(f) /\ nconn' = nconn - 1
              ELSE /\ info' = [info EXCEPT ![socks[f]] = h]
                   /\ UNCHANGED <<socks, net, nconn>>
  /\ UNCHANGED <<cache_url, nfail, alive>>

\* do_read, and the end of a connection that is done.
OnRead(f, between) ==
  /\ Handles(f) /\ ev[f] = {"in"} /\ ~Known(f)
  /\ LET h == ReadBody(ReadHead(info[socks[f]], net[f]), net[f], between)
         dump == h.code = 200 /\ h.status = ANT_DUMP
     IN  /\ dumped' = IF dump THEN [dumped EXCEPT ![h.url] = @ + 1] ELSE dumped
         /\ IF dump \/ h.code = 301 THEN MayAdd ELSE UNCHANGED <<down, nadd>>
         /\ IF h.status = ANT_DUMP \/ h.code # 200
              THEN /\ socks' = [socks EXCEPT ![f] = 0]
                   /\ cache_url' = cache_url \union {h.url}
                   /\ Clean(f) /\ nconn' = nconn - 1
              ELSE /\ info' = [info EXCEPT ![socks[f]] = h]
                   /\ UNCHANGED <<socks, net, nconn, cache_url>>
  /\ UNCHANGED <<nfail, alive>>

Outcome == {"ok", "socket", "connect", "ctl"}  \* of do_create

Loop ==
  \/ FillDone \/ Wait \/ EventsDone
  \/ \E k \in Outcome : Fill(k)
  \/ \E f \in Fd : \/ OnKnown(f) \/ OnWrite(f) \/ OnWriteFails(f)
                   \/ \E k \in Outcome : OnError(f, k) \/ OnBoth(f, k)
                   \/ \E between \in BOOLEAN : OnRead(f, between)

-----------------------------------------------------------------------------
(* The web servers and the network *)

Connect(f) == net[f].st = "connecting" /\ net' = [net EXCEPT ![f].st = "up"]

Respond(f) ==
  /\ net[f].st = "up" /\ net[f].req /\ ~net[f].eof /\ net[f].stage < 3
  /\ \E stage \in (net[f].stage + 1)..3, code \in Code, mode \in Mode :
       /\ net[f].code # 0 => code = net[f].code /\ mode = net[f].mode
       /\ net' = [net EXCEPT ![f].stage = stage, ![f].code = code, ![f].mode = mode]

CloseAfter(f) == /\ net[f].st = "up" /\ net[f].stage = 3 /\ ~net[f].eof
                 /\ net' = [net EXCEPT ![f].eof = TRUE]

Break(f) ==
  /\ nfail < MaxFail
  /\ \/ net[f].st = "up" /\ ~net[f].eof /\ net' = [net EXCEPT ![f].eof = TRUE]
     \/ net[f].st \in {"connecting", "up"} /\ net' = [net EXCEPT ![f].st = "reset"]

Peer(f) == /\ alive
           /\ \/ (Connect(f) \/ Respond(f) \/ CloseAfter(f)) /\ UNCHANGED nfail
              \/ Break(f) /\ nfail' = nfail + 1
           /\ UNCHANGED <<down, cache_url, info, socks, nconn, pc, ntask, ev, nadd, alive,
                          dumped>>

Exited == ~alive /\ UNCHANGED vars

Next == (\E u \in Url : Supply(u)) \/ Loop \/ (\E f \in Fd : Peer(f)) \/ Exited

Spec == Init /\ [][Next]_vars

\* The loop runs, and the peers of connections that do not break go on.
FairSpec == Spec /\ WF_vars(Loop) /\ \A f \in Fd : WF_vars(Peer(f))

-----------------------------------------------------------------------------
(* Properties *)

\* Every variable keeps its type; a connection is retried at most MaxTry times.
TypeOK ==
  /\ \A i \in DOMAIN down : down[i] \in Url
  /\ cache_url \subseteq Url
  /\ info \in [Info -> [live : BOOLEAN, fd : Fd \union {-1}, url : Url \union {0},
                        status : SUBSET ANT_DUMP, try : 0..MaxTry, code : Code \union {0},
                        lines : BOOLEAN, mode : Mode \union {"close"}]]
  /\ socks \in [Fd -> Info \union {0}] /\ nconn \in 0..maxconn
  /\ pc \in {"fill", "wait", "event"} /\ ntask \in 0..NTask
  /\ ev \in [Fd -> SUBSET {"in", "out", "err"}]
  /\ net \in [Fd -> [st : {"closed", "leaked", "connecting", "up", "reset"},
                     reg : SUBSET {"in", "out"}, req : BOOLEAN, stage : 0..3,
                     eof : BOOLEAN, code : Code \union {0},
                     mode : Mode \union {"close"}]]
  /\ nadd \in 0..MaxAdd /\ nfail \in 0..MaxFail /\ alive \in BOOLEAN
  /\ dumped \in [Url -> Nat]

\* Whatever the earlier events of the same epoll_wait closed, freed or opened, and
\* whichever descriptor numbers were used again, an event finds the http_info of
\* its own connection in socks: the exit on http->fd != event.fd is never taken.
EventFindsConn == alive => \A f \in Fd : ev[f] # {} => ~Stray(f)

\* nconn is the number of http_infos that are not freed, and descriptors belong to
\* them one to one: no path to http_clean or do_error forgets a close, a count or
\* an entry of socks, except the descriptor of a connect that fails at once.
ConnsCounted ==
  alive =>
    /\ nconn = Cardinality(Live)
    /\ \A f \in Fd : net[f].st \in {"connecting", "up", "reset"}
                       <=> \E i \in Live : info[i].fd = f /\ socks[f] = i
    /\ \A i, j \in Live : info[i].fd = info[j].fd => i = j \/ info[i].fd = -1

\* However many connections were opened for the same url, its page is dumped at
\* most once, and never if an earlier run of the crawler has it on record: that
\* dump counts.
DumpedOnce == \A u \in Url : dumped[u] <= 1 /\ (dumped[u] = 1 => u \in cache_url)

\* A connection nothing will end: do_create failed and nobody looked, nothing was
\* sent on it, or the peer closed it in the middle of the answer.
Stuck(i) ==
  /\ info[i].live
  /\ \/ info[i].fd = -1
     \/ net[info[i].fd].reg = {}
     \/ ~net[info[i].fd].req /\ net[info[i].fd].reg = {"in"}
     \/ net[info[i].fd].eof /\ net[info[i].fd].stage < 3

\* Queued urls get their connection: as long as a connection is left that is not
\* stuck, the queue is emptied again and again, or the process exits.
QueueDrained ==
  (down # <<>>) ~> (down = <<>> \/ ~alive \/ \A i \in Info : Stuck(i))
=============================================================================
