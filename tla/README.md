# TLA+ models of recycle_bin

`recycle_bin` is a collection of independent programs and libraries.  This
directory holds TLA+ models of the ones that carry logic of their own, the TLC
runs that check them on small instances, and TLAPS proofs of properties that
hold for every instance.  `PROJECT.json` lists the components, the runs, the
lines each definition stands for, the hazards the properties are aimed at and
the theorems.

## Inventory

| part | state it keeps | operations | what is hard | what makes it correct |
|---|---|---|---|---|
| `processpool` | `pp_pool_t`, a stream socket pair, the forked children | `pp_pool_new/add/process_addn/wait/free`, the children's read loop | many readers on one socket, timeouts on both sides, retries | a written record is run by one child; return values mean something; calls end |
| `thread` (thread servers) | a ring of descriptors with `iget`/`iput`, or one slot and a flag | accept loop, worker loop | ring overrun, wakeups, who owns a connection | connections are served once, in order, and none is forgotten |
| `thread/user.c`, `libusc_mrcp.c`, `proto.h` (mrcp service) | one engine handle, `status`, `user_cond`, worker threads; the bytes of records on their way | `asr_init`, `service_init`, release, destroy over several connections; writing and reading records | the connections of one client are served by different threads; short reads and writes, buffers of two sizes | services run on a live engine; a client gets to its end; a record that was sent is the record that is read |
| `mini_ant` (crawler) | two threads (http loop, resolver), five mutexes, url and dns caches, queues; per connection the state of a response | `url_add`, `filter_add`, `down_add`, dns send and receive, connection state machine, heads and bodies, pages and their links | urls handed over under different locks, retries, timeouts, table limits, responses in pieces, keys that are pointers into reused arrays | a url is in one place and is downloaded in the end, once; a page that is written is the page that was sent |
| `conn`, `wsurl` (load generators) | goroutines joined by channels, atomic counters | producer, rate and duration goroutines, workers, report; lua pipelines | closing channels others use, shutdown, an interrupt | n requests are made and accounted for; the program ends |
| `http_server` (mini_tor) | epoll loop, `cache_sock`, an array of connections that grows, one `errno` | accept, read head, answer with a file or a listing, free | partial reads, stale errno, descriptor reuse, growth of the array | an event finds its own connection; the answer is about what was asked for |
| `ng-go` (port of the nginx stream proxy) | upstream peers with weights and failure counters; sessions | get, free and notify peer; proxy session | weights drifting, tried bitmap, failure accounting | weights stay in range; a failed peer is not chosen again |
| `chowder/redis` (ae event loop) | file events, time events, a poll back end | create, delete, process events | callbacks change the table that is walked | table and back end agree; timers fire |
| `gurl` | configured sequences of http commands, expression evaluation | configuration, control flow, request workers | goroutines and reports as in `conn` | commands run as configured |
| `rbtree`, `datrie`, `char_engine` | search structures; a matcher of formats | insert, delete, find, match | structural invariants over long histories; a scan that does not go back | order, balance, agreement with a reference |
| `use_libnids` | one capture status, the mails of all streams in a hash table, files | the callback of the capture library for a piece of a stream | streams interleave and share the status; table with chains | one stream, one mail, written whole |
| `ds`, `libc`, `libs`, `corecode`, `coreutils` | small helpers | string, queue, stack, option and file helpers | boundary cases | agreement with a reference |
| `GAS`, `leetcode`, `programming_in_go`, `test_hash`, `nginx`, `shell`, `tool`, files at the top | none | exercises, notes, scripts | - | - |

The programs do not call each other.  Inside a program the parts interact as
follows: the pool's parent and children through the socket only; the threads of
the servers through a mutex and one or two condition variables; the two threads
of `mini_ant` through `total->down`, `cache_dns` and `queue_dns`, each under a
mutex of its own; the epoll loop of `http_server` and the callback of
`use_libnids` are one thread each, interleaved with their peers; the goroutines of the load generators through channels, a
wait group and atomic counters.

## Modules

| module | models | uses |
|---|---|---|
| `ProcessPool` (`MCProcessPool`) | `processpool/src/processpool.c` | |
| `ThreadRing` | `thread/thread_server02.c`: ring of descriptors | |
| `HandOff` | abstract: connections wait in order, each is taken once | |
| `ThreadSlot` | `thread/thread_server01.c` and `thread_server_2err.c`: one slot, with and without a wait of the main thread | implements `HandOff` |
| `MrcpServer` | `thread/user.c`, `thread_server.c` and the calls of `libusc_mrcp.c` | |
| `Proto` | `thread/proto.h` and how `libusc_mrcp.c` packs a call: bytes, short reads and writes | |
| `AntDns` (`MCAntDns`) | `mini_ant`: `url_add`, `process_cache_dns`, `thread_dns_main` | |
| `DnsPacket` | `mini_ant/src/ant_dns.c`: queries, answers, `resolv.conf` | |
| `AntHttp` | `mini_ant`: `http_event_loop`, `do_write`, `do_read`, `do_error` | |
| `AntBody` | `mini_ant/src/ant_http.c`, `ant_socket.c`: how a response in pieces becomes a page | |
| `AntHash` | `mini_ant/src/ant_hash.c` and its copy in `use_libnids`: chains of pointers to keys | |
| `AntPage` | `mini_ant`: `filter_add`, `uniq_put`, `file_extract_url`, `parse_page`, `html_dump` | `AntHash` |
| `AntText` | `mini_ant`: UTF-8, charset, links, domains, the record of urls, growing buffers; `tor_string.c` | |
| `CharEngine` | `char_engine/str_match.c` | |
| `MCFormats` | one part per behaviour: records, url filter, response, captured mails, or a pure function on any small input | extends `Proto`, `AntPage`, `AntText`, `AntBody`, `SmtpCapture`, `DnsPacket`, `CharEngine` |
| `HttpServer` (`MCHttpServer`) | `http_server/src`: `mini_tor.c`, `tor_http.c`, `tor_array.c` | |
| `MailCapture` | abstract: every stream has a mail of its own | |
| `SmtpCapture` | `use_libnids/parse_smtp_clent.c` and its queue | `AntHash`; implements `MailCapture` |
| `LoadBench` | `conn` and `wsurl`: `Producer`, `main`, `OnceClient`, `one`, `Report` | |
| `ProcessPoolProofs`, `ThreadRingProofs`, `ThreadSlotProofs`, `LoadBenchProofs`, `AntDnsProofs`, `AntHttpProofs`, `HttpServerProofs`, `SmtpCaptureProofs` | theorems | the module they are named after; `ThreadSlotProofs` also has those about `HandOff` and `MrcpServer`, `ThreadRingProofs` those about `Proto` and `AntBody`, `SmtpCaptureProofs` those about `AntPage` |

Operators whose comment begins with "Fault:" are deliberately wrong forms of the
definition that follows them; no action uses them.  They are there to check that
each property notices the mistake it is about.

### ProcessPool

`pool` is the `pp_pool_t`, `sock` the socket pair as a bounded queue of records,
`child` the children in the order of `fork`.  A record is named by the call of
`pp_pool_add` and by the loop counter `ntry` that wrote it, since one call can
write its record twice.  `pc`, `back`, `togo` and `ntry` say where the parent is;
every place where it may sleep (`write`, `select`, `wait`) ends an action.
Fields `pp_pool_new` leaves as `malloc` returned them are chosen from `Garbage`.
A child reads, selects on an empty socket, runs a record, and leaves on a
timeout; `Spec` lets `fork`, `write` and `select` fail when `KernelErrors` holds.

### ThreadRing, ThreadSlot

A critical section under the pool's mutex is one action; `Sleep`, `Spurious` and
`Signal` are `pthread_cond_wait` and `pthread_cond_signal`.  In `ThreadRing`,
`pending` is a history variable: the connections put and not taken, against
which the array and its two indices are compared; `overrun` records that a
connection was put into a full ring.  In `ThreadSlot`, `mainWaits` says which of
the two servers is modelled: the one whose main thread waits for the slot to be
empty, or the one that overwrites it.

`HandOff` is what both one-slot servers promise.  The mapping (`Promise` in
`ThreadSlot`): the waiting connections are the one in the slot, if `ready` is
set, and behind it the one that main has accepted and not put yet; `reliable` is
`mainWaits`.  `Put` moves a connection inside `waiting`, a stutter, or forgets
the oldest one when main does not wait.  The ring of `ThreadRing` does not
implement it, since an overrun forgets everything that waits.

### MrcpServer

Clients make the calls of the test program in order, over one connection for the
engine and one for the service; worker threads accept a connection and serve its
records.  `status` and the engine handle are what `asr_init`, `service_init` and
the destroy branch of `process_msg` share; the steps of the destroy branch that
run without `user_mutex` are actions of their own.  What may fail: a connect, after
which the test program goes on with a handle that is no descriptor (nothing is written
to it and reads return at once); the opening of the engine, whose result the code only
prints; and a recognition, after which less than the head of an answer is sent.  The
history `hit` names the runs that met an `asr_destroy` between their `asr_init` and the
answer to `get`.

### Proto

A call is its fields; `PUSH_...` packs them into the buffer as long as they fit
and the caller ignores a refusal, as in the code (`Pushed`).  Lengths are four
bytes each, least significant first.  `writen` and `readn` move some of the bytes
asked for.  The reader is the server's `readvrec`, whose buffer
grows, or the client's `readvrec1`, which cuts a record off.

### AntDns, AntHttp

`AntDns` has the http thread's path through `url_add`, the loop that takes urls
while there is room for a connection, and the resolver's loop: connections to the
name server, the table `cache_sock`, batches of names, answers, `clean_fd`, and the
five steps of `process_cache_dns`.  A section under one mutex is one action except
where the code reads outside it.  An answer is `addr`, `none` (flags 0x8180 and no A
record: zeros are stored and the flag is set) or `bad`.  `total->down` is `down`, its
elements from head to tail, and `size`, its count; after an append that raced with
`queue_join_init` (`JoinRaces`) `behind` holds the elements linked behind the tail,
which `size` need not count.  `Put`, `JoinQueue` and `Take` say what the queue's
functions do to such a list: elements are cut off, what a freed tail is given is lost
or the process dies, and a get past the end ends the process.  `AntHttp` has
the event loop with the array from descriptors to `http_info`, the handling of
each kind of event as one action (the loop is one thread), retries, and the
kernel's reuse of descriptor numbers.  What the one module gives to the other is
the queue `total->down`: `AntDns` shows what enters it, `AntHttp` takes it from
`Supply`.  In `AntHttp` a body is complete or not by what its framing lets
the code believe; `AntBody` has the bytes.

### AntBody, AntPage, AntText, DnsPacket, AntHash

`AntBody` follows one response: the server sends lines and bytes, any number of
them at a time; an event reads what is there; inside a chunk the code blocks.
After an error `do_error` opens a new connection and keeps everything of the
`http_info` but its status: the response comes again from its beginning and meets
the page, the rest of a chunk and the line count of the lost one.  A response is its
lines and the pieces of its body; `Sent` is how a server sends it, each piece behind
its size where the lines say so, and `Data` what the page should be.

`AntPage` is the filter of urls and its callers: the options, `file_extract_url`, the
links of a page and the redirects of `do_read`.  A key of `uniq_hash` is a pointer: to
an option's own text, to the one array of `file_extract_url`, of `parse_page` or of
`http_event_loop` (`url_buf`, for a redirect to a path), or to the location inside an
`http_info` that `http_clean` frees, in a block that `malloc` gives out again.
`AntHash` compares what the pointers point at when a lookup is made, as `strcmp` does;
`Memory` says what that is.  An array whose function has returned and a freed block
are dead and may hold anything: which of them (`Dead`) happen to hold the url that
comes is chosen anew each time.  An action looks at one url: `reading` is what is left
of the file or the page being read, and an option or a redirect comes when neither is.

`AntText` and `DnsPacket` are functions.  Text is a sequence of tokens, which have
a width where a loop counts characters; scanning loops are folds that carry the
loop's variables.  `Scanned` is the `sscanf` of both scans of a page, with the
characters each of them skips and stops at.  Each has a reference definition
beside it that says what it should compute and on which inputs.

### HttpServer

Connections are numbered by `accept`; a context has the number of its connection.
`slot` is `cache_sock` and grows as `tor_array_put` makes it grow; `fd` gives
each connection the lowest free descriptor, `dirs` are the descriptors that
`list_dir` never closes.  `events` are those of one `epoll_wait` that are still to
be handled, so that earlier ones of the same call can close what later ones are
about.  A request is what `stat` says of the file name and of the `Referer`.
`errno` is a variable that only failing calls set.  Writing past the end of the
array ends the behaviour (`overrun`), since nothing is defined after it.

### SmtpCapture

`table` is `g_smtp_hash`, `status` the one `g_dump_status.smtp`.  A callback is one
action.  The mapping to `MailCapture` reads the mail of each stream out of its
chain.  `since` and `disturbed` are history variables: what a stream has sent
since its `Return-Path`, and whether another stream's `QUIT` came in between.

### CharEngine

`str_match` on pieces of a format; the reference is the set of texts that a
format stands for, built without a scan.

### LoadBench

A channel of `struct{}` is its length and its closed flag.  The three channels
are the producer's, the one of `-duration` and the one of `-rate`; `oldwork` and
`work` say which of them the pacing goroutine polls and the workers range over.
A worker's record holds its place in the session.  `reading` is the reader
goroutine of `wsurl`.  `rep` is the report goroutine with `connNum` and the
length of `allResult`; `main` is the main goroutine, woken by the wait group
(`done`) or an interrupt (`sig`).  `waitQuit` has no buffer, so its send and its
receive are one action.  `conn` and `wsurl` differ in the session only, and
`cfg.tool` chooses it.

## Runs

| run | module, cfg | what it shows |
|---|---|---|
| `pool_safety` | `MCProcessPool`, `ProcessPool_safety.cfg` | records are delivered once, in order; forks stay in their budget; what the return values tell |
| `pool_liveness` | `MCProcessPool`, `ProcessPool_live.cfg` | calls return, `pp_pool_wait` ends, queued records are run |
| `ring` | `ThreadRing`, `ThreadRing.cfg` | the ring is a queue until it overruns; no signal is missed |
| `slot` | `ThreadSlot`, `ThreadSlot.cfg` | both servers implement `HandOff` (`HandsOff`); nobody sleeps on everybody |
| `mrcp` | `MrcpServer`, `MrcpServer.cfg` | services on a live engine, in every run that met no `asr_destroy`, unless the last opening failed; every such run ends, unless a connect or a recognition failed |
| `dns` | `MCAntDns`, `AntDns.cfg` | a url is in one place, is downloaded only after an answer for its host, and its host is still asked for |
| `dns_live` | `MCAntDns`, `AntDns_live.cfg` | a url is taken in the end, though a connection hangs or breaks |
| `dns_race` | `MCAntDns`, `AntDns_race.cfg` | violation: a url is appended to a queue that was freed |
| `http` | `AntHttp`, `AntHttp.cfg` | events find their connection, connections are counted, pages dumped once, the queue drains |
| `bench` | `LoadBench`, `LoadBench.cfg` | n requests, every result accounted for, no work after the deadline, an end |
| `server` | `MCHttpServer`, `HttpServer.cfg` | an event finds a live context of its own connection; when the array is overrun; which answers are wrong; every request is answered or its connection closed |
| `formats` | `MCFormats`, `Formats.cfg` | records arrive as sent, urls are passed once unless an array was overwritten, a page that is written is whole except in the cases named, the capture of mails implements `MailCapture` and only another stream's `QUIT` makes a hole in a mail, and the functions agree with their references |

Some properties describe exactly when the code goes wrong: `AddResult`,
`QueueUntilOverrun`, `OverrunByDirs`, `AnswerFits`, `HoleNeedsQuit`, `PageWhole`,
`HeldBack`, `RecordsArrive`.  They state the condition under which a mistake
happens and claim that there is no other one.

### Bounds

* `ProcessPool`: two calls of `pp_pool_add` (four records), a socket of one or
  two records and up to three children, so that the socket fills, children
  compete, and a child leaves while another forks.
* `ThreadRing`: a ring of three and seven connections, so that both indices wrap
  twice and the ring overruns.  `ThreadSlot`: two workers, five connections.
* `MrcpServer`: two runs of the test program, by two clients or one after the other
  by one, and three workers, one connection less than there are in two runs; one
  failing connect or recognition, and openings of the engine that fail without a
  bound.
* `AntDns`: two hosts, two urls of one and one of the other, two connections to the
  name server, one of the http loop, and one failure of the network or a system call,
  one repeated answer or one connection that hangs.  `dns_live`: the same urls, so that
  what a race of one host leaves in `total->down` meets the url of the other, and a
  name is queued while the resolver sleeps; one connection to the name server, two of
  the http loop and one failure, so that one of them may hang and the other works on.
* `AntHttp`: one url added up to three times, two connections at a time, one
  retry, two failures, four descriptors; a redirect and a chunked page.
* `LoadBench`: `-an` 0 to 2, two workers, channels of one element, so that every
  send can block, two emissions of the timed and paced sources, one chunk of
  input per session.  With `-duration` the value of `-an` is not read.
* `HttpServer`: four connections, two at a time, one reset, four descriptors and
  an array that begins with two entries, so that it grows, numbers are used
  again, open directories push them up, and they run out.
* `SmtpCapture`: three streams of three pieces, two streams in one bucket and two
  with the same sender (and so the same file name within a second), two
  descriptors.
* `Proto`: calls that fit, that do not fit the buffer, and that exceed either
  reader's buffer; reads and writes of 1, 3 or all bytes.
* `AntPage`: three urls in two buckets, two blocks for an `http_info`, four urls
  coming, so that a third may come back by another pointer after both buckets are in
  use; `AntBody`: seven responses of three bytes, every split into pieces, both
  retries of the code.
* The functions: every text of up to 4 to 7 tokens, every format of up to three
  pieces against every string of up to three characters.  The tokens `seps` and `long`
  bring five separators and a charset of more than 36 characters into texts that
  short, and pages of memory of four bytes every place at which a file may end.

### Fairness

* `ProcessPool`: the scheduler runs the parent inside a call and each child; the
  client of the library and the kernel's failures owe nothing.  `pool_liveness`
  uses finite timeouts, because a negative one blocks by contract.
* `ThreadRing`, `ThreadSlot`: the threads run; no client has to come and no
  spurious wakeup has to happen.
* `MrcpServer`: the clients make their next call and the workers run.
* `AntDns`: both threads run, a connected name server answers each query, and a
  connection of the http loop that does not hang ends in one of its turns
  (`SF_vars(ConnEnds)`: between two turns the loop fills up and waits for events,
  which is when none can end).
* `AntHttp`: the loop runs, and peers whose connection does not break answer.
* `HttpServer`: the process is scheduled; clients owe nothing, neither a whole
  head nor a close.  Deadlock is checked; `Idle` is the loop in `epoll_wait`
  without an event, or the end of the process.
* `MCFormats`: safety only, without fairness.  A captured stream
  and an input end, and then nothing more happens, so that deadlock is not
  checked.
* `LoadBench`: every goroutine runs, the ticker expires, and a peer answers or
  closes (the client has no deadline of its own without `-w`, and `wsurl` waits
  for the peer's close).  The interrupt owes nothing.  A `select` of Go chooses
  among the ready cases at random; no property here needs more than weak
  fairness of the goroutine as a whole.

## What is proved

| theorem | statement |
|---|---|
| `PoolTypeCorrect`, `PoolDelivers`, `PoolStartsInOrder`, `PoolForkBudget`, `PoolAddResult` | `Spec => []TypeOK`, `[]Delivery`, `[]StartedInOrder`, `[]ForkBudget`, `[]AddResult` of `ProcessPool` |
| `RingTypeCorrect`, `RingIsQueue` | `Spec => []TypeOK`, `[]QueueUntilOverrun` of `ThreadRing` |
| `SlotTypeCorrect`, `SlotImplementsHandOff` | `Spec => []TypeOK`, `Spec => HandsOff` of `ThreadSlot`, where `HandsOff` is the specification of `HandOff` under the mapping |
| `HandOffInOrder`, `SlotInOrder` | `[]InOrder` of `HandOff` under the mapping, from the specification of `HandOff` and from that of `ThreadSlot`: taken in the order of accept, none twice; if reliable, everything accepted is waiting or taken |
| `ServiceTypeCorrect`, `ServiceFindsEngine` | `MrcpSpec => []MrcpTypeOK`, `[]ServiceOnLiveEngine` of `MrcpServer` |
| `RecordsArriveInOrder` | `ProtoSpec(todo) => []RecordsArrive` of `Proto`, for every sequence `todo` of calls |
| `PagePassedOnce`, `PageHeldBack` | `PageSpec(lists, pages) => []PassedOnce`, `[]HeldBack` of `AntPage`, for every file, every page whose links are urls (`Inputs(lists, pages)`), every redirect and whatever dead arrays hold |
| `BenchTypeCorrect`, `BenchRequestsExact`, `BenchResultsAccounted`, `BenchPrintsLast`, `BenchNothingLate` | `Spec => []TypeOK`, `[]RequestsExact`, `[]ResultsAccounted`, `[]PrintAfterReporter`, `NoWorkAfterDeadline` (an action property) of `LoadBench` |
| `DnsTypeCorrect`, `DnsSocketTable`, `DnsAnswerFirst`, `DnsJoinedOnce`, `DnsWaitingHostAsked`, `DnsUrlInOnePlace` | `Spec => []TypeOK`, `[]SocketTable`, `[]AnswerBeforeDownload`, `[]JoinedOnce`, `[]WaitingHostAsked`, `[]UrlInOnePlace` of `AntDns` |
| `HttpLoopTypeCorrect`, `HttpEventFindsConn`, `HttpConnsCounted`, `HttpDumpedOnce` | `Spec => []TypeOK`, `[]EventFindsConn`, `[]ConnsCounted`, `[]DumpedOnce` of `AntHttp` |
| `HttpTypeCorrect`, `HttpEventFindsContext`, `HttpAnswerFits`, `HttpOverrunByDirs` | `Spec => []TypeOK`, `[]EventFindsContext`, `[]AnswerFits`, `[]OverrunByDirs` of `HttpServer` |
| `SmtpMailStays`, `SmtpHoleNeedsQuit`, `SmtpCapturesMail` | `SmtpSpec => []MailStays`, `[]HoleNeedsQuit`, `SmtpSpec => CapturesMail` of `SmtpCapture`, where `CapturesMail` is the specification of `MailCapture` under the mapping |
| `PageIsWhole` | `BodySpec(r) => []PageWhole` of `AntBody`, for every response `r` |

They hold for every value of the constants that satisfies the named assumptions
of the modules (`ArgAssumption`, `BoundAssumption`, the ring's size and counts,
`WorkersAssumption`, `BoundsAssumption`, `DnsAssumption`, `HttpAssumption`,
`ServerAssumption`, `SmtpAssumption`, `QueueAssumption`, `MrcpAssumption`,
`ProtoAssumption`, `PageAssumption`, `BodyAssumption`).  Some of these say more
than that a number is a number.  The clients of `MrcpServer` are finitely many,
since the bound on the runs counts them.  The client's buffer in `Proto` is an `int`
in size, so that a length of four bytes is never cut.  `Inputs` says that files and
pages hold urls.  `BodyAssumption` is what HTTP asks of a server: the first line is the
status line, the size of a chunk is its length, and only the last chunk is empty; what
the lines say and what the chunks carry is free.  The descriptors of `AntHttp` are finitely many
and at least `maxconn + MaxFail`: connections in use and descriptors a failed
`connect` lost cannot use up the process's table, which is far larger than
`opt.maxconn`.  Those of `AntDns` are enough for `MAX_NCONN` connections.  And the
null pointer of `SmtpCapture` is not a queue.  The proofs are about `Spec`; what
the fairness of `FairSpec` adds plays no part in safety.

Every strengthened invariant was checked by TLC on the bounds above before it was
proved.

* **ProcessPool.**  `Delivery` and `StartedInOrder` are inductive only together
  with `Fresh`: the record that `pp_pool_add` is about to write has not been
  written, and every record written comes before it.  `TypeInv` adds that inside
  `pp_pool_add` the call number and `ntry` are positive and that a running child
  holds a real record.  `ForkBudget` needs only that no child exists before
  `pp_pool_new` ran.  `AddResult` speaks of calls that have returned; `CallInv` adds
  that exactly these have a result, and that without `PP_AUTO_ADD` a call is on its
  second turn only after the record of the first went in.
* **ThreadRing.**  `RingInv` replaces modular arithmetic: as long as nothing
  overran, `iput` is ahead of `iget` by the number of waiting connections, or by
  that number less the size of the ring; there is room, and the slots hold the
  waiting connections.  The code stores the end of the ring as `MAX_THREADS`
  and not as 0: `iget` is 0 only until the first take, which is why one extra
  connection fits at first.
* **ThreadSlot, HandOff.**  A step of the server is a step of `HandOff` or a
  stutter: `Accept` and `Take` are `Accept` and `Take`, `Put` is a stutter into an
  empty slot and `Forget` into a full one, everything else leaves the mapped
  variables alone.  The type invariant is enough, with `SlotFilled`: a set `ready`
  means that the slot holds a connection, as does main while it waits to put one.
  `InOrder` of `HandOff` is inductive with `Newest`: what waits increases and
  nothing is newer than `accepted`.  `SlotInOrder` puts the two together: the order
  of service, and no loss when main waits, for any number of workers and
  connections.
* **MrcpServer.**  `ConnInv` is about every connection of a recognition: it is in the
  queue of `listen` once or with one worker (`OneServer`), nothing is known of it before
  `service_init` (`Unused`), and `service_init` is the first record of it (`InTurn`).
  The client goes past `get` only with an answer on that connection, which the one
  worker sends after it has left `service_init` behind.  So a worker in `service_init`
  serves a run between its `asr_init` and that answer, and by `HitInv` an `asr_destroy`
  that is carried out meanwhile has hit it.  `StatusInv` says when a set `status` lies: a
  worker that closed the engine has not come to `set_status_close`, or the last opening
  failed.
* **Proto.**  Everything that is written in the end is one stream `s`: the frames of
  the records sent, each at its place `p[k]`.  `FlightInv` says that what the reader
  has of a record, what is on the wire and what is not written yet are three
  consecutive parts of `s`, the first of them at the frame of the record being read
  (or four bytes behind, once its length was read), and that together they reach the
  end of `s` while the writer is open.  It holds until the reader gives up, and until
  it has cut a record off, after which its place in `s` is lost.  `DoneInv` is then what
  was read so far; the part of `RecordsArrive` about the fields needs that a buffer
  whose length is the one of all fields holds every one of them where `Pop` looks for
  it (`MadeInv`).  Those are inductions over the fields of a call and over the
  records, made with sets of numbers and the fact that a set of naturals has a
  least element.
* **AntPage.**  `PageInv`: `ChainInv` relates the table to the history, every pointer in
  a bucket being that of a url passed on which fell there; since an array is
  overwritten by the next url, the entry of that url may compare unequal to itself
  afterwards, but a later url that comes by the same array compares equal to it.  So a
  second url that comes by an array into a bucket is always held back (`LinkInv`), which
  makes, for each array, an injection of the urls it passed on into the buckets, and
  `HeldBack` counts them.  `HeldInv` names the earlier url; `UrlBufInv` says that what
  `url_buf` holds came by it, since the array of `http_event_loop` never dies.
  `PassedOnce` needs that an option's own text is never overwritten (`PointerInv`).
* **AntBody.**  `Layout` gives the places `e[k]` and `d[k]` at which chunk k ends in what is
  sent and in the page, and `Rest` says that what has arrived and what has not are,
  one behind the other, what the server sends behind some place.  `ReadingInv`: while a
  body in chunks is read, that place is in front of the size of a chunk, the page being
  as long as all chunks before it (`AtSize`), or `chunkhead` bytes in front of the end of
  a chunk (`InBytes`), or the connection has ended with nothing left to read (`Cut`, which
  `ChunkHead` takes for the end of the body).  Without chunks the place is the length of
  the page.  The least line end behind such a place is that of the size line, so that
  the number read is the length of the chunk, and 0 only behind the last one.
  `StatusInv` relates the code to the first line that was ever read, and says that an
  `http_info` whose head does not count as read holds nothing of an earlier connection
  unless one was lost after its head.
* **LoadBench.**  `Supply` counts the tokens: without `-rate` the tokens taken and
  those in the producer's channel are those sent; with it, the tokens taken and
  those in the paced channel are those emitted, the tokens received from the
  producer are at most one more than those emitted, the pacing goroutine is below
  n while it runs and at n when it stops.  `LeftDrained` says that a worker
  leaves only a closed and empty channel, and that it stays so.  `ResultsAccounted`
  counts workers by their places: each step of a session is looked at for which of
  the counted sets its worker enters or leaves, and `PrintAfterReporter` says where
  the report goroutine is when `main` reads `connNum`.  `NoWorkAfterDeadline` rests
  on `DeadlineInv`: behind its close the channel of `-duration` only gets emptier,
  and the goroutine is done when it is empty.
* **AntDns.**  `EventInv` and `TableInv` say of the resolver's connections what
  `SocketTable` counts: every open descriptor is watched for output until it is in
  `cache_sock` and only then for input alone, so that `clean_fd` finds it there.
  `HostInv` is the life of a `cache_val` as both threads see it: an unknown host is
  empty, a host whose flag is clear has its queue, a set flag comes after what the
  answer held for an address, and the resolver's place in `process_cache_dns` says
  which of its five steps are done.  `AnswerBeforeDownload` and `JoinedOnce` follow,
  for what is linked behind the tail of `total->down` as for the rest.
  `UrlInOnePlace` is inductive with them: `Places` is the sum of the counts of a url
  in each place, lemmas say what `Append`, `Tail` and concatenation do to a count, and
  each step takes from one place what it adds to another; a url appended to a queue
  that was freed, and what a put or a join cuts off behind the tail, is counted in
  `lost` (`PutPlaces`, `JoinPlaces`, `TakePlaces`, and `RacePlaces` for the append that
  races with the join).  `WaitingHostAsked` follows a host's name from
  `queue_dns` through the connection to the answer, which are the sets of `Asked`.
* **AntHttp.**  `HttpInv`: `Sound` says that `socks` and the descriptors of the
  http_infos in use are inverse to each other on the descriptors that the kernel
  has open, and an event is there only for one of these.  The retry in `do_error`
  may get the number of a descriptor that another event of the same `epoll_wait`
  has just closed; that event was handled, so that none is left for it.
  `LeakInv` bounds the descriptors that a failed `connect` lost by the failures,
  which with the count of connections shows that `socket` has one left to give.
  `DumpedOnce` is inductive by itself, since `cache_url` is looked at before every
  read; the dump of an earlier run, which put its url on record, counts as one.  Once the process has exited only types, counters and dumps are claimed.
* **HttpServer.**  `EntryInv` says that the entry of every open descriptor is its
  connection's, as long as the array was not overrun.  It is inductive with
  `KernelInv` (no two open connections or directories share a number), `BatchInv`
  (no two events of one `epoll_wait` are about one descriptor, and none of the rest
  is about the connection being answered) and `ArrayInv` (the array is never
  empty).  `ErrnoInv` says that `ENOENT` comes from the lookup of a `Referer`.
* **SmtpCapture.**  `IsTable` says that every element of a chain is in the bucket of
  its key and that no key is there twice, so that what a lookup of `AntHash` finds
  is the one element of its stream; `StatusInv`, that `DOWNLOAD` lasts as long as a
  callback, and that a mail which does not grow any more was disturbed by a
  `QUIT`.  With them a callback begins, continues or ends the mail of its own
  stream, which are the steps of `MailCapture`, or is a stutter.

Only model-checked:

* every liveness property (`CallsReturn`, `WaitEnds`, `QueuedServed`,
  `WaitingServed`, `NoStandstill`, `ClientsFinish`, `UrlDownloaded`, `QueueDrained`,
  `BenchEnds`, `RequestServed`) and deadlock freedom: fairness and `ENABLED` are
  out of the prover's reach;
* `TextRead`: it compares pure functions with their references.  They are folds and
  recursions over the input, about which an induction over data would be needed.

## Disagreements found

Shown by a run that expects a violation: `url_add` and `process_cache_dns` use different mutexes
for the same queue (`dns_race`).  Besides the url that races, the race may leave
`total->down` with an element its size does not count, so that a later put cuts one
off, a url is never taken, or the last get runs past the end (`UrlInOnePlace`,
`UrlDownloaded`).

Stated by properties of passing runs, which say when they happen:

* `pp_pool_add` returns 0, documented as success, after two timeouts in which
  nothing was written, and the loop is not left after a successful write either,
  so that a record normally enters the socket twice (`AddResult`).  A pool forks
  up to `max_process + 1` children (`ForkBudget`).
* `process_msg` answers the client before it clears `status`: a client that opens
  the engine again, or a second client, may sleep for ever, or find the old `status`
  and go on without an open handle.  `status` is set also when the engine did not open.
  These are the exceptions of `ClientsFinish` and `ServiceOnLiveEngine`.
* An answer without an A record sets the flag of its host, whose urls are then
  downloaded from address zero; a comment (`ant_dns.c:293-294`) says that a host with
  the flag has its address.  `AnswerBeforeDownload` promises an answer, not an address.
* `Report.Wait` may discard results that are still buffered (`ResultsAccounted`
  counts them up to there).  With `-an 0` and `-rate` some requests may be made,
  which no document forbids.
* `tor_array_put` grows too little when the index is a multiple of the length.
  Only descriptors that `list_dir` leaves open can bring a number there
  (`OverrunByDirs`).
* A file that exists is answered with 404 when `errno` is left from the lookup of
  a `Referer`; a head that has arrived in part is answered with the listing of the
  data directory (`AnswerFits`).  An error event leaks its context
  (`EventFindsContext`).
* A `QUIT` ends the capture for all streams; one of a stream without a mail reads
  through a null pointer; two mails of one sender in one second have the same
  file (`HoleNeedsQuit`, `MailStays`; `files` in `SmtpCapture`).
* A page that is written need not be whole: when what has arrived ends in front of
  or inside the line with the size of a chunk, when a connection was lost after its
  head and the response came again, when `Content-Length` stands behind
  `Transfer-Encoding`, or when a response without a length is cut off.  A head that
  comes in pieces drops the page (`PageWhole`).
* `uniq_hash` keeps pointers into arrays that are reused or freed: a url that came
  as a line of a file, as a link or by a redirect may be passed on again by another
  pointer, a new one may be held back because of an earlier one in the same bucket,
  and each array passes on no more urls than the table has buckets (`PassedOnce`,
  `HeldBack`).
* `proto_encode`'s test for room forgets the four bytes of the length; a refused
  field is ignored and left out of the record; `readvrec1` loses the framing when
  it cuts a record off (`RecordsArrive`).
* In `str_match` a choice that does not fit goes on into the next choice of the
  format; names with an empty label are never resolved; `url_to_domain` leaves its
  result alone for an empty host (references beside the functions).
* The charset of a page ends at a quote or a space only: of an unquoted attribute what
  follows is taken along, up to 36 characters (`CharsetFound`).  Behind a link
  `parse_page` goes on by the url's length without the separators in front of it, so
  that the last characters of the url are searched for links (`LinksFound`).
  `cache_url_init` reads past what it mapped when the file fills its last page, and
  skips the first character of a line, so that an empty line joins the next one
  (`LogLoaded`).

Seen while reading and outside the models: after a `href` at the very end of a page
`parse_page` skips the zero byte and scans on; `parse_dns_packets` writes a byte in
front of `host_name` for an answer about the empty name; `writev` of an answer on a
nonblocking socket may write a part of it, and its result is not looked at; `parse_page` scans into an array of
4096 characters with a width that leaves no room for the end of the string;
`usc_mrcp_service_recognize` allocates four bytes less than it packs; a descending
range in a format of `str_match` never ends.

## Not modelled

Option parsing, formatting and logging; wall-clock time (a timeout may happen
whenever it is armed); memory exhaustion except where the code handles it.  Of
components that have a module: the names of the files that `mini_ant` writes, its
cookies, `read_config` and the statistics of its interrupt; methods other than GET
and the options of `http_server`; the engine behind the mrcp service, the lua
virtual machine, the capture library, which are external; the listen modes and the
port scan of `conn`.

Components without a module:

* `datrie`: a listing that does not compile (characters are missing), so that there
  is no behaviour to translate.
* `ng-go`: of the stream proxy every assignment of an event handler is commented
  out, so that a session does not go on after its first call.  Its round robin is
  called from there only and is planned as a set of operators; the configuration
  turns strings into records.
* `chowder/redis`: an event loop without a program that runs it; planned.
  `DeleteFileEvent` clears the mask of a copy of the table's entry, which a model
  of it would be about.  `chowder/libevent` has types only.
* `conn` and `wsurl` lua pipelines: what a stage does is a script.  A stage with
  `-an 0` leaves when its predecessor is done and its input is empty.
* `gurl`: what happens is in the configuration; its workers are those of `LoadBench`.
* `rbtree`: planned, as operators against a reference.
* `corecode`, `coreutils`, `ds`, `libc`, `libs`: helpers of one call, most of which
  nothing in the repository calls.
* assembler listings, thread exercises, socket templates, exercises, notes, editor
  and shell files: demonstrations of one call or instruction each.

## Plan

1. `RoundRobin` (`ng-go`, `upstream_round_robin.go`): weights stay within bounds,
   `tried` excludes peers, every peer taken is released once.
2. `AeLoop` (`chowder/redis/ae.go`): the table and the back end agree.
3. `RBTree` against a set, and `LuaPipeline`: every stage ends.
