---------------------------- MODULE AntDnsProofs ----------------------------
(***************************************************************************)
(* The two threads of the crawler, for any urls, hosts, connections and    *)
(* failures: every variable keeps its type, the table of sockets is right, *)
(* a host is answered before its urls are downloaded, no queue is joined   *)
(* twice, the name of a waiting host is never mislaid, and no url is in    *)
(* two places.                                                             *)
(***************************************************************************)
EXTENDS AntDns, FiniteSetTheorems, SequenceTheorems, TLAPS

-----------------------------------------------------------------------------
(* The parts of the invariant *)

Cache == [known : BOOLEAN, flags : 0..1, ip : {"unset", "none", "addr"},
          q : {"null", "queue", "freed"}, down : Seq(Url)]

\* The types of what the http thread and process_cache_dns work on.
UrlTypes ==
  /\ hpc \in {"idle", "put", "name", "direct", "item", "append"}
  /\ hurl \in Url \union {NoUrl} /\ (hpc = "idle" <=> hurl = NoUrl)
  /\ added \subseteq Url /\ taken \subseteq Url /\ lost \subseteq Url
  /\ val \in [Domain -> Cache]
  /\ queue_dns \in Seq(Domain) /\ down \in Seq(Url) /\ behind \in Seq(Url) /\ size \in Nat
  /\ htask \in 0..Tasks /\ nconn \in 0..ANT_MAX_EVENTS /\ nstuck \in 0..nconn
  /\ alive \in {"run", "exit", "crash", "abort"}
  /\ dropped \subseteq Domain

\* The types of the resolver's state.
NetTypes ==
  /\ rpc \in {"none", "create", "wait", "event", "answer", "flag", "lock", "join",
              "free", "null", "send", "end"}
  /\ resp \in (Domain \X Kind) \union {NoResp}
  /\ (HoldsCacheDns => resp # NoResp)
  /\ net \in [Sock -> {"closed", "connecting", "up", "eof", "reset"}]
  /\ reg \in [Sock -> SUBSET {"in", "out"}]
  /\ ev \in [Sock -> SUBSET {"in", "out", "err"}]
  /\ cache_sock \in [Slot -> Sock \union {0}] /\ nsock \in Int
  /\ check \in BOOLEAN /\ slot \in 1..(MAX_NCONN + 1) /\ ntask \in 0..Batch
  /\ sent \in [Sock -> SUBSET Domain]
  /\ ans \in [Sock -> SUBSET (Domain \X Kind)]
  /\ nfail \in 0..MaxFail

TypeInv == UrlTypes /\ NetTypes

\* Events are about open connections, and are handled before names are sent; a
\* connection is watched for output until it is in cache_sock.
EventInv ==
  /\ \A s \in Sock : ev[s] # {} => net[s] # "closed"
  /\ \A s \in Sock : "out" \in ev[s] => "out" \in reg[s]
  /\ rpc \in {"none", "create", "wait", "send"} => \A s \in Sock : ev[s] = {}

\* cache_sock, said without counting.
TableInv ==
  /\ nsock = Cardinality(Open) /\ nsock <= MAX_NCONN
  /\ \A i \in Slot : cache_sock[i] # 0 => cache_sock[i] \in Open
  /\ \A i, j \in Slot : cache_sock[i] # 0 /\ cache_sock[i] = cache_sock[j] => i = j
  /\ \A s \in Open : reg[s] = {"in"} \/ reg[s] = {"in", "out"}
  /\ \A s \in Open : reg[s] = {"in"} => \E i \in Slot : cache_sock[i] = s
  /\ \A i \in Slot : rpc # "end" /\ cache_sock[i] # 0 => reg[cache_sock[i]] = {"in"}

SockInv == EventInv /\ TableInv

\* Hosts the resolver has been told of.
Asked == {queue_dns[i] : i \in DOMAIN queue_dns}
           \union {d \in Domain : \E s \in Sock : d \in sent[s]}
           \union {d \in Domain : \E s \in Sock, k \in Kind : <<d, k>> \in ans[s]}
           \union {d \in Domain : \E k \in Kind : resp = <<d, k>>}

\* What the life of a cache_val looks like to both threads.
HostInv ==
  /\ \A d \in Domain : ~val[d].known => val[d] = NoVal
  /\ \A d \in Domain : val[d].known /\ val[d].flags = 0 => val[d].q = "queue"
  /\ \A d \in Domain : val[d].flags = 1 => val[d].ip # "unset"
  /\ \A d \in Domain : \A i \in DOMAIN val[d].down : Host(val[d].down[i]) = d
  /\ hpc = "put" => ~val[Host(hurl)].known
  /\ hpc \in {"name", "direct", "item", "append"} => val[Host(hurl)].known
  /\ hpc = "direct" => val[Host(hurl)].flags = 1
  /\ \A d \in Asked : val[d].known
  /\ rpc = "flag" => val[resp[1]].flags = 0 /\ val[resp[1]].ip # "unset"
  /\ rpc \in {"lock", "join", "free", "null"} => val[resp[1]].flags = 1
  /\ rpc \in {"lock", "join", "free"} => val[resp[1]].q = "queue"

\* What the queues and the sets of urls hold was given to url_add.
GivenInv ==
  /\ hurl # NoUrl => hurl \in added
  /\ taken \union lost \subseteq added
  /\ Range(down) \union Range(behind) \subseteq added
  /\ \A d \in Domain : \A i \in DOMAIN val[d].down : val[d].down[i] \in added

-----------------------------------------------------------------------------
(* Types *)

\* A url is a pair of its host and a number.
LEMMA UrlHost ==
  ASSUME NEW u \in Url PROVE Host(u) \in Domain /\ u # NoUrl
  BY DnsAssumption DEF DnsAssumption, Host, NoUrl

LEMMA Bounds == /\ MAX_NCONN \in Nat \ {0} /\ Batch \in Nat \ {0} /\ MaxFail \in Nat /\ 0 \notin Sock
                /\ ANT_MAX_EVENTS \in Nat \ {0} /\ Tasks \in Nat \ {0}
  BY DnsAssumption DEF DnsAssumption

LEMMA FailsAgain ==
  ASSUME nfail \in 0..MaxFail, nfail < MaxFail, nfail' = nfail + 1 PROVE nfail' \in 0..MaxFail
  BY Bounds

LEMMA PairNotEmpty == ASSUME NEW S, NEW T, NEW a \in S \X T PROVE a # <<>>
<1> PICK x \in S, y \in T : a = <<x, y>>
  OBVIOUS
<1> QED
  OBVIOUS

LEMMA EmptyDown == <<>> \in Seq(Url)
  OBVIOUS

LEMMA InitTypes == Init => TypeInv
<1> SUFFICES ASSUME Init PROVE TypeInv
  OBVIOUS
<1>1. NoVal \in Cache
  BY DEF NoVal, Cache
<1>2. UrlTypes
  BY <1>1, Bounds DEF Init, UrlTypes
<1>3. NetTypes
  BY Bounds DEF Init, NetTypes, HoldsCacheDns, NoResp
<1> QED
  BY <1>2, <1>3 DEF TypeInv

\* Setting one field of a cache_val leaves the others, and the other hosts, alone.
LEMMA SetIp ==
  ASSUME NEW f \in [Domain -> Cache], NEW d \in Domain, NEW x \in {"unset", "none", "addr"},
         NEW g, g = [f EXCEPT ![d].ip = x]
  PROVE  /\ g \in [Domain -> Cache] /\ \A e \in Domain : e # d => g[e] = f[e]
         /\ g[d].ip = x /\ g[d].known = f[d].known /\ g[d].flags = f[d].flags
         /\ g[d].q = f[d].q /\ g[d].down = f[d].down
  BY DEF Cache

LEMMA SetFlags ==
  ASSUME NEW f \in [Domain -> Cache], NEW d \in Domain, NEW x \in 0..1,
         NEW g, g = [f EXCEPT ![d].flags = x]
  PROVE  /\ g \in [Domain -> Cache] /\ \A e \in Domain : e # d => g[e] = f[e]
         /\ g[d].flags = x /\ g[d].known = f[d].known /\ g[d].ip = f[d].ip
         /\ g[d].q = f[d].q /\ g[d].down = f[d].down
  BY DEF Cache

LEMMA SetQ ==
  ASSUME NEW f \in [Domain -> Cache], NEW d \in Domain, NEW x \in {"null", "queue", "freed"},
         NEW g, g = [f EXCEPT ![d].q = x]
  PROVE  /\ g \in [Domain -> Cache] /\ \A e \in Domain : e # d => g[e] = f[e]
         /\ g[d].q = x /\ g[d].known = f[d].known /\ g[d].ip = f[d].ip
         /\ g[d].flags = f[d].flags /\ g[d].down = f[d].down
  BY DEF Cache

LEMMA SetDown ==
  ASSUME NEW f \in [Domain -> Cache], NEW d \in Domain, NEW x \in Seq(Url),
         NEW g, g = [f EXCEPT ![d].down = x]
  PROVE  /\ g \in [Domain -> Cache] /\ \A e \in Domain : e # d => g[e] = f[e]
         /\ g[d].down = x /\ g[d].known = f[d].known /\ g[d].ip = f[d].ip
         /\ g[d].flags = f[d].flags /\ g[d].q = f[d].q
  BY DEF Cache

\* What total->down holds.
Listed == Range(down) \union Range(behind)

LEMMA EmptyRange == Range(<<>>) = {}
  BY DEF Range

LEMMA SeqRange == ASSUME NEW q \in Seq(Url) PROVE Range(q) \subseteq Url /\ Len(q) \in Nat
  BY LenProperties DEF Range

LEMMA AppendRange ==
  ASSUME NEW q \in Seq(Url), NEW x \in Url
  PROVE  Append(q, x) \in Seq(Url) /\ Range(Append(q, x)) = Range(q) \union {x}
<1>1. /\ Len(Append(q, x)) = Len(q) + 1 /\ Append(q, x)[Len(q) + 1] = x
      /\ \A i \in 1..Len(q) : Append(q, x)[i] = q[i]
      /\ Append(q, x) \in Seq(Url) /\ Len(q) \in Nat
  BY AppendProperties, LenProperties
<1>2. DOMAIN q = 1..Len(q) /\ DOMAIN Append(q, x) = 1..(Len(q) + 1)
  BY <1>1, LenProperties
<1> QED
  BY <1>1, <1>2 DEF Range

LEMMA ConcatRange ==
  ASSUME NEW q \in Seq(Url), NEW r \in Seq(Url)
  PROVE  q \o r \in Seq(Url) /\ Range(q \o r) = Range(q) \union Range(r)
<1> DEFINE c == q \o r
<1>1. /\ c \in Seq(Url) /\ Len(c) = Len(q) + Len(r) /\ Len(q) \in Nat /\ Len(r) \in Nat
      /\ \A i \in 1..(Len(q) + Len(r)) : c[i] = IF i <= Len(q) THEN q[i] ELSE r[i - Len(q)]
  BY ConcatProperties, LenProperties
<1>2. DOMAIN q = 1..Len(q) /\ DOMAIN r = 1..Len(r) /\ DOMAIN c = 1..(Len(q) + Len(r))
  BY <1>1, LenProperties
<1> HIDE DEF c
<1>3. \A i \in DOMAIN q : i \in DOMAIN c /\ c[i] = q[i]
  BY <1>1, <1>2
<1>4. \A i \in DOMAIN r : i + Len(q) \in DOMAIN c /\ c[i + Len(q)] = r[i]
  BY <1>1, <1>2
<1>5. ASSUME NEW i \in DOMAIN c PROVE c[i] \in Range(q) \union Range(r)
  <2>1. CASE i <= Len(q)
    BY <1>1, <1>2, <2>1 DEF Range
  <2>2. CASE i > Len(q)
    <3>1. i - Len(q) \in DOMAIN r
      BY <1>1, <1>2, <2>2
    <3> QED
      BY <1>1, <1>2, <2>2, <3>1 DEF Range
  <2> QED
    BY <1>1, <1>2, <2>1, <2>2
<1>6. Range(q) \subseteq Range(c) /\ Range(r) \subseteq Range(c) /\ Range(c) \subseteq Range(q) \union Range(r)
  BY <1>3, <1>4, <1>5 DEF Range
<1> QED
  BY <1>1, <1>6 DEF c

LEMMA TailRange ==
  ASSUME NEW q \in Seq(Url), q # <<>>
  PROVE  Tail(q) \in Seq(Url) /\ Head(q) \in Url /\ Range(q) = {Head(q)} \union Range(Tail(q))
<1>1. Tail(q) \in Seq(Url) /\ Head(q) \in Url /\ q = <<Head(q)>> \o Tail(q)
  BY HeadTailProperties
<1>2. PICK x \in Url : x = Head(q)
  BY <1>1
<1>3. <<x>> \in Seq(Url) /\ Range(<<x>>) = {x}
  BY DEF Range
<1>4. PICK o \in Seq(Url) : o = <<x>>
  BY <1>3
<1>5. PICK t \in Seq(Url) : t = Tail(q)
  BY <1>1
<1>6. Range(o \o t) = Range(o) \union Range(t)
  BY ConcatRange
<1> QED
  BY <1>1, <1>2, <1>3, <1>4, <1>5, <1>6

\* queue_put on total->down: the url is in the list afterwards or lost.
LEMMA PutParts ==
  ASSUME TypeInv, NEW x \in Url, Put(x), alive = "run"
  PROVE  /\ down' \in Seq(Url) /\ behind' \in Seq(Url) /\ size' \in Nat
         /\ alive' \in {"run", "crash"} /\ lost' \subseteq lost \union {x}
         /\ Listed' \subseteq Listed \union {x}
<1>1. down \in Seq(Url) /\ behind \in Seq(Url) /\ size \in Nat
  BY DEF TypeInv, UrlTypes
<1>2. CASE down' = Append(down, x) /\ size' = size + 1 /\ UNCHANGED <<behind, alive, lost>>
  <2>1. down' \in Seq(Url) /\ Range(down') = Range(down) \union {x}
    BY <1>1, <1>2, AppendRange
  <2> QED
    BY <1>1, <1>2, <2>1 DEF Listed
<1>3. CASE /\ alive' \in {"run", "crash"} /\ lost' = lost \union {x}
           /\ size' = size + 1 /\ UNCHANGED <<down, behind>>
  BY <1>1, <1>3 DEF Listed
<1> QED
  BY <1>2, <1>3 DEF Put

\* queue_join_init: the urls of the queue are in the list afterwards or lost.
LEMMA JoinParts ==
  ASSUME TypeInv, NEW q \in Seq(Url), JoinQueue(q), alive = "run"
  PROVE  /\ down' \in Seq(Url) /\ behind' \in Seq(Url) /\ size' \in Nat
         /\ alive' \in {"run", "crash"} /\ lost' \subseteq lost \union Range(behind) \union Range(q)
         /\ Listed' \subseteq Listed \union Range(q)
<1>1. down \in Seq(Url) /\ behind \in Seq(Url) /\ size \in Nat /\ Len(q) \in Nat
  BY LenProperties DEF TypeInv, UrlTypes
<1>2. CASE down' = q /\ size' = Len(q) /\ UNCHANGED <<behind, alive, lost>>
  BY <1>1, <1>2 DEF Listed
<1>3. CASE /\ down' = down \o q /\ size' = size + Len(q)
           /\ lost' = lost \union Range(behind) /\ behind' = <<>> /\ UNCHANGED alive
  <2>1. down' \in Seq(Url) /\ Range(down') = Range(down) \union Range(q)
    BY <1>1, <1>3, ConcatRange
  <2>2. behind' \in Seq(Url) /\ Range(behind') = {}
    BY <1>3, EmptyDown, EmptyRange
  <2> QED
    BY <1>1, <1>3, <2>1, <2>2 DEF Listed
<1>4. CASE /\ alive' \in {"run", "crash"} /\ lost' = lost \union Range(q)
           /\ size' = size + Len(q) /\ UNCHANGED <<down, behind>>
  BY <1>1, <1>4 DEF Listed
<1> QED
  BY <1>2, <1>3, <1>4 DEF JoinQueue

\* Taking a url.
LEMMA TakeParts ==
  ASSUME TypeInv, Take
  PROVE  /\ down' \in Seq(Url) /\ behind' \in Seq(Url) /\ size' \in Nat
         /\ alive' \in {"run", "crash", "exit"} /\ UNCHANGED lost
         /\ Listed' \union taken' \subseteq Listed \union taken
         /\ taken' \subseteq Listed \union taken
         /\ htask' \in 0..Tasks /\ nconn' \in 0..ANT_MAX_EVENTS /\ nconn' >= nconn
         /\ nfail' \in Nat /\ (nfail' = nfail \/ nfail' <= MaxFail)
<1>1. down \in Seq(Url) /\ behind \in Seq(Url) /\ size \in Nat /\ nfail \in Nat /\ htask \in 0..Tasks
      /\ nconn \in 0..ANT_MAX_EVENTS
  BY Bounds DEF TypeInv, UrlTypes, NetTypes
<1>2. /\ htask' \in 0..Tasks /\ UNCHANGED lost /\ alive' \in {"run", "crash", "exit"}
      /\ nconn' \in 0..ANT_MAX_EVENTS /\ nconn' >= nconn
      /\ nfail' \in Nat /\ (nfail' = nfail \/ nfail' <= MaxFail) /\ size' \in Nat
  BY <1>1, Bounds DEF Take, list
<1>3. CASE UNCHANGED <<taken, list>>
  BY <1>1, <1>2, <1>3 DEF list, Listed
<1>4. CASE down # <<>> /\ taken' = taken \union {Head(down)} /\ down' = Tail(down) /\ behind' = behind
  <2>1. Tail(down) \in Seq(Url) /\ Range(down) = {Head(down)} \union Range(Tail(down))
    BY <1>1, <1>4, TailRange
  <2> QED
    BY <1>1, <1>2, <1>4, <2>1 DEF Listed
<1>5. CASE behind # <<>> /\ taken' = taken \union {Head(behind)} /\ behind' = Tail(behind) /\ down' = down
  <2>1. Tail(behind) \in Seq(Url) /\ Range(behind) = {Head(behind)} \union Range(Tail(behind))
    BY <1>1, <1>5, TailRange
  <2> QED
    BY <1>1, <1>2, <1>5, <2>1 DEF Listed
<1> QED
  BY <1>3, <1>4, <1>5 DEF Take

LEMMA ListedUrls == TypeInv => Listed \subseteq Url
  BY SeqRange DEF TypeInv, UrlTypes, Listed

LEMMA HttpTypes ==
  ASSUME TypeInv, HttpThread \/ \E u \in Url : UrlAdd(u)
  PROVE  UrlTypes'
<1> USE DEF TypeInv, UrlTypes
<1>1. ASSUME NEW u \in Url, UrlAdd(u) PROVE UrlTypes'
  BY <1>1, UrlHost DEF UrlAdd, cvars, list, loop
<1>2. CASE PutVal
  <2>1. hurl \in Url /\ Host(hurl) \in Domain
    BY <1>2, UrlHost DEF PutVal
  <2>2. [known |-> TRUE, flags |-> 0, ip |-> "unset", q |-> "queue", down |-> <<hurl>>] \in Cache
    BY <2>1 DEF Cache
  <2> QED
    BY <1>2, <2>1, <2>2 DEF PutVal, list, loop
<1>3. CASE PutName
  BY <1>3, UrlHost DEF PutName, list, loop
<1>4. CASE DownDirect
  <2>1. hurl \in Url /\ alive = "run" /\ Put(hurl)
    BY <1>4 DEF DownDirect
  <2> QED
    BY <1>4, <2>1, PutParts DEF DownDirect, loop
<1>5. CASE ReadQueue
  BY <1>5 DEF ReadQueue, cvars, list, loop
<1>6. CASE AppendUrl
  <2>1. hurl \in Url /\ Host(hurl) \in Domain
    BY <1>6, UrlHost DEF AppendUrl
  <2>2. Append(val[Host(hurl)].down, hurl) \in Seq(Url)
    BY <2>1 DEF Cache
  <2>3. val' \in [Domain -> Cache]
    BY <1>6, <2>1, <2>2, SetDown DEF AppendUrl
  <2> QED
    BY <1>6, <2>3 DEF AppendUrl, list, loop
<1>7. CASE AppendRaces
  BY <1>7 DEF AppendRaces, cvars, list, loop
<1>8. CASE Take
  <2>1. taken' \subseteq Url
    BY <1>8, TakeParts, ListedUrls
  <2>2. nstuck' \in 0..nconn'
    BY <1>8, TakeParts, Bounds DEF Take
  <2> QED
    BY <1>8, <2>1, <2>2, TakeParts DEF Take
<1>9. CASE TakeBegin \/ TakeEnd \/ ConnEnds
  BY <1>9, Bounds DEF TakeBegin, TakeEnd, ConnEnds, cvars, list
<1> QED
  BY <1>1, <1>2, <1>3, <1>4, <1>5, <1>6, <1>7, <1>8, <1>9 DEF HttpThread

\* process_cache_dns works on a host that is in resp.
LEMMA RespHost == TypeInv /\ HoldsCacheDns => resp[1] \in Domain /\ resp[2] \in Kind
  BY DEF TypeInv, NetTypes

LEMMA CacheTypes ==
  ASSUME TypeInv, Answer \/ SetFlag \/ LockDown \/ Join \/ FreeQueue \/ NullQueue
  PROVE  TypeInv'
<1>1. HoldsCacheDns
  BY DEF Answer, SetFlag, LockDown, Join, FreeQueue, NullQueue, HoldsCacheDns
<1>0. PICK h \in Domain : h = resp[1] /\ resp[2] \in Kind
  BY <1>1, RespHost
<1>2. val \in [Domain -> Cache]
  BY DEF TypeInv, UrlTypes
<1>9. val[h].down \in Seq(Url)
  BY DEF TypeInv, UrlTypes, Cache
<1>3. NetTypes'
  BY DEF TypeInv, NetTypes, HoldsCacheDns, NoResp, svars, Answer, SetFlag, LockDown, Join,
         FreeQueue, NullQueue
<1>4. val' \in [Domain -> Cache]
  <2>1. CASE Answer
    BY <2>1, <1>0, <1>2, SetIp DEF Answer, Kind
  <2>2. CASE SetFlag
    <3>1. val' = [val EXCEPT ![h].flags = 1]
      BY <1>0, <2>2 DEF SetFlag
    <3> QED
      BY <1>2, <3>1, SetFlags
  <2>3. CASE LockDown
    BY <2>3, <1>2 DEF LockDown, cvars
  <2>4. CASE Join
    <3>1. val' = val \/ val' = [val EXCEPT ![h].down = <<>>]
      BY <1>0, <2>4 DEF Join
    <3> QED
      <4>1. CASE val' = [val EXCEPT ![h].down = <<>>]
        BY <1>2, EmptyDown, <4>1, SetDown
      <4> QED
        BY <1>2, <3>1, <4>1
  <2>5. CASE FreeQueue
    <3> DEFINE f == [val EXCEPT ![h].q = "freed"]
    <3>1. f \in [Domain -> Cache]
      BY <1>2, SetQ
    <3>2. val' = [f EXCEPT ![h].down = <<>>]
      BY <1>0, <2>5 DEF FreeQueue
    <3> HIDE DEF f
    <3> QED
      BY <3>1, <3>2, EmptyDown, SetDown
  <2>6. CASE NullQueue
    <3>1. val' = [val EXCEPT ![h].q = "null"]
      BY <1>0, <2>6 DEF NullQueue
    <3> QED
      BY <1>2, <3>1, SetQ
  <2> QED
    BY <2>1, <2>2, <2>3, <2>4, <2>5, <2>6
<1>5. /\ down' \in Seq(Url) /\ behind' \in Seq(Url) /\ size' \in Nat
      /\ lost' \subseteq Url /\ alive' \in {"run", "exit", "crash", "abort"}
  <2>1. CASE Join
    <3>1. (UNCHANGED <<list, lost>> /\ alive' = "abort") \/ (JoinQueue(val[h].down) /\ alive = "run")
      BY <1>0, <2>1 DEF Join
    <3>2. CASE UNCHANGED <<list, lost>> /\ alive' = "abort"
      BY <3>2 DEF TypeInv, UrlTypes, list
    <3>3. CASE JoinQueue(val[h].down) /\ alive = "run"
      <4>1. Range(behind) \subseteq Url /\ Range(val[h].down) \subseteq Url /\ lost \subseteq Url
        BY <1>9, SeqRange DEF TypeInv, UrlTypes
      <4> QED
        BY <1>9, <3>3, <4>1, JoinParts
    <3> QED
      BY <3>1, <3>2, <3>3
  <2>2. CASE Answer \/ SetFlag \/ LockDown \/ FreeQueue \/ NullQueue
    <3>1. UNCHANGED <<list, alive>>
      BY <2>2 DEF cvars, Answer, SetFlag, LockDown, FreeQueue, NullQueue
    <3>2. lost' = lost \/ lost' = lost \union Range(val[h].down)
      BY <1>0, <2>2 DEF Answer, SetFlag, LockDown, FreeQueue, NullQueue
    <3> QED
      BY <1>9, <3>1, <3>2, SeqRange DEF TypeInv, UrlTypes, list
  <2> QED
    BY <2>1, <2>2
<1>6. dropped' \subseteq Domain
  BY <1>0 DEF TypeInv, UrlTypes, Answer, SetFlag, LockDown, Join, FreeQueue, NullQueue
<1>8. UNCHANGED <<hpc, hurl, added, taken, queue_dns, htask, nconn, nstuck>>
  BY DEF hvars, cvars, loop, Answer, SetFlag, LockDown, Join, FreeQueue, NullQueue
<1> QED
  BY <1>3, <1>4, <1>5, <1>6, <1>8 DEF TypeInv, UrlTypes

\* The steps of thread_dns_main outside process_cache_dns, and of the network.
SocketStep == \/ Created \/ EpollWait \/ EpollTimeout \/ EventsDone \/ NextSlot \/ SendDone \/ CreateFails
              \/ \E s \in Sock : \/ CreateSock(s) \/ EvError(s) \/ EvClose(s) \/ EvConnected(s)
                                 \/ EvAgain(s) \/ SendName(s) \/ SendAgain(s) \/ SendFails(s)
                                 \/ \E a \in ans[s] : EvAnswer(s, a)
Network == \/ ConnStuck
           \/ \E s \in Sock : Connected(s) \/ NetFails(s)
           \/ \E s \in Sock, d \in Domain, kind \in Kind : ServerAnswers(s, d, kind) \/ ServerRepeats(s, d, kind)

CacheStep == Answer \/ SetFlag \/ LockDown \/ Join \/ FreeQueue \/ NullQueue
HttpStep == HttpThread \/ \E u \in Url : UrlAdd(u)

LEMMA Steps == Next => HttpStep \/ CacheStep \/ JoinRaces \/ SocketStep \/ Network \/ Start \/ Rests
  BY DEF Next, Resolver, HttpStep, CacheStep, SocketStep, Network

\* What clean_fd leaves has the right types.
LEMMA CleanTypes ==
  ASSUME TypeInv, NEW s \in Sock, CleanFd(s)
  PROVE  /\ cache_sock' \in [Slot -> Sock \union {0}] /\ nsock' \in Int
         /\ net' \in [Sock -> {"closed", "connecting", "up", "eof", "reset"}]
         /\ reg' \in [Sock -> SUBSET {"in", "out"}]
         /\ sent' \in [Sock -> SUBSET Domain] /\ ans' \in [Sock -> SUBSET (Domain \X Kind)]
  BY DEF TypeInv, NetTypes, CleanFd

\* The types of the urls after a step that leaves them where they are.
LEMMA SameUrls ==
  ASSUME TypeInv,
         UNCHANGED <<hpc, hurl, added, taken, htask, nconn, nstuck, val, down, behind, size, lost>>,
         queue_dns' \in Seq(Domain), dropped' \subseteq Domain, alive' \in {alive, "exit"}
  PROVE  UrlTypes'
  BY DEF TypeInv, UrlTypes

LEMMA SocketUrls ==
  ASSUME TypeInv, SocketStep
  PROVE  UrlTypes'
<1>1. queue_dns # <<>> => Tail(queue_dns) \in Seq(Domain) /\ Head(queue_dns) \in Domain
  BY HeadTailProperties DEF TypeInv, UrlTypes
<1>2. \A s \in Sock : UnderWay(s) \subseteq Domain
  BY DEF UnderWay, TypeInv, NetTypes
<1>3. queue_dns \in Seq(Domain) /\ dropped \subseteq Domain
  BY DEF TypeInv, UrlTypes
<1>4. CASE \/ Created \/ EpollWait \/ EpollTimeout \/ EventsDone \/ NextSlot \/ SendDone \/ CreateFails
           \/ \E s \in Sock : \/ CreateSock(s) \/ EvConnected(s) \/ EvAgain(s)
                              \/ \E a \in ans[s] : EvAnswer(s, a)
  <2>1. UNCHANGED <<hvars, cvars, lost, dropped>> /\ alive' \in {alive, "exit"}
    BY <1>4 DEF Created, EpollWait, EpollTimeout, EventsDone, NextSlot, SendDone, CreateFails, CreateSock,
                EvConnected, EvAgain, EvAnswer
  <2> QED
    BY <1>3, <2>1, SameUrls DEF hvars, cvars, list, loop
<1>5. ASSUME NEW s \in Sock, EvError(s) \/ EvClose(s) PROVE UrlTypes'
  <2>1. UNCHANGED <<hvars, cvars, lost, alive>> /\ dropped' = dropped \union UnderWay(s)
    BY <1>5 DEF EvError, EvClose
  <2> QED
    BY <1>2, <1>3, <2>1, SameUrls DEF hvars, cvars, list, loop
<1>6. ASSUME NEW s \in Sock, SendName(s) \/ SendAgain(s) \/ SendFails(s) PROVE UrlTypes'
  <2>1. UNCHANGED <<hvars, val, list, lost, alive>> /\ queue_dns # <<>> /\ queue_dns' = Tail(queue_dns)
        /\ dropped' \subseteq dropped \union UnderWay(s) \union {Head(queue_dns)}
    BY <1>6 DEF SendName, SendAgain, SendFails, Sending
  <2> QED
    BY <1>1, <1>2, <1>3, <2>1, SameUrls DEF hvars, list, loop
<1> QED
  BY <1>4, <1>5, <1>6 DEF SocketStep

LEMMA SocketTypes ==
  ASSUME TypeInv, SocketStep
  PROVE  TypeInv'
<1>0. queue_dns # <<>> => Head(queue_dns) \in Domain
  BY HeadTailProperties DEF TypeInv, UrlTypes
<1> SUFFICES NetTypes'
  BY SocketUrls DEF TypeInv
<1> USE Bounds DEF TypeInv, NetTypes, HoldsCacheDns, svars
<1>3. CASE Created \/ CreateFails
  BY <1>3 DEF Created, CreateFails
<1>4. CASE EpollWait
  <2>1. \A s \in Sock : Ready(s) \subseteq {"in", "out", "err"}
    BY DEF Ready
  <2> QED
    BY <1>4, <2>1 DEF EpollWait
<1>5. CASE EpollTimeout
  BY <1>5 DEF EpollTimeout
<1>6. CASE EventsDone
  BY <1>6 DEF EventsDone
<1>7. CASE NextSlot
  BY <1>7 DEF NextSlot, Slot
<1>8. CASE SendDone
  BY <1>8 DEF SendDone
<1>9. ASSUME NEW s \in Sock, CreateSock(s) PROVE NetTypes'
  BY <1>9 DEF CreateSock
<1>10. ASSUME NEW s \in Sock, EvError(s) PROVE NetTypes'
  BY <1>10, CleanTypes DEF EvError
<1>11. ASSUME NEW s \in Sock, EvClose(s) PROVE NetTypes'
  <2>1. nfail' \in 0..MaxFail
    BY <1>11 DEF EvClose
  <2> QED
    BY <1>11, <2>1, CleanTypes DEF EvClose
<1>12. ASSUME NEW s \in Sock, EvConnected(s) PROVE NetTypes'
  <2>1. nfail' \in 0..MaxFail /\ reg' \in [Sock -> SUBSET {"in", "out"}]
    BY <1>12 DEF EvConnected
  <2>2. cache_sock' \in [Slot -> Sock \union {0}]
    BY <1>12 DEF EvConnected
  <2> QED
    BY <1>12, <2>1, <2>2 DEF EvConnected
<1>13. ASSUME NEW s \in Sock, SendName(s) PROVE NetTypes'
  BY <1>13, <1>0 DEF SendName, Sending
<1>14. ASSUME NEW s \in Sock, SendAgain(s) PROVE NetTypes'
  BY <1>14, <1>0 DEF SendAgain, Sending
<1>15. ASSUME NEW s \in Sock, SendFails(s) PROVE NetTypes'
  BY <1>15, CleanTypes DEF SendFails, Sending, Slot
<1>16. ASSUME NEW s \in Sock, NEW a \in ans[s], EvAnswer(s, a) PROVE NetTypes'
  <2>1. a \in Domain \X Kind /\ a # NoResp
    BY PairNotEmpty DEF NoResp
  <2>2. ans' \in [Sock -> SUBSET (Domain \X Kind)]
    BY <1>16 DEF EvAnswer
  <2>3. ev' \in [Sock -> SUBSET {"in", "out", "err"}]
    BY <1>16 DEF EvAnswer
  <2> QED
    BY <1>16, <2>1, <2>2, <2>3 DEF EvAnswer
<1>17. ASSUME NEW s \in Sock, EvAgain(s) PROVE NetTypes'
  <2>1. ev' \in [Sock -> SUBSET {"in", "out", "err"}]
    BY <1>17 DEF EvAgain
  <2>2. nfail' \in 0..MaxFail
    BY <1>17, FailsAgain DEF EvAgain
  <2>3. UNCHANGED <<rpc, resp, net, reg, cache_sock, nsock, slot, ntask, sent, ans>> /\ check' = FALSE
    BY <1>17 DEF EvAgain
  <2> QED
    BY <2>1, <2>2, <2>3
<1> QED
  BY <1>3, <1>4, <1>5, <1>6, <1>7, <1>8, <1>9, <1>10, <1>11, <1>12, <1>13, <1>14, <1>15, <1>16, <1>17
     DEF SocketStep

LEMMA NetworkTypes ==
  ASSUME TypeInv, Network \/ Start \/ UNCHANGED vars
  PROVE  TypeInv'
<1>0. CASE UNCHANGED <<val, list, queue_dns, lost, dropped, alive, hpc, hurl, added, taken, htask, nconn>>
             /\ nstuck' \in 0..nconn /\ NetTypes'
  BY <1>0 DEF TypeInv, UrlTypes, list
<1>1. ASSUME NEW s \in Sock, Connected(s) \/ NetFails(s) PROVE TypeInv'
  <2>1. nfail' \in 0..MaxFail
    BY <1>1, Bounds DEF Connected, NetFails, TypeInv, NetTypes
  <2>2. net' \in [Sock -> {"closed", "connecting", "up", "eof", "reset"}]
    BY <1>1 DEF Connected, NetFails, TypeInv, NetTypes
  <2>3. /\ UNCHANGED <<rpc, resp, reg, ev, cache_sock, nsock, check, slot, ntask, sent, ans>>
        /\ UNCHANGED <<hvars, cvars, lost, dropped, alive>>
    BY <1>1 DEF Connected, NetFails
  <2>4. NetTypes'
    BY <2>1, <2>2, <2>3 DEF TypeInv, NetTypes, HoldsCacheDns
  <2> QED
    BY <1>0, <2>3, <2>4 DEF hvars, cvars, loop, TypeInv, UrlTypes
<1>2. ASSUME NEW s \in Sock, NEW d \in Domain, NEW kind \in Kind,
             ServerAnswers(s, d, kind) \/ ServerRepeats(s, d, kind)
      PROVE  TypeInv'
  <2>1. nfail' \in 0..MaxFail
    BY <1>2, Bounds DEF ServerAnswers, ServerRepeats, TypeInv, NetTypes
  <2>2. sent' \in [Sock -> SUBSET Domain]
    BY <1>2 DEF ServerAnswers, ServerRepeats, TypeInv, NetTypes
  <2>3. PICK p \in Domain \X Kind : p = <<d, kind>>
    OBVIOUS
  <2>4. ans' \in [Sock -> SUBSET (Domain \X Kind)]
    <3>1. ans' = [ans EXCEPT ![s] = @ \union {p}]
      BY <1>2, <2>3 DEF ServerAnswers, ServerRepeats
    <3> QED
      BY <3>1 DEF TypeInv, NetTypes
  <2>5. /\ UNCHANGED <<rpc, resp, net, reg, ev, cache_sock, nsock, check, slot, ntask>>
        /\ UNCHANGED <<hvars, cvars, lost, dropped, alive>>
    BY <1>2 DEF ServerAnswers, ServerRepeats
  <2>6. NetTypes'
    BY <2>1, <2>2, <2>4, <2>5 DEF TypeInv, NetTypes, HoldsCacheDns
  <2> QED
    BY <1>0, <2>5, <2>6 DEF hvars, cvars, loop, TypeInv, UrlTypes
<1>3. CASE Start
  <2>1. NetTypes'
    BY <1>3 DEF Start, TypeInv, NetTypes, HoldsCacheDns, svars
  <2> QED
    BY <1>0, <1>3, <2>1 DEF Start, hvars, cvars, loop, TypeInv, UrlTypes
<1>4. CASE UNCHANGED vars
  <2>1. NetTypes'
    BY <1>4 DEF vars, TypeInv, NetTypes, HoldsCacheDns
  <2> QED
    BY <1>0, <1>4, <2>1 DEF vars, loop, TypeInv, UrlTypes
<1>5. CASE ConnStuck
  <2>1. NetTypes'
    BY <1>5, Bounds DEF ConnStuck, TypeInv, NetTypes, HoldsCacheDns, svars
  <2>2. nstuck' \in 0..nconn
    BY <1>5, Bounds DEF ConnStuck, TypeInv, UrlTypes
  <2> QED
    BY <1>0, <1>5, <2>1, <2>2 DEF ConnStuck, cvars
<1> QED
  BY <1>1, <1>2, <1>3, <1>4, <1>5 DEF Network

\* What a race of url_add with queue_join_init leaves.
LEMMA RaceParts ==
  ASSUME TypeInv, JoinRaces
  PROVE  \E h \in Domain, q \in Seq(Url) :
           /\ h = resp[1] /\ h = Host(hurl) /\ q = val[h].down /\ hurl \in Url /\ hpc = "append"
           /\ val' \in [Domain -> Cache] /\ \A e \in Domain : e # h => val'[e] = val[e]
           /\ val'[h].down = <<>> /\ val'[h].known = val[h].known /\ val'[h].ip = val[h].ip
           /\ val'[h].flags = val[h].flags /\ val'[h].q = val[h].q
           /\ down' \in Seq(Url) /\ behind' \in Seq(Url) /\ size' \in Nat
           /\ alive' \in {"run", "crash"}
           /\ Listed' \subseteq Listed \union Range(q) \union {hurl}
           /\ lost' \subseteq lost \union Range(behind) \union Range(q) \union {hurl}
<1>1. hpc = "append" /\ resp[1] = Host(hurl) /\ alive = "run" /\ hurl \in Url /\ Host(hurl) \in Domain
  BY UrlHost DEF JoinRaces, TypeInv, UrlTypes
<1>2. PICK h \in Domain : h = Host(hurl)
  BY <1>1
<1>3. val[h].down \in Seq(Url) /\ val \in [Domain -> Cache]
  BY DEF TypeInv, UrlTypes, Cache
<1>4. PICK q \in Seq(Url) : q = val[h].down
  BY <1>3
<1>5. /\ val' \in [Domain -> Cache] /\ \A e \in Domain : e # h => val'[e] = val[e]
      /\ val'[h].down = <<>> /\ val'[h].known = val[h].known /\ val'[h].ip = val[h].ip
      /\ val'[h].flags = val[h].flags /\ val'[h].q = val[h].q
  <2>1. PICK e \in Seq(Url) : e = <<>>
    BY EmptyDown
  <2>2. val' = [val EXCEPT ![h].down = e]
    BY <1>1, <1>2, <2>1 DEF JoinRaces
  <2>3. PICK g : g = val' /\ g = [val EXCEPT ![h].down = e]
    BY <2>2
  <2>4. /\ g \in [Domain -> Cache] /\ \A d \in Domain : d # h => g[d] = val[d]
        /\ g[h].down = e /\ g[h].known = val[h].known /\ g[h].ip = val[h].ip
        /\ g[h].flags = val[h].flags /\ g[h].q = val[h].q
    <3>1. val \in [Domain -> Cache] /\ g = [val EXCEPT ![h].down = e]
      BY <1>3, <2>3
    <3> QED
      BY <3>1, SetDown
  <2> QED
    BY <2>1, <2>3, <2>4
<1>6. /\ down \in Seq(Url) /\ behind \in Seq(Url) /\ size \in Nat /\ Len(q) \in Nat
      /\ Range(behind) \subseteq Url
  BY SeqRange DEF TypeInv, UrlTypes
<1>7. PICK w \in Seq(Url) : w = Append(q, hurl) /\ Range(w) = Range(q) \union {hurl}
  BY <1>1, AppendRange
<1>8. \/ alive' = "crash" /\ lost' = lost \union Range(w) /\ UNCHANGED list
      \/ /\ \/ down' = down \o q /\ behind' = <<hurl>> /\ size' \in Nat
            \/ down' = down \o w /\ behind' = <<>> /\ size' \in Nat
         /\ lost' = lost \union Range(behind) /\ alive' = "run"
  <2>1. PICK n \in Nat : n = (IF down = <<>> THEN Len(q) ELSE size + Len(q))
    BY <1>6
  <2>2. resp[1] = h /\ val[resp[1]].down = q
    BY <1>1, <1>2, <1>4
  <2>3. \/ alive' = "crash" /\ lost' = lost \union Range(Append(q, hurl)) /\ UNCHANGED list
        \/ /\ \/ down' = down \o q /\ behind' = <<hurl>> /\ size' \in n..(n + 1)
              \/ down' = down \o Append(q, hurl) /\ behind' = <<>> /\ size' = n
           /\ lost' = lost \union Range(behind) /\ alive' = alive
    BY <2>1, <2>2, Zenon DEF JoinRaces
  <2>4. n..(n + 1) \subseteq Nat
    BY <2>1
  <2>5. Append(q, hurl) = w /\ alive = "run"
    BY <1>1, <1>7
  <2>6. CASE alive' = "crash" /\ lost' = lost \union Range(Append(q, hurl)) /\ UNCHANGED list
    BY <2>5, <2>6
  <2>7. CASE /\ \/ down' = down \o q /\ behind' = <<hurl>> /\ size' \in n..(n + 1)
                \/ down' = down \o Append(q, hurl) /\ behind' = <<>> /\ size' = n
             /\ lost' = lost \union Range(behind) /\ alive' = alive
    BY <2>1, <2>4, <2>5, <2>7
  <2> QED
    BY <2>3, <2>6, <2>7
<1>9. CASE alive' = "crash" /\ lost' = lost \union Range(w) /\ UNCHANGED list
  BY <1>1, <1>2, <1>4, <1>5, <1>6, <1>7, <1>9 DEF list, Listed
<1>10. CASE /\ down' = down \o q /\ behind' = <<hurl>> /\ size' \in Nat
            /\ lost' = lost \union Range(behind) /\ alive' = "run"
  <2>1. down' \in Seq(Url) /\ Range(down') = Range(down) \union Range(q)
    BY <1>6, <1>10, ConcatRange
  <2>2. behind' \in Seq(Url) /\ Range(behind') = {hurl}
    BY <1>1, <1>10 DEF Range
  <2> QED
    BY <1>1, <1>2, <1>4, <1>5, <1>10, <2>1, <2>2 DEF Listed
<1>11. CASE /\ down' = down \o w /\ behind' = <<>> /\ size' \in Nat
            /\ lost' = lost \union Range(behind) /\ alive' = "run"
  <2>1. down' \in Seq(Url) /\ Range(down') = Range(down) \union Range(w)
    BY <1>6, <1>11, ConcatRange
  <2>2. behind' \in Seq(Url) /\ Range(behind') = {}
    BY <1>11, EmptyDown, EmptyRange
  <2> QED
    BY <1>1, <1>2, <1>4, <1>5, <1>7, <1>11, <2>1, <2>2 DEF Listed
<1> QED
  BY <1>8, <1>9, <1>10, <1>11

LEMMA RaceTypes ==
  ASSUME TypeInv, JoinRaces
  PROVE  TypeInv'
<1>1. /\ val' \in [Domain -> Cache] /\ down' \in Seq(Url) /\ behind' \in Seq(Url) /\ size' \in Nat
      /\ alive' \in {"run", "crash"} /\ lost' \subseteq Url
  <2>1. PICK h \in Domain, q \in Seq(Url) :
           /\ val' \in [Domain -> Cache] /\ hurl \in Url
           /\ down' \in Seq(Url) /\ behind' \in Seq(Url) /\ size' \in Nat
           /\ alive' \in {"run", "crash"}
           /\ lost' \subseteq lost \union Range(behind) \union Range(q) \union {hurl}
    BY RaceParts
  <2>2. Range(behind) \subseteq Url /\ Range(q) \subseteq Url /\ lost \subseteq Url
    BY SeqRange DEF TypeInv, UrlTypes
  <2> QED
    BY <2>1, <2>2
<1>2. NetTypes'
  BY DEF JoinRaces, TypeInv, NetTypes, HoldsCacheDns, svars
<1>3. hpc' = "idle" /\ hurl' = NoUrl /\ UNCHANGED <<added, taken, queue_dns, dropped, htask, nconn, nstuck>>
  BY DEF JoinRaces, loop
<1> QED
  BY <1>1, <1>2, <1>3 DEF TypeInv, UrlTypes

LEMMA TypeStep == TypeInv /\ [Next]_vars => TypeInv'
<1> SUFFICES ASSUME TypeInv, [Next]_vars PROVE TypeInv'
  OBVIOUS
<1>1. CASE HttpStep
  <2>1. NetTypes'
    <3>1. CASE Take
      <4>1. nfail' \in 0..MaxFail
        BY <3>1, TakeParts, Bounds DEF TypeInv, NetTypes
      <4> QED
        BY <3>1, <4>1 DEF TypeInv, NetTypes, HoldsCacheDns, svars, Take
    <3>2. CASE ~Take
      BY <1>1, <3>2 DEF TypeInv, NetTypes, HoldsCacheDns, svars, HttpStep, HttpThread, UrlAdd, PutVal,
                  PutName, DownDirect, ReadQueue, AppendUrl, AppendRaces, TakeBegin, TakeEnd, ConnEnds
    <3> QED
      BY <3>1, <3>2
  <2> QED
    BY <1>1, <2>1, HttpTypes DEF TypeInv, HttpStep
<1> QED
  BY <1>1, Steps, CacheTypes, RaceTypes, SocketTypes, NetworkTypes DEF CacheStep, Rests

-----------------------------------------------------------------------------
(* The sockets of thread_dns_main *)

LEMMA OpenFinite == IsFiniteSet(Open) /\ Cardinality(Open) \in Nat
<1>1. IsFiniteSet(Sock) /\ Open \subseteq Sock
  BY DnsAssumption DEF DnsAssumption, Open
<1> QED
  BY <1>1, FS_Subset, FS_CardinalityType

LEMMA SlotsFinite == IsFiniteSet(Slot) /\ Cardinality(Slot) = MAX_NCONN
  BY Bounds, FS_Interval DEF Slot

LEMMA LeastNat ==
  ASSUME NEW S \in SUBSET Nat, S # {}
  PROVE  \E k \in S : \A j \in S : k <= j
<1>1. PICK k \in S : \A j \in S : <<j, k>> \notin OpToRel(<, Nat)
  BY NatLessThanWellFounded, WFMin
<1>2. \A j \in S : ~(j < k)
  BY <1>1, Zenon DEF OpToRel
<1> QED
  BY <1>2

LEMMA InitSock == Init => SockInv
<1> SUFFICES ASSUME Init PROVE SockInv
  OBVIOUS
<1>1. Open = {}
  BY DEF Init, Open
<1>2. nsock = Cardinality(Open)
  BY <1>1, FS_EmptySet DEF Init
<1> QED
  BY <1>1, <1>2, Bounds DEF Init, SockInv, EventInv, TableInv

Early == {"none", "create", "wait", "send"}

\* A step that moves the resolver without touching the sockets.
LEMMA SameSockets ==
  ASSUME SockInv, UNCHANGED <<net, reg, ev, cache_sock, nsock>>,
         rpc' = rpc \/ (rpc # "end" /\ (rpc' \in Early => \A s \in Sock : ev[s] = {}))
  PROVE  SockInv'
  BY DEF SockInv, EventInv, TableInv, Open, Early

\* clean_fd takes an open connection out of the table and out of the count.
LEMMA CleanTable ==
  ASSUME TypeInv, TableInv, NEW s \in Open, CleanFd(s), UNCHANGED rpc
  PROVE  TableInv'
<1>1. Open' = Open \ {s} /\ s \in Sock
  BY DEF CleanFd, Open, TypeInv, NetTypes
<1>2. nsock' = Cardinality(Open') /\ nsock' <= MAX_NCONN
  <2>1. Cardinality(Open \ {s}) = Cardinality(Open) - 1
    BY OpenFinite, FS_RemoveElement
  <2> QED
    BY <1>1, <2>1, OpenFinite, Bounds DEF CleanFd, TableInv
<1>3. \A i \in Slot : cache_sock'[i] = IF cache_sock[i] = s THEN 0 ELSE cache_sock[i]
  BY DEF CleanFd
<1>4. \A t \in Open' : reg'[t] = reg[t] /\ t # s
  BY <1>1 DEF CleanFd, TypeInv, NetTypes, Open
<1> QED
  BY <1>1, <1>2, <1>3, <1>4, Bounds DEF TableInv, Open

\* An entry of cache_sock is free when a connection is made: the other ones are
\* connections that were made before, and there are fewer than MAX_NCONN of them.
LEMMA EntryFree ==
  ASSUME TypeInv, TableInv, NEW s \in Open, \A i \in Slot : cache_sock[i] # s
  PROVE  \E i \in Slot : cache_sock[i] = 0
<1> SUFFICES ASSUME \A i \in Slot : cache_sock[i] # 0 PROVE FALSE
  OBVIOUS
<1> DEFINE T == Open \ {s}
<1>1. IsFiniteSet(T) /\ Cardinality(T) = Cardinality(Open) - 1
  BY OpenFinite, FS_RemoveElement
<1>2. cache_sock \in Injection(Slot, T)
  BY DEF TypeInv, NetTypes, TableInv, Injection, IsInjective
<1>3. Cardinality(Slot) <= Cardinality(T)
  BY <1>1, <1>2, FS_Injection
<1> QED
  BY <1>1, <1>3, OpenFinite, SlotsFinite, Bounds DEF TableInv

LEMMA SockOther ==
  ASSUME TypeInv, SockInv, HttpStep \/ CacheStep \/ JoinRaces \/ Network \/ Start \/ UNCHANGED vars
  PROVE  SockInv'
<1>1. CASE HttpStep
  <2>1. UNCHANGED <<net, reg, ev, cache_sock, nsock, rpc>>
    BY <1>1 DEF HttpStep, HttpThread, svars, UrlAdd, PutVal, PutName, DownDirect, ReadQueue, AppendUrl,
                AppendRaces, TakeBegin, Take, TakeEnd, ConnEnds
  <2> QED
    BY <2>1, SameSockets
<1>2. CASE CacheStep
  <2>1. UNCHANGED <<net, reg, ev, cache_sock, nsock>> /\ (rpc' = rpc \/ (rpc # "end" /\ rpc' \notin Early))
    BY <1>2 DEF CacheStep, svars, Answer, SetFlag, LockDown, Join, FreeQueue, NullQueue, Early
  <2> QED
    BY <2>1, SameSockets
<1>3. ASSUME NEW s \in Sock, Connected(s) \/ NetFails(s) PROVE SockInv'
  <2>1. Open' = Open /\ net \in [Sock -> {"closed", "connecting", "up", "eof", "reset"}]
    BY <1>3 DEF Connected, NetFails, Open, TypeInv, NetTypes
  <2>2. UNCHANGED <<reg, ev, cache_sock, nsock, rpc>>
    BY <1>3 DEF Connected, NetFails
  <2>3. \A t \in Sock : net'[t] = "closed" <=> net[t] = "closed"
    BY <2>1 DEF Open
  <2> QED
    BY <2>1, <2>2, <2>3 DEF SockInv, EventInv, TableInv
<1>4. ASSUME NEW s \in Sock, NEW d \in Domain, NEW kind \in Kind,
             ServerAnswers(s, d, kind) \/ ServerRepeats(s, d, kind)
      PROVE  SockInv'
  BY <1>4, SameSockets DEF ServerAnswers, ServerRepeats
<1>5. CASE Start
  <2>1. \A s \in Sock : ev[s] = {}
    BY <1>5 DEF Start, SockInv, EventInv
  <2> QED
    BY <1>5, <2>1, SameSockets DEF Start, svars
<1>6. CASE UNCHANGED vars
  BY <1>6, SameSockets DEF vars
<1>7. CASE JoinRaces
  BY <1>7, SameSockets DEF JoinRaces, svars, Early
<1>8. CASE ConnStuck
  BY <1>8, SameSockets DEF ConnStuck, svars
<1> QED
  BY <1>1, <1>2, <1>3, <1>4, <1>5, <1>6, <1>7, <1>8 DEF Network

LEMMA SockMoves ==
  ASSUME TypeInv, SockInv, SocketStep
  PROVE  SockInv'
<1>1. CASE Created \/ EpollTimeout \/ EventsDone \/ NextSlot \/ SendDone \/ CreateFails
  <2>1. UNCHANGED <<net, reg, ev, cache_sock, nsock>>
    BY <1>1 DEF Created, EpollTimeout, EventsDone, NextSlot, SendDone, CreateFails, svars
  <2>2. rpc # "end" /\ \A s \in Sock : ev[s] = {}
    BY <1>1 DEF Created, EpollTimeout, EventsDone, NextSlot, SendDone, CreateFails, SockInv, EventInv
  <2> QED
    BY <2>1, <2>2, SameSockets
<1>2. CASE EpollWait
  <2>1. \A s \in Sock : Ready(s) # {} => net[s] # "closed"
    BY DEF Ready
  <2>2. \A s \in Sock : "out" \in Ready(s) => "out" \in reg[s]
    BY DEF Ready
  <2> QED
    BY <1>2, <2>1, <2>2 DEF EpollWait, SockInv, EventInv, TableInv, Open
<1>3. ASSUME NEW s \in Sock, CreateSock(s) PROVE SockInv'
  <2>1. Open' = Open \union {s} /\ s \notin Open /\ s # 0
    BY <1>3, Bounds DEF CreateSock, Open, TypeInv, NetTypes
  <2>2. nsock' = Cardinality(Open') /\ nsock' <= MAX_NCONN
    <3>1. Cardinality(Open \union {s}) = Cardinality(Open) + 1
      BY <2>1, OpenFinite, FS_AddElement
    <3> QED
      BY <1>3, <2>1, <3>1, OpenFinite, Bounds DEF CreateSock, SockInv, TableInv
  <2>3. reg'[s] = {"in", "out"} /\ \A t \in Open : reg'[t] = reg[t]
    BY <1>3, <2>1 DEF CreateSock, TypeInv, NetTypes, Open
  <2>4. UNCHANGED <<cache_sock, ev, rpc>> /\ \A t \in Sock : ev[t] = {}
    BY <1>3 DEF CreateSock, SockInv, EventInv
  <2>5. TableInv'
    BY <2>1, <2>2, <2>3, <2>4 DEF SockInv, TableInv
  <2>6. EventInv'
    BY <2>4 DEF EventInv
  <2> QED
    BY <2>5, <2>6 DEF SockInv
<1>4. ASSUME NEW s \in Sock, EvError(s) \/ EvClose(s) PROVE SockInv'
  <2>1. s \in Open /\ CleanFd(s) /\ UNCHANGED rpc /\ rpc = "event" /\ ev' = [ev EXCEPT ![s] = {}]
    BY <1>4 DEF EvError, EvClose, SockInv, EventInv, Open
  <2>2. TableInv'
    BY <2>1, CleanTable DEF SockInv
  <2>3. \A t \in Sock : t # s => ev'[t] = ev[t] /\ net'[t] = net[t] /\ reg'[t] = reg[t]
    BY <2>1 DEF CleanFd, TypeInv, NetTypes
  <2>4. ev'[s] = {}
    BY <2>1 DEF TypeInv, NetTypes
  <2> QED
    BY <2>1, <2>2, <2>3, <2>4 DEF SockInv, EventInv
<1>5. ASSUME NEW s \in Sock, EvConnected(s) PROVE SockInv'
  <2>1. rpc = "event" /\ "out" \in reg[s] /\ s \in Open /\ s # 0
    BY <1>5, Bounds DEF EvConnected, SockInv, EventInv, Open
  <2>2. \A i \in Slot : cache_sock[i] # s
    BY <2>1 DEF SockInv, TableInv
  <2>3. PICK k \in Slot : /\ cache_sock[k] = 0
                          /\ cache_sock' = [i \in Slot |-> IF i = k THEN s ELSE cache_sock[i]]
    <3> DEFINE free == {i \in Slot : cache_sock[i] = 0}
    <3>1. free # {} /\ free \subseteq Nat
      BY <2>1, <2>2, EntryFree DEF SockInv, Slot
    <3>2. PICK k \in free : \A j \in free : k <= j
      BY <3>1, LeastNat
    <3>3. \A i \in Slot : (i \in free /\ \A j \in free : i <= j) <=> i = k
      BY <3>2 DEF Slot
    <3>4. cache_sock' = [i \in Slot |-> IF i \in free /\ \A j \in free : i <= j
                                          THEN s ELSE cache_sock[i]]
      BY <1>5 DEF EvConnected
    <3> HIDE DEF free
    <3>5. cache_sock' = [i \in Slot |-> IF i = k THEN s ELSE cache_sock[i]]
      BY <3>3, <3>4
    <3> QED
      BY <3>2, <3>5 DEF free
  <2>4. UNCHANGED <<net, nsock>> /\ Open' = Open
    BY <1>5 DEF EvConnected, Open
  <2>5. ev'[s] = {} /\ \A t \in Sock : t # s => ev'[t] = ev[t] /\ reg'[t] = reg[t]
    BY <1>5 DEF EvConnected, TypeInv, NetTypes
  <2>6. (rpc' = rpc /\ reg'[s] = {"in"}) \/ (rpc' = "end" /\ reg' = reg)
    BY <1>5 DEF EvConnected, TypeInv, NetTypes
  <2>7. EventInv'
    BY <2>1, <2>4, <2>5, <2>6 DEF SockInv, EventInv
  <2>8. \A i \in Slot : cache_sock'[i] = IF i = k THEN s ELSE cache_sock[i]
    BY <2>3
  <2>9. TableInv'
    <3>1. \A i, j \in Slot : cache_sock'[i] # 0 /\ cache_sock'[i] = cache_sock'[j] => i = j
      BY <2>2, <2>8 DEF SockInv, TableInv
    <3>2. \A t \in Open : reg'[t] = {"in"} \/ reg'[t] = {"in", "out"}
      BY <2>5, <2>6 DEF SockInv, TableInv, Open
    <3>3. \A t \in Open : reg'[t] = {"in"} => \E i \in Slot : cache_sock'[i] = t
      BY <2>1, <2>3, <2>5, <2>8, Bounds DEF SockInv, TableInv, Open
    <3>4. \A i \in Slot : rpc' # "end" /\ cache_sock'[i] # 0 => reg'[cache_sock'[i]] = {"in"}
      BY <2>1, <2>5, <2>6, <2>8 DEF SockInv, TableInv, Open
    <3>5. \A i \in Slot : cache_sock'[i] # 0 => cache_sock'[i] \in Open
      BY <2>1, <2>8 DEF SockInv, TableInv
    <3> QED
      BY <2>4, <3>1, <3>2, <3>3, <3>4, <3>5 DEF SockInv, TableInv
  <2> QED
    BY <2>7, <2>9 DEF SockInv
<1>6. ASSUME NEW s \in Sock, SendName(s) \/ SendAgain(s) PROVE SockInv'
  BY <1>6, SameSockets DEF SendName, SendAgain, svars
<1>7. ASSUME NEW s \in Sock, SendFails(s) PROVE SockInv'
  <2>1. s \in Open /\ CleanFd(s) /\ UNCHANGED <<rpc, ev>> /\ rpc = "send"
    BY <1>7, Bounds DEF SendFails, Sending, SockInv, TableInv
  <2>2. TableInv'
    BY <2>1, CleanTable DEF SockInv
  <2> QED
    BY <2>1, <2>2 DEF SockInv, EventInv
<1>8. ASSUME NEW s \in Sock, NEW a \in ans[s], EvAnswer(s, a) PROVE SockInv'
  <2>1. UNCHANGED <<net, reg, cache_sock, nsock>> /\ rpc = "event" /\ rpc' = "answer"
    BY <1>8 DEF EvAnswer
  <2>2. \A t \in Sock : ev'[t] \subseteq ev[t]
    BY <1>8 DEF EvAnswer, TypeInv, NetTypes
  <2> QED
    BY <2>1, <2>2 DEF SockInv, EventInv, TableInv, Open
<1>9. ASSUME NEW s \in Sock, EvAgain(s) PROVE SockInv'
  <2>1. UNCHANGED <<net, reg, cache_sock, nsock, rpc>> /\ rpc = "event"
    BY <1>9 DEF EvAgain
  <2>2. \A t \in Sock : ev'[t] \subseteq ev[t]
    BY <1>9 DEF EvAgain, TypeInv, NetTypes
  <2> QED
    BY <2>1, <2>2 DEF SockInv, EventInv, TableInv, Open
<1> QED
  BY <1>1, <1>2, <1>3, <1>4, <1>5, <1>6, <1>7, <1>8, <1>9 DEF SocketStep

LEMMA SockStep == TypeInv /\ SockInv /\ [Next]_vars => SockInv'
  BY Steps, SockOther, SockMoves DEF Rests

\* The table of sockets as its entries are counted.
LEMMA TableCounted == TypeInv /\ SockInv => SocketTable
<1> SUFFICES ASSUME TypeInv, SockInv PROVE SocketTable
  OBVIOUS
<1>1. ASSUME NEW s \in Open
      PROVE  Cardinality({i \in Slot : cache_sock[i] = s}) =
               IF reg[s] = {"in"} \/ (rpc = "end" /\ s \in Range(cache_sock)) THEN 1 ELSE 0
  <2> DEFINE I == {i \in Slot : cache_sock[i] = s}
  <2>1. s # 0 /\ DOMAIN cache_sock = Slot
    BY Bounds DEF Open, TypeInv, NetTypes
  <2>2. CASE \E i \in Slot : cache_sock[i] = s
    <3>1. PICK i \in Slot : cache_sock[i] = s
      BY <2>2
    <3>2. I = {i}
      BY <2>1, <3>1 DEF SockInv, TableInv
    <3>3. Cardinality(I) = 1
      BY <3>2, FS_Singleton
    <3>4. reg[s] = {"in"} \/ (rpc = "end" /\ s \in Range(cache_sock))
      BY <2>1, <3>1 DEF SockInv, TableInv, Range
    <3> QED
      BY <3>3, <3>4
  <2>3. CASE ~\E i \in Slot : cache_sock[i] = s
    <3>1. Cardinality(I) = 0
      BY <2>3, FS_EmptySet
    <3>2. ~(reg[s] = {"in"} \/ (rpc = "end" /\ s \in Range(cache_sock)))
      BY <2>1, <2>3 DEF SockInv, TableInv, Range
    <3> QED
      BY <3>1, <3>2
  <2> QED
    BY <2>2, <2>3
<1> QED
  BY <1>1 DEF SocketTable, SockInv, TableInv

LEMMA NsockBound == TypeInv /\ SockInv => TypeOK
<1> SUFFICES ASSUME TypeInv, SockInv PROVE TypeOK
  OBVIOUS
<1>1. nsock \in 0..MAX_NCONN
  BY OpenFinite, Bounds DEF SockInv, TableInv
<1>2. (hpc = "idle") = (hurl = NoUrl)
  BY DEF TypeInv, UrlTypes
<1> QED
  BY <1>1, <1>2 DEF TypeOK, TypeInv, UrlTypes, NetTypes, Cache

\* Every variable of the resolver and of url_add keeps its type, for any urls, hosts,
\* descriptors, batches and failures.
THEOREM DnsTypeCorrect == Spec => []TypeOK
<1>1. Init => TypeInv /\ SockInv
  BY InitTypes, InitSock
<1>2. TypeInv /\ SockInv /\ [Next]_vars => (TypeInv /\ SockInv)'
  BY TypeStep, SockStep
<1> QED
  BY <1>1, <1>2, NsockBound, PTL DEF Spec

\* thread_dns_main never writes to a descriptor that clean_fd closed: cache_sock holds
\* each connection that was made, once, and nsock counts the open ones.
THEOREM DnsSocketTable == Spec => []SocketTable
<1>1. Init => TypeInv /\ SockInv
  BY InitTypes, InitSock
<1>2. TypeInv /\ SockInv /\ [Next]_vars => (TypeInv /\ SockInv)'
  BY TypeStep, SockStep
<1> QED
  BY <1>1, <1>2, TableCounted, PTL DEF Spec

-----------------------------------------------------------------------------
(* Hosts: addresses, flags and queues *)

LEMMA TailPart ==
  ASSUME NEW S, NEW q \in Seq(S), q # <<>>
  PROVE  /\ \A i \in DOMAIN Tail(q) : \E j \in DOMAIN q : Tail(q)[i] = q[j]
         /\ 1 \in DOMAIN q /\ Head(q) = q[1]
         /\ \A j \in DOMAIN q : q[j] = Head(q) \/ \E i \in DOMAIN Tail(q) : Tail(q)[i] = q[j]
<1>1. /\ Tail(q) \in Seq(S) /\ Len(Tail(q)) = Len(q) - 1 /\ Len(q) \in Nat \ {0}
      /\ \A i \in 1..Len(Tail(q)) : Tail(q)[i] = q[i + 1]
  BY HeadTailProperties, EmptySeq
<1>2. DOMAIN q = 1..Len(q) /\ DOMAIN Tail(q) = 1..Len(Tail(q)) /\ Head(q) = q[1]
  BY <1>1, LenProperties
<1>3. ASSUME NEW i \in DOMAIN Tail(q) PROVE \E j \in DOMAIN q : Tail(q)[i] = q[j]
  <2> i + 1 \in DOMAIN q
    BY <1>1, <1>2
  <2> QED
    BY <1>1, <1>2
<1>4. ASSUME NEW j \in DOMAIN q, j # 1 PROVE \E i \in DOMAIN Tail(q) : Tail(q)[i] = q[j]
  <2>1. j - 1 \in DOMAIN Tail(q) /\ (j - 1) + 1 = j
    BY <1>1, <1>2, <1>4
  <2> QED
    BY <1>1, <1>2, <2>1
<1> QED
  BY <1>1, <1>2, <1>3, <1>4

\* The hosts under way on the connections, and in the resolver's hands.
OnWire == {d \in Domain : \E s \in Sock : d \in sent[s]}
            \union {d \in Domain : \E s \in Sock, k \in Kind : <<d, k>> \in ans[s]}
InHand == {d \in Domain : \E k \in Kind : resp = <<d, k>>}
Queued == {queue_dns[i] : i \in DOMAIN queue_dns}

LEMMA AskedParts ==
  /\ Asked = Queued \union OnWire \union InHand
  /\ Asked' = Queued' \union OnWire' \union InHand'
  BY DEF Asked, Queued, OnWire, InHand

\* clean_fd brings nothing new under way.
LEMMA CleanWire ==
  ASSUME TypeInv, NEW s \in Sock, CleanFd(s)
  PROVE  OnWire' \subseteq OnWire
<1>1. \A t \in Sock : sent'[t] \subseteq sent[t] /\ ans'[t] \subseteq ans[t]
  BY DEF CleanFd, TypeInv, NetTypes
<1> QED
  BY <1>1 DEF OnWire

\* What the sockets and the network do leaves hosts and urls alone, and asks for no
\* host that was not asked for.
LEMMA Quiet ==
  ASSUME TypeInv, SocketStep \/ Network \/ Start \/ UNCHANGED vars
  PROVE  /\ UNCHANGED <<hpc, hurl, added, taken, val, down, behind, lost>>
         /\ alive' = "abort" => alive = "abort"
         /\ (UNCHANGED <<rpc, resp>>) \/ rpc' \notin {"flag", "lock", "join", "free", "null"}
         /\ Asked' \subseteq Asked
<1>1. CASE Created \/ EpollWait \/ EpollTimeout \/ EventsDone \/ NextSlot \/ SendDone \/ CreateFails
             \/ Start \/ UNCHANGED vars
  BY <1>1 DEF Created, EpollWait, EpollTimeout, EventsDone, NextSlot, SendDone, CreateFails, Start,
              vars, hvars, cvars, svars, list, loop, Asked
<1>2. ASSUME NEW s \in Sock, CreateSock(s) \/ EvConnected(s) \/ Connected(s) \/ NetFails(s)
      PROVE  /\ UNCHANGED <<hpc, hurl, added, taken, val, down, behind, lost>> /\ alive' = alive
             /\ (UNCHANGED <<rpc, resp>>) \/ rpc' = "end"
             /\ Asked' \subseteq Asked
  BY <1>2 DEF CreateSock, EvConnected, Connected, NetFails, hvars, cvars, list, loop, Asked
<1>3. ASSUME NEW s \in Sock, EvError(s) \/ EvClose(s) \/ SendFails(s)
      PROVE  /\ UNCHANGED <<hpc, hurl, added, taken, val, down, behind, lost, alive, rpc, resp>>
             /\ Asked' \subseteq Asked
  <2>1. Queued' \subseteq Queued
    <3>1. UNCHANGED queue_dns \/ (queue_dns # <<>> /\ queue_dns' = Tail(queue_dns))
      BY <1>3 DEF EvError, EvClose, SendFails, Sending, cvars
    <3> QED
      BY <3>1, TailPart DEF Queued, TypeInv, UrlTypes
  <2>2. OnWire' \subseteq OnWire
    BY <1>3, CleanWire DEF EvError, EvClose, SendFails
  <2>3. UNCHANGED <<hpc, hurl, added, taken, val, down, behind, lost, alive, rpc, resp>>
    BY <1>3 DEF EvError, EvClose, SendFails, hvars, cvars, list, loop
  <2>4. InHand' = InHand
    BY <2>3 DEF InHand
  <2> QED
    BY <2>1, <2>2, <2>3, <2>4, AskedParts
<1>4. ASSUME NEW s \in Sock, SendName(s) \/ SendAgain(s)
      PROVE  /\ UNCHANGED <<hpc, hurl, added, taken, val, down, behind, lost, alive, rpc, resp>>
             /\ Asked' \subseteq Asked
  <2>1. queue_dns # <<>> /\ queue_dns' = Tail(queue_dns) /\ queue_dns \in Seq(Domain)
    BY <1>4 DEF SendName, SendAgain, Sending, TypeInv, UrlTypes
  <2>2. Queued' \subseteq Queued /\ Head(queue_dns) \in Queued
    BY <2>1, TailPart DEF Queued
  <2>3. ans' = ans /\ \A t \in Sock : sent'[t] \subseteq sent[t] \union {Head(queue_dns)}
    BY <1>4 DEF SendName, SendAgain, svars, TypeInv, NetTypes
  <2>4. OnWire' \subseteq OnWire \union Queued
    BY <2>2, <2>3 DEF OnWire
  <2>5. UNCHANGED <<hpc, hurl, added, taken, val, down, behind, lost, alive, rpc, resp>>
    BY <1>4 DEF SendName, SendAgain, hvars, list, loop
  <2>6. InHand' = InHand
    BY <2>5 DEF InHand
  <2> QED
    BY <2>2, <2>4, <2>5, <2>6, AskedParts
<1>5. ASSUME NEW s \in Sock, NEW a \in ans[s], EvAnswer(s, a)
      PROVE  /\ UNCHANGED <<hpc, hurl, added, taken, val, down, behind, lost, alive>> /\ rpc' = "answer"
             /\ Asked' \subseteq Asked
  <2>1. UNCHANGED <<hpc, hurl, added, taken, val, down, behind, lost, alive, queue_dns, sent>>
    BY <1>5 DEF EvAnswer, hvars, cvars, list, loop
  <2>2. \A t \in Sock : ans'[t] \subseteq ans[t]
    BY <1>5 DEF EvAnswer, TypeInv, NetTypes
  <2>3. InHand' \subseteq OnWire
    BY <1>5 DEF EvAnswer, InHand, OnWire
  <2>4. OnWire' \subseteq OnWire
    BY <2>1, <2>2 DEF OnWire
  <2>5. Queued' = Queued
    BY <2>1 DEF Queued
  <2>6. rpc' = "answer"
    BY <1>5 DEF EvAnswer
  <2> QED
    BY <2>1, <2>3, <2>4, <2>5, <2>6, AskedParts
<1>6. ASSUME NEW s \in Sock, NEW d \in Domain, NEW kind \in Kind,
             ServerAnswers(s, d, kind) \/ ServerRepeats(s, d, kind)
      PROVE  /\ UNCHANGED <<hpc, hurl, added, taken, val, down, behind, lost, alive, rpc, resp>>
             /\ Asked' \subseteq Asked
  <2>1. UNCHANGED <<hpc, hurl, added, taken, val, down, behind, lost, alive, rpc, resp, queue_dns>> /\ d \in sent[s]
    BY <1>6 DEF ServerAnswers, ServerRepeats, hvars, cvars, list, loop
  <2>2. \A t \in Sock : sent'[t] \subseteq sent[t] /\ ans'[t] \subseteq ans[t] \union {<<d, kind>>}
    BY <1>6 DEF ServerAnswers, ServerRepeats, TypeInv, NetTypes
  <2>3. OnWire' \subseteq OnWire
    <3>1. ASSUME NEW e \in Domain, NEW t \in Sock, NEW k \in Kind, <<e, k>> \in ans'[t]
          PROVE  e \in OnWire
      <4>1. <<e, k>> \in ans[t] \/ e = d
        BY <2>2, <3>1
      <4> QED
        BY <2>1, <4>1 DEF OnWire
    <3> QED
      BY <2>2, <3>1 DEF OnWire
  <2>4. Queued' = Queued /\ InHand' = InHand
    BY <2>1 DEF Queued, InHand
  <2> QED
    BY <2>1, <2>3, <2>4, AskedParts
<1>7. ASSUME NEW s \in Sock, EvAgain(s)
      PROVE  UNCHANGED <<hpc, hurl, added, taken, val, down, behind, lost, alive, rpc, resp>>
             /\ Asked' = Asked
  BY <1>7 DEF EvAgain, hvars, cvars, list, loop, Asked
<1>8. CASE ConnStuck
  BY <1>8 DEF ConnStuck, cvars, svars, list, Asked
<1> QED
  BY <1>1, <1>2, <1>3, <1>4, <1>5, <1>6, <1>7, <1>8 DEF SocketStep, Network

LEMMA AppendPart ==
  ASSUME NEW S, NEW q \in Seq(S), NEW x \in S
  PROVE  \A i \in DOMAIN Append(q, x) : Append(q, x)[i] = x \/ \E j \in DOMAIN q : Append(q, x)[i] = q[j]
<1>1. /\ Len(Append(q, x)) = Len(q) + 1 /\ Append(q, x)[Len(q) + 1] = x
      /\ \A i \in 1..Len(q) : Append(q, x)[i] = q[i]
      /\ Append(q, x) \in Seq(S) /\ Len(q) \in Nat
  BY AppendProperties, LenProperties
<1>2. DOMAIN q = 1..Len(q) /\ DOMAIN Append(q, x) = 1..(Len(q) + 1)
  BY <1>1, LenProperties
<1> QED
  BY <1>1, <1>2

\* A host whose answer process_cache_dns has taken.
Answered(d) == val[d].flags = 1 /\ val[d].ip # "unset"

\* What the proofs of the hosts carry from step to step.
UrlInv == HostInv /\ GivenInv /\ AnswerBeforeDownload /\ JoinedOnce

LEMMA InitHosts == Init => UrlInv
  BY EmptyRange DEF Init, UrlInv, HostInv, GivenInv, AnswerBeforeDownload, JoinedOnce, NoVal, Asked, NoResp

\* A step that leaves the urls and the hosts alone.
LEMMA QuietHosts ==
  ASSUME TypeInv, UrlInv, SocketStep \/ Network \/ Start \/ UNCHANGED vars
  PROVE  UrlInv'
  BY Quiet DEF UrlInv, HostInv, GivenInv, AnswerBeforeDownload, JoinedOnce

LEMMA HttpHosts ==
  ASSUME TypeInv, TypeInv', UrlInv, HttpStep
  PROVE  UrlInv'
<1>1. UNCHANGED <<rpc, resp, sent, ans>> /\ alive' # "abort"
  <2>1. CASE DownDirect \/ Take
    BY <2>1 DEF DownDirect, Put, Take, svars, UrlInv, JoinedOnce
  <2>2. CASE ~(DownDirect \/ Take)
    BY <2>2 DEF HttpStep, HttpThread, UrlAdd, PutVal, PutName, ReadQueue, AppendUrl,
         AppendRaces, TakeBegin, TakeEnd, ConnEnds, svars, UrlInv, JoinedOnce
  <2> QED
    BY <2>1, <2>2
<1>2. OnWire' = OnWire /\ InHand' = InHand
  BY <1>1 DEF OnWire, InHand
<1>3. queue_dns' = queue_dns => Asked' = Asked
  BY <1>2, AskedParts DEF Queued
<1>4. val \in [Domain -> Cache] /\ down \in Seq(Url) /\ added \subseteq Url /\ taken \subseteq Url
  BY DEF TypeInv, UrlTypes
<1>5. JoinedOnce'
  BY <1>1 DEF JoinedOnce
<1>6. hpc # "idle" => hurl \in Url /\ Host(hurl) \in Domain
  BY UrlHost DEF TypeInv, UrlTypes
<1>7. NoUrl \notin Url
  BY UrlHost
<1>8. \A u \in Listed \union taken : Host(u) \in Domain
  BY <1>4, ListedUrls, UrlHost
<1>9. (Listed \union taken \subseteq added) /\ (\A u \in Listed \union taken : Answered(Host(u)))
  BY DEF UrlInv, GivenInv, AnswerBeforeDownload, Listed, Answered
<1> SUFFICES HostInv' /\ (hurl' # NoUrl => hurl' \in added') /\ lost' \subseteq added'
             /\ (\A d \in Domain : \A i \in DOMAIN val'[d].down : val'[d].down[i] \in added')
             /\ Listed' \union taken' \subseteq added' /\ (\A u \in Listed' \union taken' : Answered(Host(u))')
  BY <1>5 DEF UrlInv, GivenInv, AnswerBeforeDownload, Listed, Answered
<1> USE DEF UrlInv, HostInv, GivenInv
<1> DEFINE Rest == /\ (hurl' # NoUrl => hurl' \in added') /\ lost' \subseteq added'
                   /\ (\A d \in Domain : \A i \in DOMAIN val'[d].down : val'[d].down[i] \in added')
                   /\ Listed' \union taken' \subseteq added'
                   /\ (\A u \in Listed' \union taken' : Answered(Host(u))')
<1>10. ASSUME NEW u \in Url, UrlAdd(u) PROVE HostInv' /\ Rest
  <2>1. Host(u) \in Domain /\ Asked' = Asked
    BY <1>3, <1>10, UrlHost DEF UrlAdd, cvars
  <2>2. HostInv'
    BY <1>1, <1>10, <2>1 DEF UrlAdd, cvars, TypeInv, UrlTypes, Cache
  <2>3. UNCHANGED <<val, taken, lost, down, behind>> /\ hurl' = u /\ added' = added \union {u}
    BY <1>10 DEF UrlAdd, cvars, list, loop
  <2> QED
    BY <1>9, <2>2, <2>3 DEF Listed, Answered
<1>11. CASE PutVal
  <2>1. hurl \in Url /\ Asked' = Asked /\ hurl # NoUrl
    BY <1>3, <1>6, <1>7, <1>11 DEF PutVal
  <2> DEFINE new == [known |-> TRUE, flags |-> 0, ip |-> "unset", q |-> "queue", down |-> <<hurl>>]
  <2>2. PICK h \in Domain : h = Host(hurl) /\ val[h] = NoVal /\ ~Answered(h) /\ ~val[h].known
    BY <1>6, <1>11 DEF PutVal, NoVal, Answered
  <2>3. val'[h] = new /\ \A d \in Domain : d # h => val'[d] = val[d]
    BY <1>4, <1>11, <2>2 DEF PutVal
  <2>4. /\ val'[h].known /\ val'[h].flags = 0 /\ val'[h].q = "queue" /\ val'[h].down = <<hurl>>
    BY <2>3
  <2>5. HostInv'
    BY <1>1, <1>11, <2>1, <2>2, <2>3, <2>4 DEF PutVal, HoldsCacheDns
  <2>6. UNCHANGED <<hurl, taken, lost, down, behind, added>>
    BY <1>11 DEF PutVal, list, loop
  <2>7. \A d \in Domain : \A i \in DOMAIN val'[d].down : val'[d].down[i] \in added
    BY <2>1, <2>3, <2>4
  <2>8. \A u \in Listed \union taken : val'[Host(u)] = val[Host(u)]
    BY <1>8, <1>9, <2>2, <2>3
  <2> QED
    BY <1>9, <2>5, <2>6, <2>7, <2>8 DEF Listed, Answered
<1>12. CASE PutName
  <2>1. hurl \in Url /\ Host(hurl) \in Domain
    BY <1>6, <1>12 DEF PutName
  <2>2. Queued' \subseteq Queued \union {Host(hurl)}
    BY <1>12, <2>1, AppendPart DEF PutName, Queued, TypeInv, UrlTypes
  <2>3. Asked' \subseteq Asked \union {Host(hurl)}
    BY <1>2, <2>2, AskedParts
  <2>4. UNCHANGED <<val, down, behind, taken, added, lost>> /\ hpc' = "idle"
        /\ hurl' = NoUrl /\ val[Host(hurl)].known
    BY <1>12 DEF PutName, list, loop
  <2> QED
    BY <1>1, <1>9, <2>3, <2>4 DEF Listed, Answered
<1>13. CASE DownDirect
  <2>1. hurl \in Url /\ hurl # NoUrl /\ Host(hurl) \in Domain /\ Asked' = Asked /\ Put(hurl)
        /\ alive = "run" /\ hurl \in added
    BY <1>3, <1>6, <1>7, <1>13 DEF DownDirect
  <2>2. Listed' \subseteq Listed \union {hurl} /\ lost' \subseteq lost \union {hurl}
    BY <2>1, PutParts
  <2>3. UNCHANGED <<val, taken, added>> /\ hpc' = "idle" /\ hurl' = NoUrl /\ Answered(Host(hurl))
    BY <1>13, <2>1 DEF DownDirect, loop, Answered
  <2>4. HostInv'
    BY <1>1, <2>1, <2>3
  <2> QED
    BY <1>9, <2>1, <2>2, <2>3, <2>4 DEF Answered
<1>14. CASE ReadQueue
  <2>1. Asked' = Asked /\ UNCHANGED <<hurl, added, taken, val, down, behind, lost>>
        /\ (hpc' = hpc \/ (hpc = "item" /\ hpc' = "append"))
    BY <1>3, <1>14 DEF ReadQueue, cvars, list, loop
  <2> QED
    BY <1>1, <1>9, <2>1 DEF Listed, Answered
<1>15. CASE AppendUrl
  <2>1. hurl \in Url /\ hurl # NoUrl /\ Asked' = Asked
    BY <1>3, <1>6, <1>7, <1>15 DEF AppendUrl
  <2>2. PICK h \in Domain : h = Host(hurl)
    BY <1>6, <1>15 DEF AppendUrl
  <2>20. val[h].down \in Seq(Url)
    BY <1>4 DEF Cache
  <2>21. Append(val[h].down, hurl) \in Seq(Url)
    BY <2>1, <2>20
  <2>3. PICK x \in Seq(Url) : x = Append(val[h].down, hurl) /\ val[h].down \in Seq(Url)
    BY <2>20, <2>21
  <2>4. val' = [val EXCEPT ![h].down = x]
    BY <1>15, <2>2, <2>3 DEF AppendUrl
  <2>5. /\ \A e \in Domain : e # h => val'[e] = val[e]
        /\ val'[h].down = x /\ val'[h].known = val[h].known /\ val'[h].ip = val[h].ip
        /\ val'[h].flags = val[h].flags /\ val'[h].q = val[h].q
    BY <1>4, <2>4, SetDown
  <2>6. \A i \in DOMAIN x : x[i] = hurl \/ \E j \in DOMAIN val[h].down : x[i] = val[h].down[j]
    BY <2>1, <2>3, AppendPart
  <2>7. val[h].known /\ hpc' = "idle" /\ hurl' = NoUrl /\ UNCHANGED <<added, taken, down, behind, lost>>
    BY <1>15, <2>2 DEF AppendUrl, list, loop
  <2>8. HostInv'
    <3>1. \A d \in Domain : \A i \in DOMAIN val'[d].down : Host(val'[d].down[i]) = d
      BY <2>2, <2>5, <2>6
    <3>2. \A d \in Domain : ~val'[d].known => val'[d] = NoVal
      BY <2>5, <2>7
    <3>3. rpc \in {"flag", "lock", "join", "free", "null"} => resp[1] \in Domain
      BY RespHost DEF HoldsCacheDns
    <3>4. Asked \subseteq Domain
      BY DEF Asked, TypeInv, UrlTypes
    <3>5. \A d \in Domain : /\ val'[d].known = val[d].known /\ val'[d].ip = val[d].ip
                           /\ val'[d].flags = val[d].flags /\ val'[d].q = val[d].q
      BY <2>5
    <3>6. rpc = "flag" => val'[resp[1]].flags = 0 /\ val'[resp[1]].ip # "unset"
      BY <3>3, <3>5
    <3>7. rpc \in {"lock", "join", "free", "null"} => val'[resp[1]].flags = 1
      BY <3>3, <3>5
    <3>8. rpc \in {"lock", "join", "free"} => val'[resp[1]].q = "queue"
      BY <3>3, <3>5
    <3>9. \A d \in Asked : val'[d].known
      BY <3>4, <3>5
    <3> QED
      BY <1>1, <2>1, <2>7, <3>1, <3>2, <3>5, <3>6, <3>7, <3>8, <3>9
  <2>9. \A d \in Domain : \A i \in DOMAIN val'[d].down : val'[d].down[i] \in added
    BY <2>1, <2>5, <2>6
  <2>10. \A u \in Listed \union taken : Answered(Host(u))'
    BY <1>8, <1>9, <2>5 DEF Answered
  <2> QED
    BY <1>9, <2>7, <2>8, <2>9, <2>10 DEF Listed
<1>16. CASE AppendRaces
  <2>1. Asked' = Asked /\ UNCHANGED <<added, taken, val, down, behind>>
        /\ (UNCHANGED <<hpc, hurl, lost>> \/ (hpc' = "idle" /\ hurl' = NoUrl /\ lost' = lost \union {hurl}))
        /\ hurl \in added
    BY <1>3, <1>6, <1>7, <1>16 DEF AppendRaces, cvars, list, loop
  <2> QED
    BY <1>1, <1>9, <2>1 DEF Listed, Answered
<1>17. CASE Take
  <2>1. Asked' = Asked /\ UNCHANGED <<hpc, hurl, added, val, lost>>
    BY <1>3, <1>17, TakeParts DEF Take
  <2>2. Listed' \union taken' \subseteq Listed \union taken
    BY <1>17, TakeParts
  <2>3. HostInv'
    BY <1>1, <2>1
  <2> QED
    BY <1>9, <2>1, <2>2, <2>3 DEF Answered
<1>18. CASE TakeBegin \/ TakeEnd \/ ConnEnds
  <2>1. Asked' = Asked /\ UNCHANGED <<hpc, hurl, added, taken, val, down, behind, lost>>
    BY <1>3, <1>18 DEF TakeBegin, TakeEnd, ConnEnds, cvars, list
  <2> QED
    BY <1>1, <1>9, <2>1 DEF Listed, Answered
<1> QED
  BY <1>10, <1>11, <1>12, <1>13, <1>14, <1>15, <1>16, <1>17, <1>18 DEF HttpStep, HttpThread

\* A step of process_cache_dns on host h gives nothing up; it leaves the urls where they
\* are, joins the queue of h to total->down, or frees it.
Keeps(h) ==
  /\ UNCHANGED <<hpc, hurl, added, taken>>
  /\ \A d \in Domain : d # h => val'[d] = val[d]
  /\ val'[h].known
  /\ val[h].flags = 1 => val'[h].flags = 1
  /\ val[h].ip # "unset" => val'[h].ip # "unset"
  /\ \/ val'[h].down = val[h].down /\ UNCHANGED <<down, behind, lost>>
     \/ /\ val'[h].down = <<>> /\ alive = "run"
        /\ JoinQueue(val[h].down) /\ Answered(h)
     \/ /\ val'[h].down = <<>> /\ UNCHANGED <<down, behind>>
        /\ lost' = lost \union Range(val[h].down)
  /\ alive' # "abort"

LEMMA KeepsDown ==
  ASSUME TypeInv, NEW h \in Domain, Keeps(h)
  PROVE  /\ Listed' \subseteq Listed \/ (Answered(h) /\ Listed' \subseteq Listed \union Range(val[h].down))
         /\ lost' \subseteq lost \union Range(behind) \union Range(val[h].down)
<1>1. val[h].down \in Seq(Url)
  BY DEF TypeInv, UrlTypes, Cache
<1>2. CASE alive = "run" /\ JoinQueue(val[h].down) /\ Answered(h)
  BY <1>1, <1>2, JoinParts
<1> QED
  BY <1>2 DEF Keeps, Listed

LEMMA KeepsUrls ==
  ASSUME TypeInv, UrlInv, Asked' \subseteq Asked, NEW h \in Domain, Keeps(h), val[h].known,
         val'[h].flags = 0 => val'[h].q = "queue",
         val'[h].flags = 1 => val'[h].ip # "unset",
         rpc' \in {"flag", "lock", "join", "free", "null"} => resp' = resp /\ resp[1] = h,
         rpc' = "flag" => val'[h].flags = 0 /\ val'[h].ip # "unset",
         rpc' \in {"lock", "join", "free", "null"} => val'[h].flags = 1,
         rpc' \in {"lock", "join", "free"} => val'[h].q = "queue"
  PROVE  UrlInv'
<1> USE DEF UrlInv, HostInv, GivenInv
<1>0. /\ UNCHANGED <<hpc, hurl, added, taken>>
      /\ \A d \in Domain : d # h => val'[d] = val[d]
      /\ val'[h].known
      /\ val[h].flags = 1 => val'[h].flags = 1
      /\ val[h].ip # "unset" => val'[h].ip # "unset"
      /\ val'[h].down = val[h].down \/ val'[h].down = <<>>
      /\ alive' # "abort"
  BY DEF Keeps
<1>1. \A d \in Domain : \A i \in DOMAIN val'[d].down : \E j \in DOMAIN val[d].down : val'[d].down[i] = val[d].down[j]
  <2>1. \A i \in DOMAIN val'[h].down : \E j \in DOMAIN val[h].down : val'[h].down[i] = val[h].down[j]
    <3>1. CASE val'[h].down = <<>>
      BY <3>1
    <3> QED
      BY <1>0, <3>1
  <2> QED
    BY <1>0, <2>1
<1>2. /\ Listed' \subseteq Listed \/ (Answered(h) /\ Listed' \subseteq Listed \union Range(val[h].down))
      /\ lost' \subseteq lost \union Range(behind) \union Range(val[h].down)
  BY KeepsDown
<1>3. Asked \subseteq Domain
  BY DEF Asked, TypeInv, UrlTypes
<1>4. hpc # "idle" => Host(hurl) \in Domain
  BY UrlHost DEF TypeInv, UrlTypes
<1>5. \A d \in Domain : ~val'[d].known => val'[d] = NoVal
  BY <1>0
<1>6. \A d \in Domain : val'[d].known /\ val'[d].flags = 0 => val'[d].q = "queue"
  BY <1>0
<1>7. \A d \in Domain : val'[d].flags = 1 => val'[d].ip # "unset"
  BY <1>0
<1>8. \A d \in Domain : \A i \in DOMAIN val'[d].down : Host(val'[d].down[i]) = d
  BY <1>1
<1>9. /\ hpc' = "put" => ~val'[Host(hurl')].known
      /\ hpc' \in {"name", "direct", "item", "append"} => val'[Host(hurl')].known
      /\ hpc' = "direct" => val'[Host(hurl')].flags = 1
  BY <1>0, <1>4
<1>10. \A d \in Asked' : val'[d].known
  BY <1>0, <1>3
<1>11. HostInv'
  BY <1>0, <1>5, <1>6, <1>7, <1>8, <1>9, <1>10
<1>14. Range(val[h].down) \subseteq added /\ \A u \in Range(val[h].down) : Host(u) = h
  BY DEF Range
<1>15. Listed \subseteq added /\ \A u \in Listed \union taken : Host(u) \in Domain /\ Answered(Host(u))
  BY ListedUrls, UrlHost DEF Listed, TypeInv, UrlTypes, AnswerBeforeDownload, Answered
<1>16. \A d \in Domain : Answered(d) => Answered(d)'
  BY <1>0 DEF Answered
<1>12. GivenInv'
  <2>1. Listed' \subseteq added /\ lost' \subseteq added
    BY <1>2, <1>14, <1>15 DEF Listed
  <2>2. \A d \in Domain : \A i \in DOMAIN val'[d].down : val'[d].down[i] \in added
    BY <1>1
  <2> QED
    BY <1>0, <2>1, <2>2 DEF Listed
<1>13. AnswerBeforeDownload'
  <2>1. \A u \in Listed' \union taken' : Answered(Host(u))'
    BY <1>0, <1>2, <1>14, <1>15, <1>16
  <2> QED
    BY <2>1 DEF AnswerBeforeDownload, Listed, Answered
<1> QED
  BY <1>0, <1>11, <1>12, <1>13 DEF JoinedOnce

LEMMA CacheHosts ==
  ASSUME TypeInv, UrlInv, CacheStep
  PROVE  UrlInv' /\ resp[1] \in Domain /\ Keeps(resp[1])
<1>1. HoldsCacheDns
  BY DEF CacheStep, Answer, SetFlag, LockDown, Join, FreeQueue, NullQueue, HoldsCacheDns
<1>2. resp \in Domain \X Kind
  BY <1>1 DEF TypeInv, NetTypes
<1>3. PICK h \in Domain, k \in Kind : resp = <<h, k>>
  BY <1>2
<1>4. h = resp[1] /\ k = resp[2] /\ h \in Asked
  BY <1>3 DEF Asked
<1> SUFFICES UrlInv' /\ Keeps(h)
  BY <1>4
<1>5. val[h].known
  BY <1>4 DEF UrlInv, HostInv
<1>6. Asked' \subseteq Asked
  <2>1. UNCHANGED <<queue_dns, sent, ans>> /\ (resp' = resp \/ resp' = <<>>)
    BY DEF CacheStep, Answer, SetFlag, LockDown, Join, FreeQueue, NullQueue, cvars, svars, NoResp
  <2>2. \A d \in Domain, n \in Kind : <<d, n>> # <<>>
    BY PairNotEmpty
  <2>3. InHand' \subseteq InHand
    BY <2>1, <2>2 DEF InHand
  <2> QED
    BY <2>1, <2>3, AskedParts DEF Queued, OnWire
<1>7. val \in [Domain -> Cache] /\ val[h] \in Cache /\ down \in Seq(Url)
  BY DEF TypeInv, UrlTypes
<1>8. val[h].flags \in 0..1 /\ val[h].down \in Seq(Url)
  BY <1>7 DEF Cache
<1>9. /\ UNCHANGED <<hpc, hurl, added, taken>>
      /\ val[h].flags = 0 => val[h].q = "queue"
      /\ val[h].flags = 1 => val[h].ip # "unset"
      /\ alive # "abort"
  BY <1>5 DEF CacheStep, Answer, SetFlag, LockDown, Join, FreeQueue, NullQueue, hvars, UrlInv,
              HostInv, JoinedOnce, loop, JoinQueue
<1>10. CASE Answer
  <2>1. CASE UNCHANGED val /\ rpc' = "event"
    <3>2. UNCHANGED <<down, behind, lost, alive>>
      BY <1>10 DEF Answer, list
    <3>1. Keeps(h)
      BY <1>5, <1>9, <2>1, <3>2 DEF Keeps
    <3> QED
      BY <1>5, <1>6, <1>9, <2>1, <3>1, KeepsUrls
  <2>2. CASE k # "bad" /\ val[h].flags = 0 /\ rpc' = "flag" /\ val' = [val EXCEPT ![h].ip = k] /\ UNCHANGED resp
    <3>1. k \in {"unset", "none", "addr"} /\ k # "unset"
      BY <2>2 DEF Kind
    <3>2. /\ \A e \in Domain : e # h => val'[e] = val[e]
          /\ val'[h].ip = k /\ val'[h].known = val[h].known /\ val'[h].flags = val[h].flags
          /\ val'[h].q = val[h].q /\ val'[h].down = val[h].down
      BY <1>7, <2>2, <3>1, SetIp
    <3>3. UNCHANGED <<down, behind, lost, alive>>
      BY <1>10 DEF Answer, list
    <3>4. Keeps(h)
      BY <1>5, <1>9, <3>1, <3>2, <3>3 DEF Keeps
    <3> QED
      BY <1>4, <1>5, <1>6, <1>9, <2>2, <3>1, <3>2, <3>4, KeepsUrls
  <2> QED
    BY <1>4, <1>10, <2>1, <2>2 DEF Answer
<1>11. CASE SetFlag
  <2>1. /\ rpc = "flag" /\ rpc' = "lock" /\ UNCHANGED <<resp, down, behind, lost, alive>>
        /\ val' = [val EXCEPT ![h].flags = 1] /\ val[h].flags = 0 /\ val[h].ip # "unset"
    BY <1>4, <1>11 DEF SetFlag, UrlInv, HostInv, list
  <2>2. /\ \A e \in Domain : e # h => val'[e] = val[e]
        /\ val'[h].flags = 1 /\ val'[h].known = val[h].known /\ val'[h].ip = val[h].ip
        /\ val'[h].q = val[h].q /\ val'[h].down = val[h].down
    BY <1>7, <2>1, SetFlags
  <2>3. Keeps(h)
    BY <1>5, <1>9, <2>1, <2>2 DEF Keeps
  <2> QED
    BY <1>4, <1>5, <1>6, <1>9, <2>1, <2>2, <2>3, KeepsUrls
<1>12. CASE LockDown
  <2>1. /\ rpc = "lock" /\ rpc' = "join" /\ UNCHANGED <<resp, val, down, behind, lost, alive>>
        /\ val[h].flags = 1 /\ val[h].q = "queue"
    BY <1>4, <1>12 DEF LockDown, UrlInv, HostInv, cvars, list
  <2>2. Keeps(h)
    BY <1>5, <1>9, <2>1 DEF Keeps
  <2> QED
    BY <1>4, <1>5, <1>6, <1>9, <2>1, <2>2, KeepsUrls
<1>13. CASE Join
  <2>1. rpc = "join" /\ val[h].flags = 1 /\ val[h].q = "queue"
    BY <1>4, <1>13 DEF Join, UrlInv, HostInv
  <2>2. /\ rpc' = "free" /\ UNCHANGED resp /\ alive = "run" /\ JoinQueue(val[h].down)
        /\ val' = [val EXCEPT ![h].down = <<>>]
    BY <1>4, <1>13, <2>1 DEF Join
  <2>4. alive' # "abort" /\ Answered(h)
    BY <1>9, <2>1, <2>2 DEF JoinQueue, Answered
  <2>3. /\ \A e \in Domain : e # h => val'[e] = val[e]
        /\ val'[h].down = <<>> /\ val'[h].known = val[h].known /\ val'[h].ip = val[h].ip
        /\ val'[h].flags = val[h].flags /\ val'[h].q = val[h].q
    BY <1>7, EmptyDown, <2>2, SetDown
  <2>5. Keeps(h)
    BY <1>5, <1>9, <2>1, <2>2, <2>3, <2>4 DEF Keeps
  <2> QED
    BY <1>4, <1>5, <1>6, <1>9, <2>1, <2>2, <2>3, <2>5, KeepsUrls
<1>14. CASE FreeQueue
  <2>1. /\ rpc = "free" /\ rpc' = "null" /\ UNCHANGED <<resp, down, behind, alive>> /\ val[h].flags = 1
        /\ lost' = lost \union Range(val[h].down)
        /\ val' = [val EXCEPT ![h].q = "freed", ![h].down = <<>>]
    BY <1>4, <1>14 DEF FreeQueue, UrlInv, HostInv, list
  <2>2. PICK f : f = [val EXCEPT ![h].q = "freed"]
    OBVIOUS
  <2>3. /\ f \in [Domain -> Cache] /\ \A e \in Domain : e # h => f[e] = val[e]
        /\ f[h].known = val[h].known /\ f[h].ip = val[h].ip /\ f[h].flags = val[h].flags
    BY <1>7, <2>2, SetQ
  <2>4. val' = [f EXCEPT ![h].down = <<>>]
    BY <2>1, <2>2
  <2>5. /\ \A e \in Domain : e # h => val'[e] = val[e]
        /\ val'[h].down = <<>> /\ val'[h].known = val[h].known /\ val'[h].ip = val[h].ip
        /\ val'[h].flags = val[h].flags
    BY <2>3, EmptyDown, <2>4, SetDown
  <2>6. Keeps(h)
    BY <1>5, <1>9, <2>1, <2>5 DEF Keeps
  <2> QED
    <3>1. /\ val'[h].flags = 1 /\ val'[h].ip # "unset" /\ rpc' = "null" /\ resp' = resp
      BY <1>9, <2>1, <2>5
    <3> QED
      BY <1>4, <1>5, <1>6, <2>6, <3>1, KeepsUrls
<1>15. CASE NullQueue
  <2>1. /\ rpc = "null" /\ rpc' = "event" /\ UNCHANGED <<down, behind, lost, alive>> /\ val[h].flags = 1
        /\ val' = [val EXCEPT ![h].q = "null"]
    BY <1>4, <1>15 DEF NullQueue, UrlInv, HostInv, list
  <2>2. /\ \A e \in Domain : e # h => val'[e] = val[e]
        /\ val'[h].down = val[h].down /\ val'[h].known = val[h].known /\ val'[h].ip = val[h].ip
        /\ val'[h].flags = val[h].flags
    BY <1>7, <2>1, SetQ
  <2>3. Keeps(h)
    BY <1>5, <1>9, <2>1, <2>2 DEF Keeps
  <2> QED
    BY <1>4, <1>5, <1>6, <1>9, <2>1, <2>2, <2>3, KeepsUrls
<1> QED
  BY <1>10, <1>11, <1>12, <1>13, <1>14, <1>15 DEF CacheStep

LEMMA RaceHosts ==
  ASSUME TypeInv, UrlInv, JoinRaces
  PROVE  UrlInv'
<1>1. PICK h \in Domain, q \in Seq(Url) :
           /\ h = resp[1] /\ h = Host(hurl) /\ q = val[h].down /\ hurl \in Url /\ hpc = "append"
           /\ \A e \in Domain : e # h => val'[e] = val[e]
           /\ val'[h].down = <<>> /\ val'[h].known = val[h].known /\ val'[h].ip = val[h].ip
           /\ val'[h].flags = val[h].flags /\ val'[h].q = val[h].q
           /\ alive' \in {"run", "crash"}
           /\ Listed' \subseteq Listed \union Range(q) \union {hurl}
           /\ lost' \subseteq lost \union Range(behind) \union Range(q) \union {hurl}
  BY RaceParts
<1>2. /\ rpc = "join" /\ rpc' = "free" /\ hpc' = "idle" /\ hurl' = NoUrl
      /\ UNCHANGED <<added, taken, queue_dns, resp, sent, ans>>
  BY DEF JoinRaces, loop, svars
<1>3. Asked' = Asked /\ Asked \subseteq Domain
  BY <1>2 DEF Asked, TypeInv, UrlTypes
<1>4. val[h].known /\ val[h].flags = 1 /\ val[h].q = "queue" /\ val[h].ip # "unset"
  BY <1>1, <1>2 DEF UrlInv, HostInv
<1>5. hurl # NoUrl
  BY <1>1, UrlHost
<1>6. hurl \in added /\ Range(q) \subseteq added /\ \A u \in Range(q) : Host(u) = h
  BY <1>1, <1>5 DEF UrlInv, HostInv, GivenInv, Range
<1>7. Listed \subseteq added /\ Range(behind) \subseteq Listed
      /\ \A u \in Listed \union taken : Host(u) \in Domain /\ Answered(Host(u))
  BY ListedUrls, UrlHost DEF Listed, TypeInv, UrlTypes, UrlInv, GivenInv, AnswerBeforeDownload, Answered
<1>8. \A d \in Domain : /\ val'[d].known = val[d].known /\ val'[d].ip = val[d].ip
                        /\ val'[d].flags = val[d].flags /\ val'[d].q = val[d].q
  BY <1>1
<1>9. \A d \in Domain : val'[d].down = <<>> \/ val'[d] = val[d]
  BY <1>1
<1>10. HostInv'
  <2>1. \A d \in Domain : ~val'[d].known => val'[d] = NoVal
    BY <1>1, <1>4 DEF UrlInv, HostInv
  <2>2. \A d \in Domain : val'[d].known /\ val'[d].flags = 0 => val'[d].q = "queue"
    BY <1>8 DEF UrlInv, HostInv
  <2>3. \A d \in Domain : val'[d].flags = 1 => val'[d].ip # "unset"
    BY <1>8 DEF UrlInv, HostInv
  <2>4. \A d \in Domain : \A i \in DOMAIN val'[d].down : Host(val'[d].down[i]) = d
    <3>1. ASSUME NEW d \in Domain PROVE \A i \in DOMAIN val'[d].down : Host(val'[d].down[i]) = d
      <4>1. CASE val'[d].down = <<>>
        BY <4>1
      <4> QED
        BY <1>9, <4>1 DEF UrlInv, HostInv
    <3> QED
      BY <3>1
  <2>5. \A d \in Asked' : val'[d].known
    BY <1>3, <1>8 DEF UrlInv, HostInv
  <2>6. resp'[1] = h /\ val'[h].flags = 1 /\ val'[h].q = "queue"
    BY <1>1, <1>2, <1>4
  <2> QED
    BY <1>2, <2>1, <2>2, <2>3, <2>4, <2>5, <2>6 DEF HostInv
<1>11. GivenInv'
  <2>1. Listed' \subseteq added /\ lost' \subseteq added
    BY <1>1, <1>6, <1>7 DEF UrlInv, GivenInv
  <2>2. ASSUME NEW d \in Domain PROVE \A i \in DOMAIN val'[d].down : val'[d].down[i] \in added
    <3>1. CASE val'[d].down = <<>>
      BY <3>1
    <3> QED
      BY <1>9, <3>1 DEF UrlInv, GivenInv
  <2> QED
    BY <1>2, <2>1, <2>2 DEF GivenInv, Listed, UrlInv
<1>12. AnswerBeforeDownload'
  <2>1. Answered(h)' /\ \A d \in Domain : Answered(d) => Answered(d)'
    BY <1>4, <1>8 DEF Answered
  <2>2. \A u \in Listed' \union taken' : Answered(Host(u))'
    BY <1>1, <1>2, <1>6, <1>7, <2>1
  <2> QED
    BY <2>2 DEF AnswerBeforeDownload, Listed, Answered
<1> QED
  BY <1>1, <1>10, <1>11, <1>12 DEF UrlInv, JoinedOnce

LEMMA UrlStep == TypeInv /\ TypeInv' /\ UrlInv /\ [Next]_vars => UrlInv'
  BY Steps, HttpHosts, CacheHosts, RaceHosts, QuietHosts DEF Rests

\* The http loop only takes urls whose host was answered: a url that url_add puts into
\* total->down, that queue_join_init brings there or that races with it belongs to a host
\* whose answer process_cache_dns has stored.
THEOREM DnsAnswerFirst == Spec => []AnswerBeforeDownload
<1>1. TypeInv /\ UrlInv /\ [Next]_vars => (TypeInv /\ UrlInv)'
  BY TypeStep, UrlStep
<1> QED
  BY InitTypes, InitHosts, <1>1, PTL DEF Spec, UrlInv

\* However often the server answers for a host, process_cache_dns hands its queue to
\* queue_join_init once, and never the NULL the first answer left.
THEOREM DnsJoinedOnce == Spec => []JoinedOnce
<1>1. TypeInv /\ UrlInv /\ [Next]_vars => (TypeInv /\ UrlInv)'
  BY TypeStep, UrlStep
<1> QED
  BY InitTypes, InitHosts, <1>1, PTL DEF Spec, UrlInv

-----------------------------------------------------------------------------
(* The names of waiting hosts *)

\* Where the name of a host can be.
Named(d) ==
  \/ hpc = "name" /\ Host(hurl) = d
  \/ d \in Range(queue_dns) \union dropped
  \/ \E s \in Open : d \in UnderWay(s)
  \/ rpc \in {"answer", "flag"} /\ resp[1] = d

\* clean_fd throws away what was under way on its connection, and only that.
LEMMA CleanNames ==
  ASSUME TypeInv, NEW s \in Sock, CleanFd(s), NEW t \in Open, t # s
  PROVE  t \in Open' /\ UnderWay(t)' = UnderWay(t)
<1>1. sent'[t] = sent[t] /\ ans'[t] = ans[t] /\ net'[t] = net[t] /\ t \in Sock
  BY DEF CleanFd, TypeInv, NetTypes, Open
<1> QED
  BY <1>1 DEF Open, UnderWay

LEMMA SendTail ==
  ASSUME TypeInv, queue_dns # <<>>, queue_dns' = Tail(queue_dns)
  PROVE  Range(queue_dns) \subseteq Range(queue_dns)' \union {Head(queue_dns)}
<1>1. queue_dns \in Seq(Domain)
  BY DEF TypeInv, UrlTypes
<1>2. PICK t : t = Tail(queue_dns)
  OBVIOUS
<1>3. \A j \in DOMAIN queue_dns : queue_dns[j] = Head(queue_dns) \/ \E i \in DOMAIN t : t[i] = queue_dns[j]
  BY <1>1, <1>2, TailPart
<1> QED
  BY <1>2, <1>3 DEF Range

LEMMA SocketNames ==
  ASSUME TypeInv, SockInv, SocketStep \/ Network \/ Start \/ UNCHANGED vars,
         NEW d \in Domain, Named(d)
  PROVE  Named(d)'
<1> USE DEF Named
<1>1. CASE Created \/ EpollWait \/ EpollTimeout \/ EventsDone \/ NextSlot \/ SendDone \/ CreateFails
             \/ Start \/ UNCHANGED vars
  <2>1. UNCHANGED <<hpc, hurl, queue_dns, dropped, sent, ans, net, resp>>
        /\ (rpc \in {"answer", "flag"} => rpc' = rpc)
    BY <1>1 DEF Created, EpollWait, EpollTimeout, EventsDone, NextSlot, SendDone, CreateFails, Start,
                vars, hvars, cvars, svars
  <2> QED
    BY <2>1 DEF UnderWay, Open
<1>8. CASE ConnStuck
  <2>1. UNCHANGED <<hpc, hurl, queue_dns, dropped, sent, ans, net, rpc, resp>>
    BY <1>8 DEF ConnStuck, cvars, svars
  <2> QED
    BY <2>1 DEF UnderWay, Open
<1>2. ASSUME NEW s \in Sock, CreateSock(s) \/ EvConnected(s) \/ EvAgain(s) \/ Connected(s) \/ NetFails(s)
      PROVE  Named(d)'
  <2>1. UNCHANGED <<hpc, hurl, queue_dns, dropped, sent, ans, resp>> /\ (rpc' = rpc \/ rpc = "event")
    BY <1>2 DEF CreateSock, EvConnected, EvAgain, Connected, NetFails, hvars, cvars
  <2>2. \A t \in Sock : net[t] # "closed" => net'[t] # "closed"
    BY <1>2 DEF CreateSock, EvConnected, EvAgain, Connected, NetFails, TypeInv, NetTypes
  <2> QED
    BY <2>1, <2>2 DEF Open, UnderWay
<1>3. ASSUME NEW s \in Sock, EvError(s) \/ EvClose(s) \/ SendFails(s)
      PROVE  Named(d)'
  <2>1. UNCHANGED <<hpc, hurl, rpc, resp>> /\ CleanFd(s) /\ UnderWay(s) \subseteq dropped' /\ dropped \subseteq dropped'
    BY <1>3 DEF EvError, EvClose, SendFails, hvars
  <2>2. Range(queue_dns) \subseteq Range(queue_dns)' \union dropped'
    <3>1. \/ UNCHANGED queue_dns
          \/ queue_dns # <<>> /\ queue_dns' = Tail(queue_dns) /\ Head(queue_dns) \in dropped'
      BY <1>3 DEF EvError, EvClose, SendFails, Sending, cvars
    <3>2. CASE queue_dns # <<>> /\ queue_dns' = Tail(queue_dns) /\ Head(queue_dns) \in dropped'
      BY <3>2, SendTail
    <3> QED
      BY <3>1, <3>2 DEF Range
  <2> QED
    BY <2>1, <2>2, CleanNames
<1>4. ASSUME NEW s \in Sock, SendName(s)
      PROVE  Named(d)'
  <2>1. UNCHANGED <<hpc, hurl, rpc, resp, dropped, ans, net>> /\ queue_dns # <<>> /\ queue_dns' = Tail(queue_dns)
        /\ sent' = [sent EXCEPT ![s] = @ \union {Head(queue_dns)}]
    BY <1>4 DEF SendName, Sending, hvars
  <2>2. Range(queue_dns) \subseteq Range(queue_dns)' \union {Head(queue_dns)}
    BY <2>1, SendTail
  <2>3. s \in Open
    BY <1>4, Bounds DEF SendName, Sending, SockInv, TableInv
  <2>4. Open' = Open /\ Head(queue_dns) \in UnderWay(s)' /\ \A t \in Open : UnderWay(t) \subseteq UnderWay(t)'
    BY <2>1 DEF Open, UnderWay, TypeInv, NetTypes
  <2> QED
    BY <2>1, <2>2, <2>3, <2>4
<1>5. ASSUME NEW s \in Sock, SendAgain(s)
      PROVE  Named(d)'
  <2>1. UNCHANGED <<hpc, hurl, rpc, resp, sent, ans, net>> /\ queue_dns # <<>> /\ queue_dns' = Tail(queue_dns)
        /\ dropped' = dropped \union {Head(queue_dns)}
    BY <1>5 DEF SendAgain, Sending, hvars, svars
  <2>2. Range(queue_dns) \subseteq Range(queue_dns)' \union {Head(queue_dns)}
    BY <2>1, SendTail
  <2> QED
    BY <2>1, <2>2 DEF Open, UnderWay
<1>6. ASSUME NEW s \in Sock, NEW a \in ans[s], EvAnswer(s, a)
      PROVE  Named(d)'
  <2>1. UNCHANGED <<hpc, hurl, dropped, queue_dns, net, sent>> /\ rpc = "event" /\ rpc' = "answer" /\ resp' = a
        /\ ans' = [ans EXCEPT ![s] = @ \ {a}]
    BY <1>6 DEF EvAnswer, hvars, cvars
  <2>2. \A t \in Sock : \A b \in ans[t] : b \in ans'[t] \/ b = a
    BY <2>1 DEF TypeInv, NetTypes
  <2>3. Open' = Open /\ Open \subseteq Sock /\ \A t \in Open : d \in UnderWay(t) => d \in UnderWay(t)' \/ d = a[1]
    BY <2>1, <2>2 DEF Open, UnderWay
  <2> QED
    BY <2>1, <2>3
<1>7. ASSUME NEW s \in Sock, NEW e \in Domain, NEW kind \in Kind,
             ServerAnswers(s, e, kind) \/ ServerRepeats(s, e, kind)
      PROVE  Named(d)'
  <2>1. UNCHANGED <<hpc, hurl, dropped, queue_dns, net, rpc, resp>>
    BY <1>7 DEF ServerAnswers, ServerRepeats, hvars, cvars
  <2>2. \A t \in Sock : ans[t] \subseteq ans'[t] /\ (d \in sent[t] => d \in sent'[t] \/ <<d, kind>> \in ans'[t])
    BY <1>7 DEF ServerAnswers, ServerRepeats, TypeInv, NetTypes
  <2>3. <<d, kind>>[1] = d
    OBVIOUS
  <2>4. Open' = Open /\ Open \subseteq Sock /\ \A t \in Open : d \in UnderWay(t) => d \in UnderWay(t)'
    BY <2>1, <2>2, <2>3 DEF Open, UnderWay
  <2> QED
    BY <2>1, <2>4
<1> QED
  BY <1>1, <1>2, <1>3, <1>4, <1>5, <1>6, <1>7, <1>8 DEF SocketStep, Network

\* What url_add does with the cache: a host gets its queue, or its queue a url.
LEMMA HttpVal ==
  ASSUME TypeInv, HttpStep
  PROVE  \/ UNCHANGED val
         \/ /\ PutVal /\ hurl \in Url
            /\ \A d \in Domain : d # Host(hurl) => val'[d] = val[d]
            /\ val'[Host(hurl)].down = <<hurl>>
         \/ /\ AppendUrl /\ hurl \in Url
            /\ \A d \in Domain : d # Host(hurl) => val'[d] = val[d]
            /\ val'[Host(hurl)].down = Append(val[Host(hurl)].down, hurl)
            /\ val'[Host(hurl)].known = val[Host(hurl)].known
            /\ val'[Host(hurl)].flags = val[Host(hurl)].flags
<1>1. val \in [Domain -> Cache]
  BY DEF TypeInv, UrlTypes
<1>2. PutVal \/ AppendUrl => hurl \in Url /\ Host(hurl) \in Domain
  BY UrlHost DEF TypeInv, UrlTypes, PutVal, AppendUrl
<1>3. CASE PutVal
  BY <1>1, <1>2, <1>3 DEF PutVal
<1>4. CASE AppendUrl
  <2>1. PICK h \in Domain : h = Host(hurl)
    BY <1>2, <1>4
  <2>2. val[h].down \in Seq(Url)
    BY <1>1 DEF Cache
  <2>9. hurl \in Url
    BY <1>2, <1>4
  <2>3. PICK x \in Seq(Url) : x = Append(val[h].down, hurl)
    BY <2>2, <2>9, AppendProperties
  <2>4. val' = [val EXCEPT ![h].down = x]
    BY <1>4, <2>1, <2>3 DEF AppendUrl
  <2> QED
    BY <1>1, <1>2, <1>4, <2>1, <2>3, <2>4, SetDown
<1> QED
  BY <1>3, <1>4 DEF HttpStep, HttpThread, UrlAdd, PutName, DownDirect, ReadQueue, AppendRaces,
                    TakeBegin, Take, TakeEnd, ConnEnds, cvars

LEMMA WaitStep ==
  TypeInv /\ UrlInv /\ SockInv /\ WaitingHostAsked /\ [Next]_vars => WaitingHostAsked'
<1> SUFFICES ASSUME TypeInv, UrlInv, SockInv, WaitingHostAsked, [Next]_vars,
                    NEW d \in Domain, val'[d].known, val'[d].flags = 0
             PROVE  Named(d)'
  BY DEF WaitingHostAsked, Named
<1>0. val[d].known /\ val[d].flags = 0 => Named(d)
  BY DEF WaitingHostAsked, Named
<1>1. CASE HttpStep
  <2>1. UNCHANGED <<sent, ans, net, dropped, rpc, resp>>
    BY <1>1 DEF HttpStep, HttpThread, UrlAdd, PutVal, PutName, DownDirect, ReadQueue, AppendUrl,
         AppendRaces, TakeBegin, Take, TakeEnd, ConnEnds, svars
  <2>2. \/ val[d].known /\ val[d].flags = 0
        \/ PutVal /\ d = Host(hurl)
    BY <1>1, HttpVal
  <2>3. ASSUME Host(hurl) = d, hpc = "name" PROVE Named(d)'
    <3>1. CASE PutName
      <4>1. queue_dns \in Seq(Domain) /\ queue_dns' = Append(queue_dns, d)
        BY <2>3, <3>1 DEF PutName, TypeInv, UrlTypes
      <4>2. Len(queue_dns) + 1 \in DOMAIN queue_dns' /\ queue_dns'[Len(queue_dns) + 1] = d
        BY <4>1
      <4> QED
        BY <4>2 DEF Named, Range
    <3>2. UNCHANGED <<hpc, hurl>> \/ PutName
      BY <1>1, <2>3 DEF HttpStep, HttpThread, UrlAdd, PutVal, DownDirect, ReadQueue, AppendUrl,
         AppendRaces, TakeBegin, Take, TakeEnd, ConnEnds
    <3> QED
      BY <2>3, <3>1, <3>2 DEF Named
  <2>4. Range(queue_dns) \subseteq Range(queue_dns)'
    <3>1. UNCHANGED queue_dns \/ (PutName /\ hurl \in Url)
      BY <1>1 DEF HttpStep, HttpThread, UrlAdd, PutVal, PutName, DownDirect, ReadQueue, AppendUrl,
         AppendRaces, TakeBegin, Take, TakeEnd, ConnEnds, cvars, TypeInv, UrlTypes
    <3>2. CASE PutName /\ hurl \in Url
      <4>1. queue_dns \in Seq(Domain) /\ queue_dns' = Append(queue_dns, Host(hurl)) /\ Host(hurl) \in Domain
        BY <3>2, UrlHost DEF PutName, TypeInv, UrlTypes
      <4>2. \A i \in DOMAIN queue_dns : i \in DOMAIN queue_dns' /\ queue_dns'[i] = queue_dns[i]
        BY <4>1
      <4> QED
        BY <4>2 DEF Range
    <3> QED
      BY <3>1, <3>2 DEF Range
  <2>5. CASE PutVal /\ d = Host(hurl)
    BY <2>5 DEF PutVal, Named
  <2> QED
    BY <1>0, <2>1, <2>2, <2>3, <2>4, <2>5 DEF Named, Open, UnderWay
<1>2. CASE CacheStep
  <2>1. PICK h \in Domain : h = resp[1] /\ Keeps(h)
    BY <1>2, CacheHosts
  <2>2. UrlInv'
    BY <1>2, CacheHosts
  <2>3. UNCHANGED <<hpc, hurl, queue_dns, sent, ans, net>> /\ dropped \subseteq dropped'
    BY <1>2 DEF CacheStep, Answer, SetFlag, LockDown, Join, FreeQueue, NullQueue, hvars, cvars, svars
  <2>4. val[h].flags \in 0..1
    BY DEF TypeInv, UrlTypes, Cache
  <2>5. CASE d # h
    <3>1. val[d].known /\ val[d].flags = 0
      BY <2>1, <2>5 DEF Keeps
    <3> QED
      BY <1>0, <2>1, <2>3, <2>5, <3>1 DEF Named, Open, UnderWay
  <2>6. CASE d = h
    <3>1. val[h].flags = 0
      BY <2>1, <2>4, <2>6 DEF Keeps
    <3>2. CASE Answer
      BY <2>1, <2>6, <3>1, <3>2 DEF Answer, Named
    <3>3. ~SetFlag
      BY <2>1, <2>2, <2>6 DEF SetFlag, UrlInv, HostInv
    <3>4. ~(LockDown \/ Join \/ FreeQueue \/ NullQueue)
      BY <2>1, <3>1 DEF LockDown, Join, FreeQueue, NullQueue, UrlInv, HostInv
    <3> QED
      BY <1>2, <3>2, <3>3, <3>4 DEF CacheStep
  <2> QED
    BY <2>5, <2>6
<1>3. CASE SocketStep \/ Network \/ Start \/ UNCHANGED vars
  <2>1. val' = val
    BY <1>3, Quiet
  <2> QED
    BY <1>0, <1>3, <2>1, SocketNames
<1>4. CASE JoinRaces
  <2>1. PICK h \in Domain : /\ h = Host(hurl) /\ hpc = "append"
                            /\ \A e \in Domain : e # h => val'[e] = val[e]
                            /\ val'[h].known = val[h].known /\ val'[h].flags = val[h].flags
    BY <1>4, RaceParts
  <2>2. UNCHANGED <<queue_dns, dropped, sent, ans, net, resp>> /\ rpc = "join"
    BY <1>4 DEF JoinRaces, svars
  <2>3. Named(d)
    BY <1>0, <2>1
  <2> QED
    BY <2>1, <2>2, <2>3 DEF Named, Open, UnderWay
<1> QED
  BY <1>1, <1>2, <1>3, <1>4, Steps DEF Rests

\* The name of a host with waiting urls is never mislaid: it waits in queue_dns, is on
\* an open connection or in process_cache_dns, or the resolver itself threw it away.
THEOREM DnsWaitingHostAsked == Spec => []WaitingHostAsked
<1> DEFINE I == TypeInv /\ SockInv /\ UrlInv /\ WaitingHostAsked
<1>1. Init => I
  <2>1. Init => WaitingHostAsked
    BY DEF Init, WaitingHostAsked, NoVal
  <2> QED
    BY <2>1, InitTypes, InitSock, InitHosts
<1>2. I /\ [Next]_vars => I'
  BY TypeStep, SockStep, UrlStep, WaitStep
<1> QED
  BY <1>1, <1>2, PTL DEF Spec

-----------------------------------------------------------------------------
(* Where the urls are *)

At(q, u) == {i \in DOMAIN q : q[i] = u}

LEMMA CountAt ==
  ASSUME NEW S, NEW q \in Seq(S), NEW u
  PROVE  /\ IsFiniteSet(At(q, u)) /\ Count(q, u) = Cardinality(At(q, u)) /\ Count(q, u) \in Nat
         /\ At(q, u) \subseteq 1..Len(q) /\ Len(q) \in Nat
<1>1. DOMAIN q = 1..Len(q) /\ Len(q) \in Nat
  BY LenProperties
<1>2. IsFiniteSet(1..Len(q))
  BY <1>1, FS_Interval
<1>3. At(q, u) \subseteq 1..Len(q)
  BY <1>1 DEF At
<1>4. IsFiniteSet(At(q, u))
  BY <1>2, <1>3, FS_Subset
<1> QED
  BY <1>1, <1>3, <1>4, FS_CardinalityType DEF Count, At

\* An element that a queue does not hold counts for nothing, one that it holds for something.
LEMMA CountNone ==
  ASSUME NEW S, NEW q \in Seq(S), NEW u
  PROVE  Count(q, u) = 0 <=> \A i \in DOMAIN q : q[i] # u
<1>1. Count(q, u) = 0 <=> At(q, u) = {}
  BY CountAt, FS_EmptySet
<1> QED
  BY <1>1 DEF At

LEMMA CountEmpty == ASSUME NEW u PROVE Count(<<>>, u) = 0
<1>1. {i \in DOMAIN <<>> : <<>>[i] = u} = {}
  OBVIOUS
<1> QED
  BY <1>1, FS_EmptySet DEF Count

LEMMA CountAppend ==
  ASSUME NEW S, NEW q \in Seq(S), NEW x \in S, NEW u
  PROVE  Count(Append(q, x), u) = Count(q, u) + (IF x = u THEN 1 ELSE 0)
<1> DEFINE r == Append(q, x)
<1>1. /\ r \in Seq(S) /\ Len(r) = Len(q) + 1 /\ r[Len(q) + 1] = x /\ Len(q) \in Nat
      /\ \A i \in 1..Len(q) : r[i] = q[i]
  BY AppendProperties, LenProperties
<1>2. DOMAIN q = 1..Len(q) /\ DOMAIN r = 1..(Len(q) + 1)
  BY <1>1, LenProperties
<1> HIDE DEF r
<1>3. At(r, u) = IF x = u THEN At(q, u) \union {Len(q) + 1} ELSE At(q, u)
  BY <1>1, <1>2 DEF At
<1>4. Len(q) + 1 \notin At(q, u)
  BY <1>1, <1>2 DEF At
<1>5. IsFiniteSet(At(q, u)) /\ Count(q, u) = Cardinality(At(q, u)) /\ Count(r, u) = Cardinality(At(r, u))
      /\ Count(q, u) \in Nat
  BY <1>1, CountAt
<1>6. Cardinality(At(q, u) \union {Len(q) + 1}) = Cardinality(At(q, u)) + 1
  BY <1>4, <1>5, FS_AddElement
<1> QED
  BY <1>3, <1>5, <1>6 DEF r

LEMMA CountConcat ==
  ASSUME NEW S, NEW q \in Seq(S), NEW r \in Seq(S), NEW u
  PROVE  Count(q \o r, u) = Count(q, u) + Count(r, u)
<1> DEFINE c == q \o r
<1> DEFINE up == {i \in At(c, u) : i > Len(q)}
<1>1. /\ c \in Seq(S) /\ Len(c) = Len(q) + Len(r) /\ Len(q) \in Nat /\ Len(r) \in Nat
      /\ \A i \in 1..(Len(q) + Len(r)) : c[i] = IF i <= Len(q) THEN q[i] ELSE r[i - Len(q)]
  BY ConcatProperties, LenProperties
<1>2. DOMAIN q = 1..Len(q) /\ DOMAIN r = 1..Len(r) /\ DOMAIN c = 1..(Len(q) + Len(r))
  BY <1>1, LenProperties
<1> HIDE DEF c
<1>3. At(c, u) = At(q, u) \union up /\ At(q, u) \intersect up = {}
  BY <1>1, <1>2 DEF At
<1>4. IsFiniteSet(At(q, u)) /\ IsFiniteSet(At(r, u)) /\ IsFiniteSet(At(c, u))
      /\ Count(q, u) = Cardinality(At(q, u)) /\ Count(r, u) = Cardinality(At(r, u))
      /\ Count(c, u) = Cardinality(At(c, u)) /\ Count(q, u) \in Nat /\ Count(r, u) \in Nat
  BY <1>1, CountAt
<1>5. Cardinality(up) = Cardinality(At(r, u))
  <2> DEFINE f == [i \in At(r, u) |-> i + Len(q)]
  <2>1. \A i \in At(r, u) : i \in Nat /\ i + Len(q) \in up
    BY <1>1, <1>2 DEF At
  <2>2. \A j \in up : j - Len(q) \in At(r, u) /\ f[j - Len(q)] = j
    BY <1>1, <1>2 DEF At
  <2>4. up \subseteq Nat /\ \A i \in At(r, u) : f[i] = i + Len(q)
    BY <1>1, <1>2 DEF At
  <2>5. f \in [At(r, u) -> up]
    BY <2>1
  <2> HIDE DEF f, up
  <2>6. \A i, j \in At(r, u) : f[i] = f[j] => i = j
    BY <1>1, <2>1, <2>4
  <2>7. \A j \in up : \E i \in At(r, u) : f[i] = j
    BY <2>2
  <2>3. f \in Bijection(At(r, u), up)
    BY <2>5, <2>6, <2>7 DEF Bijection, Injection, Surjection, IsInjective
  <2> QED
    BY <1>4, <2>3, FS_Bijection DEF ExistsBijection
<1>6. IsFiniteSet(up)
  BY <1>4, FS_Subset
<1>7. Cardinality(At(c, u)) = Cardinality(At(q, u)) + Cardinality(up)
  <2>1. Cardinality({}) = 0
    BY FS_EmptySet
  <2>2. Cardinality(up) \in Nat /\ Cardinality(At(q, u)) \in Nat
    BY <1>4, <1>6, FS_CardinalityType
  <2> HIDE DEF up
  <2>3. Cardinality(At(q, u) \union up) = Cardinality(At(q, u)) + Cardinality(up) - Cardinality(At(q, u) \intersect up)
    BY <1>4, <1>6, FS_Union
  <2>4. Cardinality(At(q, u) \intersect up) = 0
    BY <1>3, <2>1, Zenon
  <2>5. Cardinality(At(c, u)) = Cardinality(At(q, u) \union up)
    BY <1>3, Zenon
  <2> QED
    BY <2>2, <2>3, <2>4, <2>5
<1> QED
  BY <1>4, <1>5, <1>7 DEF c

LEMMA CountTail ==
  ASSUME NEW S, NEW q \in Seq(S), q # <<>>, NEW u
  PROVE  Count(q, u) = Count(Tail(q), u) + (IF Head(q) = u THEN 1 ELSE 0)
<1>1. q = <<Head(q)>> \o Tail(q) /\ Tail(q) \in Seq(S) /\ Head(q) \in S
  BY HeadTailProperties
<1>2. <<Head(q)>> \in Seq(S) /\ <<>> \in Seq(S) /\ <<Head(q)>> = Append(<<>>, Head(q))
  BY <1>1
<1>3. Count(<<Head(q)>>, u) = IF Head(q) = u THEN 1 ELSE 0
  <2>1. Count(Append(<<>>, Head(q)), u) = Count(<<>>, u) + (IF Head(q) = u THEN 1 ELSE 0)
    <3>1. PICK e \in Seq(S) : e = <<>>
      BY <1>2
    <3>2. Count(Append(e, Head(q)), u) = Count(e, u) + (IF Head(q) = u THEN 1 ELSE 0)
      BY <1>1, CountAppend
    <3> QED
      BY <3>1, <3>2
  <2>2. Count(<<>>, u) = 0
    BY CountEmpty
  <2> QED
    BY <1>2, <2>1, <2>2
<1> DEFINE o == <<Head(q)>>
<1>6. o \in Seq(S)
  BY <1>2
<1> HIDE DEF o
<1>7. Count(o \o Tail(q), u) = Count(o, u) + Count(Tail(q), u)
  BY <1>1, <1>6, CountConcat
<1>4. Count(q, u) = Count(<<Head(q)>>, u) + Count(Tail(q), u)
  BY <1>1, <1>7 DEF o
<1>5. Count(Tail(q), u) \in Nat
  BY <1>1, CountAt
<1> QED
  BY <1>3, <1>4, <1>5

Hand(u) == IF hurl = u /\ hpc # "name" THEN 1 ELSE 0
Waits(u) == Count(val[Host(u)].down, u)
Downs(u) == Count(down, u)
Behinds(u) == Count(behind, u)
Taken(u) == IF u \in taken THEN 1 ELSE 0
Lost(u) == IF u \in lost THEN 1 ELSE 0
Places(u) == Hand(u) + Waits(u) + Downs(u) + Behinds(u) + Taken(u) + Lost(u)

\* A url that reached total->down is in the list, behind its tail or lost.
Chain(u) == Downs(u) + Behinds(u) + Lost(u)

LEMMA PlaceNats ==
  ASSUME TypeInv, NEW u \in Url
  PROVE  /\ Hand(u) \in 0..1 /\ Waits(u) \in Nat /\ Downs(u) \in Nat /\ Behinds(u) \in Nat
         /\ Taken(u) \in 0..1 /\ Lost(u) \in 0..1
<1>1. val[Host(u)].down \in Seq(Url) /\ down \in Seq(Url) /\ behind \in Seq(Url)
  BY UrlHost DEF TypeInv, UrlTypes, Cache
<1> QED
  BY <1>1, CountAt DEF Hand, Waits, Downs, Behinds, Taken, Lost

LEMMA NewNats ==
  ASSUME TypeInv', NEW u \in Url
  PROVE  Downs(u)' \in Nat /\ Behinds(u)' \in Nat /\ Taken(u)' \in 0..1 /\ Lost(u)' \in 0..1
<1>1. down' \in Seq(Url) /\ behind' \in Seq(Url)
  BY DEF TypeInv, UrlTypes
<1> QED
  BY <1>1, CountAt DEF Downs, Behinds, Taken, Lost

\* Places as the sum of what the proofs move a url between.
LEMMA PlaceSum ==
  ASSUME TypeInv, NEW u \in Url
  PROVE  /\ Places(u) = Hand(u) + Waits(u) + Chain(u) + Taken(u)
         /\ Hand(u) \in 0..1 /\ Waits(u) \in Nat /\ Chain(u) \in Nat /\ Taken(u) \in 0..1
         /\ Lost(u) \in 0..1 /\ Lost(u) <= Chain(u)
  BY PlaceNats DEF Places, Chain

LEMMA PlaceSumNext ==
  ASSUME TypeInv', NEW u \in Url, NEW n \in Nat, Hand(u)' + Waits(u)' = n
  PROVE  Places(u)' = n + Chain(u)' + Taken(u)' /\ Chain(u)' \in Nat /\ Taken(u)' \in 0..1
<1>1. val'[Host(u)].down \in Seq(Url)
  BY UrlHost DEF TypeInv, UrlTypes, Cache
<1>2. Hand(u)' \in 0..1 /\ Waits(u)' \in Nat
  BY <1>1, CountAt DEF Hand, Waits
<1> QED
  BY <1>2, NewNats DEF Places, Chain

\* A url that url_add has not been given is nowhere.
LEMMA NewNowhere ==
  ASSUME TypeInv, UrlInv, NEW u \in Url, u \notin added
  PROVE  Waits(u) = 0 /\ Chain(u) = 0 /\ Taken(u) = 0
<1>1. val[Host(u)].down \in Seq(Url) /\ down \in Seq(Url) /\ behind \in Seq(Url) /\ Host(u) \in Domain
  BY UrlHost DEF TypeInv, UrlTypes, Cache
<1>2. Waits(u) = 0
  <2>1. \A i \in DOMAIN val[Host(u)].down : val[Host(u)].down[i] # u
    BY <1>1 DEF UrlInv, GivenInv
  <2> QED
    BY <1>1, <2>1, CountNone DEF Waits
<1>3. Downs(u) = 0 /\ Behinds(u) = 0
  <2>1. (\A i \in DOMAIN down : down[i] # u) /\ (\A i \in DOMAIN behind : behind[i] # u)
    BY DEF UrlInv, GivenInv, Range
  <2> QED
    BY <1>1, <2>1, CountNone DEF Downs, Behinds
<1> QED
  BY <1>2, <1>3 DEF UrlInv, GivenInv, Taken, Lost, Chain

\* The urls of a queue get lost.
LEMMA LostRange ==
  ASSUME NEW q \in Seq(Url), NEW u, Count(q, u) + Lost(u) <= 1, lost' = lost \union Range(q)
  PROVE  Lost(u)' = Lost(u) + Count(q, u)
<1>1. Count(q, u) \in Nat /\ (Count(q, u) = 0 <=> u \notin Range(q)) /\ Lost(u) \in 0..1
  BY CountAt, CountNone DEF Range, Lost
<1>2. CASE Count(q, u) = 0
  BY <1>1, <1>2 DEF Lost
<1>3. CASE Count(q, u) # 0
  <2>1. Lost(u) = 0 /\ Count(q, u) = 1
    BY <1>1, <1>3
  <2> QED
    BY <1>1, <2>1 DEF Lost
<1> QED
  BY <1>2, <1>3

\* queue_put on total->down moves the url there.
LEMMA PutPlaces ==
  ASSUME TypeInv, NEW x \in Url, Put(x), NEW u \in Url, x = u => Lost(u) = 0
  PROVE  Chain(u)' = Chain(u) + (IF x = u THEN 1 ELSE 0)
<1>1. down \in Seq(Url) /\ Downs(u) \in Nat /\ Behinds(u) \in Nat /\ Lost(u) \in 0..1
  BY PlaceNats DEF TypeInv, UrlTypes
<1>2. CASE down' = Append(down, x) /\ UNCHANGED <<behind, lost>>
  <2>1. Count(Append(down, x), u) = Count(down, u) + (IF x = u THEN 1 ELSE 0)
    BY <1>1, CountAppend
  <2>2. Downs(u)' = Downs(u) + (IF x = u THEN 1 ELSE 0) /\ Behinds(u)' = Behinds(u) /\ Lost(u)' = Lost(u)
    BY <1>2, <2>1 DEF Downs, Behinds, Lost
  <2> QED
    BY <1>1, <2>2 DEF Chain
<1>3. CASE lost' = lost \union {x} /\ UNCHANGED <<down, behind>>
  <2>1. Downs(u)' = Downs(u) /\ Behinds(u)' = Behinds(u)
    BY <1>3 DEF Downs, Behinds
  <2>2. Lost(u)' = Lost(u) + (IF x = u THEN 1 ELSE 0)
    BY <1>3 DEF Lost
  <2> QED
    BY <1>1, <2>1, <2>2 DEF Chain
<1> QED
  BY <1>2, <1>3 DEF Put

\* queue_join_init moves the urls of the queue there, and those behind the tail are lost.
LEMMA JoinPlaces ==
  ASSUME TypeInv, NEW q \in Seq(Url), JoinQueue(q), NEW u \in Url, Count(q, u) + Chain(u) <= 1
  PROVE  Chain(u)' = Chain(u) + Count(q, u)
<1>1. down \in Seq(Url) /\ behind \in Seq(Url) /\ Downs(u) \in Nat /\ Behinds(u) \in Nat
      /\ Lost(u) \in 0..1 /\ Count(q, u) \in Nat
  BY PlaceNats, CountAt DEF TypeInv, UrlTypes
<1>2. CASE down = <<>> /\ down' = q /\ UNCHANGED <<behind, lost>>
  <2>1. Downs(u) = 0 /\ Downs(u)' = Count(q, u) /\ Behinds(u)' = Behinds(u) /\ Lost(u)' = Lost(u)
    BY <1>2, CountEmpty DEF Downs, Behinds, Lost
  <2> QED
    BY <1>1, <2>1 DEF Chain
<1>3. CASE down' = down \o q /\ lost' = lost \union Range(behind) /\ behind' = <<>>
  <2>1. Downs(u)' = Downs(u) + Count(q, u) /\ Behinds(u)' = 0
    <3>1. Count(down \o q, u) = Count(down, u) + Count(q, u)
      BY <1>1, CountConcat
    <3> QED
      BY <1>3, <3>1, CountEmpty DEF Downs, Behinds
  <2>2. Count(behind, u) + Lost(u) <= 1
    BY <1>1 DEF Chain, Behinds
  <2>3. Lost(u)' = Lost(u) + Behinds(u)
    BY <1>1, <1>3, <2>2, LostRange DEF Behinds
  <2> QED
    BY <1>1, <2>1, <2>3 DEF Chain
<1>4. CASE lost' = lost \union Range(q) /\ UNCHANGED <<down, behind>>
  <2>1. Downs(u)' = Downs(u) /\ Behinds(u)' = Behinds(u)
    BY <1>4 DEF Downs, Behinds
  <2>2. Count(q, u) + Lost(u) <= 1
    BY <1>1 DEF Chain
  <2>3. Lost(u)' = Lost(u) + Count(q, u)
    BY <1>4, <2>2, LostRange
  <2> QED
    BY <1>1, <2>1, <2>3 DEF Chain
<1> QED
  BY <1>2, <1>3, <1>4 DEF JoinQueue

\* queue_get moves it to the http loop.
LEMMA TakePlaces ==
  ASSUME TypeInv, TypeInv', Take, NEW u \in Url, Chain(u) + Taken(u) <= 1
  PROVE  Chain(u)' + Taken(u)' = Chain(u) + Taken(u)
<1>1. down \in Seq(Url) /\ behind \in Seq(Url) /\ Downs(u) \in Nat /\ Behinds(u) \in Nat
      /\ Lost(u) \in 0..1 /\ Taken(u) \in 0..1
  BY PlaceNats DEF TypeInv, UrlTypes
<1>2. Downs(u)' \in Nat /\ Behinds(u)' \in Nat /\ Lost(u)' = Lost(u)
  BY NewNats DEF Lost, Take
<1>3. CASE UNCHANGED <<taken, list>>
  BY <1>2, <1>3 DEF list, Downs, Behinds, Taken, Chain
<1>4. CASE down # <<>> /\ taken' = taken \union {Head(down)} /\ down' = Tail(down) /\ behind' = behind
  <2>1. Count(down, u) = Count(Tail(down), u) + (IF Head(down) = u THEN 1 ELSE 0)
    BY <1>1, <1>4, CountTail
  <2>2. Downs(u) = Downs(u)' + (IF Head(down) = u THEN 1 ELSE 0) /\ Behinds(u)' = Behinds(u)
    BY <1>4, <2>1 DEF Downs, Behinds
  <2>3. Taken(u)' = Taken(u) + (IF Head(down) = u THEN 1 ELSE 0)
    <3>1. Head(down) = u => Taken(u) = 0
      BY <1>1, <1>2, <2>2 DEF Chain
    <3> QED
      BY <1>4, <3>1 DEF Taken
  <2> QED
    BY <1>1, <1>2, <2>2, <2>3 DEF Chain
<1>5. CASE behind # <<>> /\ taken' = taken \union {Head(behind)} /\ behind' = Tail(behind) /\ down' = down
  <2>1. Count(behind, u) = Count(Tail(behind), u) + (IF Head(behind) = u THEN 1 ELSE 0)
    BY <1>1, <1>5, CountTail
  <2>2. Behinds(u) = Behinds(u)' + (IF Head(behind) = u THEN 1 ELSE 0) /\ Downs(u)' = Downs(u)
    BY <1>5, <2>1 DEF Downs, Behinds
  <2>3. Taken(u)' = Taken(u) + (IF Head(behind) = u THEN 1 ELSE 0)
    <3>1. Head(behind) = u => Taken(u) = 0
      BY <1>1, <1>2, <2>2 DEF Chain
    <3> QED
      BY <1>5, <3>1 DEF Taken
  <2> QED
    BY <1>1, <1>2, <2>2, <2>3 DEF Chain
<1> QED
  BY <1>3, <1>4, <1>5 DEF Take

LEMMA HttpPlaces ==
  ASSUME TypeInv, TypeInv', UrlInv, HttpStep, NEW u \in added', u \in added => Places(u) = 1
  PROVE  Places(u)' = 1
<1>0. u \in Url /\ Host(u) \in Domain /\ u # NoUrl /\ hurl \in Url \union {NoUrl}
      /\ val[Host(u)].down \in Seq(Url)
  BY UrlHost DEF TypeInv, UrlTypes, Cache
<1>n. /\ Places(u) = Hand(u) + Waits(u) + Chain(u) + Taken(u)
      /\ Hand(u) \in 0..1 /\ Waits(u) \in Nat /\ Chain(u) \in Nat /\ Taken(u) \in 0..1
      /\ Lost(u) \in 0..1 /\ Lost(u) <= Chain(u)
  BY <1>0, PlaceSum
<1>q. ASSUME UNCHANGED <<down, behind, lost>> PROVE Chain(u)' = Chain(u)
  BY <1>q DEF Chain, Downs, Behinds, Lost
<1>m. ASSUME NEW n \in Nat, Hand(u)' + Waits(u)' = n, n + Chain(u)' + Taken(u)' = 1 PROVE Places(u)' = 1
  BY <1>0, <1>m, PlaceSumNext
<1>1. ASSUME NEW v \in Url, UrlAdd(v) PROVE Places(u)' = 1
  <2>1. UNCHANGED <<val, down, behind, lost, taken>>
    BY <1>1 DEF UrlAdd, cvars, list, loop
  <2>2. hpc = "idle" /\ hpc' # "name" /\ hurl' = v /\ v \notin added /\ added' = added \union {v}
    BY <1>1 DEF UrlAdd
  <2>3. Waits(u)' = Waits(u) /\ Chain(u)' = Chain(u) /\ Taken(u)' = Taken(u)
    BY <1>q, <2>1 DEF Waits, Taken
  <2>4. hurl = NoUrl
    BY <2>2 DEF TypeInv, UrlTypes
  <2>5. CASE u = v
    <3>1. Hand(u)' = 1
      BY <2>2, <2>5 DEF Hand
    <3>2. Waits(u) = 0 /\ Chain(u) = 0 /\ Taken(u) = 0
      BY <1>0, <2>2, <2>5, NewNowhere
    <3> QED
      BY <1>m, <2>3, <3>1, <3>2
  <2>6. CASE u # v
    <3>1. Hand(u)' = 0 /\ Hand(u) = 0 /\ Places(u) = 1
      BY <1>0, <2>2, <2>4, <2>6 DEF Hand
    <3> QED
      BY <1>m, <1>n, <2>3, <3>1
  <2> QED
    BY <2>5, <2>6
<1>a. CASE added' = added
  <2>0. Places(u) = 1
    BY <1>a
  <2>1. CASE PutVal
    <3>1. /\ hpc = "put" /\ hpc' = "name" /\ hurl' = hurl /\ UNCHANGED <<down, behind, taken, lost>>
      BY <2>1 DEF PutVal, list, loop
    <3>2. /\ \A d \in Domain : d # Host(hurl) => val'[d] = val[d]
          /\ val'[Host(hurl)].down = <<hurl>> /\ hurl \in Url
      <4>1. hurl \in Url /\ Host(hurl) \in Domain
        BY <3>1, UrlHost DEF TypeInv, UrlTypes
      <4> QED
        BY <2>1, <4>1 DEF PutVal, TypeInv, UrlTypes
    <3>3. val[Host(hurl)].down = <<>>
      BY <3>1, <3>2, UrlHost DEF UrlInv, HostInv, NoVal
    <3>4. Waits(u)' = Waits(u) + Hand(u)
      <4>1. CASE Host(u) # Host(hurl)
        BY <1>0, <1>n, <3>2, <4>1 DEF Waits, Hand
      <4>2. CASE Host(u) = Host(hurl)
        <5>1. PICK e \in Seq(Url) : e = <<>>
          BY EmptyDown
        <5>2. Append(e, hurl) = <<hurl>>
          BY <5>1, <3>2
        <5>3. Count(Append(e, hurl), u) = Count(e, u) + (IF hurl = u THEN 1 ELSE 0)
          BY <3>2, CountAppend
        <5>4. Waits(u) = Count(e, u) /\ Waits(u)' = Count(<<hurl>>, u)
          BY <3>2, <3>3, <4>2, <5>1 DEF Waits
        <5> QED
          BY <3>1, <5>2, <5>3, <5>4 DEF Hand
      <4> QED
        BY <4>1, <4>2
    <3>5. Hand(u)' = 0 /\ Chain(u)' = Chain(u) /\ Taken(u)' = Taken(u)
      BY <1>q, <3>1 DEF Hand, Taken
    <3> QED
      BY <1>m, <1>n, <2>0, <3>4, <3>5
  <2>2. CASE PutName
    <3>1. hpc = "name" /\ hurl' = NoUrl /\ UNCHANGED <<val, down, behind, taken, lost>>
      BY <2>2 DEF PutName, list, loop
    <3>2. Hand(u)' = Hand(u) /\ Waits(u)' = Waits(u) /\ Chain(u)' = Chain(u) /\ Taken(u)' = Taken(u)
      BY <1>0, <1>q, <3>1 DEF Hand, Waits, Taken
    <3> QED
      BY <1>m, <1>n, <2>0, <3>2
  <2>3. CASE DownDirect
    <3>1. hpc = "direct" /\ hurl' = NoUrl /\ UNCHANGED <<val, taken>> /\ Put(hurl)
      BY <2>3 DEF DownDirect, loop
    <3>2. hurl \in Url /\ (hurl = u => Hand(u) = 1)
      BY <3>1 DEF TypeInv, UrlTypes, Hand
    <3>3. Chain(u)' = Chain(u) + Hand(u)
      <4>1. hurl = u => Lost(u) = 0
        BY <1>n, <2>0, <3>2
      <4>2. Chain(u)' = Chain(u) + (IF hurl = u THEN 1 ELSE 0)
        BY <1>0, <3>1, <3>2, <4>1, PutPlaces
      <4> QED
        BY <3>1, <4>2 DEF Hand
    <3>4. Hand(u)' = 0 /\ Waits(u)' = Waits(u) /\ Taken(u)' = Taken(u)
      BY <1>0, <3>1 DEF Hand, Waits, Taken
    <3> QED
      BY <1>m, <1>n, <2>0, <3>3, <3>4
  <2>4. CASE ReadQueue
    <3>1. hpc = "item" /\ hpc' \in {"item", "append"} /\ UNCHANGED <<hurl, val, down, behind, taken, lost>>
      BY <2>4 DEF ReadQueue, cvars, list, loop
    <3>2. Hand(u)' = Hand(u) /\ Waits(u)' = Waits(u) /\ Chain(u)' = Chain(u) /\ Taken(u)' = Taken(u)
      BY <1>q, <3>1 DEF Hand, Waits, Taken
    <3> QED
      BY <1>m, <1>n, <2>0, <3>2
  <2>5. CASE AppendUrl
    <3>1. /\ hpc = "append" /\ hurl' = NoUrl /\ UNCHANGED <<down, behind, taken, lost>>
      BY <2>5 DEF AppendUrl, list, loop
    <3>2. /\ \A d \in Domain : d # Host(hurl) => val'[d] = val[d]
          /\ val'[Host(hurl)].down = Append(val[Host(hurl)].down, hurl) /\ hurl \in Url
      <4>2. PICK h \in Domain : h = Host(hurl) /\ hurl \in Url
        BY <3>1, UrlHost DEF TypeInv, UrlTypes
      <4>3. val[h].down \in Seq(Url)
        BY DEF TypeInv, UrlTypes, Cache
      <4>4. val' = [val EXCEPT ![h].down = Append(val[h].down, hurl)]
        BY <2>5, <4>2 DEF AppendUrl
      <4>5. PICK x \in Seq(Url) : x = Append(val[h].down, hurl)
        BY <4>2, <4>3, AppendProperties
      <4>6. val \in [Domain -> Cache]
        BY DEF TypeInv, UrlTypes
      <4>7. \A d \in Domain : (d # h => val'[d] = val[d]) /\ val'[h].down = x
        BY <4>6, <4>4, <4>5, SetDown
      <4> QED
        BY <4>2, <4>5, <4>7
    <3>3. Waits(u)' = Waits(u) + Hand(u)
      <4>1. CASE Host(u) # Host(hurl)
        BY <1>0, <1>n, <3>2, <4>1 DEF Waits, Hand
      <4>2. CASE Host(u) = Host(hurl)
        <5>1. Count(Append(val[Host(u)].down, hurl), u) = Count(val[Host(u)].down, u) + (IF hurl = u THEN 1 ELSE 0)
          BY <1>0, <3>2, CountAppend
        <5> QED
          BY <3>1, <3>2, <4>2, <5>1 DEF Hand, Waits
      <4> QED
        BY <4>1, <4>2
    <3>4. Hand(u)' = 0 /\ Chain(u)' = Chain(u) /\ Taken(u)' = Taken(u)
      BY <1>0, <1>q, <3>1 DEF Hand, Taken
    <3> QED
      BY <1>m, <1>n, <2>0, <3>3, <3>4
  <2>6. CASE AppendRaces
    <3>1. /\ hpc = "append" /\ UNCHANGED <<val, down, behind, taken>>
          /\ (UNCHANGED <<hpc, hurl, lost>> \/ (hurl' = NoUrl /\ lost' = lost \union {hurl}))
      BY <2>6 DEF AppendRaces, cvars, list, loop
    <3>2. Waits(u)' = Waits(u) /\ Downs(u)' = Downs(u) /\ Behinds(u)' = Behinds(u) /\ Taken(u)' = Taken(u)
      BY <3>1 DEF Waits, Downs, Behinds, Taken
    <3>3. Hand(u)' + Lost(u)' = Hand(u) + Lost(u)
      <4>1. CASE hurl = u
        <5>1. Lost(u) = 0
          BY <1>n, <2>0, <3>1, <4>1 DEF Hand
        <5> QED
          BY <1>0, <3>1, <4>1, <5>1 DEF Hand, Lost
      <4> QED
        BY <1>0, <3>1, <4>1 DEF Hand, Lost
    <3>4. Hand(u)' \in 0..1 /\ Lost(u)' \in 0..1
      BY DEF Hand, Lost
    <3>5. Downs(u) \in Nat /\ Behinds(u) \in Nat
      BY <1>0, PlaceNats
    <3> QED
      BY <1>n, <2>0, <3>2, <3>3, <3>4, <3>5 DEF Places
  <2>7. CASE Take
    <3>1. UNCHANGED <<hpc, hurl, val>>
      BY <2>7 DEF Take
    <3>2. Hand(u)' = Hand(u) /\ Waits(u)' = Waits(u)
      BY <3>1 DEF Hand, Waits
    <3>3. Chain(u)' + Taken(u)' = Chain(u) + Taken(u)
      <4>1. Chain(u) + Taken(u) <= 1
        BY <1>n, <2>0
      <4> QED
        BY <1>0, <2>7, <4>1, TakePlaces
    <3>4. PICK n \in Nat : n = Hand(u) + Waits(u)
      BY <1>n
    <3>5. Chain(u)' \in Nat /\ Taken(u)' \in 0..1
      BY <1>0, <3>2, <3>4, PlaceSumNext
    <3>6. n + Chain(u)' + Taken(u)' = 1
      BY <1>n, <2>0, <3>3, <3>4, <3>5
    <3> QED
      BY <1>m, <3>2, <3>4, <3>6
  <2>8. CASE TakeBegin \/ TakeEnd \/ ConnEnds
    <3>1. UNCHANGED <<hpc, hurl, val, down, behind, taken, lost>>
      BY <2>8 DEF TakeBegin, TakeEnd, ConnEnds, cvars, list
    <3>2. Hand(u)' = Hand(u) /\ Waits(u)' = Waits(u) /\ Chain(u)' = Chain(u) /\ Taken(u)' = Taken(u)
      BY <1>q, <3>1 DEF Hand, Waits, Taken
    <3> QED
      BY <1>m, <1>n, <2>0, <3>2
  <2> QED
    BY <1>1, <2>1, <2>2, <2>3, <2>4, <2>5, <2>6, <2>7, <2>8 DEF HttpStep, HttpThread
<1> QED
  BY <1>1, <1>a DEF HttpStep, HttpThread, PutVal, PutName, DownDirect, ReadQueue, AppendUrl, AppendRaces,
                    TakeBegin, Take, TakeEnd, ConnEnds

LEMMA CachePlaces ==
  ASSUME TypeInv, TypeInv', UrlInv, CacheStep, NEW u \in added', Places(u) = 1
  PROVE  Places(u)' = 1
<1>0. u \in Url /\ Host(u) \in Domain /\ val[Host(u)].down \in Seq(Url)
  BY UrlHost DEF TypeInv, UrlTypes, Cache
<1>n. /\ Places(u) = Hand(u) + Waits(u) + Chain(u) + Taken(u)
      /\ Hand(u) \in 0..1 /\ Waits(u) \in Nat /\ Chain(u) \in Nat /\ Taken(u) \in 0..1
      /\ Lost(u) \in 0..1 /\ Lost(u) <= Chain(u)
  BY <1>0, PlaceSum
<1>m. ASSUME NEW n \in Nat, Hand(u)' + Waits(u)' = n, n + Chain(u)' + Taken(u)' = 1 PROVE Places(u)' = 1
  BY <1>0, <1>m, PlaceSumNext
<1>1. PICK h \in Domain : h = resp[1] /\ Keeps(h)
  BY CacheHosts
<1>2. Hand(u)' = Hand(u) /\ Taken(u)' = Taken(u)
  BY <1>1 DEF Keeps, Hand, Taken
<1>3. PICK q \in Seq(Url) : q = val[h].down
  BY DEF TypeInv, UrlTypes, Cache
<1>4. Count(q, u) \in Nat /\ (Host(u) # h => Count(q, u) = 0)
  <2>1. Host(u) # h => \A i \in DOMAIN q : q[i] # u
    BY <1>3 DEF UrlInv, HostInv
  <2> QED
    BY <2>1, CountAt, CountNone
<1>5. (Host(u) = h => Waits(u) = Count(q, u)) /\ Count(q, u) <= Waits(u)
  BY <1>3, <1>4, <1>n DEF Waits
<1>6. CASE val'[h].down = val[h].down /\ UNCHANGED <<down, behind, lost>>
  <2>1. Waits(u)' = Waits(u) /\ Chain(u)' = Chain(u)
    BY <1>0, <1>1, <1>6 DEF Keeps, Waits, Downs, Behinds, Lost, Chain
  <2> QED
    BY <1>m, <1>n, <1>2, <2>1
<1>w. ASSUME val'[h].down = <<>>, Chain(u)' = Chain(u) + Count(q, u) PROVE Places(u)' = 1
  <2>1. Waits(u)' = IF Host(u) = h THEN 0 ELSE Waits(u)
    BY <1>0, <1>1, <1>w, CountEmpty DEF Keeps, Waits
  <2> QED
    BY <1>m, <1>n, <1>w, <1>2, <1>4, <1>5, <2>1
<1>7. CASE val'[h].down = <<>> /\ JoinQueue(q)
  <2>1. Count(q, u) + Chain(u) <= 1
    BY <1>n, <1>4, <1>5
  <2> QED
    BY <1>0, <1>7, <1>w, <2>1, JoinPlaces
<1>8. CASE val'[h].down = <<>> /\ UNCHANGED <<down, behind>> /\ lost' = lost \union Range(q)
  <2>1. Downs(u)' = Downs(u) /\ Behinds(u)' = Behinds(u) /\ Downs(u) \in Nat /\ Behinds(u) \in Nat
    BY <1>0, <1>8, PlaceNats DEF Downs, Behinds
  <2>2. Count(q, u) + Lost(u) <= 1
    BY <1>n, <1>4, <1>5
  <2>3. Lost(u)' = Lost(u) + Count(q, u)
    BY <1>8, <2>2, LostRange
  <2>4. Chain(u)' = Chain(u) + Count(q, u)
    BY <1>n, <1>4, <2>1, <2>3 DEF Chain
  <2> QED
    BY <1>8, <1>w, <2>4
<1> QED
  BY <1>1, <1>3, <1>6, <1>7, <1>8 DEF Keeps

\* What a race of url_add with queue_join_init does to total->down.
RaceList(q) ==
  \/ lost' = lost \union Range(Append(q, hurl)) /\ UNCHANGED <<down, behind>>
  \/ down' = down \o q /\ behind' = <<hurl>> /\ lost' = lost \union Range(behind)
  \/ down' = down \o Append(q, hurl) /\ behind' = <<>> /\ lost' = lost \union Range(behind)

LEMMA RacePlaces ==
  ASSUME TypeInv, TypeInv', UrlInv, JoinRaces, NEW u \in added', Places(u) = 1
  PROVE  Places(u)' = 1
<1>0. u \in Url /\ Host(u) \in Domain /\ u # NoUrl
  BY UrlHost DEF TypeInv, UrlTypes
<1>n. /\ Places(u) = Hand(u) + Waits(u) + Chain(u) + Taken(u)
      /\ Hand(u) \in 0..1 /\ Waits(u) \in Nat /\ Chain(u) \in Nat /\ Taken(u) \in 0..1
      /\ Lost(u) \in 0..1 /\ Lost(u) <= Chain(u)
  BY <1>0, PlaceSum
<1>m. ASSUME NEW n \in Nat, Hand(u)' + Waits(u)' = n, n + Chain(u)' + Taken(u)' = 1 PROVE Places(u)' = 1
  BY <1>0, <1>m, PlaceSumNext
<1>1. PICK h \in Domain, q \in Seq(Url) :
        /\ h = resp[1] /\ h = Host(hurl) /\ q = val[h].down /\ hurl \in Url /\ hpc = "append"
        /\ \A e \in Domain : e # h => val'[e] = val[e]
        /\ val'[h].down = <<>>
  BY RaceParts
<1>2. hurl' = NoUrl /\ taken' = taken
  BY DEF JoinRaces, loop
<1>3. Hand(u) = (IF hurl = u THEN 1 ELSE 0) /\ Hand(u)' = 0 /\ Taken(u)' = Taken(u)
  BY <1>0, <1>1, <1>2 DEF Hand, Taken
<1>4. Count(q, u) \in Nat /\ (Host(u) # h => Count(q, u) = 0)
  <2>1. Host(u) # h => \A i \in DOMAIN q : q[i] # u
    BY <1>1 DEF UrlInv, HostInv
  <2> QED
    BY <2>1, CountAt, CountNone
<1>5. (Host(u) = h => Waits(u) = Count(q, u)) /\ Waits(u)' = (IF Host(u) = h THEN 0 ELSE Waits(u))
  BY <1>0, <1>1, CountEmpty DEF Waits
<1>6. Count(q, u) + Hand(u) + Chain(u) <= 1
  BY <1>n, <1>4, <1>5
<1>7. /\ down \in Seq(Url) /\ behind \in Seq(Url) /\ Downs(u) \in Nat /\ Behinds(u) \in Nat
  BY <1>0, PlaceNats DEF TypeInv, UrlTypes
<1>8. PICK w \in Seq(Url) : w = Append(q, hurl) /\ Count(w, u) = Count(q, u) + Hand(u)
  <2>1. Count(Append(q, hurl), u) = Count(q, u) + (IF hurl = u THEN 1 ELSE 0)
    BY <1>1, CountAppend
  <2>2. Append(q, hurl) \in Seq(Url)
    BY <1>1, AppendRange
  <2> QED
    BY <1>3, <2>1, <2>2
<1>c. /\ Chain(u) = Downs(u) + Behinds(u) + Lost(u) /\ Chain(u)' = Downs(u)' + Behinds(u)' + Lost(u)'
      /\ Downs(u) \in Nat /\ Behinds(u) \in Nat /\ Lost(u) \in 0..1 /\ Hand(u) \in 0..1
      /\ Count(q, u) \in Nat /\ Downs(u) + Behinds(u) + Lost(u) + Count(q, u) + Hand(u) <= 1
  BY <1>n, <1>4, <1>6, <1>7 DEF Chain
<1>9. RaceList(q)
  <2>1. q = val[resp[1]].down
    BY <1>1
  <2> QED
    BY <2>1, Zenon DEF JoinRaces, RaceList, list
<1>10. Chain(u)' = Chain(u) + Count(q, u) + Hand(u)
  <2>1. CASE lost' = lost \union Range(w) /\ UNCHANGED <<down, behind>>
    <3>1. Count(w, u) + Lost(u) <= 1
      BY <1>c, <1>8
    <3>2. Lost(u)' = Lost(u) + Count(w, u)
      BY <2>1, <3>1, LostRange
    <3>3. Downs(u)' = Downs(u) /\ Behinds(u)' = Behinds(u)
      BY <2>1 DEF Downs, Behinds
    <3> QED
      BY <1>c, <1>8, <3>2, <3>3
  <2>2. ASSUME lost' = lost \union Range(behind) PROVE Lost(u)' = Lost(u) + Behinds(u)
    <3>1. Count(behind, u) + Lost(u) <= 1
      BY <1>c DEF Behinds
    <3> QED
      BY <1>7, <2>2, <3>1, LostRange DEF Behinds
  <2>3. CASE down' = down \o q /\ behind' = <<hurl>> /\ lost' = lost \union Range(behind)
    <3>1. Count(down \o q, u) = Count(down, u) + Count(q, u)
      BY <1>7, CountConcat
    <3>2. Count(<<hurl>>, u) = Hand(u)
      <4>1. PICK e \in Seq(Url) : e = <<>>
        BY EmptyDown
      <4>2. Append(e, hurl) = <<hurl>> /\ Count(e, u) = 0
        BY <4>1, <1>1, CountEmpty
      <4>3. Count(Append(e, hurl), u) = Count(e, u) + (IF hurl = u THEN 1 ELSE 0)
        BY <1>1, CountAppend
      <4> QED
        BY <1>3, <4>2, <4>3
    <3>3. Downs(u)' = Downs(u) + Count(q, u) /\ Behinds(u)' = Hand(u)
      BY <2>3, <3>1, <3>2 DEF Downs, Behinds
    <3> QED
      BY <1>c, <2>2, <2>3, <3>3
  <2>4. CASE down' = down \o w /\ behind' = <<>> /\ lost' = lost \union Range(behind)
    <3>1. Count(down \o w, u) = Count(down, u) + Count(w, u)
      BY <1>7, CountConcat
    <3>2. Downs(u)' = Downs(u) + Count(w, u) /\ Behinds(u)' = 0
      BY <2>4, <3>1, CountEmpty DEF Downs, Behinds
    <3> QED
      BY <1>c, <1>8, <2>2, <2>4, <3>2
  <2> QED
    BY <1>8, <1>9, <2>1, <2>3, <2>4 DEF RaceList
<1> QED
  <2>1. Waits(u)' \in Nat /\ Hand(u)' + Waits(u)' = Waits(u)'
    BY <1>n, <1>3, <1>5
  <2>2. Waits(u)' + Chain(u)' + Taken(u)' = 1
    BY <1>n, <1>3, <1>4, <1>5, <1>10
  <2> QED
    BY <1>m, <2>1, <2>2

LEMMA PlaceStep ==
  TypeInv /\ TypeInv' /\ UrlInv /\ UrlInOnePlace /\ [Next]_vars => UrlInOnePlace'
<1> SUFFICES ASSUME TypeInv, TypeInv', UrlInv, UrlInOnePlace, [Next]_vars, NEW u \in added'
             PROVE  Places(u)' = 1
  BY DEF UrlInOnePlace, Places, Hand, Waits, Downs, Behinds, Taken, Lost
<1>0. u \in added => Places(u) = 1
  BY DEF UrlInOnePlace, Places, Hand, Waits, Downs, Behinds, Taken, Lost
<1>1. CASE HttpStep
  BY <1>0, <1>1, HttpPlaces
<1>2. CASE CacheStep
  <2>1. added' = added
    BY <1>2, CacheHosts DEF Keeps
  <2> QED
    BY <1>0, <1>2, <2>1, CachePlaces
<1>3. CASE SocketStep \/ Network \/ Start \/ UNCHANGED vars
  <2>1. UNCHANGED <<hpc, hurl, added, taken, val, down, behind, lost>>
    BY <1>3, Quiet
  <2>2. Hand(u)' = Hand(u) /\ Waits(u)' = Waits(u) /\ Downs(u)' = Downs(u) /\ Taken(u)' = Taken(u)
        /\ Behinds(u)' = Behinds(u) /\ Lost(u)' = Lost(u)
    BY <2>1 DEF Hand, Waits, Downs, Behinds, Taken, Lost
  <2> QED
    BY <1>0, <2>1, <2>2 DEF Places
<1>4. CASE JoinRaces
  <2>1. added' = added
    BY <1>4 DEF JoinRaces
  <2> QED
    BY <1>0, <1>4, <2>1, RacePlaces
<1> QED
  BY <1>1, <1>2, <1>3, <1>4, Steps DEF Rests

\* No url is mislaid and none is downloaded twice: what url_add accepted is in exactly
\* one place, whatever the order in which the two threads touch the queues.
THEOREM DnsUrlInOnePlace == Spec => []UrlInOnePlace
<1> DEFINE I == TypeInv /\ UrlInv /\ UrlInOnePlace
<1>1. Init => I
  <2>1. Init => UrlInOnePlace
    BY DEF Init, UrlInOnePlace
  <2> QED
    BY <2>1, InitTypes, InitHosts
<1>2. I /\ [Next]_vars => I'
  BY TypeStep, UrlStep, PlaceStep
<1> QED
  BY <1>1, <1>2, PTL DEF Spec

=============================================================================
