---------------------------- MODULE AntHttpProofs ----------------------------
(***************************************************************************)
(* Proofs about the http thread of mini_ant, for every number of urls,     *)
(* descriptors and connections and every bound on what fails.  HttpInv is  *)
(* the inductive invariant: socks and the descriptors of the http_infos    *)
(* are inverse to each other on the descriptors the kernel has open, an    *)
(* event is there only for one of those, and every descriptor that is lost *)
(* has cost a failure, so that the kernel always has a descriptor left.    *)
(***************************************************************************)
EXTENDS AntHttp, FiniteSetTheorems, SequenceTheorems, WellFoundedInduction, TLAPS

USE HttpAssumption DEF HttpAssumption

OpenSt == {"connecting", "up", "reset"}

\* L are the http_infos in use: each leads to its descriptor, and socks back.
Sound(inf, sk, nt, L) ==
  /\ \A j \in L : inf[j].fd # -1 => nt[inf[j].fd].st \in OpenSt /\ sk[inf[j].fd] = j
  /\ \A f \in Fd : nt[f].st \in OpenSt => sk[f] \in L /\ inf[sk[f]].fd = f

Free(nt) == {f \in Fd : nt[f].st = "closed"}
Leaked(nt) == {f \in Fd : nt[f].st = "leaked"}

InfoRec == [live : BOOLEAN, fd : Fd \union {-1}, url : Url \union {0},
            status : SUBSET ANT_DUMP, try : 0..MaxTry, code : Code \union {0},
            lines : BOOLEAN, mode : Mode \union {"close"}]
NetRec == [st : {"closed", "leaked", "connecting", "up", "reset"},
           reg : SUBSET {"in", "out"}, req : BOOLEAN, stage : 0..3,
           eof : BOOLEAN, code : Code \union {0}, mode : Mode \union {"close"}]

\* The tables of the program and of the kernel.
Tables == /\ info \in [Info -> InfoRec] /\ socks \in [Fd -> Info \union {0}]
          /\ net \in [Fd -> NetRec]
          /\ \A i \in Live : info[i].url \in Url

Counters == /\ down \in Seq(Url) /\ cache_url \subseteq Url
            /\ nconn \in 0..maxconn
            /\ pc \in {"fill", "wait", "event"} /\ ntask \in 0..NTask
            /\ ev \in [Fd -> SUBSET {"in", "out", "err"}]
            /\ nadd \in 0..MaxAdd /\ nfail \in 0..MaxFail /\ alive \in BOOLEAN
            /\ dumped \in [Url -> Nat]

LeakInv == Cardinality(Leaked(net)) <= nfail

Consistent == /\ nconn = Cardinality(Live)
              /\ Sound(info, socks, net, Live)
              /\ \A f \in Fd : ev[f] # {} => net[f].st \in OpenSt

HttpInv == /\ Tables /\ Counters /\ LeakInv /\ DumpedOnce
           /\ alive => Consistent

-----------------------------------------------------------------------------
(* Numbers *)

LEMMA Numbers ==
  /\ 0 \notin Info /\ -1 \notin Fd /\ Fd \subseteq Nat /\ Info \subseteq Nat
  /\ Cardinality(Fd) \in Nat /\ IsFiniteSet(Info)
<1>1. Cardinality(Fd) \in Nat
  BY FS_CardinalityType
<1>2. /\ \A f \in Fd : f \in Nat /\ f >= 1
      /\ \A i \in Info : i \in Nat /\ i >= 1
  <2> DEFINE n == Cardinality(Fd)
  <2>1. Fd = 1..n /\ n \in Nat
    BY <1>1
  <2> HIDE DEF n
  <2> QED BY <2>1 DEF Info
<1>3. IsFiniteSet(Info)
  BY FS_Interval DEF Info
<1> QED BY <1>1, <1>2, <1>3

LEMMA LeastNat ==
  ASSUME NEW S \in SUBSET Nat, S # {}
  PROVE  \E k \in S : \A j \in S : k <= j
<1>1. PICK k \in S : \A j \in S : <<j, k>> \notin OpToRel(<, Nat)
  BY NatLessThanWellFounded, WFMin
<1>2. \A j \in S : ~(j < k)
  BY <1>1, Zenon DEF OpToRel
<1> QED
  BY <1>2

\* The kernel hands out the lowest free descriptor.
LEMMA Lowest ==
  ASSUME NEW nt, Free(nt) # {}
  PROVE  Min({g \in Fd : nt[g].st = "closed"}) \in Free(nt)
<1>1. Free(nt) \in SUBSET Nat
  BY Numbers DEF Free
<1>2. \E k \in Free(nt) : \A j \in Free(nt) : k <= j
  BY <1>1, LeastNat
<1>3. Free(nt) = {g \in Fd : nt[g].st = "closed"}
  BY DEF Free
<1> QED
  BY <1>2, <1>3 DEF Min

\* Fewer than maxconn connections and at most MaxFail lost descriptors leave one free.
LEMMA OneFree ==
  ASSUME Tables, Consistent, LeakInv, nfail \in 0..MaxFail, Room
  PROVE  Free(net) # {}
<1> DEFINE O == {f \in Fd : net[f].st \in OpenSt}
<1>1. IsFiniteSet(Live) /\ Cardinality(Live) \in Nat /\ Cardinality(Live) < maxconn
  <2>1. Live \subseteq Info
    BY DEF Live
  <2> QED BY <2>1, Numbers, FS_Subset, FS_CardinalityType DEF Consistent, Room
<1>2. [f \in O |-> socks[f]] \in Injection(O, Live)
  <2> DEFINE s == [f \in O |-> socks[f]]
  <2>1. \A f \in O : socks[f] \in Live /\ info[socks[f]].fd = f
    BY DEF Consistent, Sound
  <2>2. s \in [O -> Live] /\ \A f \in O : s[f] = socks[f]
    BY <2>1
  <2> HIDE DEF s, O
  <2>3. \A f, g \in O : s[f] = s[g] => f = g
    BY <2>1, <2>2
  <2> QED BY <2>2, <2>3 DEF Injection, IsInjective
<1>3. IsFiniteSet(O) /\ Cardinality(O) <= Cardinality(Live) /\ Cardinality(O) \in Nat
  <2> HIDE DEF O
  <2> QED BY <1>1, <1>2, FS_Injection, FS_CardinalityType
<1>4. IsFiniteSet(Leaked(net)) /\ Cardinality(Leaked(net)) \in Nat
  <2>1. Leaked(net) \subseteq Fd
    BY DEF Leaked
  <2> QED BY <2>1, FS_Subset, FS_CardinalityType
<1>5. SUFFICES ASSUME Free(net) = {} PROVE FALSE
  OBVIOUS
<1>6. Fd = O \union Leaked(net)
  BY <1>5 DEF Free, Leaked, Tables, NetRec, OpenSt
<1>7. Cardinality(Fd) <= Cardinality(O) + Cardinality(Leaked(net))
  <2> HIDE DEF O
  <2>1. IsFiniteSet(O \cap Leaked(net)) /\ Cardinality(O \cap Leaked(net)) \in Nat
    BY <1>3, FS_Subset, FS_CardinalityType
  <2>2. Cardinality(Fd) = Cardinality(O) + Cardinality(Leaked(net)) - Cardinality(O \cap Leaked(net))
    BY <1>3, <1>4, <1>6, FS_Union
  <2> QED BY <2>1, <2>2, <1>3, <1>4
<1> HIDE DEF O
<1> QED
  BY <1>1, <1>3, <1>4, <1>7, Numbers DEF LeakInv

-----------------------------------------------------------------------------
(* What the steps do to the two tables and to the kernel's *)

\* A descriptor is closed, and its http_info no longer counts.
LEMMA SoundReleased ==
  ASSUME NEW inf, NEW sk \in [Fd -> Info \union {0}], NEW nt \in [Fd -> NetRec], NEW L,
         Sound(inf, sk, nt, L),
         NEW f \in Fd, sk[f] \in L, inf[sk[f]].fd = f,
         NEW sk2 \in [Fd -> Info \union {0}], \A g \in Fd : g # f => sk2[g] = sk[g],
         NEW nt2 \in [Fd -> NetRec], nt2[f].st = "closed", \A g \in Fd : g # f => nt2[g] = nt[g],
         \A j \in L : inf[j].fd \in Fd \union {-1}
  PROVE  Sound(inf, sk2, nt2, L \ {sk[f]})
<1>1. ASSUME NEW j \in L \ {sk[f]}, inf[j].fd # -1
      PROVE  nt2[inf[j].fd].st \in OpenSt /\ sk2[inf[j].fd] = j
  <2>1. inf[j].fd \in Fd /\ nt[inf[j].fd].st \in OpenSt /\ sk[inf[j].fd] = j
    BY <1>1 DEF Sound
  <2>2. inf[j].fd # f
    BY <1>1, <2>1
  <2> QED BY <2>1, <2>2
<1>2. ASSUME NEW g \in Fd, nt2[g].st \in OpenSt
      PROVE  sk2[g] \in L \ {sk[f]} /\ inf[sk2[g]].fd = g
  <2>1. g # f
    BY <1>2 DEF OpenSt
  <2>2. sk[g] \in L /\ inf[sk[g]].fd = g
    BY <1>2, <2>1 DEF Sound
  <2> QED BY <2>1, <2>2
<1> QED BY <1>1, <1>2 DEF Sound

\* Free descriptor g becomes the one of http_info i.
GetsFd(i, g, L, inf, sk, nt, inf2, sk2, nt2) ==
  /\ L \in SUBSET Info /\ i \in Info \ L /\ g \in Free(nt)
  /\ inf2[i].fd = g /\ sk2[g] = i /\ nt2[g].st \in OpenSt
  /\ \A j \in L : inf2[j].fd = inf[j].fd /\ inf[j].fd \in Fd \union {-1}
  /\ \A f \in Fd : f # g => sk2[f] = sk[f] /\ nt2[f].st = nt[f].st

LEMMA SoundOpened ==
  ASSUME NEW i, NEW g, NEW L, NEW inf, NEW sk, NEW nt, NEW inf2, NEW sk2, NEW nt2,
         Sound(inf, sk, nt, L), GetsFd(i, g, L, inf, sk, nt, inf2, sk2, nt2)
  PROVE  Sound(inf2, sk2, nt2, L \union {i})
<1> USE DEF GetsFd
<1>0. g \in Fd /\ nt[g].st = "closed" /\ g # -1
  BY Numbers DEF Free
<1>1. ASSUME NEW j \in L \union {i}, inf2[j].fd # -1
      PROVE  nt2[inf2[j].fd].st \in OpenSt /\ sk2[inf2[j].fd] = j
  <2>1. CASE j = i
    BY <2>1
  <2>2. CASE j \in L
    <3>1. inf2[j].fd = inf[j].fd /\ inf[j].fd \in Fd /\ nt[inf[j].fd].st \in OpenSt /\ sk[inf[j].fd] = j
      BY <1>1, <2>2 DEF Sound
    <3>2. inf[j].fd # g
      BY <1>0, <3>1 DEF OpenSt
    <3> QED BY <3>1, <3>2
  <2> QED BY <2>1, <2>2
<1>2. ASSUME NEW f \in Fd, nt2[f].st \in OpenSt
      PROVE  sk2[f] \in L \union {i} /\ inf2[sk2[f]].fd = f
  <2>1. CASE f = g
    BY <2>1
  <2>2. CASE f # g
    <3>1. sk[f] \in L /\ inf[sk[f]].fd = f
      BY <1>2, <2>2 DEF Sound
    <3> QED BY <2>2, <3>1
  <2> QED BY <2>1, <2>2
<1> QED BY <1>1, <1>2 DEF Sound

\* Http_info i is left without a descriptor.
LEMMA SoundWithout ==
  ASSUME NEW inf, NEW sk, NEW nt, NEW L, Sound(inf, sk, nt, L), NEW i, i \notin L,
         NEW inf2, inf2[i].fd = -1, \A j \in L : inf2[j].fd = inf[j].fd,
         NEW nt2, \A f \in Fd : nt2[f].st = nt[f].st \/ {nt[f].st, nt2[f].st} \cap OpenSt = {},
         \A j \in L : inf[j].fd \in Fd \union {-1}
  PROVE  Sound(inf2, sk, nt2, L \union {i})
<1>0. \A f \in Fd : nt2[f].st \in OpenSt <=> nt[f].st \in OpenSt
  OBVIOUS
<1>1. ASSUME NEW j \in L \union {i}, inf2[j].fd # -1
      PROVE  nt2[inf2[j].fd].st \in OpenSt /\ sk[inf2[j].fd] = j
  <2>1. j \in L /\ inf2[j].fd = inf[j].fd
    BY <1>1
  <2> QED BY <1>0, <1>1, <2>1 DEF Sound
<1>2. ASSUME NEW f \in Fd, nt2[f].st \in OpenSt
      PROVE  sk[f] \in L \union {i} /\ inf2[sk[f]].fd = f
  BY <1>0, <1>2 DEF Sound
<1> QED BY <1>1, <1>2 DEF Sound

\* Nothing changes but other fields, and the state of an open descriptor.
LEMMA SoundKept ==
  ASSUME NEW inf, NEW sk, NEW nt, NEW L, Sound(inf, sk, nt, L),
         NEW inf2, \A j \in L : inf2[j].fd = inf[j].fd,
         NEW nt2, \A f \in Fd : nt2[f].st \in OpenSt <=> nt[f].st \in OpenSt,
         \A j \in L : inf[j].fd \in Fd \union {-1}
  PROVE  Sound(inf2, sk, nt2, L)
<1>1. ASSUME NEW j \in L, inf2[j].fd # -1
      PROVE  nt2[inf2[j].fd].st \in OpenSt /\ sk[inf2[j].fd] = j
  BY <1>1 DEF Sound
<1>2. ASSUME NEW f \in Fd, nt2[f].st \in OpenSt
      PROVE  sk[f] \in L /\ inf2[sk[f]].fd = f
  BY <1>2 DEF Sound
<1> QED BY <1>1, <1>2 DEF Sound

\* A step loses at most the one descriptor it has counted a failure for.
LEMMA LeakedMore ==
  ASSUME NEW nt, NEW nt2, NEW n \in Nat, Cardinality(Leaked(nt)) <= n
  PROVE  /\ Leaked(nt2) \subseteq Leaked(nt) => Cardinality(Leaked(nt2)) <= n
         /\ (\E g : Leaked(nt2) \subseteq Leaked(nt) \union {g}) => Cardinality(Leaked(nt2)) <= n + 1
<1>1. IsFiniteSet(Leaked(nt)) /\ Cardinality(Leaked(nt)) \in Nat
  <2>1. Leaked(nt) \subseteq Fd
    BY DEF Leaked
  <2> QED BY <2>1, FS_Subset, FS_CardinalityType
<1>2. ASSUME Leaked(nt2) \subseteq Leaked(nt) PROVE Cardinality(Leaked(nt2)) <= n
  <2>1. Cardinality(Leaked(nt2)) <= Cardinality(Leaked(nt)) /\ IsFiniteSet(Leaked(nt2))
    BY <1>1, <1>2, FS_Subset
  <2> QED BY <1>1, <2>1, FS_CardinalityType
<1>3. ASSUME NEW g, Leaked(nt2) \subseteq Leaked(nt) \union {g} PROVE Cardinality(Leaked(nt2)) <= n + 1
  <2>1. PICK T : T = Leaked(nt) \union {g}
    OBVIOUS
  <2>a. /\ IsFiniteSet(T)
        /\ Cardinality(T) = IF g \in Leaked(nt) THEN Cardinality(Leaked(nt)) ELSE Cardinality(Leaked(nt)) + 1
    BY <1>1, <2>1, FS_AddElement, Zenon
  <2>2. IsFiniteSet(T) /\ Cardinality(T) <= Cardinality(Leaked(nt)) + 1 /\ Cardinality(T) \in Nat
    BY <1>1, <2>a
  <2>3. Cardinality(Leaked(nt2)) <= Cardinality(T) /\ IsFiniteSet(Leaked(nt2))
    BY <1>3, <2>1, <2>2, FS_Subset
  <2> QED BY <1>1, <2>2, <2>3, FS_CardinalityType
<1> QED BY <1>2, <1>3

-----------------------------------------------------------------------------
(* do_create *)

LEMMA ClosedType == Closed \in NetRec /\ Closed.st = "closed"
<1>1. "close" \in Mode \union {"close"} /\ 0 \in Code \union {0} /\ 0 \in 0..3
  OBVIOUS
<1> QED BY <1>1 DEF Closed, NetRec

LEMMA NewNet ==
  ASSUME NEW r \in SUBSET {"in", "out"}
  PROVE  /\ [Closed EXCEPT !.st = "leaked"] \in NetRec
         /\ [Closed EXCEPT !.st = "leaked"].st = "leaked"
         /\ [Closed EXCEPT !.st = "connecting", !.reg = r] \in NetRec
         /\ [Closed EXCEPT !.st = "connecting", !.reg = r].st = "connecting"
<1>1. PICK c \in NetRec : c = Closed
  BY ClosedType
<1>2. /\ [c EXCEPT !.st = "leaked"] \in NetRec
      /\ [c EXCEPT !.st = "leaked"].st = "leaked"
  BY DEF NetRec
<1>3. [c EXCEPT !.st = "connecting", !.reg = r] \in NetRec
  BY DEF NetRec
<1>4. [c EXCEPT !.st = "connecting", !.reg = r].st = "connecting"
  BY DEF NetRec
<1> QED BY <1>1, <1>2, <1>3, <1>4, Zenon

LEMMA SetFd ==
  ASSUME NEW h \in InfoRec, NEW f \in Fd
  PROVE  /\ [h EXCEPT !.fd = f] \in InfoRec /\ [h EXCEPT !.fd = f].fd = f
         /\ [h EXCEPT !.fd = f].live = h.live /\ [h EXCEPT !.fd = f].url = h.url
  BY DEF InfoRec

\* What a connection that do_create opens or loses does to the tables: sk and nt
\* are the tables without the old descriptor of http_info i, L the others in use.
Renewed(i, h, nt, L) ==
  /\ info' \in [Info -> InfoRec] /\ socks' \in [Fd -> Info \union {0}] /\ net' \in [Fd -> NetRec]
  /\ info'[i].live /\ info'[i].url = h.url
  /\ \A j \in Info : j # i => info'[j] = info[j]
  /\ Sound(info', socks', net', L \union {i})
  /\ \A f \in Fd : nt[f].st \in OpenSt => net'[f].st \in OpenSt
  /\ nfail' \in 0..MaxFail
  /\ Cardinality(Leaked(nt)) <= nfail => Cardinality(Leaked(net')) <= nfail'

\* The lowest free descriptor becomes the one of http_info i.
LEMMA Opens ==
  ASSUME NEW i \in Info, NEW h \in InfoRec, h.live,
         NEW sk \in [Fd -> Info \union {0}], NEW nt \in [Fd -> NetRec],
         NEW L \in SUBSET Info, i \notin L, Sound(info, sk, nt, L),
         info \in [Info -> InfoRec], nfail \in 0..MaxFail,
         NEW g \in Free(nt), NEW r \in SUBSET {"in", "out"}, nfail' \in {nfail, nfail + 1} \cap 0..MaxFail,
         info' = [info EXCEPT ![i] = [h EXCEPT !.fd = g]], socks' = [sk EXCEPT ![g] = i],
         net' = [nt EXCEPT ![g] = [Closed EXCEPT !.st = "connecting", !.reg = r]]
  PROVE  Renewed(i, h, nt, L)
<1>0. g \in Fd /\ nt[g].st = "closed"
  BY DEF Free
<1>1. PICK e \in InfoRec : e = [h EXCEPT !.fd = g]
  BY <1>0, SetFd
<1>2. e.fd = g /\ e.live /\ e.url = h.url
  BY <1>0, <1>1, SetFd
<1>3. PICK n \in NetRec : n = [Closed EXCEPT !.st = "connecting", !.reg = r]
  BY NewNet
<1>4. n.st = "connecting"
  BY <1>3, NewNet
<1>5. /\ info' \in [Info -> InfoRec] /\ info'[i] = e /\ \A j \in Info : j # i => info'[j] = info[j]
      /\ socks' \in [Fd -> Info \union {0}] /\ socks'[g] = i /\ \A f \in Fd : f # g => socks'[f] = sk[f]
      /\ net' \in [Fd -> NetRec] /\ net'[g] = n /\ \A f \in Fd : f # g => net'[f] = nt[f]
  BY <1>0, <1>1, <1>3
<1>6. \A j \in L : info'[j].fd = info[j].fd /\ info[j].fd \in Fd \union {-1}
  BY <1>5 DEF InfoRec
<1>7. net'[g].st \in OpenSt /\ info'[i].fd = g
  BY <1>2, <1>4, <1>5 DEF OpenSt
<1>8. Sound(info', socks', net', L \union {i})
  <2>1. /\ L \in SUBSET Info /\ i \in Info \ L /\ g \in Free(nt)
        /\ info'[i].fd = g /\ socks'[g] = i /\ net'[g].st \in OpenSt
    BY <1>5, <1>7
  <2>2. \A f \in Fd : f # g => socks'[f] = sk[f] /\ net'[f].st = nt[f].st
    BY <1>5
  <2>3. GetsFd(i, g, L, info, sk, nt, info', socks', net')
    BY <2>1, <2>2, <1>6, Zenon DEF GetsFd
  <2> QED BY <2>3, SoundOpened, Zenon
<1>9. \A f \in Fd : nt[f].st \in OpenSt => net'[f].st \in OpenSt
  BY <1>5, <1>7
<1>10. Leaked(net') \subseteq Leaked(nt)
  BY <1>4, <1>5 DEF Leaked
<1>11. Cardinality(Leaked(nt)) <= nfail => Cardinality(Leaked(net')) <= nfail'
  <2>1. SUFFICES ASSUME Cardinality(Leaked(nt)) <= nfail PROVE Cardinality(Leaked(net')) <= nfail'
    OBVIOUS
  <2>2. nfail \in Nat /\ nfail' \in Nat /\ nfail <= nfail'
    OBVIOUS
  <2>3. Cardinality(Leaked(net')) <= nfail /\ IsFiniteSet(Leaked(net'))
    <3>1. Leaked(net') \subseteq Fd
      BY DEF Leaked
    <3> QED BY <2>1, <2>2, <3>1, <1>10, LeakedMore, FS_Subset
  <2>4. Cardinality(Leaked(net')) \in Nat
    BY <2>3, FS_CardinalityType
  <2> QED BY <2>2, <2>3, <2>4
<1> QED BY <1>2, <1>5, <1>8, <1>9, <1>11 DEF Renewed

\* connect fails at once: the descriptor is lost and http_info i has none.
LEMMA Loses ==
  ASSUME NEW i \in Info, NEW h \in InfoRec, h.live, h.fd = -1,
         NEW sk \in [Fd -> Info \union {0}], NEW nt \in [Fd -> NetRec],
         NEW L \in SUBSET Info, i \notin L, Sound(info, sk, nt, L),
         info \in [Info -> InfoRec], nfail \in 0..MaxFail,
         NEW g \in Free(nt), nfail < MaxFail, nfail' = nfail + 1,
         info' = [info EXCEPT ![i] = h], socks' = sk,
         net' = [nt EXCEPT ![g] = [Closed EXCEPT !.st = "leaked"]]
  PROVE  Renewed(i, h, nt, L)
<1>0. g \in Fd /\ nt[g].st = "closed"
  BY DEF Free
<1>3. PICK n \in NetRec : n = [Closed EXCEPT !.st = "leaked"]
  BY NewNet
<1>4. n.st = "leaked"
  BY <1>3, NewNet
<1>5. /\ info' \in [Info -> InfoRec] /\ info'[i] = h /\ \A j \in Info : j # i => info'[j] = info[j]
      /\ net' \in [Fd -> NetRec] /\ net'[g] = n /\ \A f \in Fd : f # g => net'[f] = nt[f]
  BY <1>0, <1>3
<1>6. \A j \in L : info'[j].fd = info[j].fd /\ info[j].fd \in Fd \union {-1}
  BY <1>5 DEF InfoRec
<1>7. \A f \in Fd : net'[f].st = nt[f].st \/ {nt[f].st, net'[f].st} \cap OpenSt = {}
  BY <1>0, <1>4, <1>5 DEF OpenSt
<1>8. Sound(info', sk, net', L \union {i})
  BY <1>5, <1>6, <1>7, SoundWithout
<1>9. \A f \in Fd : nt[f].st \in OpenSt => net'[f].st \in OpenSt
  BY <1>7
<1>10. Leaked(net') \subseteq Leaked(nt) \union {g}
  BY <1>5 DEF Leaked
<1>11. Cardinality(Leaked(nt)) <= nfail => Cardinality(Leaked(net')) <= nfail'
  <2>1. nfail \in Nat /\ nfail' = nfail + 1
    OBVIOUS
  <2>2. \E x : Leaked(net') \subseteq Leaked(nt) \union {x}
    BY <1>10, Zenon
  <2> QED BY <2>1, <2>2, LeakedMore
<1> QED BY <1>5, <1>8, <1>9, <1>11 DEF Renewed

\* Without a socket nothing changes but http_info i, which has no descriptor.
LEMMA NoSocket ==
  ASSUME NEW i \in Info, NEW h \in InfoRec, h.live, h.fd = -1,
         NEW sk \in [Fd -> Info \union {0}], NEW nt \in [Fd -> NetRec],
         NEW L \in SUBSET Info, i \notin L, Sound(info, sk, nt, L),
         info \in [Info -> InfoRec], nfail \in 0..MaxFail,
         nfail < MaxFail, nfail' = nfail + 1,
         info' = [info EXCEPT ![i] = h], socks' = sk, net' = nt
  PROVE  Renewed(i, h, nt, L)
<1>1. /\ info' \in [Info -> InfoRec] /\ info'[i] = h
      /\ \A j \in Info : j # i => info'[j] = info[j]
  OBVIOUS
<1>2. \A j \in L : info'[j].fd = info[j].fd /\ info[j].fd \in Fd \union {-1}
  BY <1>1 DEF InfoRec
<1>3. Sound(info', sk, net', L \union {i})
  BY <1>1, <1>2, SoundWithout
<1>4. Cardinality(Leaked(nt)) <= nfail => Cardinality(Leaked(net')) <= nfail'
  <2>1. nfail \in Nat /\ nfail' = nfail + 1
    OBVIOUS
  <2>2. \E x : Leaked(net') \subseteq Leaked(nt) \union {x}
    OBVIOUS
  <2> QED BY <2>1, <2>2, LeakedMore
<1> QED BY <1>1, <1>3, <1>4 DEF Renewed

LEMMA Creates ==
  ASSUME NEW i \in Info, NEW h \in InfoRec, h.live, h.fd = -1,
         NEW sk \in [Fd -> Info \union {0}], NEW nt \in [Fd -> NetRec],
         NEW L \in SUBSET Info, i \notin L, Sound(info, sk, nt, L), Free(nt) # {},
         info \in [Info -> InfoRec], nfail \in 0..MaxFail,
         NEW k \in Outcome, DoCreate(i, h, sk, nt, k)
  PROVE  Renewed(i, h, nt, L)
<1>1. PICK g \in Free(nt) : g = Min({f \in Fd : nt[f].st = "closed"})
  BY Lowest
<1>2. CASE k = "connect"
  <2>1. /\ nfail < MaxFail /\ nfail' = nfail + 1
        /\ info' = [info EXCEPT ![i] = h] /\ socks' = sk
        /\ net' = [nt EXCEPT ![g] = [Closed EXCEPT !.st = "leaked"]]
    BY <1>1, <1>2 DEF DoCreate, Fails
  <2> QED BY <2>1, Loses
<1>3. CASE k = "socket"
  <2>1. /\ nfail < MaxFail /\ nfail' = nfail + 1
        /\ info' = [info EXCEPT ![i] = h] /\ socks' = sk /\ net' = nt
    BY <1>3 DEF DoCreate, Fails
  <2> QED BY <2>1, NoSocket
<1>4. CASE k \notin {"socket", "connect"}
  <2>1. PICK r \in SUBSET {"in", "out"} : r = IF k = "ok" THEN {"in", "out"} ELSE {}
    OBVIOUS
  <2>2. /\ nfail' \in {nfail, nfail + 1} \cap 0..MaxFail
        /\ info' = [info EXCEPT ![i] = [h EXCEPT !.fd = g]]
        /\ socks' = [sk EXCEPT ![g] = i]
        /\ net' = [nt EXCEPT ![g] = [Closed EXCEPT !.st = "connecting", !.reg = r]]
    <3>1. nfail' \in {nfail, nfail + 1} \cap 0..MaxFail
      BY DEF DoCreate, Fails
    <3> QED BY <1>1, <1>4, <2>1, <3>1 DEF DoCreate
  <2> QED BY <2>2, Opens
<1> QED BY <1>2, <1>3, <1>4


-----------------------------------------------------------------------------
(* What an event does to the tables *)

\* Which http_infos are in use, their descriptors and what the kernel has open
\* stay as they are.
LEMMA KeptStep ==
  ASSUME Tables, LeakInv, info' \in [Info -> InfoRec], net' \in [Fd -> NetRec],
         socks' = socks, nconn' = nconn, nfail \in Nat, nfail' \in {nfail, nfail + 1},
         \A j \in Info : /\ info'[j].live = info[j].live /\ info'[j].fd = info[j].fd
                         /\ info'[j].url = info[j].url,
         \A g \in Fd : /\ net'[g].st \in OpenSt <=> net[g].st \in OpenSt
                       /\ net'[g].st = "leaked" <=> net[g].st = "leaked"
  PROVE  /\ Tables' /\ LeakInv'
         /\ Consistent /\ (\A g \in Fd : ev'[g] # {} => net[g].st \in OpenSt) => Consistent'
<1>1. Live' = Live
  BY DEF Live
<1>2. Tables'
  <2>1. \A i \in Live' : info'[i].url \in Url
    BY <1>1 DEF Tables, Live
  <2> QED BY <2>1 DEF Tables
<1>3. LeakInv'
  <2>1. Leaked(net') = Leaked(net)
    BY DEF Leaked
  <2>2. Leaked(net) \subseteq Fd
    BY DEF Leaked
  <2>3. Cardinality(Leaked(net)) \in Nat
    BY <2>2, FS_Subset, FS_CardinalityType
  <2> QED BY <2>1, <2>3 DEF LeakInv
<1>4. ASSUME Consistent, \A g \in Fd : ev'[g] # {} => net[g].st \in OpenSt
      PROVE  Consistent'
  <2>1. \A j \in Live : info'[j].fd = info[j].fd /\ info[j].fd \in Fd \union {-1}
    BY DEF Live, Tables, InfoRec
  <2>2. Sound(info, socks, net, Live)
    BY <1>4 DEF Consistent
  <2>3. Sound(info', socks, net', Live)
    BY <2>1, <2>2, SoundKept
  <2>4. \A g \in Fd : ev'[g] # {} => net'[g].st \in OpenSt
    BY <1>4
  <2> QED BY <1>1, <1>4, <2>3, <2>4 DEF Consistent
<1> QED BY <1>2, <1>3, <1>4

\* The http_info an event is for.
LEMMA Owner ==
  ASSUME Tables, Counters, NEW f \in Fd, Handles(f)
  PROVE  /\ socks[f] \in Live /\ socks[f] \in Info /\ info[socks[f]].fd = f
         /\ info[socks[f]] \in InfoRec /\ info[socks[f]].url \in Url
         /\ ev' \in [Fd -> SUBSET {"in", "out", "err"}]
         /\ \A g \in Fd : ev'[g] # {} => g # f /\ ev[g] # {}
<1>1. socks[f] \in Info /\ info[socks[f]].live /\ info[socks[f]].fd = f
  BY DEF Handles, Stray, Tables
<1>2. ev' = [ev EXCEPT ![f] = {}] /\ ev \in [Fd -> SUBSET {"in", "out", "err"}]
  BY DEF Handles, Counters
<1> QED BY <1>1, <1>2 DEF Live, Tables

\* The descriptor of an event is closed.
LEMMA Freed ==
  ASSUME Tables, Counters, Consistent, NEW f \in Fd, Handles(f),
         NEW sk \in {socks, [socks EXCEPT ![f] = 0]},
         NEW nt, nt = [net EXCEPT ![f] = Closed]
  PROVE  /\ sk \in [Fd -> Info \union {0}] /\ nt \in [Fd -> NetRec]
         /\ Sound(info, sk, nt, Live \ {socks[f]})
         /\ f \in Free(nt) /\ Leaked(nt) \subseteq Leaked(net)
         /\ \A g \in Fd : g # f => nt[g] = net[g]
<1>1. sk \in [Fd -> Info \union {0}] /\ \A g \in Fd : g # f => sk[g] = socks[g]
  BY DEF Tables
<1>2. PICK c \in NetRec : c = Closed
  BY ClosedType
<1>3. c.st = "closed"
  BY <1>2, ClosedType
<1>4. nt \in [Fd -> NetRec] /\ nt[f] = c /\ \A g \in Fd : g # f => nt[g] = net[g]
  BY <1>2 DEF Tables
<1>5. nt[f].st = "closed" /\ socks \in [Fd -> Info \union {0}] /\ net \in [Fd -> NetRec]
  BY <1>3, <1>4 DEF Tables
<1>6. Sound(info, socks, net, Live) /\ socks[f] \in Live /\ info[socks[f]].fd = f
  BY Owner DEF Consistent
<1>7. \A j \in Live : info[j].fd \in Fd \union {-1}
  BY DEF Live, Tables, InfoRec
<1>8. Sound(info, sk, nt, Live \ {socks[f]})
  BY <1>1, <1>4, <1>5, <1>6, <1>7, SoundReleased
<1>9. f \in Free(nt) /\ Leaked(nt) \subseteq Leaked(net)
  BY <1>4, <1>5 DEF Free, Leaked
<1> QED BY <1>1, <1>4, <1>8, <1>9

\* http_clean: one connection less.
LEMMA Cleaned ==
  ASSUME Tables, Counters, LeakInv, Consistent, NEW f \in Fd, Handles(f), Clean(f),
         socks' \in {socks, [socks EXCEPT ![f] = 0]}, nconn' = nconn - 1, nfail' = nfail
  PROVE  Tables' /\ LeakInv' /\ Consistent' /\ nconn' \in 0..maxconn
<1>1. PICK i \in Info : i = socks[f]
  BY Owner
<1>2. i \in Live
  BY <1>1, Owner
<1>3. NoInfo \in InfoRec /\ ~NoInfo.live
  <2>1. /\ -1 \in Fd \union {-1} /\ 0 \in Url \union {0} /\ 0 \in Code \union {0}
        /\ 0 \in 0..MaxTry /\ "close" \in Mode \union {"close"}
    OBVIOUS
  <2> QED BY <2>1 DEF NoInfo, InfoRec
<1>4. /\ info' \in [Info -> InfoRec] /\ info'[i] = NoInfo
      /\ \A j \in Info : j # i => info'[j] = info[j]
  <2>1. PICK e \in InfoRec : e = NoInfo
    BY <1>3
  <2>2. info' = [info EXCEPT ![i] = e]
    BY <1>1, <2>1 DEF Clean
  <2>3. info \in [Info -> InfoRec]
    BY DEF Tables
  <2> QED BY <2>1, <2>2, <2>3
<1>5. /\ net' \in [Fd -> NetRec] /\ socks' \in [Fd -> Info \union {0}]
      /\ Sound(info, socks', net', Live \ {i})
      /\ Leaked(net') \subseteq Leaked(net)
      /\ \A g \in Fd : g # f => net'[g] = net[g]
  <2>1. net' = [net EXCEPT ![f] = Closed]
    BY DEF Clean
  <2> QED BY <1>1, <2>1, Freed
<1>6. Live' = Live \ {i}
  BY <1>3, <1>4 DEF Live
<1>7. Tables'
  <2>1. \A j \in Live' : info'[j].url \in Url
    BY <1>4, <1>6 DEF Tables, Live
  <2> QED BY <1>4, <1>5, <2>1 DEF Tables
<1>8. LeakInv'
  BY <1>5, LeakedMore DEF LeakInv, Counters
<1>9. nconn' = Cardinality(Live') /\ nconn' \in 0..maxconn
  <2>1. IsFiniteSet(Live)
    <3>1. Live \subseteq Info
      BY DEF Live
    <3> QED BY <3>1, Numbers, FS_Subset
  <2>2. Cardinality(Live') = Cardinality(Live) - 1
    BY <1>2, <1>6, <2>1, FS_RemoveElement, Zenon
  <2>3. Cardinality(Live') \in Nat
    BY <1>6, <2>1, FS_RemoveElement, FS_CardinalityType, FS_Subset
  <2> QED BY <2>2, <2>3 DEF Consistent, Counters
<1>10. Sound(info', socks', net', Live')
  <2>1. \A j \in Live \ {i} : info'[j].fd = info[j].fd /\ info[j].fd \in Fd \union {-1}
    BY <1>4 DEF Live, Tables, InfoRec
  <2> QED BY <1>5, <1>6, <2>1, SoundKept
<1>11. \A g \in Fd : ev'[g] # {} => net'[g].st \in OpenSt
  BY <1>5, Owner DEF Consistent
<1> QED BY <1>7, <1>8, <1>9, <1>10, <1>11 DEF Consistent

\* do_error closes the connection and do_create opens the next for its http_info.
LEMMA Reopened ==
  ASSUME Tables, Counters, LeakInv, Consistent, NEW f \in Fd, Handles(f),
         NEW h, h.url \in Url, NEW nt, nt = [net EXCEPT ![f] = Closed],
         Renewed(socks[f], h, nt, Live \ {socks[f]}), nconn' = nconn
  PROVE  Tables' /\ LeakInv' /\ Consistent' /\ nfail' \in 0..MaxFail
<1>1. PICK i \in Info : i = socks[f]
  BY Owner
<1>2. i \in Live
  BY <1>1, Owner
<1>3. /\ Leaked(nt) \subseteq Leaked(net) /\ \A g \in Fd : g # f => nt[g] = net[g]
  BY Freed
<1>4. Renewed(i, h, nt, Live \ {i})
  BY <1>1
<1>5. Live' = Live
  BY <1>2, <1>4 DEF Renewed, Live
<1>6. Tables'
  <2>1. \A j \in Live' : info'[j].url \in Url
    <3>1. info'[i].url \in Url
      BY <1>4 DEF Renewed
    <3>2. \A j \in Live : j # i => info'[j].url \in Url
      BY <1>4 DEF Renewed, Tables, Live
    <3> QED BY <1>5, <3>1, <3>2
  <2> QED BY <1>4, <2>1 DEF Tables, Renewed
<1>7. LeakInv'
  <2>1. Cardinality(Leaked(nt)) <= nfail
    <3>1. nfail \in Nat /\ Cardinality(Leaked(net)) <= nfail
      BY DEF LeakInv, Counters
    <3>2. Leaked(nt) \subseteq Leaked(net)
      BY <1>3
    <3> QED BY <3>1, <3>2, LeakedMore
  <2> QED BY <1>4, <2>1 DEF Renewed, LeakInv
<1>8. Sound(info', socks', net', Live')
  <2>1. (Live \ {i}) \union {i} = Live
    BY <1>2
  <2> QED BY <1>4, <1>5, <2>1 DEF Renewed
<1>9. \A g \in Fd : ev'[g] # {} => net'[g].st \in OpenSt
  BY <1>3, <1>4, Owner DEF Consistent, Renewed
<1>10. nconn' = Cardinality(Live')
  BY <1>5 DEF Consistent
<1> QED BY <1>4, <1>6, <1>7, <1>8, <1>9, <1>10 DEF Consistent, Renewed

-----------------------------------------------------------------------------
(* The invariant and the steps *)

LEMMA HttpInit == Init => HttpInv
<1> SUFFICES ASSUME Init PROVE HttpInv
  OBVIOUS
<1>1. NoInfo \in InfoRec /\ ~NoInfo.live
  <2>1. /\ -1 \in Fd \union {-1} /\ 0 \in Url \union {0} /\ 0 \in Code \union {0}
        /\ 0 \in 0..MaxTry /\ "close" \in Mode \union {"close"}
    OBVIOUS
  <2> QED BY <2>1 DEF NoInfo, InfoRec
<1>2. Live = {} /\ info \in [Info -> InfoRec]
  BY <1>1 DEF Init, Live
<1>3. net \in [Fd -> NetRec] /\ \A f \in Fd : net[f].st = "closed"
  BY ClosedType DEF Init
<1>4. Tables
  BY <1>2, <1>3 DEF Init, Tables
<1>5. Counters
  BY DEF Init, Counters
<1>6. LeakInv
  <2>1. Leaked(net) = {}
    BY <1>3 DEF Leaked
  <2>2. Cardinality(Leaked(net)) = 0
    BY <2>1, FS_EmptySet, Zenon
  <2> QED BY <2>2 DEF LeakInv, Init
<1>7. DumpedOnce
  BY DEF Init, DumpedOnce
<1>8. Consistent
  <2>1. nconn = Cardinality(Live)
    BY <1>2, FS_EmptySet DEF Init
  <2>2. Sound(info, socks, net, Live)
    BY <1>2, <1>3 DEF Sound, OpenSt
  <2> QED BY <2>1, <2>2 DEF Init, Consistent
<1> QED BY <1>4, <1>5, <1>6, <1>7, <1>8 DEF HttpInv

\* Steps that leave the connections as they are.
LEMMA HttpQuiet ==
  ASSUME HttpInv, alive,
         UNCHANGED <<info, socks, net, nconn, nfail>>, Counters', DumpedOnce',
         \A g \in Fd : ev'[g] # {} => net[g].st \in OpenSt
  PROVE  HttpInv'
<1>1. info \in [Info -> InfoRec] /\ net \in [Fd -> NetRec] /\ nfail \in Nat
  BY DEF HttpInv, Tables, Counters
<1>2. Tables' /\ LeakInv' /\ Consistent'
  BY <1>1, KeptStep DEF HttpInv
<1> QED BY <1>2 DEF HttpInv

\* The process exits: the connections no longer matter.
LEMMA HttpExit ==
  ASSUME HttpInv, UNCHANGED <<info, socks, net>>, ~alive', nfail' \in {nfail, nfail + 1},
         Counters', DumpedOnce'
  PROVE  HttpInv'
<1>1. Tables'
  BY DEF HttpInv, Tables, Live
<1>2. LeakInv'
  <2>1. nfail \in Nat /\ Cardinality(Leaked(net)) <= nfail
    BY DEF HttpInv, Counters, LeakInv
  <2>2. Cardinality(Leaked(net)) <= nfail /\ IsFiniteSet(Leaked(net))
    <3>1. Leaked(net) \subseteq Fd
      BY DEF Leaked
    <3> QED BY <2>1, <3>1, FS_Subset
  <2>3. Cardinality(Leaked(net)) \in Nat
    BY <2>2, FS_CardinalityType
  <2> QED BY <2>1, <2>2, <2>3 DEF LeakInv
<1> QED BY <1>1, <1>2 DEF HttpInv

LEMMA HttpFill ==
  ASSUME HttpInv, NEW k \in Outcome, Fill(k)
  PROVE  HttpInv'
<1>1. /\ Tables /\ Counters /\ LeakInv /\ Consistent /\ nfail \in 0..MaxFail /\ Room
      /\ info \in [Info -> InfoRec]
  BY DEF HttpInv, Fill, Counters, Tables
<1>2. PICK i \in Info \ Live :
        DoCreate(i, [NoInfo EXCEPT !.live = TRUE, !.url = Head(down)], socks, net, k)
  BY DEF Fill
<1>3. Head(down) \in Url /\ down' \in Seq(Url)
  BY <1>1 DEF Fill, Counters
<1>4. NoInfo \in InfoRec /\ NoInfo.fd = -1
  <2>1. /\ -1 \in Fd \union {-1} /\ 0 \in Url \union {0} /\ 0 \in Code \union {0}
        /\ 0 \in 0..MaxTry /\ "close" \in Mode \union {"close"}
    OBVIOUS
  <2> QED BY <2>1 DEF NoInfo, InfoRec
<1>5. PICK h \in InfoRec : h = [NoInfo EXCEPT !.live = TRUE, !.url = Head(down)]
  <2>1. PICK e \in InfoRec : e = NoInfo
    BY <1>4
  <2>2. [e EXCEPT !.live = TRUE, !.url = Head(down)] \in InfoRec
    BY <1>3 DEF InfoRec
  <2> QED BY <2>1, <2>2
<1>6. h.live /\ h.fd = -1 /\ h.url \in Url
  <2>1. PICK e \in InfoRec : e = NoInfo
    BY <1>4
  <2>2. h = [e EXCEPT !.live = TRUE, !.url = Head(down)] /\ e.fd = -1
    BY <1>4, <1>5, <2>1
  <2> QED BY <1>3, <2>2 DEF InfoRec
<1>7. Renewed(i, h, net, Live)
  <2>1. Free(net) # {} /\ Live \in SUBSET Info /\ Sound(info, socks, net, Live)
    BY <1>1, OneFree DEF Consistent, Live
  <2>2. DoCreate(i, h, socks, net, k)
    BY <1>2, <1>5
  <2>3. socks \in [Fd -> Info \union {0}] /\ net \in [Fd -> NetRec]
    BY <1>1 DEF Tables
  <2>4. i \in Info /\ i \notin Live
    BY <1>2
  <2> QED BY <1>1, <1>6, <2>1, <2>2, <2>3, <2>4, Creates
<1>8. Live' = Live \union {i}
  BY <1>2, <1>7 DEF Renewed, Live
<1>9. Tables'
  <2>1. \A j \in Live' : info'[j].url \in Url
    <3>1. info'[i].url \in Url
      BY <1>6, <1>7 DEF Renewed
    <3>2. \A j \in Live : info'[j].url \in Url
      BY <1>1, <1>2, <1>7 DEF Renewed, Tables, Live
    <3> QED BY <1>8, <3>1, <3>2
  <2> QED BY <1>7, <2>1 DEF Tables, Renewed
<1>10. LeakInv' /\ nfail' \in 0..MaxFail
  BY <1>1, <1>7 DEF Renewed, LeakInv
<1>11. nconn' = Cardinality(Live') /\ nconn' \in 0..maxconn
  <2>1. IsFiniteSet(Live)
    <3>1. Live \subseteq Info
      BY DEF Live
    <3> QED BY <3>1, Numbers, FS_Subset
  <2>2. Cardinality(Live') = Cardinality(Live) + 1
    BY <1>2, <1>8, <2>1, FS_AddElement, Zenon
  <2>3. nconn' = nconn + 1 /\ nconn = Cardinality(Live) /\ nconn < maxconn /\ nconn \in 0..maxconn
    BY <1>1 DEF Fill, Consistent, Counters, Room
  <2> QED BY <2>2, <2>3
<1>12. Consistent'
  <2>1. \A g \in Fd : ev'[g] # {} => net'[g].st \in OpenSt
    BY <1>1, <1>7 DEF Consistent, Renewed, Fill
  <2> QED BY <1>7, <1>8, <1>11, <2>1 DEF Consistent, Renewed
<1>13. Counters'
  <2>1. ntask' \in 0..NTask
    BY <1>1 DEF Fill, Counters
  <2>2. alive' \in BOOLEAN
    BY DEF Fill
  <2>3. UNCHANGED <<cache_url, pc, ev, nadd, dumped>>
    BY DEF Fill
  <2> QED BY <1>1, <1>3, <1>10, <1>11, <2>1, <2>2, <2>3 DEF Counters
<1>14. DumpedOnce'
  BY DEF HttpInv, Fill, DumpedOnce
<1> QED BY <1>9, <1>10, <1>12, <1>13, <1>14 DEF HttpInv

\* What an event finds: the parts of the invariant, and the counters after it.
LEMMA HttpEvent ==
  ASSUME HttpInv, NEW f \in Fd, Handles(f)
  PROVE  /\ Tables /\ Counters /\ LeakInv /\ Consistent /\ DumpedOnce /\ alive
         /\ nfail \in Nat /\ nfail \in 0..MaxFail
         /\ info \in [Info -> InfoRec] /\ net \in [Fd -> NetRec]
         /\ socks \in [Fd -> Info \union {0}]
         /\ UNCHANGED <<pc, ntask>> /\ ev' \in [Fd -> SUBSET {"in", "out", "err"}]
<1>1. /\ Tables /\ Counters /\ LeakInv /\ Consistent /\ DumpedOnce /\ alive
      /\ UNCHANGED <<pc, ntask>>
  BY DEF HttpInv, Handles
<1> QED BY <1>1, Owner DEF Counters, Tables

LEMMA HttpKnown ==
  ASSUME HttpInv, NEW f \in Fd, OnKnown(f)
  PROVE  HttpInv'
<1>1. Handles(f) /\ Clean(f) /\ nconn' = nconn - 1 /\ nfail' = nfail /\ socks' = socks
  BY DEF OnKnown
<1>2. Tables' /\ LeakInv' /\ Consistent' /\ nconn' \in 0..maxconn
  BY <1>1, HttpEvent, Cleaned
<1>3. Counters' /\ DumpedOnce'
  <2>1. UNCHANGED <<down, cache_url, nadd, nfail, alive, dumped>>
    BY DEF OnKnown
  <2> QED BY <1>1, <1>2, <2>1, HttpEvent DEF Counters, DumpedOnce
<1> QED BY <1>2, <1>3 DEF HttpInv

LEMMA WatchedType ==
  ASSUME NEW n \in NetRec
  PROVE  /\ [n EXCEPT !.req = TRUE, !.reg = {"in"}] \in NetRec
         /\ [n EXCEPT !.req = TRUE, !.reg = {"in"}].st = n.st
<1>1. [n EXCEPT !.req = TRUE, !.reg = {"in"}] \in NetRec
  BY DEF NetRec
<1>2. [n EXCEPT !.req = TRUE, !.reg = {"in"}].st = n.st
  BY DEF NetRec
<1> QED BY <1>1, <1>2

LEMMA HttpWrite ==
  ASSUME HttpInv, NEW f \in Fd, OnWrite(f)
  PROVE  HttpInv'
<1>1. /\ Handles(f) /\ UNCHANGED <<down, cache_url, socks, nconn, nadd, nfail, alive, dumped>>
      /\ info' = [info EXCEPT ![socks[f]] = http_send_head(@)]
      /\ net' = [net EXCEPT ![f].req = TRUE, ![f].reg = {"in"}]
  BY DEF OnWrite
<1>2. PICK i \in Info : i = socks[f]
  BY <1>1, HttpEvent, Owner
<1>3. PICK e \in InfoRec : e = http_send_head(info[i])
  <2>1. info[i] \in InfoRec
    BY <1>1, HttpEvent
  <2> QED BY <2>1 DEF http_send_head, InfoRec, ANT_DUMP
<1>4. e.live = info[i].live /\ e.fd = info[i].fd /\ e.url = info[i].url
  <2>1. info[i] \in InfoRec
    BY <1>1, HttpEvent
  <2> QED BY <1>3, <2>1 DEF http_send_head, InfoRec
<1>5. /\ info' \in [Info -> InfoRec]
      /\ \A j \in Info : /\ info'[j].live = info[j].live /\ info'[j].fd = info[j].fd
                         /\ info'[j].url = info[j].url
  <2>1. info' = [info EXCEPT ![i] = e]
    BY <1>1, <1>2, <1>3
  <2>2. info \in [Info -> InfoRec]
    BY <1>1, HttpEvent
  <2> QED BY <1>4, <2>1, <2>2
<1>6. net' \in [Fd -> NetRec] /\ \A g \in Fd : net'[g].st = net[g].st
  <2>1. net \in [Fd -> NetRec]
    BY <1>1, HttpEvent
  <2>2. PICK m \in NetRec : m = net[f]
    BY <2>1
  <2>3. PICK n \in NetRec : n = [m EXCEPT !.req = TRUE, !.reg = {"in"}]
    BY WatchedType
  <2>4. n.st = net[f].st
    BY <2>2, <2>3, WatchedType
  <2>5. net' = [net EXCEPT ![f] = n]
    BY <1>1, <2>1, <2>2, <2>3
  <2> QED BY <2>1, <2>4, <2>5
<1>7. \A g \in Fd : ev'[g] # {} => net[g].st \in OpenSt
  BY <1>1, HttpEvent, Owner DEF Consistent
<1>8. Tables' /\ LeakInv' /\ Consistent'
  BY <1>1, <1>5, <1>6, <1>7, HttpEvent, KeptStep
<1>9. Counters' /\ DumpedOnce'
  BY <1>1, HttpEvent DEF Counters, DumpedOnce
<1> QED BY <1>8, <1>9 DEF HttpInv

\* Reading changes what is known of the answer, and nothing else of a connection.
Same(a, b) == a \in InfoRec /\ a.live = b.live /\ a.fd = b.fd /\ a.url = b.url
              /\ a.try = b.try

LEMMA HeadType ==
  ASSUME NEW h \in InfoRec, NEW n \in NetRec
  PROVE  Same(ReadHead(h, n), h)
<1>1. CASE "head" \in h.status
  BY <1>1 DEF ReadHead, Same
<1>4. CASE "head" \notin h.status /\ n.st = "reset"
  <2>1. PICK e \in InfoRec : e = [h EXCEPT !.mode = "close"]
    BY DEF InfoRec
  <2>2. e.live = h.live /\ e.fd = h.fd /\ e.url = h.url /\ e.try = h.try
    BY <2>1 DEF InfoRec
  <2> QED BY <1>4, <2>1, <2>2 DEF ReadHead, Same
<1>2. CASE ~("head" \in h.status \/ n.st = "reset") /\ n.stage < 2
  <2>1. PICK s \in SUBSET ANT_DUMP : s = h.status \union {"head"}
    BY DEF InfoRec, ANT_DUMP
  <2>2. ReadHead(h, n) = [h EXCEPT !.status = s, !.mode = "close"]
    BY <1>2, <2>1 DEF ReadHead
  <2>3. [h EXCEPT !.status = s, !.mode = "close"] \in InfoRec
    BY DEF InfoRec
  <2>4. PICK e \in InfoRec : e = [h EXCEPT !.status = s, !.mode = "close"]
    BY <2>3
  <2>5. e.live = h.live /\ e.fd = h.fd /\ e.url = h.url /\ e.try = h.try
    BY <2>4 DEF InfoRec
  <2> QED BY <2>2, <2>4, <2>5 DEF Same
<1>3. CASE ~("head" \in h.status \/ n.st = "reset") /\ ~(n.stage < 2)
  <2>1. PICK s \in SUBSET ANT_DUMP : s = h.status \union {"head"}
    BY DEF InfoRec, ANT_DUMP
  <2>2. PICK c \in Code \union {0} : c = IF h.lines THEN h.code ELSE n.code
    <3>1. h.code \in Code \union {0} /\ n.code \in Code \union {0}
      BY DEF InfoRec, NetRec
    <3> QED BY <3>1
  <2>3. PICK m \in Mode \union {"close"} : m = n.mode
    BY DEF NetRec
  <2>4. ReadHead(h, n) = [h EXCEPT !.status = s, !.mode = m, !.lines = TRUE, !.code = c]
    BY <1>3, <2>1, <2>2, <2>3 DEF ReadHead
  <2>5. [h EXCEPT !.status = s, !.mode = m, !.lines = TRUE, !.code = c] \in InfoRec
    BY DEF InfoRec
  <2>6. PICK e \in InfoRec :
          e = [h EXCEPT !.status = s, !.mode = m, !.lines = TRUE, !.code = c]
    BY <2>5
  <2>7. e.live = h.live /\ e.fd = h.fd /\ e.url = h.url /\ e.try = h.try
    BY <2>6 DEF InfoRec
  <2> QED BY <2>4, <2>6, <2>7 DEF Same
<1> QED BY <1>1, <1>2, <1>3, <1>4

\* The http_info for the next try, of one that has another try left.
LEMMA RetriedType ==
  ASSUME NEW h \in InfoRec, h.live, h.url \in Url, h.try < MaxTry
  PROVE  /\ Retried(h) \in InfoRec /\ Retried(h).fd = -1
         /\ Retried(h).live /\ Retried(h).url \in Url
<1>2. h.try \in 0..MaxTry
  BY DEF InfoRec
<1>3. PICK t \in 0..MaxTry : t = h.try + 1
  BY <1>2
<1>4. [h EXCEPT !.fd = -1, !.try = t, !.status = {}] \in InfoRec
  <2>1. -1 \in Fd \union {-1} /\ {} \in SUBSET ANT_DUMP
    OBVIOUS
  <2> QED BY <2>1 DEF InfoRec
<1>5. PICK r \in InfoRec : r = [h EXCEPT !.fd = -1, !.try = t, !.status = {}]
  BY <1>4
<1>6. r.fd = -1 /\ r.live /\ r.url \in Url
  BY <1>5 DEF InfoRec
<1>7. Retried(h) = r
  BY <1>3, <1>5 DEF Retried
<1> QED BY <1>6, <1>7

\* What do_error finds: the http_info of the event, perhaps with a head read.
LEMMA ErrorFinds ==
  ASSUME HttpInv, NEW f \in Fd, Handles(f), ~GivesUp(socks[f]),
         NEW o \in InfoRec, Same(o, info[socks[f]])
  PROVE  o.live /\ o.url \in Url /\ o.try < MaxTry /\ o.fd = f
<1>1. PICK h \in InfoRec : h = info[socks[f]]
  BY HttpEvent, Owner
<1>2. h.live /\ h.url \in Url /\ h.try < MaxTry /\ h.fd = f
  BY <1>1, HttpEvent, Owner DEF GivesUp, Live, InfoRec
<1> QED BY <1>1, <1>2 DEF Same

\* do_error, unless it gives up.
LEMMA HttpReopen ==
  ASSUME HttpInv, NEW f \in Fd, Handles(f), ~GivesUp(socks[f]),
         NEW o \in InfoRec, Same(o, info[socks[f]]),
         NEW k \in Outcome, Reopen(socks[f], o, k), nconn' = nconn
  PROVE  Tables' /\ LeakInv' /\ Consistent' /\ nfail' \in 0..MaxFail
<1>1. PICK i \in Info : i = socks[f]
  BY HttpEvent, Owner
<1>5. o.live /\ o.url \in Url /\ o.try < MaxTry /\ o.fd = f
  BY ErrorFinds
<1>2. PICK h \in InfoRec : h = Retried(o)
  BY <1>5, RetriedType
<1>3. h.fd = -1 /\ h.live /\ h.url \in Url
  BY <1>2, <1>5, RetriedType
<1>4. PICK sk, nt : sk = [socks EXCEPT ![f] = 0] /\ nt = [net EXCEPT ![f] = Closed]
  OBVIOUS
<1>6. DoCreate(i, h, sk, nt, k)
  BY <1>1, <1>2, <1>4, <1>5 DEF Reopen
<1>7. /\ sk \in [Fd -> Info \union {0}] /\ nt \in [Fd -> NetRec]
      /\ Sound(info, sk, nt, Live \ {i}) /\ f \in Free(nt)
  BY <1>1, <1>4, HttpEvent, Freed
<1>8. Live \ {i} \in SUBSET Info /\ i \notin Live \ {i} /\ Free(nt) # {}
  BY <1>7 DEF Live
<1>9. info \in [Info -> InfoRec] /\ nfail \in 0..MaxFail
  BY HttpEvent
<1>10. Renewed(i, h, nt, Live \ {i})
  BY <1>3, <1>6, <1>7, <1>8, <1>9, Creates
<1> QED BY <1>1, <1>3, <1>4, <1>10, HttpEvent, Reopened

LEMMA HttpError ==
  ASSUME HttpInv, NEW f \in Fd, NEW k \in Outcome, OnError(f, k) \/ OnBoth(f, k)
  PROVE  HttpInv'
<1>1. Handles(f) /\ UNCHANGED <<down, cache_url, nconn, nadd, dumped>>
  BY DEF OnError, OnBoth
<1>2. CASE GivesUp(socks[f])
  <2>1. alive' = FALSE /\ UNCHANGED <<info, socks, net, nfail>>
    BY <1>2 DEF OnError, OnBoth, Exit
  <2>2. Counters' /\ DumpedOnce'
    BY <1>1, <2>1, HttpEvent DEF Counters, DumpedOnce
  <2> QED BY <2>1, <2>2, HttpExit
<1>3. CASE ~GivesUp(socks[f])
  <2>1. PICK h \in InfoRec : h = info[socks[f]]
    BY <1>1, HttpEvent, Owner
  <2>4. PICK n \in NetRec : n = net[f]
    BY <1>1, HttpEvent
  <2>5. PICK e \in InfoRec : e = ReadHead(h, n) /\ Same(e, h)
    BY HeadType DEF Same
  <2>6. \E o \in {h, e} : Reopen(socks[f], o, k)
    BY <1>3, <2>1, <2>4, <2>5 DEF OnError, OnBoth
  <2>7. PICK o \in InfoRec : Same(o, h) /\ Reopen(socks[f], o, k)
    BY <2>5, <2>6 DEF Same
  <2>8. alive' \in BOOLEAN
    <3>1. alive \in BOOLEAN
      BY <1>1, HttpEvent DEF Counters
    <3> QED BY <1>3, <3>1 DEF OnError, OnBoth
  <2>2. Tables' /\ LeakInv' /\ Consistent' /\ nfail' \in 0..MaxFail
    BY <1>1, <1>3, <2>1, <2>7, HttpReopen
  <2>3. Counters' /\ DumpedOnce'
    BY <1>1, <2>2, <2>8, HttpEvent DEF Counters, DumpedOnce
  <2> QED BY <2>2, <2>3 DEF HttpInv
<1> QED BY <1>2, <1>3

LEMMA HttpWriteFails ==
  ASSUME HttpInv, NEW f \in Fd, OnWriteFails(f)
  PROVE  HttpInv'
<1>1. /\ Handles(f) /\ UNCHANGED <<down, cache_url, nconn, nadd, dumped>>
      /\ nfail < MaxFail /\ nfail' = nfail + 1
  BY DEF OnWriteFails
<1>2. nfail \in Nat /\ nfail' \in 0..MaxFail
  BY <1>1, HttpEvent
<1>3. CASE alive' = FALSE /\ UNCHANGED <<info, socks, net>>
  <2>1. Counters' /\ DumpedOnce'
    BY <1>1, <1>2, <1>3, HttpEvent DEF Counters, DumpedOnce
  <2> QED BY <1>1, <1>3, <2>1, HttpExit
<1>4. CASE ~(alive' = FALSE /\ UNCHANGED <<info, socks, net>>)
  <2>1. PICK sk, nt : sk = [socks EXCEPT ![f] = 0] /\ nt = [net EXCEPT ![f] = Closed]
    OBVIOUS
  <2>2. /\ sk \in [Fd -> Info \union {0}] /\ nt \in [Fd -> NetRec]
        /\ Sound(info, sk, nt, Live \ {socks[f]}) /\ f \in Free(nt)
    BY <1>1, <2>1, HttpEvent, Freed
  <2>3. PICK g \in Free(nt) : g = Min({d \in Fd : nt[d].st = "closed"})
    BY <2>2, Lowest
  <2>4. /\ ~GivesUp(socks[f]) /\ alive' = alive
        /\ info' = [info EXCEPT ![socks[f]] = [Retried(info[socks[f]]) EXCEPT !.fd = g]]
        /\ socks' = [sk EXCEPT ![g] = socks[f]]
        /\ net' = [nt EXCEPT ![g] = [Closed EXCEPT !.st = "connecting", !.reg = {"in"}]]
    BY <1>4, <2>1, <2>3 DEF OnWriteFails
  <2>5. PICK i \in Info : i = socks[f]
    BY <1>1, HttpEvent, Owner
  <2>14. PICK o \in InfoRec : o = info[i]
    BY <1>1, <2>5, HttpEvent, Owner
  <2>15. o.live /\ o.url \in Url /\ o.try < MaxTry
    <3>1. Same(o, info[socks[f]])
      BY <2>5, <2>14 DEF Same
    <3> QED BY <1>1, <2>4, <3>1, ErrorFinds
  <2>6. PICK h \in InfoRec : h = Retried(o)
    BY <2>15, RetriedType
  <2>7. h.live /\ h.url \in Url
    BY <2>6, <2>15, RetriedType
  <2>8. PICK r \in SUBSET {"in", "out"} : r = {"in"}
    OBVIOUS
  <2>9. /\ info' = [info EXCEPT ![i] = [h EXCEPT !.fd = g]] /\ socks' = [sk EXCEPT ![g] = i]
        /\ net' = [nt EXCEPT ![g] = [Closed EXCEPT !.st = "connecting", !.reg = r]]
    BY <2>4, <2>5, <2>6, <2>8, <2>14
  <2>10. Live \ {i} \in SUBSET Info /\ i \notin Live \ {i} /\ Sound(info, sk, nt, Live \ {i})
    BY <2>2, <2>5 DEF Live
  <2>11. /\ info \in [Info -> InfoRec] /\ nfail \in 0..MaxFail
         /\ nfail' \in {nfail, nfail + 1} \cap 0..MaxFail
    BY <1>1, <1>2, HttpEvent
  <2>12. Renewed(i, h, nt, Live \ {i})
    BY <2>2, <2>7, <2>9, <2>10, <2>11, Opens
  <2>13. Tables' /\ LeakInv' /\ Consistent'
    BY <1>1, <2>1, <2>5, <2>7, <2>12, HttpEvent, Reopened
  <2>16. Counters' /\ DumpedOnce'
    BY <1>1, <1>2, <2>4, HttpEvent DEF Counters, DumpedOnce
  <2> QED BY <2>13, <2>16 DEF HttpInv
<1> QED BY <1>3, <1>4

LEMMA BodyType ==
  ASSUME NEW h \in InfoRec, NEW n, NEW between
  PROVE  Same(ReadBody(h, n, between), h)
<1>1. CASE h.code = 200 /\ BodyComplete(h, n, between)
  <2>1. PICK s \in SUBSET ANT_DUMP : s = h.status \union {"body"}
    BY DEF InfoRec, ANT_DUMP
  <2>2. ReadBody(h, n, between) = [h EXCEPT !.status = s]
    BY <1>1, <2>1 DEF ReadBody
  <2>3. PICK e \in InfoRec : e = [h EXCEPT !.status = s]
    BY DEF InfoRec
  <2>4. e.live = h.live /\ e.fd = h.fd /\ e.url = h.url /\ e.try = h.try
    BY <2>3 DEF InfoRec
  <2> QED BY <2>2, <2>3, <2>4 DEF Same
<1>2. CASE ~(h.code = 200 /\ BodyComplete(h, n, between))
  BY <1>2 DEF ReadBody, Same
<1> QED BY <1>1, <1>2

LEMMA ReadType ==
  ASSUME NEW h \in InfoRec, NEW n \in NetRec, NEW between
  PROVE  Same(ReadBody(ReadHead(h, n), n, between), h)
<1>1. PICK e \in InfoRec : e = ReadHead(h, n)
  BY HeadType DEF Same
<1>2. Same(e, h) /\ Same(ReadBody(e, n, between), e)
  BY <1>1, HeadType, BodyType
<1> QED BY <1>1, <1>2 DEF Same

\* filter_add and html_dump keep the types of the queue and of the record of dumps.
LEMMA HttpRead ==
  ASSUME HttpInv, NEW f \in Fd, NEW between \in BOOLEAN, OnRead(f, between)
  PROVE  HttpInv'
<1>1. Handles(f) /\ ~Known(f) /\ UNCHANGED <<nfail, alive>>
  BY DEF OnRead
<1>2. PICK i \in Info : i = socks[f]
  BY <1>1, HttpEvent, Owner
<1>3. PICK o \in InfoRec : o = info[i]
  BY <1>1, <1>2, HttpEvent, Owner
<1>4. PICK h : h = ReadBody(ReadHead(info[socks[f]], net[f]), net[f], between)
  OBVIOUS
<1>5. Same(h, o)
  <2>1. PICK n \in NetRec : n = net[f]
    BY <1>1, HttpEvent
  <2> QED BY <1>2, <1>3, <1>4, <2>1, ReadType
<1>6. h \in InfoRec /\ h.live = o.live /\ h.fd = o.fd /\ h.url = o.url
  BY <1>5 DEF Same
<1>7. h.url \in Url /\ h.url \notin cache_url /\ h.url = info[socks[f]].url
  BY <1>1, <1>2, <1>3, <1>6, HttpEvent, Owner DEF Known
<1>8. PICK dump \in BOOLEAN : dump = (h.code = 200 /\ h.status = ANT_DUMP)
  OBVIOUS
<1>9. /\ dumped' = IF dump THEN [dumped EXCEPT ![h.url] = @ + 1] ELSE dumped
      /\ MayAdd \/ UNCHANGED <<down, nadd>>
      /\ \/ /\ socks' = [socks EXCEPT ![f] = 0] /\ cache_url' = cache_url \union {h.url}
            /\ Clean(f) /\ nconn' = nconn - 1
         \/ /\ ~dump /\ info' = [info EXCEPT ![socks[f]] = h]
            /\ UNCHANGED <<socks, net, nconn, cache_url>>
  <2>1. /\ dumped' = IF h.code = 200 /\ h.status = ANT_DUMP
                       THEN [dumped EXCEPT ![h.url] = @ + 1] ELSE dumped
        /\ IF (h.code = 200 /\ h.status = ANT_DUMP) \/ h.code = 301
             THEN MayAdd ELSE UNCHANGED <<down, nadd>>
        /\ IF h.status = ANT_DUMP \/ h.code # 200
             THEN /\ socks' = [socks EXCEPT ![f] = 0] /\ cache_url' = cache_url \union {h.url}
                  /\ Clean(f) /\ nconn' = nconn - 1
             ELSE /\ info' = [info EXCEPT ![socks[f]] = h]
                  /\ UNCHANGED <<socks, net, nconn, cache_url>>
    BY <1>4, Zenon DEF OnRead
  <2>2. dumped' = IF dump THEN [dumped EXCEPT ![h.url] = @ + 1] ELSE dumped
    BY <1>8, <2>1
  <2>3. MayAdd \/ UNCHANGED <<down, nadd>>
    BY <2>1
  <2>4. CASE h.status = ANT_DUMP \/ h.code # 200
    BY <2>1, <2>2, <2>3, <2>4
  <2>5. CASE ~(h.status = ANT_DUMP \/ h.code # 200)
    BY <1>8, <2>1, <2>2, <2>3, <2>5
  <2> QED BY <2>4, <2>5
<1>10. down' \in Seq(Url) /\ nadd' \in 0..MaxAdd
  <2>1. down \in Seq(Url) /\ nadd \in 0..MaxAdd
    BY <1>1, HttpEvent DEF Counters
  <2>2. CASE UNCHANGED <<down, nadd>>
    BY <2>1, <2>2
  <2>3. CASE ~UNCHANGED <<down, nadd>>
    <3>1. nadd < MaxAdd /\ nadd' = nadd + 1 /\ \E u \in Url : down' = Append(down, u)
      BY <1>9, <2>3 DEF MayAdd
    <3> QED BY <2>1, <3>1
  <2> QED BY <2>2, <2>3
<1>11. cache_url' \subseteq Url
  BY <1>1, <1>7, <1>9, HttpEvent DEF Counters
<1>12. dumped' \in [Url -> Nat] /\ DumpedOnce'
  <2>1. dumped \in [Url -> Nat] /\ \A u \in Url : dumped[u] <= 1 /\ (dumped[u] = 1 => u \in cache_url)
    BY <1>1, HttpEvent DEF Counters, DumpedOnce
  <2>2. dumped[h.url] = 0
    BY <1>7, <2>1
  <2>3. cache_url \subseteq cache_url'
    BY <1>9
  <2>4. CASE dump
    <3>1. h.url \in cache_url' /\ dumped' = [dumped EXCEPT ![h.url] = 1]
      BY <1>9, <2>2, <2>4
    <3> QED BY <1>7, <2>1, <2>3, <3>1 DEF DumpedOnce
  <2>5. CASE ~dump
    <3>1. dumped' = dumped
      BY <1>9, <2>5
    <3> QED BY <2>1, <2>3, <3>1 DEF DumpedOnce
  <2> QED BY <2>4, <2>5
<1>13. Tables' /\ LeakInv' /\ Consistent' /\ nconn' \in 0..maxconn
  <2>1. CASE socks' = [socks EXCEPT ![f] = 0] /\ Clean(f) /\ nconn' = nconn - 1
    BY <1>1, <2>1, HttpEvent, Cleaned
  <2>2. CASE info' = [info EXCEPT ![socks[f]] = h] /\ UNCHANGED <<socks, net, nconn>>
    <3>1. info \in [Info -> InfoRec] /\ net \in [Fd -> NetRec] /\ nfail \in Nat
      BY <1>1, HttpEvent
    <3>2. info' \in [Info -> InfoRec] /\ info'[i] = h /\ \A j \in Info : j # i => info'[j] = info[j]
      BY <1>2, <1>6, <2>2, <3>1
    <3>3. \A j \in Info : /\ info'[j].live = info[j].live /\ info'[j].fd = info[j].fd
                          /\ info'[j].url = info[j].url
      BY <1>3, <1>6, <3>2
    <3>4. \A g \in Fd : ev'[g] # {} => net[g].st \in OpenSt
      BY <1>1, HttpEvent, Owner DEF Consistent
    <3>5. Tables' /\ LeakInv' /\ Consistent'
      BY <1>1, <2>2, <3>1, <3>2, <3>3, <3>4, HttpEvent, KeptStep
    <3> QED BY <1>1, <2>2, <3>5, HttpEvent DEF Counters
  <2> QED BY <1>9, <2>1, <2>2
<1>14. Counters'
  BY <1>1, <1>10, <1>11, <1>12, <1>13, HttpEvent DEF Counters
<1> QED BY <1>12, <1>13, <1>14 DEF HttpInv

\* Whatever a peer does to an open connection, it stays open for the kernel.
LEMMA HttpPeer ==
  ASSUME HttpInv, NEW f \in Fd, Peer(f)
  PROVE  HttpInv'
<1>1. /\ alive /\ UNCHANGED <<down, cache_url, info, socks, nconn, pc, ntask, ev, nadd, alive, dumped>>
      /\ nfail' \in {nfail, nfail + 1} /\ nfail' \in 0..MaxFail /\ nfail \in Nat
  BY DEF Peer, Break, HttpInv, Counters
<1>2. Tables /\ Counters /\ LeakInv /\ Consistent /\ DumpedOnce /\ net \in [Fd -> NetRec]
  BY <1>1 DEF HttpInv, Tables
<1>3. PICK n \in NetRec : n = net[f]
  BY <1>2
<1>4. \E m \in NetRec : /\ net' = [net EXCEPT ![f] = m]
                        /\ n.st \in OpenSt /\ m.st \in OpenSt
  <2>1. CASE Connect(f)
    <3>1. PICK m \in NetRec : m = [n EXCEPT !.st = "up"]
      BY DEF NetRec
    <3>2. m.st = "up"
      BY <3>1 DEF NetRec
    <3> QED BY <1>3, <2>1, <3>1, <3>2 DEF Connect, OpenSt
  <2>2. CASE Respond(f)
    <3>1. n.st = "up" /\ n.stage \in 0..3
      BY <1>3, <2>2 DEF Respond, NetRec
    <3>2. PICK stage \in (n.stage + 1)..3, code \in Code, mode \in Mode :
            net' = [net EXCEPT ![f].stage = stage, ![f].code = code, ![f].mode = mode]
      BY <1>3, <2>2 DEF Respond
    <3>3. stage \in 0..3 /\ code \in Code \union {0} /\ mode \in Mode \union {"close"}
      BY <3>1
    <3>4. [n EXCEPT !.stage = stage, !.code = code, !.mode = mode] \in NetRec
      BY <3>3 DEF NetRec
    <3>5. PICK m \in NetRec : m = [n EXCEPT !.stage = stage, !.code = code, !.mode = mode]
      BY <3>4
    <3>6. m.st = "up"
      BY <3>1, <3>5 DEF NetRec
    <3>7. net' = [net EXCEPT ![f] = m]
      BY <1>2, <1>3, <3>2, <3>5
    <3> QED BY <3>1, <3>6, <3>7 DEF OpenSt
  <2>3. CASE net' = [net EXCEPT ![f].eof = TRUE] /\ n.st = "up"
    <3>1. PICK m \in NetRec : m = [n EXCEPT !.eof = TRUE]
      BY DEF NetRec
    <3>2. m.st = "up"
      BY <2>3, <3>1 DEF NetRec
    <3> QED BY <1>3, <2>3, <3>1, <3>2 DEF OpenSt
  <2>4. CASE net' = [net EXCEPT ![f].st = "reset"] /\ n.st \in {"connecting", "up"}
    <3>1. PICK m \in NetRec : m = [n EXCEPT !.st = "reset"]
      BY DEF NetRec
    <3>2. m.st = "reset"
      BY <3>1 DEF NetRec
    <3> QED BY <1>3, <2>4, <3>1, <3>2 DEF OpenSt
  <2> QED BY <1>3, <2>1, <2>2, <2>3, <2>4 DEF Peer, CloseAfter, Break
<1>5. PICK m \in NetRec : net' = [net EXCEPT ![f] = m] /\ n.st \in OpenSt /\ m.st \in OpenSt
  BY <1>4
<1>6. net' \in [Fd -> NetRec] /\ \A g \in Fd : net'[g] = IF g = f THEN m ELSE net[g]
  BY <1>2, <1>5
<1>7. \A g \in Fd : /\ net'[g].st \in OpenSt <=> net[g].st \in OpenSt
                    /\ net'[g].st = "leaked" <=> net[g].st = "leaked"
  <2>1. \A s \in OpenSt : s # "leaked"
    BY DEF OpenSt
  <2> QED BY <1>3, <1>5, <1>6, <2>1
<1>8. \A g \in Fd : ev'[g] # {} => net[g].st \in OpenSt
  BY <1>1, <1>2 DEF Consistent
<1>9. Tables' /\ LeakInv' /\ Consistent'
  <2>1. info \in [Info -> InfoRec]
    BY <1>2 DEF Tables
  <2> QED BY <1>1, <1>2, <1>6, <1>7, <1>8, <2>1, KeptStep
<1>10. Counters' /\ DumpedOnce'
  BY <1>1, <1>2 DEF Counters, DumpedOnce
<1> QED BY <1>9, <1>10 DEF HttpInv

LEMMA HttpStep ==
  ASSUME HttpInv, [Next]_vars
  PROVE  HttpInv'
<1> USE DEF HttpInv
<1>1. CASE UNCHANGED vars
  BY <1>1 DEF vars, Tables, Counters, LeakInv, Consistent, Live, DumpedOnce
<1>2. ASSUME NEW u \in Url, Supply(u) PROVE HttpInv'
  <2>1. /\ alive /\ nadd < MaxAdd /\ nadd' = nadd + 1 /\ down' = Append(down, u)
        /\ UNCHANGED <<cache_url, info, socks, nconn, pc, ntask, ev, net, nfail, alive, dumped>>
    BY <1>2 DEF Supply
  <2>2. Counters' /\ DumpedOnce'
    BY <1>2, <2>1 DEF Counters, DumpedOnce
  <2>3. \A g \in Fd : ev'[g] # {} => net[g].st \in OpenSt
    BY <2>1 DEF Consistent
  <2> QED BY <2>1, <2>2, <2>3, HttpQuiet
<1>3. CASE FillDone \/ EventsDone
  <2>1. /\ alive /\ pc' \in {"fill", "wait", "event"}
        /\ UNCHANGED <<down, cache_url, info, socks, nconn, ntask, ev, net, nadd, nfail, alive, dumped>>
    BY <1>3 DEF FillDone, EventsDone
  <2>2. Counters' /\ DumpedOnce'
    BY <2>1 DEF Counters, DumpedOnce
  <2>3. \A g \in Fd : ev'[g] # {} => net[g].st \in OpenSt
    BY <2>1 DEF Consistent
  <2> QED BY <2>1, <2>2, <2>3, HttpQuiet
<1>4. CASE Wait
  <2>1. /\ alive /\ pc' \in {"fill", "wait", "event"} /\ ntask' = NTask
        /\ ev' = [f \in Fd |-> Ready(f)]
        /\ UNCHANGED <<down, cache_url, info, socks, nconn, net, nadd, nfail, alive, dumped>>
    BY <1>4 DEF Wait
  <2>2. \A f \in Fd : /\ Ready(f) \in SUBSET {"in", "out", "err"}
                      /\ Ready(f) # {} => net[f].st \in OpenSt
    BY DEF Ready, OpenSt
  <2>3. Counters' /\ DumpedOnce'
    BY <2>1, <2>2 DEF Counters, DumpedOnce
  <2>4. \A g \in Fd : ev'[g] # {} => net[g].st \in OpenSt
    BY <2>1, <2>2
  <2> QED BY <2>1, <2>3, <2>4, HttpQuiet
<1>5. ASSUME NEW k \in Outcome, Fill(k) PROVE HttpInv'
  BY <1>5, HttpFill
<1>6. ASSUME NEW f \in Fd, OnKnown(f) PROVE HttpInv'
  BY <1>6, HttpKnown
<1>7. ASSUME NEW f \in Fd, OnWrite(f) PROVE HttpInv'
  BY <1>7, HttpWrite
<1>8. ASSUME NEW f \in Fd, OnWriteFails(f) PROVE HttpInv'
  BY <1>8, HttpWriteFails
<1>9. ASSUME NEW f \in Fd, NEW k \in Outcome, OnError(f, k) \/ OnBoth(f, k) PROVE HttpInv'
  BY <1>9, HttpError
<1>10. ASSUME NEW f \in Fd, NEW between \in BOOLEAN, OnRead(f, between) PROVE HttpInv'
  BY <1>10, HttpRead
<1>11. ASSUME NEW f \in Fd, Peer(f) PROVE HttpInv'
  BY <1>11, HttpPeer
<1> HIDE DEF HttpInv
<1> QED
  BY <1>1, <1>2, <1>3, <1>4, <1>5, <1>6, <1>7, <1>8, <1>9, <1>10, <1>11
  DEF Next, Loop, Exited

\* The parts of HttpInv hold in every state of the http thread's loop.
THEOREM HttpInvariant == Spec => []HttpInv
BY HttpInit, HttpStep, PTL DEF Spec

-----------------------------------------------------------------------------
(* What follows *)

\* The tables of the loop and the kernel's keep their types, and a connection is
\* never retried more often than do_error allows.
THEOREM HttpLoopTypeCorrect == Spec => []TypeOK
<1>1. HttpInv => TypeOK
  <2>1. SUFFICES ASSUME HttpInv PROVE TypeOK
    OBVIOUS
  <2>2. \A i \in DOMAIN down : down[i] \in Url
    BY <2>1 DEF HttpInv, Counters
  <2>3. info \in [Info -> InfoRec] /\ socks \in [Fd -> Info \union {0}] /\ net \in [Fd -> NetRec]
    BY <2>1 DEF HttpInv, Tables
  <2> QED BY <2>1, <2>2, <2>3 DEF HttpInv, Counters, TypeOK, InfoRec, NetRec
<1> QED BY <1>1, HttpInvariant, PTL

\* The exit of the loop on an event for a descriptor that is no longer the one of
\* its http_info is never taken, whatever earlier events closed or opened.
THEOREM HttpEventFindsConn == Spec => []EventFindsConn
<1>1. HttpInv => EventFindsConn
  <2>1. SUFFICES ASSUME HttpInv, alive, NEW f \in Fd, ev[f] # {} PROVE ~Stray(f)
    BY DEF EventFindsConn
  <2>2. socks[f] \in Live /\ info[socks[f]].fd = f
    BY <2>1 DEF HttpInv, Consistent, Sound
  <2>3. socks[f] # 0 /\ info[socks[f]].live
    BY <2>2, Numbers DEF Live
  <2> QED BY <2>2, <2>3 DEF Stray
<1> QED BY <1>1, HttpInvariant, PTL

\* nconn counts the http_infos in use, and descriptors lead to them one to one.
THEOREM HttpConnsCounted == Spec => []ConnsCounted
<1>1. HttpInv => ConnsCounted
  <2>1. SUFFICES ASSUME HttpInv, alive
        PROVE  /\ nconn = Cardinality(Live)
               /\ \A f \in Fd : net[f].st \in {"connecting", "up", "reset"}
                                  <=> \E i \in Live : info[i].fd = f /\ socks[f] = i
               /\ \A i, j \in Live : info[i].fd = info[j].fd => i = j \/ info[i].fd = -1
    BY DEF ConnsCounted
  <2>2. nconn = Cardinality(Live) /\ Sound(info, socks, net, Live)
    BY <2>1 DEF HttpInv, Consistent
  <2>3. ASSUME NEW f \in Fd
        PROVE  net[f].st \in OpenSt <=> \E i \in Live : info[i].fd = f /\ socks[f] = i
    BY <2>2, Numbers DEF Sound
  <2>4. ASSUME NEW i \in Live, NEW j \in Live, info[i].fd = info[j].fd, info[i].fd # -1
        PROVE  i = j
    BY <2>2, <2>4 DEF Sound
  <2> QED BY <2>2, <2>3, <2>4 DEF OpenSt
<1> QED BY <1>1, HttpInvariant, PTL

\* However many connections ask for the same url, html_dump writes its page once.
THEOREM HttpDumpedOnce == Spec => []DumpedOnce
<1>1. HttpInv => DumpedOnce
  BY DEF HttpInv
<1> QED BY <1>1, HttpInvariant, PTL
=============================================================================
