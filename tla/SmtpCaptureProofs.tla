-------------------------- MODULE SmtpCaptureProofs --------------------------
(***************************************************************************)
(* The two users of ant_hash.  use_libnids for any streams, buckets and    *)
(* data: the chains of the table keep the streams apart, a mail has what   *)
(* its stream sent unless another stream's QUIT came in between, and every *)
(* callback is a step of MailCapture.  The url filter of mini_ant, whose   *)
(* keys are arrays that are overwritten, for any urls, texts and buckets:  *)
(* which urls come twice, and which are lost.                              *)
(***************************************************************************)
EXTENDS SmtpCapture, AntPage, SequenceTheorems, FiniteSetTheorems, WellFoundedInduction,
        NaturalsInduction, TLAPS

-----------------------------------------------------------------------------
(* The parts of the invariant *)

Queue == Seq(Chunk)
Element == [key : Stream, val : Queue]

\* A chain: every element is in the bucket of its key, and no key is there twice.
IsChain(c, b) ==
  /\ c \in Seq(Element)
  /\ \A i \in DOMAIN c : Hash[c[i].key] = b
  /\ \A i, j \in DOMAIN c : c[i].key = c[j].key => i = j

IsTable(t) ==
  /\ t = [chain |-> t.chain, length |-> t.length]
  /\ t.chain = [b \in 0..(M - 1) |-> t.chain[b]]
  /\ \A b \in 0..(M - 1) : IsChain(t.chain[b], b)

Types ==
  /\ IsTable(table) /\ status \in {"INIT", "BEGIN", "DOWNLOAD"}
  /\ nsent \in [Stream -> 0..MaxData] /\ now \in 0..MaxTime /\ crashed \in BOOLEAN
  /\ since \in [Stream -> Queue] /\ disturbed \subseteq Stream

\* While the process lives, DOWNLOAD lasts only as long as a callback, and a mail that
\* does not grow any more has been disturbed.
StatusInv ==
  ~crashed => /\ status # "DOWNLOAD"
              /\ status = "INIT" => \A s \in Stream : Mail[s] # NULL => s \in disturbed

CaptureInv == Types /\ StatusInv /\ MailStays /\ HoleNeedsQuit

-----------------------------------------------------------------------------
(* The table of chains *)

LEMMA Constants ==
  /\ M \in Nat \ {0} /\ Hash \in [Stream -> 0..(M - 1)] /\ MaxData \in Nat /\ MaxTime \in Nat
  /\ NULL \notin Queue /\ <<>> \in Queue /\ \A s \in Stream : Own[s] = s
  BY SmtpAssumption, QueueAssumption DEF SmtpAssumption, QueueAssumption, Queue, Own

\* What the removal of an element leaves.
LEMMA RemoveItems ==
  ASSUME NEW S, NEW q \in Seq(S), NEW k \in DOMAIN q
  PROVE  /\ H!RemoveAt(q, k) \in Seq(S)
         /\ \A i \in DOMAIN H!RemoveAt(q, k) :
              \E j \in DOMAIN q : j # k /\ H!RemoveAt(q, k)[i] = q[j] /\ j = IF i < k THEN i ELSE i + 1
         /\ \A j \in DOMAIN q : j # k => \E i \in DOMAIN H!RemoveAt(q, k) : H!RemoveAt(q, k)[i] = q[j]
<1>1. Len(q) \in Nat /\ DOMAIN q = 1..Len(q) /\ k \in 1..Len(q)
  BY LenProperties
<1>2. PICK a : a = SubSeq(q, 1, k - 1)
  OBVIOUS
<1>3. PICK b : b = SubSeq(q, k + 1, Len(q))
  OBVIOUS
<1>4. a \in Seq(S) /\ Len(a) = k - 1 /\ \A i \in 1..(k - 1) : a[i] = q[i]
  BY <1>1, <1>2, SubSeqProperties
<1>5. b \in Seq(S) /\ Len(b) = Len(q) - k /\ \A i \in 1..(Len(q) - k) : b[i] = q[k + i]
  BY <1>1, <1>3, SubSeqProperties
<1>6. PICK r : r = H!RemoveAt(q, k)
  OBVIOUS
<1>7. r = a \o b
  BY <1>2, <1>3, <1>6 DEF H!RemoveAt
<1>8. /\ r \in Seq(S) /\ Len(r) = Len(q) - 1 /\ DOMAIN r = 1..(Len(q) - 1)
      /\ \A i \in 1..(Len(q) - 1) : r[i] = IF i < k THEN q[i] ELSE q[i + 1]
  <2>1. /\ r \in Seq(S) /\ Len(r) = Len(a) + Len(b)
        /\ \A i \in 1..(Len(a) + Len(b)) : r[i] = IF i <= Len(a) THEN a[i] ELSE b[i - Len(a)]
    BY <1>4, <1>5, <1>7, ConcatProperties
  <2>2. Len(a) + Len(b) = Len(q) - 1
    BY <1>1, <1>4, <1>5
  <2>3. ASSUME NEW i \in 1..(Len(q) - 1) PROVE r[i] = IF i < k THEN q[i] ELSE q[i + 1]
    <3>1. CASE i < k
      BY <1>1, <1>4, <2>1, <2>2, <3>1
    <3>2. CASE ~(i < k)
      <4>1. i - (k - 1) \in 1..(Len(q) - k) /\ k + (i - (k - 1)) = i + 1
        BY <1>1, <3>2
      <4>2. r[i] = b[i - (k - 1)]
        BY <1>1, <1>4, <2>1, <2>2, <3>2
      <4> QED
        BY <1>5, <3>2, <4>1, <4>2
    <3> QED
      BY <3>1, <3>2
  <2> QED
    BY <2>1, <2>2, <2>3, LenProperties
<1>9. ASSUME NEW i \in DOMAIN r
      PROVE  \E j \in DOMAIN q : j # k /\ r[i] = q[j] /\ j = IF i < k THEN i ELSE i + 1
  <2>1. CASE i < k
    BY <1>1, <1>8, <2>1
  <2>2. CASE ~(i < k)
    <3>1. i + 1 \in DOMAIN q /\ i + 1 # k /\ r[i] = q[i + 1]
      BY <1>1, <1>8, <2>2
    <3> QED
      BY <2>2, <3>1
  <2> QED
    BY <2>1, <2>2
<1>10. ASSUME NEW j \in DOMAIN q, j # k PROVE \E i \in DOMAIN r : r[i] = q[j]
  <2>1. CASE j < k
    BY <1>1, <1>8, <2>1
  <2>2. CASE ~(j < k)
    <3>1. j - 1 \in DOMAIN r /\ ~(j - 1 < k) /\ (j - 1) + 1 = j
      BY <1>1, <1>8, <1>10, <2>2
    <3> QED
      BY <1>1, <1>8, <3>1
  <2> QED
    BY <2>1, <2>2
<1> QED
  BY <1>6, <1>8, <1>9, <1>10

LEMMA ChainItems ==
  ASSUME NEW c \in Seq(Element)
  PROVE  /\ Len(c) \in Nat /\ DOMAIN c = 1..Len(c)
         /\ \A i \in DOMAIN c : c[i] \in Element /\ c[i].key \in Stream /\ c[i].val \in Queue
<1>1. Len(c) \in Nat /\ DOMAIN c = 1..Len(c)
  BY LenProperties
<1>2. \A i \in DOMAIN c : c[i] \in Element
  BY <1>1, ElementOfSeq
<1> QED
  BY <1>1, <1>2 DEF Element

\* Where a chain has the key of a stream.
Has(t, s, i) == i \in DOMAIN t.chain[Hash[s]] /\ t.chain[Hash[s]][i].key = s

LEMMA Found ==
  ASSUME NEW t, IsTable(t), NEW s \in Stream
  PROVE  H!ant_lookup(t.chain[Hash[s]], Own, s) = {i \in DOMAIN t.chain[Hash[s]] : t.chain[Hash[s]][i].key = s}
<1> DEFINE c == t.chain[Hash[s]]
<1>1. Hash[s] \in 0..(M - 1) /\ c \in Seq(Element)
  BY Constants DEF IsTable, IsChain
<1>2. Len(c) \in Nat /\ DOMAIN c = 1..Len(c) /\ \A i \in DOMAIN c : c[i].key \in Stream
  BY <1>1, ChainItems
<1>3. \A i, j \in DOMAIN c : c[i].key = c[j].key => i = j
  BY <1>1 DEF IsTable, IsChain
<1> HIDE DEF c
<1>4. ASSUME NEW i \in DOMAIN c, c[i].key = s, NEW j \in 1..(i - 1) PROVE Own[c[j].key] # Own[s]
  <2>1. j \in DOMAIN c /\ j # i
    BY <1>2
  <2> QED
    BY <1>2, <1>3, <1>4, <2>1, Constants
<1>5. \A i \in DOMAIN c : Own[c[i].key] = Own[s] <=> c[i].key = s
  BY <1>2, Constants
<1>6. H!ant_lookup(c, Own, s) = {i \in DOMAIN c : c[i].key = s}
  BY <1>4, <1>5 DEF H!ant_lookup
<1> QED
  BY <1>6 DEF c

\* A lookup finds what the chain has, and nothing else.
LEMMA GetFound ==
  ASSUME NEW t, IsTable(t), NEW s \in Stream, NEW i, Has(t, s, i)
  PROVE  hash_get(t, s) = t.chain[Hash[s]][i].val /\ hash_get(t, s) \in Queue /\ hash_get(t, s) # NULL
<1>1. PICK c : c = t.chain[Hash[s]]
  OBVIOUS
<1>2. c \in Seq(Element) /\ Own[s] = s
  BY <1>1, Constants DEF IsTable, IsChain
<1>3. H!ant_lookup(c, Own, s) = {i}
  <2>1. \A j \in DOMAIN c : c[j].key = s => j = i
    BY <1>1, Constants DEF IsTable, IsChain, Has
  <2>2. i \in DOMAIN c /\ c[i].key = s
    BY <1>1 DEF Has
  <2>3. {j \in DOMAIN c : c[j].key = s} = {i}
    BY <2>1, <2>2
  <2> QED
    BY <1>1, <2>3, Found
<1>4. hash_get(t, s) = c[CHOOSE k \in {i} : TRUE].val
  BY <1>1, <1>2, <1>3 DEF hash_get, H!ant_hash_get, H!ChainOf
<1>5. c[i].val \in Queue
  BY <1>1, <1>2, ChainItems DEF Has
<1> QED
  BY <1>1, <1>4, <1>5, Constants

LEMMA GetAbsent ==
  ASSUME NEW t, IsTable(t), NEW s \in Stream, \A i : ~Has(t, s, i)
  PROVE  hash_get(t, s) = NULL
<1>1. H!ant_lookup(t.chain[Hash[s]], Own, s) = {}
  BY Found DEF Has
<1> QED
  BY <1>1, Constants DEF hash_get, H!ant_hash_get, H!ChainOf

LEMMA GetType ==
  ASSUME NEW t, IsTable(t), NEW s \in Stream
  PROVE  hash_get(t, s) \in Queue \cup {NULL} /\ (hash_get(t, s) # NULL <=> \E i : Has(t, s, i))
  BY GetFound, GetAbsent

\* Two tables that have the same elements for a stream answer the same.
LEMMA SameGet ==
  ASSUME NEW t, IsTable(t), NEW u, IsTable(u), NEW s \in Stream,
         \A i : Has(t, s, i) => \E j : Has(u, s, j) /\ u.chain[Hash[s]][j].val = t.chain[Hash[s]][i].val,
         \A j : Has(u, s, j) => \E i : Has(t, s, i)
  PROVE  hash_get(u, s) = hash_get(t, s)
<1>1. CASE \E i : Has(t, s, i)
  BY <1>1, GetFound
<1>2. CASE \A i : ~Has(t, s, i)
  BY <1>2, GetAbsent
<1> QED
  BY <1>1, <1>2

\* Table u is t with another chain in bucket b.
Replaced(t, u, b, d) ==
  u.chain = [t.chain EXCEPT ![b] = d] /\ u = [chain |-> u.chain, length |-> u.length]

LEMMA OtherChain ==
  ASSUME NEW t, IsTable(t), NEW b \in 0..(M - 1), NEW d, IsChain(d, b), NEW u,
         Replaced(t, u, b, d)
  PROVE  IsTable(u) /\ u.chain[b] = d /\ \A a \in 0..(M - 1) : a # b => u.chain[a] = t.chain[a]
<1>1. DOMAIN t.chain = 0..(M - 1)
  BY DEF IsTable
<1>2. /\ u.chain = [a \in 0..(M - 1) |-> u.chain[a]] /\ u.chain[b] = d
      /\ \A a \in 0..(M - 1) : a # b => u.chain[a] = t.chain[a]
  BY <1>1 DEF Replaced
<1>4. \A a \in 0..(M - 1) : IsChain(u.chain[a], a)
  BY <1>2 DEF IsTable
<1> QED
  BY <1>2, <1>4 DEF IsTable, Replaced

\* ant_hash_put stores the queue of its stream and leaves those of the others.
LEMMA PutGet ==
  ASSUME NEW t, IsTable(t), NEW s \in Stream, NEW v \in Queue, NEW u, u = hash_put(t, s, v)
  PROVE  /\ IsTable(u) /\ hash_get(u, s) = v
         /\ \A r \in Stream : r # s => hash_get(u, r) = hash_get(t, r)
<1>1. PICK b \in 0..(M - 1) : b = Hash[s]
  BY Constants
<1>2. PICK c \in Seq(Element) : c = t.chain[b] /\ IsChain(c, b)
  BY DEF IsTable, IsChain
<1>3. /\ Len(c) \in Nat /\ DOMAIN c = 1..Len(c)
      /\ \A i \in DOMAIN c : c[i] \in Element /\ c[i].key \in Stream /\ c[i].val \in Queue /\ Hash[c[i].key] = b
      /\ \A i, j \in DOMAIN c : c[i].key = c[j].key => i = j
  BY <1>2, ChainItems DEF IsChain
<1>4. PICK at : at = {i \in DOMAIN c : c[i].key = s}
  OBVIOUS
<1>5. H!ant_lookup(c, Own, s) = at /\ Own[s] = s
  BY <1>1, <1>2, <1>4, Found, Constants
<1>0. [key |-> s, val |-> v] \in Element
  BY DEF Element
<1>6. PICK e \in Element : e = [key |-> s, val |-> v] /\ e.key = s /\ e.val = v
  BY <1>0
<1>7. CASE at = {}
  <2>1. u = [chain |-> [t.chain EXCEPT ![b] = <<e>> \o c], length |-> t.length + 1]
    BY <1>1, <1>2, <1>5, <1>6, <1>7 DEF hash_put, H!ant_hash_put
  <2>2. PICK d : d = <<e>> \o c
    OBVIOUS
  <2>3. /\ d \in Seq(Element) /\ DOMAIN d = 1..(Len(c) + 1) /\ d[1] = e
        /\ \A i \in 1..Len(c) : d[i + 1] = c[i]
        /\ \A i \in 2..(Len(c) + 1) : i - 1 \in DOMAIN c /\ d[i] = c[i - 1]
    <3>1. PICK o \in Seq(Element) : o = <<e>> /\ Len(o) = 1 /\ o[1] = e
      <4>1. <<e>> \in Seq(Element) /\ Len(<<e>>) = 1 /\ <<e>>[1] = e
        OBVIOUS
      <4> QED
        BY <4>1
    <3>2. /\ d \in Seq(Element) /\ Len(d) = 1 + Len(c)
          /\ \A i \in 1..(1 + Len(c)) : d[i] = IF i <= 1 THEN o[i] ELSE c[i - 1]
      BY <2>2, <3>1, ConcatProperties
    <3>3. DOMAIN d = 1..(Len(c) + 1)
      BY <1>3, <3>2, LenProperties
    <3>4. \A i \in 2..(Len(c) + 1) : i - 1 \in DOMAIN c /\ d[i] = c[i - 1]
      BY <1>3, <3>2
    <3>5. \A i \in 1..Len(c) : i + 1 \in 2..(Len(c) + 1) /\ (i + 1) - 1 = i
      BY <1>3
    <3>6. \A i \in 1..Len(c) : d[i + 1] = c[i]
      BY <3>4, <3>5
    <3> QED
      BY <1>3, <3>1, <3>2, <3>3, <3>4, <3>6
  <2>4. \A i \in DOMAIN d : i = 1 \/ i \in 2..(Len(c) + 1)
    BY <1>3, <2>3
  <2>5. \A i \in DOMAIN c : c[i].key # s
    BY <1>4, <1>7
  <2>6. \A i \in DOMAIN d : Hash[d[i].key] = b
    <3> TAKE i \in DOMAIN d
    <3>1. CASE i = 1
      BY <1>1, <1>6, <2>3, <3>1
    <3>2. CASE i \in 2..(Len(c) + 1)
      BY <1>3, <2>3, <3>2
    <3> QED
      BY <2>4, <3>1, <3>2
  <2>7. \A i, j \in DOMAIN d : d[i].key = d[j].key => i = j
    <3> TAKE i, j \in DOMAIN d
    <3>1. CASE i # 1 /\ j # 1
      <4>1. /\ i - 1 \in DOMAIN c /\ d[i] = c[i - 1] /\ i \in Nat
            /\ j - 1 \in DOMAIN c /\ d[j] = c[j - 1] /\ j \in Nat
        BY <1>3, <2>3, <2>4, <3>1
      <4>2. d[i].key = d[j].key => i - 1 = j - 1
        BY <1>3, <4>1
      <4> QED
        BY <4>1, <4>2
    <3> QED
      BY <1>6, <2>3, <2>4, <2>5, <3>1
  <2>20. IsChain(d, b)
    BY <2>3, <2>6, <2>7 DEF IsChain
  <2>8. IsTable(u) /\ u.chain[b] = d /\ \A a \in 0..(M - 1) : a # b => u.chain[a] = t.chain[a]
    <3>1. Replaced(t, u, b, d)
      BY <2>1, <2>2 DEF Replaced
    <3> QED
      BY <2>20, <3>1, OtherChain
  <2>9. Has(u, s, 1)
    BY <1>1, <1>6, <1>3, <2>3, <2>8 DEF Has
  <2>10. hash_get(u, s) = v
    BY <1>1, <1>6, <2>3, <2>8, <2>9, GetFound
  <2>11. ASSUME NEW r \in Stream, r # s PROVE hash_get(u, r) = hash_get(t, r)
    <3>1. CASE Hash[r] # b
      <4>1. Hash[r] \in 0..(M - 1)
        BY Constants
      <4>2. u.chain[Hash[r]] = t.chain[Hash[r]]
        BY <2>8, <3>1, <4>1
      <4> QED
        BY <2>8, <4>2, SameGet DEF Has
    <3>2. CASE Hash[r] = b
      <4>1. ASSUME NEW i, Has(t, r, i) PROVE Has(u, r, i + 1) /\ u.chain[b][i + 1].val = t.chain[b][i].val
        <5>1. i \in 1..Len(c) /\ c[i].key = r /\ i + 1 \in DOMAIN d /\ d[i + 1] = c[i]
          BY <1>2, <1>3, <2>3, <3>2, <4>1 DEF Has
        <5> QED
          BY <1>2, <2>8, <3>2, <5>1 DEF Has
      <4>2. ASSUME NEW j, Has(u, r, j) PROVE Has(t, r, j - 1)
        BY <1>2, <1>6, <2>3, <2>4, <2>8, <2>11, <3>2, <4>2 DEF Has
      <4> QED
        BY <2>8, <3>2, <4>1, <4>2, SameGet
    <3> QED
      BY <3>1, <3>2
  <2> QED
    BY <2>8, <2>10, <2>11
<1>8. CASE at # {}
  <2>1. PICK d : d = [i \in DOMAIN c |-> IF i \in at THEN [c[i] EXCEPT !.val = v] ELSE c[i]]
    OBVIOUS
  <2>2. u = [chain |-> [t.chain EXCEPT ![b] = d], length |-> t.length]
    <3>1. u = [t EXCEPT !.chain[b] = d]
      BY <1>1, <1>2, <1>5, <1>8, <2>1 DEF hash_put, H!ant_hash_put
    <3> QED
      BY <3>1 DEF IsTable
  <2>3. \A i \in DOMAIN c : [c[i] EXCEPT !.val = v] \in Element /\ [c[i] EXCEPT !.val = v].key = c[i].key
                            /\ [c[i] EXCEPT !.val = v].val = v
    BY <1>3 DEF Element
  <2>4. /\ DOMAIN d = DOMAIN c /\ \A i \in DOMAIN c : d[i] \in Element /\ d[i].key = c[i].key
        /\ \A i \in at : d[i].val = v
        /\ \A i \in DOMAIN c : i \notin at => d[i] = c[i]
    BY <1>3, <1>4, <2>1, <2>3
  <2>5. d \in Seq(Element)
    <3>1. d \in [1..Len(c) -> Element]
      BY <1>3, <2>1, <2>4
    <3> QED
      BY <1>3, <3>1, SeqDef
  <2>6. IsTable(u) /\ u.chain[b] = d /\ \A a \in 0..(M - 1) : a # b => u.chain[a] = t.chain[a]
    <3>1. \A i \in DOMAIN d : Hash[d[i].key] = b
      BY <1>3, <2>4
    <3>2. \A i, j \in DOMAIN d : d[i].key = d[j].key => i = j
      BY <1>3, <2>4
    <3> QED
      <4>1. IsChain(d, b)
        BY <2>5, <3>1, <3>2 DEF IsChain
      <4> QED
        <5>1. Replaced(t, u, b, d)
          BY <2>2 DEF Replaced
        <5> QED
          BY <4>1, <5>1, OtherChain
  <2>7. PICK i \in at : TRUE
    BY <1>8
  <2>8. Has(u, s, i) /\ d[i].val = v
    BY <1>1, <1>4, <2>4, <2>6, <2>7 DEF Has
  <2>9. hash_get(u, s) = v
    BY <1>1, <2>6, <2>8, GetFound
  <2>10. ASSUME NEW r \in Stream, r # s PROVE hash_get(u, r) = hash_get(t, r)
    <3>1. CASE Hash[r] # b
      <4>1. Hash[r] \in 0..(M - 1)
        BY Constants
      <4>2. u.chain[Hash[r]] = t.chain[Hash[r]]
        BY <2>6, <3>1, <4>1
      <4> QED
        BY <2>6, <4>2, SameGet DEF Has
    <3>2. CASE Hash[r] = b
      <4>1. \A k : Has(t, r, k) => Has(u, r, k) /\ u.chain[Hash[r]][k].val = t.chain[Hash[r]][k].val
        BY <1>2, <1>4, <2>4, <2>6, <2>10, <3>2 DEF Has
      <4>2. \A k : Has(u, r, k) => Has(t, r, k)
        BY <1>2, <2>4, <2>6, <3>2 DEF Has
      <4> QED
        BY <2>6, <4>1, <4>2, SameGet
    <3> QED
      BY <3>1, <3>2
  <2> QED
    BY <2>6, <2>9, <2>10
<1> QED
  BY <1>7, <1>8

\* ant_hash_del takes out the queue of its stream and no other.
LEMMA DelGet ==
  ASSUME NEW t, IsTable(t), NEW s \in Stream, NEW u, u = hash_del(t, s)
  PROVE  /\ IsTable(u) /\ hash_get(u, s) = NULL
         /\ \A r \in Stream : r # s => hash_get(u, r) = hash_get(t, r)
<1>1. PICK b \in 0..(M - 1) : b = Hash[s]
  BY Constants
<1>2. PICK c \in Seq(Element) : c = t.chain[b] /\ IsChain(c, b)
  BY DEF IsTable, IsChain
<1>3. /\ Len(c) \in Nat /\ DOMAIN c = 1..Len(c)
      /\ \A i \in DOMAIN c : c[i] \in Element /\ c[i].key \in Stream /\ c[i].val \in Queue /\ Hash[c[i].key] = b
      /\ \A i, j \in DOMAIN c : c[i].key = c[j].key => i = j
  BY <1>2, ChainItems DEF IsChain
<1>4. PICK at : at = {i \in DOMAIN c : c[i].key = s}
  OBVIOUS
<1>5. H!ant_lookup(c, Own, s) = at /\ Own[s] = s
  BY <1>1, <1>2, <1>4, Found, Constants
<1>6. CASE at = {}
  <2>1. u = t
    <3>1. H!ant_hash_del(t, Hash, Own, s) = t
      BY <1>1, <1>2, <1>5, <1>6 DEF H!ant_hash_del
    <3> QED
      BY <3>1 DEF hash_del, IsTable
  <2>2. \A i : ~Has(t, s, i)
    BY <1>1, <1>2, <1>4, <1>6 DEF Has
  <2> QED
    BY <2>1, <2>2, GetAbsent
<1>7. CASE at # {}
  <2>1. PICK k \in DOMAIN c : at = {k} /\ c[k].key = s
    BY <1>3, <1>4, <1>7
  <2>2. PICK d : d = H!RemoveAt(c, k)
    OBVIOUS
  <2>3. u = [chain |-> [t.chain EXCEPT ![b] = d], length |-> t.length]
    <3>1. (CHOOSE i \in at : TRUE) = k
      BY <2>1
    <3>2. H!ant_hash_del(t, Hash, Own, s) = [chain |-> [t.chain EXCEPT ![b] = d], length |-> t.length - 1]
      BY <1>1, <1>2, <1>5, <1>7, <2>2, <3>1 DEF H!ant_hash_del
    <3> QED
      BY <3>2 DEF hash_del
  <2>4. /\ d \in Seq(Element)
        /\ \A i \in DOMAIN d : \E j \in DOMAIN c : j # k /\ d[i] = c[j] /\ j = IF i < k THEN i ELSE i + 1
        /\ \A j \in DOMAIN c : j # k => \E i \in DOMAIN d : d[i] = c[j]
    BY <2>2, RemoveItems
  <2>5. \A i, j \in DOMAIN d : d[i].key = d[j].key => i = j
    <3>1. \A i \in DOMAIN d : i \in Nat
      BY <2>4, LenProperties
    <3> TAKE i, j \in DOMAIN d
    <3>2. PICK x \in DOMAIN c : d[i] = c[x] /\ x = IF i < k THEN i ELSE i + 1
      BY <2>4
    <3>3. PICK y \in DOMAIN c : d[j] = c[y] /\ y = IF j < k THEN j ELSE j + 1
      BY <2>4
    <3>4. d[i].key = d[j].key => x = y
      BY <1>3, <3>2, <3>3
    <3>5. x = y => i = j
      BY <1>3, <3>1, <3>2, <3>3
    <3> QED
      BY <3>4, <3>5
  <2>6. IsTable(u) /\ u.chain[b] = d /\ \A a \in 0..(M - 1) : a # b => u.chain[a] = t.chain[a]
    <3>1. \A i \in DOMAIN d : Hash[d[i].key] = b
      BY <1>3, <2>4
    <3> QED
      <4>1. IsChain(d, b)
        BY <2>4, <2>5, <3>1 DEF IsChain
      <4> QED
        <5>1. Replaced(t, u, b, d)
          BY <2>3 DEF Replaced
        <5> QED
          BY <4>1, <5>1, OtherChain
  <2>7. \A i \in DOMAIN d : d[i].key # s
    BY <1>3, <2>1, <2>4
  <2>8. hash_get(u, s) = NULL
    <3>1. \A i : ~Has(u, s, i)
      BY <1>1, <2>6, <2>7 DEF Has
    <3> QED
      BY <2>6, <3>1, GetAbsent
  <2>9. ASSUME NEW r \in Stream, r # s PROVE hash_get(u, r) = hash_get(t, r)
    <3>1. CASE Hash[r] # b
      <4>1. Hash[r] \in 0..(M - 1)
        BY Constants
      <4>2. u.chain[Hash[r]] = t.chain[Hash[r]]
        BY <2>6, <3>1, <4>1
      <4> QED
        BY <2>6, <4>2, SameGet DEF Has
    <3>2. CASE Hash[r] = b
      <4>1. ASSUME NEW i, Has(t, r, i)
            PROVE  \E j : Has(u, r, j) /\ u.chain[Hash[r]][j].val = t.chain[Hash[r]][i].val
        <5>1. i \in DOMAIN c /\ i # k /\ c[i].key = r
          BY <1>2, <2>1, <2>9, <3>2, <4>1 DEF Has
        <5>2. PICK j \in DOMAIN d : d[j] = c[i]
          BY <2>4, <5>1
        <5> QED
          BY <1>2, <2>6, <3>2, <5>1, <5>2 DEF Has
      <4>2. ASSUME NEW j, Has(u, r, j) PROVE \E i : Has(t, r, i)
        <5>1. j \in DOMAIN d /\ d[j].key = r
          BY <2>6, <3>2, <4>2 DEF Has
        <5>2. PICK i \in DOMAIN c : d[j] = c[i]
          BY <2>4, <5>1
        <5>3. Has(t, r, i)
          BY <1>2, <3>2, <5>1, <5>2 DEF Has
        <5> QED
          BY <5>3
      <4> QED
        BY <2>6, <4>1, <4>2, SameGet
    <3> QED
      BY <3>1, <3>2
  <2> QED
    BY <2>6, <2>8, <2>9
<1> QED
  BY <1>6, <1>7

-----------------------------------------------------------------------------
(* Every callback *)

LEMMA MailIs ==
  /\ \A s \in Stream : Mail[s] = hash_get(table, s)
  /\ \A s \in Stream : Mail'[s] = hash_get(table', s)
  BY DEF Mail

LEMMA InitCapture == SmtpInit => CaptureInv
<1> SUFFICES ASSUME SmtpInit PROVE CaptureInv
  OBVIOUS
<1>1. table = [chain |-> [b \in 0..(M - 1) |-> <<>>], length |-> 0]
  BY DEF SmtpInit, H!ant_hash_new
<1>2. IsTable(table)
  <2>1. \A b \in 0..(M - 1) : table.chain[b] = <<>>
    BY <1>1
  <2>2. \A b \in 0..(M - 1) : IsChain(table.chain[b], b)
    <3>1. <<>> \in Seq(Element) /\ DOMAIN <<>> = {}
      OBVIOUS
    <3>2. \A b \in 0..(M - 1) : IsChain(<<>>, b)
      BY <3>1 DEF IsChain
    <3> QED
      BY <2>1, <3>2
  <2>3. table = [chain |-> table.chain, length |-> table.length]
        /\ table.chain = [b \in 0..(M - 1) |-> table.chain[b]]
    BY <1>1
  <2> QED
    BY <2>2, <2>3 DEF IsTable
<1>3. \A s \in Stream : Mail[s] = NULL
  <2> TAKE s \in Stream
  <2>1. \A i : ~Has(table, s, i)
    BY <1>1, Constants DEF Has
  <2> QED
    BY <1>2, <2>1, GetAbsent, MailIs
<1>4. Types
  <2>1. nsent \in [Stream -> 0..MaxData] /\ now \in 0..MaxTime /\ status \in {"INIT", "BEGIN", "DOWNLOAD"}
    BY Constants DEF SmtpInit
  <2>2. since \in [Stream -> Queue]
    BY Constants DEF SmtpInit
  <2> QED
    BY <1>2, <2>1, <2>2 DEF SmtpInit, Types
<1> QED
  BY <1>3, <1>4 DEF SmtpInit, CaptureInv, StatusInv, MailStays, HoleNeedsQuit

\* The piece of data that a callback is about.
Piece(s, k) == [stream |-> s, kind |-> k, n |-> nsent[s] + 1]

\* What a callback makes of the mail of its stream; the mails of the others stay.
Effect(s, k) ==
  LET c == Piece(s, k) IN
  \/ /\ k = "return" /\ Mail'[s] = <<c>> /\ status' = "BEGIN" /\ UNCHANGED <<files, crashed>>
  \/ /\ k = "quit" /\ Mail[s] # NULL /\ Mail'[s] = NULL /\ status' = "INIT" /\ UNCHANGED crashed
     /\ dump_file(Mail[s], set_mail_name(s))
  \/ /\ k = "quit" /\ Mail[s] = NULL /\ Mail'[s] = NULL /\ status' = "DOWNLOAD" /\ crashed' /\ UNCHANGED files
  \/ /\ k = "text" /\ Mail[s] # NULL /\ status = "BEGIN" /\ Mail'[s] = Append(Mail[s], c)
     /\ UNCHANGED <<status, files, crashed>>
  \/ /\ k = "text" /\ (Mail[s] = NULL \/ status = "INIT") /\ Mail'[s] = Mail[s]
     /\ UNCHANGED <<status, files, crashed>>

LEMMA PieceType ==
  ASSUME Types, NEW s \in Stream, NEW k \in Kind, tcp_callback(s, k)
  PROVE  Piece(s, k) \in Chunk /\ nsent' \in [Stream -> 0..MaxData]
<1>1. nsent[s] \in 0..MaxData /\ nsent[s] < MaxData
  BY DEF Types, tcp_callback
<1>2. nsent[s] + 1 \in 1..MaxData
  BY <1>1, Constants
<1>3. nsent' = [nsent EXCEPT ![s] = nsent[s] + 1]
  BY DEF tcp_callback, Record
<1> QED
  BY <1>2, <1>3 DEF Piece, Chunk, Types

LEMMA CallbackEffect ==
  ASSUME CaptureInv, NEW s \in Stream, NEW k \in Kind, tcp_callback(s, k)
  PROVE  /\ IsTable(table') /\ Effect(s, k)
         /\ \A r \in Stream : r # s => Mail'[r] = Mail[r]
<1>1. PICK c \in Chunk : c = Piece(s, k) /\ c.stream = s /\ c.kind = k
  BY PieceType DEF CaptureInv, Piece
<1>2. ant_smtp_process(c, ant_smtp_init(c)) /\ ~crashed
  BY <1>1 DEF tcp_callback, Piece
<1>3. /\ IsTable(table) /\ status \in {"INIT", "BEGIN"} /\ hash_get(table, s) = Mail[s]
      /\ Mail[s] \in Queue \cup {NULL}
  BY <1>2, GetType, MailIs DEF CaptureInv, Types, StatusInv
<1>4. CASE k = "return"
  <2>1. PICK t : t = hash_put(table, s, <<>>)
    OBVIOUS
  <2>2. IsTable(t) /\ hash_get(t, s) = <<>> /\ \A r \in Stream : r # s => hash_get(t, r) = hash_get(table, r)
    BY <1>3, <2>1, Constants, PutGet
  <2>i. PICK i : i = [status |-> "BEGIN", table |-> t]
    OBVIOUS
  <2>3. i.status = "BEGIN" /\ i.table = t
    BY <2>i
  <2>4. ant_smtp_init(c) = i
    BY <1>1, <1>4, <2>1, <2>i DEF ant_smtp_init, queue_new
  <2>5. ant_smtp_process(c, i)
    BY <1>2, <2>4
  <2>6. <<>> # NULL /\ queue_put(c, <<>>) = <<c>> /\ <<c>> \in Queue
    <3>1. Append(<<>>, c) = <<c>> /\ <<c>> \in Seq(Chunk)
      OBVIOUS
    <3> QED
      BY <3>1, Constants DEF queue_put, Queue
  <2>7. table' = hash_put(t, s, <<c>>) /\ status' = "BEGIN" /\ UNCHANGED <<files, crashed>>
    BY <1>1, <2>2, <2>3, <2>5, <2>6 DEF ant_smtp_process
  <2>8. IsTable(table') /\ hash_get(table', s) = <<c>> /\ \A r \in Stream : r # s => hash_get(table', r) = hash_get(t, r)
    BY <2>2, <2>6, <2>7, PutGet
  <2> QED
    BY <1>1, <1>4, <2>2, <2>7, <2>8, MailIs DEF Effect
<1>5. CASE k = "quit"
  <2>i. PICK i : i = [status |-> "DOWNLOAD", table |-> table]
    OBVIOUS
  <2>1. i.status = "DOWNLOAD" /\ i.table = table
    BY <2>i
  <2>2. ant_smtp_init(c) = i
    BY <1>1, <1>5, <2>i DEF ant_smtp_init
  <2>3. ant_smtp_process(c, i)
    BY <1>2, <2>2
  <2>4. \/ /\ Mail[s] # NULL /\ dump_file(Mail[s], set_mail_name(s))
           /\ status' = "INIT" /\ table' = hash_del(table, s) /\ UNCHANGED crashed
        \/ /\ Mail[s] = NULL /\ crashed' = TRUE /\ status' = "DOWNLOAD" /\ table' = table /\ UNCHANGED files
    BY <1>1, <1>3, <2>1, <2>3 DEF ant_smtp_process
  <2>5. CASE Mail[s] # NULL
    <3>1. IsTable(table') /\ hash_get(table', s) = NULL /\ \A r \in Stream : r # s => hash_get(table', r) = hash_get(table, r)
      BY <1>3, <2>4, <2>5, DelGet
    <3> QED
      BY <1>5, <2>4, <2>5, <3>1, MailIs DEF Effect
  <2>6. CASE Mail[s] = NULL
    BY <1>3, <1>5, <2>4, <2>6, MailIs DEF Effect
  <2> QED
    BY <2>5, <2>6
<1>6. CASE k = "text"
  <2>i. PICK i : i = [status |-> status, table |-> table]
    OBVIOUS
  <2>1. i.status = status /\ i.table = table
    BY <2>i
  <2>2. ant_smtp_init(c) = i
    BY <1>1, <1>6, <2>i DEF ant_smtp_init
  <2>3. ant_smtp_process(c, i)
    BY <1>2, <2>2
  <2>4. /\ status' = status /\ UNCHANGED <<files, crashed>>
        /\ \/ status = "BEGIN" /\ table' = IF Mail[s] = NULL THEN table ELSE hash_put(table, s, Append(Mail[s], c))
           \/ status = "INIT" /\ table' = table
    BY <1>1, <1>3, <2>1, <2>3 DEF ant_smtp_process, queue_put
  <2>5. CASE status = "BEGIN" /\ Mail[s] # NULL
    <3>1. Append(Mail[s], c) \in Queue
      BY <1>3, <2>5, AppendProperties DEF Queue
    <3>2. IsTable(table') /\ hash_get(table', s) = Append(Mail[s], c)
          /\ \A r \in Stream : r # s => hash_get(table', r) = hash_get(table, r)
      <4>1. PICK q \in Queue : q = Append(Mail[s], c)
        BY <3>1
      <4>2. table' = hash_put(table, s, q)
        BY <2>4, <2>5, <4>1
      <4>3. IsTable(table)
        BY <1>3
      <4>4. /\ IsTable(table') /\ hash_get(table', s) = q
            /\ \A r \in Stream : r # s => hash_get(table', r) = hash_get(table, r)
        BY <4>2, <4>3, PutGet
      <4> QED
        BY <4>1, <4>4
    <3> QED
      BY <1>1, <1>6, <2>4, <2>5, <3>2, MailIs DEF Effect
  <2>6. CASE ~(status = "BEGIN" /\ Mail[s] # NULL)
    <3>1. table' = table
      BY <2>4, <2>6
    <3> QED
      BY <1>3, <1>6, <2>4, <2>6, <3>1, MailIs DEF Effect
  <2> QED
    BY <2>5, <2>6
<1> QED
  BY <1>4, <1>5, <1>6 DEF Kind

\* What Record keeps of a piece.
LEMMA RecordEffect ==
  ASSUME Types, NEW s \in Stream, NEW k \in Kind, tcp_callback(s, k)
  PROVE  /\ since' \in [Stream -> Queue] /\ disturbed' \subseteq Stream
         /\ \A r \in Stream : r # s => since'[r] = since[r]
         /\ k = "return" => since'[s] = <<Piece(s, k)>> /\ disturbed' = disturbed \ {s}
         /\ k = "quit" => since'[s] = <<>> /\ disturbed' = (disturbed \cup Stream) \ {s}
         /\ k = "text" => /\ since'[s] = IF since[s] = <<>> THEN <<>> ELSE Append(since[s], Piece(s, k))
                          /\ disturbed' = disturbed
<1>1. PICK c \in Chunk : c = Piece(s, k) /\ c.stream = s /\ c.kind = k
  BY PieceType DEF Piece
<1>2. Record(c)
  BY <1>1 DEF tcp_callback, Piece
<1>3. since[s] \in Queue /\ <<c>> \in Queue /\ <<>> \in Queue
  BY Constants DEF Types, Queue
<1>4. Append(since[s], c) \in Queue
  BY <1>3, AppendProperties DEF Queue
<1>5. PICK x \in Queue : /\ x = CASE k = "return" -> <<c>> [] k = "quit" -> <<>>
                                  [] OTHER -> IF since[s] = <<>> THEN since[s] ELSE Append(since[s], c)
                         /\ since' = [since EXCEPT ![s] = x]
  BY <1>1, <1>2, <1>3, <1>4 DEF Record
<1>6. /\ since' \in [Stream -> Queue] /\ since'[s] = x
      /\ \A r \in Stream : r # s => since'[r] = since[r]
  BY <1>5 DEF Types
<1>7. disturbed' = CASE k = "return" -> disturbed \ {s} [] k = "quit" -> (disturbed \cup Stream) \ {s}
                     [] OTHER -> disturbed
  BY <1>1, <1>2 DEF Record
<1>8. disturbed' \subseteq Stream
  BY <1>7 DEF Types
<1> QED
  BY <1>1, <1>5, <1>6, <1>7, <1>8

LEMMA TickStep ==
  ASSUME CaptureInv, Tick \/ UNCHANGED smtpVars
  PROVE  CaptureInv' /\ UNCHANGED <<Mail, files>>
<1>1. UNCHANGED <<status, table, nsent, files, crashed, since, disturbed>> /\ now' \in 0..MaxTime
  BY Constants DEF Tick, smtpVars, CaptureInv, Types
<1>2. Mail' = Mail
  BY <1>1 DEF Mail
<1> QED
  BY <1>1, <1>2 DEF CaptureInv, Types, StatusInv, MailStays, HoleNeedsQuit

LEMMA CallbackStep ==
  ASSUME CaptureInv, NEW s \in Stream, NEW k \in Kind, tcp_callback(s, k)
  PROVE  CaptureInv'
<1> USE DEF CaptureInv
<1>1. IsTable(table') /\ Effect(s, k) /\ \A r \in Stream : r # s => Mail'[r] = Mail[r]
  BY CallbackEffect
<1>2. /\ since' \in [Stream -> Queue] /\ disturbed' \subseteq Stream
      /\ \A r \in Stream : r # s => since'[r] = since[r]
      /\ k = "return" => since'[s] = <<Piece(s, k)>> /\ disturbed' = disturbed \ {s}
      /\ k = "quit" => since'[s] = <<>> /\ disturbed' = (disturbed \cup Stream) \ {s}
      /\ k = "text" => /\ since'[s] = IF since[s] = <<>> THEN <<>> ELSE Append(since[s], Piece(s, k))
                       /\ disturbed' = disturbed
  BY RecordEffect
<1>3. ~crashed /\ status \in {"INIT", "BEGIN"} /\ now' = now
  BY DEF tcp_callback, Types, StatusInv
<1>4. /\ Mail[s] # NULL <=> since[s] # <<>>
      /\ \A r \in Stream : r # s => (Mail[r] # NULL <=> since[r] # <<>>)
  BY <1>3 DEF MailStays
<1>5. since[s] \in Queue /\ Piece(s, k) \in Chunk
  BY PieceType DEF Types
<1>6. /\ Append(since[s], Piece(s, k)) # <<>> /\ <<Piece(s, k)>> # <<>> /\ <<Piece(s, k)>> # NULL
      /\ Append(since[s], Piece(s, k)) # NULL /\ \A q \in Queue : q # NULL
  <2>1. PICK c \in Chunk : c = Piece(s, k)
    BY <1>5
  <2>2. PICK q \in Seq(Chunk) : q = since[s]
    BY <1>5 DEF Queue
  <2>3. Append(q, c) \in Seq(Chunk) /\ Append(q, c) # <<>> /\ <<c>> # <<>> /\ <<c>> \in Seq(Chunk)
    BY AppendProperties
  <2> QED
    BY <2>1, <2>2, <2>3, Constants DEF Queue
<1>7. Types'
  <2>1. status' \in {"INIT", "BEGIN", "DOWNLOAD"} /\ crashed' \in BOOLEAN
    BY <1>1, <1>3 DEF Effect, Types
  <2> QED
    BY <1>1, <1>2, <1>3, <2>1, PieceType DEF Types
<1>8. StatusInv'
  <2> SUFFICES ASSUME ~crashed'
               PROVE  /\ status' # "DOWNLOAD"
                      /\ status' = "INIT" => \A r \in Stream : Mail'[r] # NULL => r \in disturbed'
    BY DEF StatusInv
  <2>1. status' # "DOWNLOAD"
    BY <1>1, <1>3 DEF Effect
  <2>2. ASSUME status' = "INIT", NEW r \in Stream, Mail'[r] # NULL PROVE r \in disturbed'
    <3>1. CASE k = "quit"
      BY <1>1, <1>2, <2>2, <3>1 DEF Effect
    <3>2. CASE k = "text"
      BY <1>1, <1>2, <1>3, <2>2, <3>2 DEF Effect, StatusInv
    <3>3. CASE k = "return"
      BY <1>1, <2>2, <3>3 DEF Effect
    <3> QED
      BY <3>1, <3>2, <3>3 DEF Kind
  <2> QED
    BY <2>1, <2>2
<1>9. MailStays'
  <2> SUFFICES ASSUME ~crashed', NEW r \in Stream PROVE Mail'[r] # NULL <=> since'[r] # <<>>
    BY DEF MailStays
  <2>1. CASE r # s
    BY <1>1, <1>2, <1>4, <2>1
  <2>2. CASE r = s
    <3>1. CASE k = "return"
      BY <1>1, <1>2, <1>6, <2>2, <3>1 DEF Effect
    <3>2. CASE k = "quit"
      BY <1>1, <1>2, <2>2, <3>2 DEF Effect
    <3>3. CASE k = "text"
      <4>1. Mail[s] # NULL => Append(Mail[s], Piece(s, k)) # NULL
        <5>1. Mail[s] # NULL => Mail[s] \in Queue
          BY GetType, MailIs DEF Types
        <5> QED
          BY <1>5, <1>6, <5>1, AppendProperties DEF Queue
      <4> QED
        BY <1>1, <1>2, <1>4, <1>6, <2>2, <3>3, <4>1 DEF Effect
    <3> QED
      BY <3>1, <3>2, <3>3 DEF Kind
  <2> QED
    BY <2>1, <2>2
<1>10. HoleNeedsQuit'
  <2> SUFFICES ASSUME NEW r \in Stream, Mail'[r] # NULL, r \notin disturbed' PROVE Mail'[r] = since'[r]
    BY DEF HoleNeedsQuit
  <2>1. CASE r # s
    <3>1. k \in {"return", "text"} /\ r \notin disturbed
      BY <1>2, <2>1 DEF Kind
    <3> QED
      BY <1>1, <1>2, <2>1, <3>1 DEF HoleNeedsQuit
  <2>2. CASE r = s
    <3>1. CASE k = "return"
      BY <1>1, <1>2, <2>2, <3>1 DEF Effect
    <3>2. CASE k = "quit"
      BY <1>1, <2>2, <3>2 DEF Effect
    <3>3. CASE k = "text"
      <4>1. r \notin disturbed /\ Mail[s] # NULL
        BY <1>1, <1>2, <2>2, <3>3 DEF Effect
      <4>2. Mail[s] = since[s] /\ status = "BEGIN" /\ since[s] # <<>>
        BY <1>3, <1>4, <2>2, <4>1 DEF HoleNeedsQuit, StatusInv
      <4>3. Mail'[s] = Append(Mail[s], Piece(s, k))
        BY <1>1, <3>3, <4>1, <4>2 DEF Effect
      <4> QED
        BY <1>2, <2>2, <3>3, <4>2, <4>3
    <3> QED
      BY <3>1, <3>2, <3>3 DEF Kind
  <2> QED
    BY <2>1, <2>2
<1> QED
  BY <1>7, <1>8, <1>9, <1>10

LEMMA CaptureStep == CaptureInv /\ [SmtpNext]_smtpVars => CaptureInv'
  BY TickStep, CallbackStep DEF SmtpNext

\* A stream's mail is in the table from its Return-Path to its QUIT: neither another
\* stream's QUIT nor a neighbour in its chain takes it out.
THEOREM SmtpMailStays == SmtpSpec => []MailStays
<1>1. CaptureInv => MailStays
  BY DEF CaptureInv
<1> QED
  BY <1>1, InitCapture, CaptureStep, PTL DEF SmtpSpec

\* A mail lacks a piece of its stream only when another stream's QUIT has put the
\* shared status back since its Return-Path.
THEOREM SmtpHoleNeedsQuit == SmtpSpec => []HoleNeedsQuit
<1>1. CaptureInv => HoleNeedsQuit
  BY DEF CaptureInv
<1> QED
  BY <1>1, InitCapture, CaptureStep, PTL DEF SmtpSpec

\* The callbacks implement MailCapture: whatever the streams send and however they
\* share buckets, a callback begins, continues or ends the mail of its own stream.
THEOREM SmtpCapturesMail == SmtpSpec => CapturesMail
<1>1. SmtpInit => Promise!Init
  <2> SUFFICES ASSUME SmtpInit PROVE Mail = [s \in Stream |-> NULL] /\ files = [n \in Name |-> NULL]
    BY DEF Promise!Init
  <2>1. MailStays /\ ~crashed /\ \A s \in Stream : since[s] = <<>>
    BY InitCapture DEF CaptureInv, SmtpInit
  <2>2. \A s \in Stream : Mail[s] = NULL
    BY <2>1 DEF MailStays
  <2> QED
    BY <2>2 DEF SmtpInit, Mail
<1>2. CaptureInv /\ [SmtpNext]_smtpVars => [Promise!Next]_<<Mail, files>>
  <2> SUFFICES ASSUME CaptureInv, [SmtpNext]_smtpVars PROVE [Promise!Next]_<<Mail, files>>
    OBVIOUS
  <2>1. CASE Tick \/ UNCHANGED smtpVars
    BY <2>1, TickStep
  <2>2. ASSUME NEW s \in Stream, NEW k \in Kind, tcp_callback(s, k)
        PROVE  Promise!Next \/ UNCHANGED <<Mail, files>>
    <3>1. Effect(s, k) /\ \A r \in Stream : r # s => Mail'[r] = Mail[r]
      BY <2>2, CallbackEffect
    <3>2. PICK c \in Chunk : c = Piece(s, k) /\ c.stream = s /\ c.kind = k
      BY <2>2, PieceType DEF CaptureInv, Piece
    <3>3. Mail = [r \in Stream |-> Mail[r]] /\ Mail' = [r \in Stream |-> Mail'[r]]
      BY DEF Mail
    <3>4. \A x : Mail'[s] = x => Mail' = [Mail EXCEPT ![s] = x]
      BY <3>1, <3>3
    <3>5. CASE k = "return"
      <4>1. Promise!Begin(s, c)
        BY <3>1, <3>2, <3>4, <3>5 DEF Effect, Promise!Begin
      <4>2. CASE Mail' # Mail
        BY <3>2, <3>5, <4>1, <4>2 DEF Promise!Next
      <4>3. CASE Mail' = Mail
        BY <4>1, <4>3 DEF Promise!Begin
      <4> QED
        BY <4>2, <4>3
    <3>6. CASE k = "quit" /\ Mail[s] # NULL
      <4>1. set_mail_name(s) \in Name
        BY DEF CaptureInv, Types, set_mail_name, Name
      <4>2. files' \in {files} \cup {[files EXCEPT ![n] = Mail[s]] : n \in Name}
        BY <3>1, <3>6, <4>1 DEF Effect, dump_file
      <4>3. Promise!End(s)
        BY <3>1, <3>4, <3>6, <4>2 DEF Effect, Promise!End
      <4>4. Mail'[s] = NULL
        BY <3>1, <3>6 DEF Effect
      <4> QED
        BY <3>6, <4>3, <4>4 DEF Promise!Next
    <3>7. CASE k = "text" /\ Mail[s] # NULL /\ status = "BEGIN"
      <4>1. Promise!More(s, c)
        BY <3>1, <3>2, <3>4, <3>7 DEF Effect, Promise!More
      <4>2. CASE Mail' # Mail
        BY <3>2, <4>1, <4>2 DEF Promise!Next
      <4>3. CASE Mail' = Mail
        BY <4>1, <4>3 DEF Promise!More
      <4> QED
        BY <4>2, <4>3
    <3>8. CASE (k = "quit" /\ Mail[s] = NULL) \/ (k = "text" /\ ~(Mail[s] # NULL /\ status = "BEGIN"))
      <4>1. Mail'[s] = Mail[s] /\ files' = files
        BY <3>1, <3>8 DEF Effect
      <4>2. Mail' = Mail
        BY <3>1, <3>3, <4>1
      <4> QED
        BY <4>1, <4>2
    <3> QED
      BY <3>5, <3>6, <3>7, <3>8 DEF Kind
  <2> QED
    BY <2>1, <2>2 DEF SmtpNext
<1> QED
  BY <1>1, <1>2, InitCapture, CaptureStep, PTL DEF SmtpSpec, CapturesMail, Promise!Spec

-----------------------------------------------------------------------------
(* The url filter of mini_ant (AntPage) *)

Bucket == 0..(Buckets - 1)
PageElement == [key : Pointer, val : {"null"}]
Entry == [url : Url, ptr : Pointer]

\* The pointers a chain holds.
Keys(c) == {c[i].key : i \in DOMAIN c}

IsUniq(t) ==
  /\ t = [chain |-> t.chain, length |-> t.length]
  /\ t.chain = [b \in Bucket |-> t.chain[b]]
  /\ \A b \in Bucket : t.chain[b] \in Seq(PageElement)

PageTypeOK ==
  /\ IsUniq(uniq) /\ url_buf \in Text
  /\ passed \in Seq(Entry) /\ dropped \in Seq(Entry)
  /\ crawling \in BOOLEAN /\ reading \in Seq(Text)
  /\ crawling => reading \in Seq(Url)

\* What comes by another pointer than an array comes by an option's own text.
PointerInv ==
  \A i \in DOMAIN passed : passed[i].ptr \in Array \/ passed[i].ptr = OptArg(passed[i].url)

\* The chains hold the pointers of the urls passed on, each in the bucket its url had.
ChainInv ==
  /\ \A i \in DOMAIN passed : passed[i].ptr \in Keys(uniq.chain[UrlHash[passed[i].url]])
  /\ \A b \in Bucket : \A k \in Keys(uniq.chain[b]) :
       \E j \in DOMAIN passed : passed[j].ptr = k /\ UrlHash[passed[j].url] = b

\* Each array has passed on one url at most per bucket.
LinkInv ==
  \A i, j \in DOMAIN passed :
    /\ passed[i].ptr \in Array /\ passed[i].ptr = passed[j].ptr
    /\ UrlHash[passed[i].url] = UrlHash[passed[j].url]
    => i = j

ByLoop(u) == [url |-> u, ptr |-> UrlBuf]

\* What the loop's array holds came by it.
UrlBufInv ==
  url_buf # Junk => \/ \E j \in DOMAIN passed : passed[j].url = url_buf
                    \/ \E k \in DOMAIN dropped : dropped[k] = ByLoop(url_buf)

HeldInv ==
  \A i \in DOMAIN dropped :
    \/ \E j \in DOMAIN passed : passed[j].url = dropped[i].url
    \/ \E j \in DOMAIN passed :
         /\ passed[j].ptr \in Array
         /\ UrlHash[passed[j].url] = UrlHash[dropped[i].url]
         /\ passed[j].ptr = UrlBuf => \E k \in 1..i : dropped[k] = ByLoop(dropped[i].url)

PageInv ==
  PageTypeOK /\ PointerInv /\ ChainInv /\ LinkInv /\ UrlBufInv /\ HeldInv /\ PassedOnce

LEMMA PageConstants ==
  /\ Buckets \in Nat \ {0} /\ Junk \notin Url /\ UrlHash \in [Text -> Bucket]
  /\ \A t \in Text : UrlHash[t] \in Bucket
  BY PageAssumption DEF PageAssumption, Bucket, Text

LEMMA Pointers ==
  /\ Array \subseteq Pointer /\ <<"line">> \in Array /\ <<"buf">> \in Array /\ UrlBuf \in Array
  /\ <<"line">> # UrlBuf /\ <<"buf">> # UrlBuf
  /\ \A b \in Block : Location(b) \in Array /\ Location(b) # UrlBuf
  /\ \A u \in Url : OptArg(u) \in Pointer /\ OptArg(u) \notin Array /\ OptArg(u)[2] = u
  /\ \A p \in Pointer : p \in Array \/ \E u \in Url : p = OptArg(u)
<1>1. Array \subseteq Pointer /\ <<"line">> \in Array /\ <<"buf">> \in Array /\ UrlBuf \in Array
  BY DEF Array, Pointer
<1>2. <<"line">> # UrlBuf /\ <<"buf">> # UrlBuf
  BY DEF UrlBuf
<1>3. \A b \in Block : Location(b) \in Array
  BY DEF Array
<1>4. \A b \in Block : Location(b) # UrlBuf
  BY DEF Location, UrlBuf
<1>5. ASSUME NEW u \in Url PROVE OptArg(u) \notin Array
  <2>1. OptArg(u) # <<"line">> /\ OptArg(u) # <<"buf">> /\ OptArg(u) # UrlBuf
    BY DEF OptArg, UrlBuf
  <2>2. \A b \in Block : OptArg(u) # Location(b)
    BY DEF OptArg, Location
  <2> QED
    BY <2>1, <2>2 DEF Array
<1>6. \A u \in Url : OptArg(u) \in Pointer /\ OptArg(u)[2] = u
  BY DEF Pointer, OptArg
<1>7. \A p \in Pointer : p \in Array \/ \E u \in Url : p = OptArg(u)
  BY DEF Pointer
<1> QED
  BY <1>1, <1>2, <1>3, <1>4, <1>5, <1>6, <1>7

\* What memory holds when u comes by p: u there, and in every array that is not dead
\* or an option's own text what was stored.
LEMMA MemoryHolds ==
  ASSUME NEW u \in Url, NEW p \in Pointer, p \in Array \/ p = OptArg(u),
         NEW same \in SUBSET Dead(p), url_buf \in Text
  PROVE  /\ Memory(u, p, same) \in [Pointer -> Text] /\ Memory(u, p, same)[p] = u
         /\ \A v \in Url : Memory(u, p, same)[OptArg(v)] = v
         /\ p # UrlBuf => Memory(u, p, same)[UrlBuf] = url_buf
<1>1. same \subseteq Array /\ UrlBuf \notin same
  BY DEF Dead
<1>2. ASSUME NEW q \in Pointer
      PROVE  (CASE q \in same \cup {p} -> u
                [] q \notin same \cup {p} /\ q \notin Array -> q[2]
                [] q \notin same \cup {p} /\ q = UrlBuf -> url_buf
                [] OTHER -> Junk) \in Text
  <2>1. CASE q \in same \cup {p}
    BY <2>1 DEF Text
  <2>2. CASE q \notin same \cup {p} /\ q \notin Array
    <3>1. q[2] \in Text /\ q # UrlBuf
      BY <2>2, Pointers DEF Text
    <3> QED
      BY <2>2, <3>1
  <2>3. CASE q \notin same \cup {p} /\ q \in Array
    BY <2>3 DEF Text
  <2> QED
    BY <2>1, <2>2, <2>3
<1>3. PICK m : m = Memory(u, p, same)
  OBVIOUS
<1>4. m \in [Pointer -> Text]
  BY <1>2, <1>3 DEF Memory
<1>5. m[p] = u
  BY <1>3 DEF Memory
<1>6. ASSUME NEW v \in Url PROVE m[OptArg(v)] = v
  <2>1. PICK q \in Pointer : q = OptArg(v) /\ q \notin Array /\ q[2] = v /\ q # UrlBuf
    BY Pointers
  <2>2. CASE q = p
    <3>1. OptArg(u)[2] = u /\ p = OptArg(u)
      BY <2>1, <2>2, Pointers
    <3> QED
      BY <1>5, <2>1, <2>2, <3>1
  <2>3. CASE q # p
    BY <1>1, <1>3, <2>1, <2>3 DEF Memory
  <2> QED
    BY <2>2, <2>3
<1>7. p # UrlBuf => m[UrlBuf] = url_buf
  <2>1. UrlBuf \in Pointer /\ UrlBuf \in Array
    BY Pointers
  <2> QED
    BY <1>1, <1>3, <2>1 DEF Memory
<1> QED
  BY <1>3, <1>4, <1>5, <1>6, <1>7

LEMMA OneMore ==
  ASSUME NEW S, NEW q \in Seq(S), NEW e \in S
  PROVE  /\ Append(q, e) \in Seq(S) /\ Len(q) \in Nat /\ DOMAIN q = 1..Len(q)
         /\ DOMAIN Append(q, e) = 1..(Len(q) + 1)
         /\ \A i \in DOMAIN q : i \in DOMAIN Append(q, e) /\ Append(q, e)[i] = q[i]
         /\ Len(q) + 1 \in DOMAIN Append(q, e) /\ Append(q, e)[Len(q) + 1] = e
         /\ \A i \in DOMAIN Append(q, e) : i \in DOMAIN q \/ i = Len(q) + 1
<1>1. PICK r \in Seq(S) : r = Append(q, e)
  BY AppendProperties
<1>2. /\ Len(q) \in Nat /\ Len(r) = Len(q) + 1 /\ r[Len(q) + 1] = e
      /\ \A i \in 1..Len(q) : r[i] = q[i]
  BY <1>1, AppendProperties, LenProperties
<1>3. DOMAIN q = 1..Len(q) /\ DOMAIN r = 1..(Len(q) + 1)
  BY <1>2, LenProperties
<1> QED
  BY <1>1, <1>2, <1>3

\* A set of indices that is not empty has a first one.
LEMMA FirstOf ==
  ASSUME NEW T, T \subseteq Nat, T # {}
  PROVE  \E i \in T : \A j \in T : ~(j < i)
<1>1. \E i \in T : \A j \in T : ~(<<j, i>> \in OpToRel(<, Nat))
  BY WFMin, NatLessThanWellFounded, Zenon
<1> QED
  BY <1>1 DEF OpToRel

LEMMA UniqItems ==
  ASSUME NEW c \in Seq(PageElement)
  PROVE  /\ Len(c) \in Nat /\ DOMAIN c = 1..Len(c)
         /\ \A i \in DOMAIN c : c[i].key \in Pointer
         /\ Keys(c) \subseteq Pointer
<1>1. Len(c) \in Nat /\ DOMAIN c = 1..Len(c)
  BY LenProperties
<1>2. \A i \in DOMAIN c : c[i] \in PageElement
  BY <1>1, ElementOfSeq
<1> QED
  BY <1>1, <1>2 DEF PageElement, Keys

\* uniq_exists tells whether a pointer of the bucket points at the same text now.
LEMMA ExistsMeans ==
  ASSUME NEW t, IsUniq(t), NEW m \in [Pointer -> Text], NEW p \in Pointer
  PROVE  uniq_exists(t, m, p) <=> \E k \in Keys(t.chain[UrlHash[m[p]]]) : m[k] = m[p]
<1>1. PICK b \in Bucket : b = UrlHash[m[p]]
  BY PageConstants
<1>2. PICK c \in Seq(PageElement) : c = t.chain[b]
  BY DEF IsUniq
<1>3. Len(c) \in Nat /\ DOMAIN c = 1..Len(c)
  BY UniqItems
<1>4. PICK T : T = {i \in DOMAIN c : m[c[i].key] = m[p]}
  OBVIOUS
<1>5. uniq_exists(t, m, p) <=> Uniq!ant_lookup(c, m, p) # {}
  BY <1>1, <1>2 DEF uniq_exists, Uniq!ChainOf
<1>6. Uniq!ant_lookup(c, m, p) \subseteq T
  BY <1>4 DEF Uniq!ant_lookup
<1>7. ASSUME T # {} PROVE Uniq!ant_lookup(c, m, p) # {}
  <2>1. PICK i \in T : \A j \in T : ~(j < i)
    <3>1. T \subseteq Nat
      BY <1>3, <1>4
    <3> QED
      BY <1>7, <3>1, FirstOf
  <2>2. i \in DOMAIN c /\ m[c[i].key] = m[p]
    BY <1>4
  <2>3. ASSUME NEW j \in 1..(i - 1) PROVE m[c[j].key] # m[p]
    <3>1. j \in DOMAIN c /\ j < i
      BY <1>3, <2>2
    <3> QED
      BY <1>4, <2>1, <3>1
  <2>4. i \in Uniq!ant_lookup(c, m, p)
    BY <2>2, <2>3 DEF Uniq!ant_lookup
  <2> QED
    BY <2>4
<1>8. T # {} <=> \E k \in Keys(c) : m[k] = m[p]
  BY <1>4 DEF Keys
<1> QED
  BY <1>1, <1>2, <1>5, <1>6, <1>7, <1>8

IsPut(t, m, p, u) ==
  /\ IsUniq(t) /\ m \in [Pointer -> Text] /\ p \in Pointer
  /\ ~uniq_exists(t, m, p) /\ u = uniq_put(t, m, p)

\* uniq_put of a pointer whose text is not there adds the pointer to the bucket of the text.
LEMMA PutAdds ==
  ASSUME NEW t, NEW m, NEW p, NEW u, IsPut(t, m, p, u)
  PROVE  /\ IsUniq(u)
         /\ Keys(u.chain[UrlHash[m[p]]]) = Keys(t.chain[UrlHash[m[p]]]) \cup {p}
         /\ \A b \in Bucket : b # UrlHash[m[p]] => Keys(u.chain[b]) = Keys(t.chain[b])
<1>0. /\ IsUniq(t) /\ m \in [Pointer -> Text] /\ p \in Pointer
      /\ ~uniq_exists(t, m, p) /\ u = uniq_put(t, m, p)
  BY DEF IsPut
<1>1. PICK b \in Bucket : b = UrlHash[m[p]]
  BY <1>0, PageConstants
<1>2. PICK c \in Seq(PageElement) : c = t.chain[b]
  BY <1>0 DEF IsUniq
<1>3. Len(c) \in Nat /\ DOMAIN c = 1..Len(c)
  BY UniqItems
<1>4. Uniq!ant_lookup(c, m, p) = {}
  BY <1>0, <1>1, <1>2 DEF uniq_exists, Uniq!ChainOf
<1>5. [key |-> p, val |-> "null"] \in PageElement
  BY <1>0 DEF PageElement
<1>6. PICK e \in PageElement : e = [key |-> p, val |-> "null"] /\ e.key = p
  BY <1>5
<1>7. PICK d : d = <<e>> \o c
  OBVIOUS
<1>8. u = [chain |-> [t.chain EXCEPT ![b] = d], length |-> t.length + 1]
  BY <1>0, <1>1, <1>2, <1>4, <1>6, <1>7 DEF uniq_put, Uniq!ant_hash_put
<1>9. /\ d \in Seq(PageElement) /\ DOMAIN d = 1..(1 + Len(c))
      /\ d[1] = e /\ \A i \in 1..Len(c) : d[i + 1] = c[i]
  <2>1. PICK o \in Seq(PageElement) : o = <<e>> /\ Len(o) = 1 /\ o[1] = e
    <3>1. <<e>> \in Seq(PageElement) /\ Len(<<e>>) = 1 /\ <<e>>[1] = e
      OBVIOUS
    <3> QED
      BY <3>1
  <2>2. /\ d \in Seq(PageElement) /\ Len(d) = 1 + Len(c)
        /\ \A i \in 1..(1 + Len(c)) : d[i] = IF i <= 1 THEN o[i] ELSE c[i - 1]
    BY <1>7, <2>1, ConcatProperties
  <2>3. \A i \in 1..Len(c) : i + 1 \in 1..(1 + Len(c)) /\ ~(i + 1 <= 1) /\ (i + 1) - 1 = i
    BY <1>3
  <2>4. \A i \in 1..Len(c) : d[i + 1] = c[i]
    BY <2>2, <2>3
  <2> QED
    BY <1>3, <2>1, <2>2, <2>4, LenProperties
<1>10. Keys(d) = Keys(c) \cup {p}
  <2>1. ASSUME NEW k \in Keys(d) PROVE k \in Keys(c) \cup {p}
    <3>1. PICK i \in 1..(1 + Len(c)) : k = d[i].key
      BY <1>9 DEF Keys
    <3>2. CASE i = 1
      BY <1>6, <1>9, <3>1, <3>2
    <3>3. CASE i # 1
      <4>1. i - 1 \in 1..Len(c) /\ (i - 1) + 1 = i
        BY <1>3, <3>3
      <4>2. d[i] = c[i - 1]
        BY <1>9, <4>1
      <4> QED
        BY <1>3, <3>1, <4>1, <4>2 DEF Keys
    <3> QED
      BY <3>2, <3>3
  <2>2. ASSUME NEW k \in Keys(c) PROVE k \in Keys(d)
    <3>1. PICK i \in 1..Len(c) : k = c[i].key
      BY <1>3 DEF Keys
    <3>2. i + 1 \in DOMAIN d /\ d[i + 1] = c[i]
      BY <1>3, <1>9
    <3> QED
      BY <3>1, <3>2 DEF Keys
  <2>3. p \in Keys(d)
    <3>1. 1 \in DOMAIN d
      BY <1>3, <1>9
    <3> QED
      BY <1>6, <1>9, <3>1 DEF Keys
  <2> QED
    BY <2>1, <2>2, <2>3
<1>11. u.chain = [t.chain EXCEPT ![b] = d] /\ u = [chain |-> u.chain, length |-> u.length]
  BY <1>8
<1>12. DOMAIN t.chain = Bucket
  BY <1>0 DEF IsUniq
<1>13. /\ u.chain = [a \in Bucket |-> u.chain[a]] /\ u.chain[b] = d
       /\ \A a \in Bucket : a # b => u.chain[a] = t.chain[a]
  BY <1>11, <1>12
<1>14. \A a \in Bucket : u.chain[a] \in Seq(PageElement)
  BY <1>0, <1>9, <1>13 DEF IsUniq
<1>15. IsUniq(u)
  BY <1>11, <1>13, <1>14 DEF IsUniq
<1> QED
  BY <1>1, <1>2, <1>10, <1>13, <1>15, Zenon

LEMMA InitPage == PageInit => PageInv
<1> SUFFICES ASSUME PageInit PROVE PageInv
  OBVIOUS
<1>1. IsUniq(uniq) /\ \A b \in Bucket : uniq.chain[b] = <<>>
  <2>1. <<>> \in Seq(PageElement)
    OBVIOUS
  <2> QED
    BY <2>1 DEF PageInit, Uniq!ant_hash_new, IsUniq, Bucket
<1>2. passed = <<>> /\ dropped = <<>> /\ crawling = FALSE /\ reading = <<>> /\ url_buf = Junk
  BY DEF PageInit
<1>3. PageTypeOK
  BY <1>1, <1>2, EmptySeq DEF PageTypeOK, Text
<1>4. \A b \in Bucket : Keys(uniq.chain[b]) = {}
  BY <1>1 DEF Keys
<1>5. DOMAIN passed = {} /\ DOMAIN dropped = {}
  BY <1>2
<1> QED
  BY <1>2, <1>3, <1>4, <1>5
  DEF PageInv, PointerInv, ChainInv, LinkInv, UrlBufInv, HeldInv, PassedOnce

\* What every call of filter_add relies on: where the text is.
Call(m, p) ==
  /\ m \in [Pointer -> Text] /\ \A u \in Url : m[OptArg(u)] = u
  /\ p \in Pointer /\ m[p] \in Url
  /\ p \in Array \/ p = OptArg(m[p])
  /\ p # UrlBuf => m[UrlBuf] = url_buf

LEMMA AddStep ==
  ASSUME PageInv, NEW m, NEW p, Call(m, p), After(filter_add(Now, m, p)),
         url_buf' = IF p = UrlBuf THEN m[p] ELSE url_buf,
         UNCHANGED crawling, reading' \in Seq(Text), crawling => reading' \in Seq(Url)
  PROVE  PageInv'
<1>0. /\ m \in [Pointer -> Text] /\ p \in Pointer /\ m[p] \in Url /\ m[p] \in Text
      /\ \A u \in Url : m[OptArg(u)] = u
  BY DEF Call, Text
<1>1. PICK a \in Bucket : a = UrlHash[m[p]]
  BY <1>0, PageConstants
<1>2. [url |-> m[p], ptr |-> p] \in Entry
  BY <1>0 DEF Entry
<1>3. PICK e \in Entry : e = [url |-> m[p], ptr |-> p] /\ e.url = m[p] /\ e.ptr = p
  BY <1>2
<1>4. /\ IsUniq(uniq) /\ passed \in Seq(Entry) /\ dropped \in Seq(Entry) /\ crawling \in BOOLEAN
      /\ url_buf \in Text /\ url_buf' \in Text
      /\ \A i \in DOMAIN passed : passed[i] \in Entry /\ passed[i].url \in Url /\ UrlHash[passed[i].url] \in Bucket
  <2>1. /\ IsUniq(uniq) /\ passed \in Seq(Entry) /\ dropped \in Seq(Entry) /\ crawling \in BOOLEAN
        /\ url_buf \in Text
    BY DEF PageInv, PageTypeOK
  <2>5. url_buf' \in Text
    BY <1>0, <2>1
  <2>2. DOMAIN passed = 1..Len(passed)
    BY <2>1, LenProperties
  <2>3. \A i \in DOMAIN passed : passed[i] \in Entry
    BY <2>1, <2>2, ElementOfSeq
  <2>4. \A x \in Entry : x.url \in Url /\ UrlHash[x.url] \in Bucket
    BY PageConstants DEF Entry, Text
  <2> QED
    BY <2>1, <2>3, <2>4, <2>5
<1>5. uniq_exists(uniq, m, p) <=> \E k \in Keys(uniq.chain[a]) : m[k] = m[p]
  BY <1>0, <1>1, <1>4, ExistsMeans
<1>6. \A i \in DOMAIN passed : passed[i].ptr \in Array \/ passed[i].ptr = OptArg(passed[i].url)
  BY DEF PageInv, PointerInv
<1>9. DOMAIN dropped = 1..Len(dropped) /\ Len(dropped) \in Nat
  BY <1>4, LenProperties
<1>10. m[p] # Junk /\ (p # UrlBuf => url_buf' = url_buf) /\ (p = UrlBuf => url_buf' = e.url /\ e = ByLoop(e.url))
  BY <1>0, <1>3, PageConstants DEF ByLoop
<1>7. CASE uniq_exists(uniq, m, p)
  <2>1. uniq' = uniq /\ passed' = passed /\ dropped' = Append(dropped, e)
    BY <1>3, <1>7 DEF After, filter_add, Now
  <2>2. PICK n : n = Len(dropped) + 1
    OBVIOUS
  <2>3. /\ dropped' \in Seq(Entry) /\ n \in DOMAIN dropped' /\ dropped'[n] = e /\ n \in 1..n
        /\ \A i \in DOMAIN dropped : i \in DOMAIN dropped' /\ dropped'[i] = dropped[i] /\ i \in 1..n
        /\ \A i \in DOMAIN dropped' : i \in DOMAIN dropped \/ i = n
        /\ \A i \in DOMAIN dropped : \A k \in 1..i : k \in DOMAIN dropped
    <3>1. /\ dropped' \in Seq(Entry) /\ n \in DOMAIN dropped' /\ dropped'[n] = e
          /\ \A i \in DOMAIN dropped : i \in DOMAIN dropped' /\ dropped'[i] = dropped[i]
          /\ \A i \in DOMAIN dropped' : i \in DOMAIN dropped \/ i = n
      BY <1>4, <2>1, <2>2, OneMore
    <3>2. /\ n \in 1..n /\ \A i \in DOMAIN dropped : i \in 1..n
          /\ \A i \in DOMAIN dropped : \A k \in 1..i : k \in DOMAIN dropped
      BY <1>9, <2>2
    <3> QED
      BY <3>1, <3>2
  <2>4. PageTypeOK'
    BY <1>0, <1>4, <2>1, <2>3 DEF PageTypeOK
  <2>5. PointerInv' /\ ChainInv' /\ LinkInv' /\ PassedOnce'
    BY <2>1 DEF PageInv, PointerInv, ChainInv, LinkInv, PassedOnce
  <2>6. UrlBufInv'
    <3>1. CASE p = UrlBuf
      BY <1>10, <2>3, <3>1 DEF UrlBufInv
    <3>2. CASE p # UrlBuf
      BY <1>10, <2>1, <2>3, <3>2 DEF PageInv, UrlBufInv
    <3> QED
      BY <3>1, <3>2
  <2>7. PICK k \in Keys(uniq.chain[a]) : m[k] = m[p]
    BY <1>5, <1>7
  <2>8. PICK j \in DOMAIN passed : passed[j].ptr = k /\ UrlHash[passed[j].url] = a
    BY <2>7 DEF PageInv, ChainInv
  <2>9. \/ \E l \in DOMAIN passed : passed[l].url = e.url
        \/ /\ passed[j].ptr \in Array
           /\ passed[j].ptr = UrlBuf => \E l \in 1..n : dropped'[l] = ByLoop(e.url)
    <3>1. CASE passed[j].ptr \notin Array
      BY <1>0, <1>3, <1>4, <1>6, <2>7, <2>8, <3>1
    <3>2. CASE passed[j].ptr \in Array /\ passed[j].ptr # UrlBuf
      BY <3>2
    <3>3. CASE passed[j].ptr = UrlBuf /\ p = UrlBuf
      <4>1. dropped'[n] = ByLoop(e.url) /\ n \in 1..n
        BY <1>10, <2>3, <3>3
      <4> QED
        BY <3>3, <4>1, Pointers
    <3>4. CASE passed[j].ptr = UrlBuf /\ p # UrlBuf
      <4>1. url_buf = e.url /\ url_buf # Junk
        BY <1>3, <1>10, <2>7, <2>8, <3>4 DEF Call
      <4>2. \/ \E l \in DOMAIN passed : passed[l].url = e.url
            \/ \E l \in DOMAIN dropped : dropped[l] = ByLoop(e.url)
        BY <4>1 DEF PageInv, UrlBufInv
      <4> QED
        BY <2>3, <3>4, <4>2, Pointers
    <3> QED
      BY <3>1, <3>2, <3>3, <3>4
  <2>10. HeldInv'
    <3>1. ASSUME NEW i \in DOMAIN dropped
          PROVE  \/ \E l \in DOMAIN passed : passed[l].url = dropped'[i].url
                 \/ \E l \in DOMAIN passed :
                      /\ passed[l].ptr \in Array
                      /\ UrlHash[passed[l].url] = UrlHash[dropped'[i].url]
                      /\ passed[l].ptr = UrlBuf => \E x \in 1..i : dropped'[x] = ByLoop(dropped'[i].url)
      <4>1. \A x \in 1..i : dropped'[x] = dropped[x]
        BY <2>3
      <4>2. dropped'[i] = dropped[i]
        BY <2>3
      <4> QED
        BY <4>1, <4>2 DEF PageInv, HeldInv
    <3>2. \/ \E l \in DOMAIN passed : passed[l].url = dropped'[n].url
          \/ \E l \in DOMAIN passed :
               /\ passed[l].ptr \in Array
               /\ UrlHash[passed[l].url] = UrlHash[dropped'[n].url]
               /\ passed[l].ptr = UrlBuf => \E x \in 1..n : dropped'[x] = ByLoop(dropped'[n].url)
      BY <1>1, <1>3, <2>3, <2>8, <2>9
    <3> QED
      BY <2>1, <2>3, <3>1, <3>2 DEF HeldInv
  <2> QED
    BY <2>4, <2>5, <2>6, <2>10 DEF PageInv
<1>8. CASE ~uniq_exists(uniq, m, p)
  <2>1. uniq' = uniq_put(uniq, m, p) /\ passed' = Append(passed, e) /\ dropped' = dropped
    BY <1>3, <1>8 DEF After, filter_add, Now
  <2>2. PICK n : n = Len(passed) + 1
    OBVIOUS
  <2>3. /\ passed' \in Seq(Entry) /\ n \in DOMAIN passed' /\ passed'[n] = e
        /\ \A i \in DOMAIN passed : i \in DOMAIN passed' /\ passed'[i] = passed[i] /\ i < n /\ i \in Nat
        /\ \A i \in DOMAIN passed' : i \in DOMAIN passed \/ i = n
        /\ n \in Nat
    BY <1>4, <2>1, <2>2, OneMore
  <2>4. /\ IsUniq(uniq') /\ Keys(uniq'.chain[a]) = Keys(uniq.chain[a]) \cup {p}
        /\ \A b \in Bucket : b # a => Keys(uniq'.chain[b]) = Keys(uniq.chain[b])
    <3>1. PICK u : u = uniq_put(uniq, m, p)
      OBVIOUS
    <3>2. /\ IsUniq(u)
          /\ Keys(u.chain[UrlHash[m[p]]]) = Keys(uniq.chain[UrlHash[m[p]]]) \cup {p}
          /\ \A b \in Bucket : b # UrlHash[m[p]] => Keys(u.chain[b]) = Keys(uniq.chain[b])
      <4>1. IsPut(uniq, m, p, u)
        BY <1>0, <1>4, <1>8, <3>1 DEF IsPut
      <4> QED
        BY <4>1, PutAdds
    <3> QED
      BY <1>1, <2>1, <3>1, <3>2
  <2>5. PageTypeOK'
    BY <1>0, <1>4, <2>1, <2>3, <2>4 DEF PageTypeOK
  <2>6. PointerInv'
    <3>1. ASSUME NEW i \in DOMAIN passed'
          PROVE  passed'[i].ptr \in Array \/ passed'[i].ptr = OptArg(passed'[i].url)
      <4>1. CASE i \in DOMAIN passed
        BY <1>6, <2>3, <4>1
      <4>2. CASE i = n
        BY <1>3, <2>3, <4>2 DEF Call
      <4> QED
        BY <2>3, <4>1, <4>2
    <3> QED
      BY <3>1 DEF PointerInv
  <2>7. ChainInv'
    <3>1. ASSUME NEW i \in DOMAIN passed' PROVE passed'[i].ptr \in Keys(uniq'.chain[UrlHash[passed'[i].url]])
      <4>1. CASE i \in DOMAIN passed
        <5>1. passed[i].ptr \in Keys(uniq.chain[UrlHash[passed[i].url]]) /\ UrlHash[passed[i].url] \in Bucket
          BY <1>4, <4>1 DEF PageInv, ChainInv
        <5>2. CASE UrlHash[passed[i].url] = a
          BY <2>3, <2>4, <4>1, <5>1, <5>2
        <5>3. CASE UrlHash[passed[i].url] # a
          BY <2>3, <2>4, <4>1, <5>1, <5>3
        <5> QED
          BY <5>2, <5>3
      <4>2. CASE i = n
        BY <1>1, <1>3, <2>3, <2>4, <4>2
      <4> QED
        BY <2>3, <4>1, <4>2
    <3>2. ASSUME NEW b \in Bucket, NEW k \in Keys(uniq'.chain[b])
          PROVE  \E j \in DOMAIN passed' : passed'[j].ptr = k /\ UrlHash[passed'[j].url] = b
      <4>1. CASE k \in Keys(uniq.chain[b])
        <5>1. PICK j \in DOMAIN passed : passed[j].ptr = k /\ UrlHash[passed[j].url] = b
          BY <4>1 DEF PageInv, ChainInv
        <5> QED
          BY <2>3, <5>1
      <4>2. CASE b = a /\ k = p
        BY <1>1, <1>3, <2>3, <4>2
      <4> QED
        BY <2>4, <4>1, <4>2
    <3> QED
      BY <3>1, <3>2, Zenon DEF ChainInv
  <2>8. ASSUME NEW i \in DOMAIN passed, UrlHash[passed[i].url] = a, m[passed[i].ptr] = m[p] PROVE FALSE
    <3>1. passed[i].ptr \in Keys(uniq.chain[a])
      BY <2>8 DEF PageInv, ChainInv
    <3> QED
      BY <1>5, <1>8, <2>8, <3>1
  <2>9. LinkInv'
    <3>1. ASSUME NEW i \in DOMAIN passed, passed[i].ptr = p, UrlHash[passed[i].url] = UrlHash[e.url]
          PROVE  FALSE
      BY <1>1, <1>3, <2>8, <3>1
    <3>2. ASSUME NEW i \in DOMAIN passed', NEW j \in DOMAIN passed',
                 passed'[i].ptr \in Array, passed'[i].ptr = passed'[j].ptr,
                 UrlHash[passed'[i].url] = UrlHash[passed'[j].url]
          PROVE  i = j
      <4>1. CASE i \in DOMAIN passed /\ j \in DOMAIN passed
        BY <2>3, <3>2, <4>1 DEF PageInv, LinkInv
      <4>2. CASE i \in DOMAIN passed /\ j = n
        BY <1>3, <2>3, <3>1, <3>2, <4>2
      <4>3. CASE i = n /\ j \in DOMAIN passed
        BY <1>3, <2>3, <3>1, <3>2, <4>3
      <4> QED
        BY <2>3, <4>1, <4>2, <4>3
    <3> QED
      BY <3>2 DEF LinkInv
  <2>10. PassedOnce'
    <3>1. ASSUME NEW i \in DOMAIN passed, passed[i].url = e.url
          PROVE  passed[i].ptr \in Array /\ passed[i].ptr # p
      <4>1. UrlHash[passed[i].url] = a
        BY <1>1, <1>3, <3>1
      <4>2. m[passed[i].ptr] # m[p]
        BY <2>8, <4>1
      <4>3. passed[i].ptr # OptArg(passed[i].url)
        BY <1>0, <1>3, <3>1, <4>2
      <4> QED
        BY <1>6, <4>2, <4>3
    <3>2. ASSUME NEW i \in DOMAIN passed', NEW j \in DOMAIN passed', i < j, passed'[i].url = passed'[j].url
          PROVE  passed'[i].ptr \in Array /\ passed'[i].ptr # passed'[j].ptr
      <4>1. i \in DOMAIN passed
        BY <2>3, <3>2
      <4>2. CASE j \in DOMAIN passed
        BY <2>3, <3>2, <4>1, <4>2 DEF PageInv, PassedOnce
      <4>3. CASE j = n
        BY <1>3, <2>3, <3>1, <3>2, <4>1, <4>3
      <4> QED
        BY <2>3, <4>2, <4>3
    <3> QED
      BY <3>2 DEF PassedOnce
  <2>11. HeldInv'
    BY <2>1, <2>3 DEF PageInv, HeldInv
  <2>12. UrlBufInv'
    <3>1. CASE p = UrlBuf
      BY <1>3, <1>10, <2>3, <3>1 DEF UrlBufInv
    <3>2. CASE p # UrlBuf
      BY <1>10, <2>1, <2>3, <3>2 DEF PageInv, UrlBufInv
    <3> QED
      BY <3>1, <3>2
  <2> QED
    BY <2>5, <2>6, <2>7, <2>9, <2>10, <2>11, <2>12 DEF PageInv
<1> QED
  BY <1>7, <1>8

LEMMA SameStep ==
  ASSUME PageInv, UNCHANGED <<uniq, url_buf, passed, dropped>>, crawling' \in BOOLEAN,
         reading' \in Seq(Text), crawling' => reading' \in Seq(Url)
  PROVE  PageInv'
<1>1. PageTypeOK'
  BY DEF PageInv, PageTypeOK
<1>2. PointerInv'
  BY DEF PageInv, PointerInv
<1>3. ChainInv' /\ LinkInv' /\ UrlBufInv' /\ HeldInv' /\ PassedOnce'
  BY DEF PageInv, ChainInv, LinkInv, UrlBufInv, HeldInv, PassedOnce
<1> QED
  BY <1>1, <1>2, <1>3 DEF PageInv

LEMMA HeadTail ==
  ASSUME NEW S, NEW q \in Seq(S), q # <<>>
  PROVE  Head(q) \in S /\ Tail(q) \in Seq(S)
  BY HeadTailProperties, Zenon

\* What a reader may be given: files of any lines, pages whose links are urls.
Inputs(lists, pages) ==
  lists \subseteq Seq(Text) /\ \A pg \in pages : pg.links \in Seq(Url)

LEMMA ComesStep ==
  ASSUME PageInv, NEW u \in Url, NEW p \in Pointer, p \in Array \/ p = OptArg(u), Comes(u, p),
         UNCHANGED crawling, reading' \in Seq(Text), crawling => reading' \in Seq(Url)
  PROVE  PageInv'
<1>1. url_buf \in Text
  BY DEF PageInv, PageTypeOK
<1>2. PICK same \in SUBSET Dead(p) : After(filter_add(Now, Memory(u, p, same), p))
  BY DEF Comes
<1>3. PICK m : m = Memory(u, p, same)
  OBVIOUS
<1>4. m[p] = u /\ Call(m, p)
  BY <1>1, <1>3, MemoryHolds DEF Call
<1>5. url_buf' = IF p = UrlBuf THEN m[p] ELSE url_buf
  BY <1>4 DEF Comes
<1> QED
  BY <1>2, <1>3, <1>4, <1>5, AddStep

LEMMA PageStep ==
  ASSUME PageInv, NEW lists, NEW pages, Inputs(lists, pages),
         PageNext(lists, pages) \/ UNCHANGED pageVars
  PROVE  PageInv'
<1>0. crawling \in BOOLEAN /\ reading \in Seq(Text) /\ (crawling => reading \in Seq(Url))
  BY DEF PageInv, PageTypeOK
<1>8. \A t \in Seq(Url) : t \in Seq(Text)
  BY DEF Text
<1>1. CASE StartCrawl
  <2>1. reading' = <<>>
    BY <1>1 DEF StartCrawl, Ready
  <2>2. reading' \in Seq(Text) /\ reading' \in Seq(Url)
    BY <2>1, EmptySeq
  <2> QED
    BY <1>1, <2>2, SameStep DEF StartCrawl
<1>2. CASE NextLine
  <2>1. ~crawling /\ crawling' = crawling /\ reading # <<>> /\ reading' = Tail(reading)
    BY <1>2 DEF NextLine
  <2>2. Head(reading) \in Text /\ reading' \in Seq(Text)
    BY <1>0, <2>1, HeadTail
  <2>3. CASE Head(reading) = Junk
    <3>1. UNCHANGED <<uniq, url_buf, passed, dropped>>
      BY <1>2, <2>3 DEF NextLine
    <3> QED
      BY <1>0, <2>1, <2>2, <3>1, SameStep
  <2>4. CASE Head(reading) # Junk
    <3>1. PICK u \in Url : u = Head(reading)
      BY <2>2, <2>4 DEF Text
    <3>2. Comes(u, <<"line">>)
      BY <1>2, <2>4, <3>1 DEF NextLine
    <3> QED
      BY <2>1, <2>2, <3>2, Pointers, ComesStep
  <2> QED
    BY <2>3, <2>4
<1>3. CASE NextLink
  <2>1. crawling /\ crawling' = crawling /\ reading # <<>> /\ reading' = Tail(reading)
    BY <1>3 DEF NextLink
  <2>2. Head(reading) \in Url /\ reading' \in Seq(Url)
    BY <1>0, <2>1, HeadTail
  <2>3. Comes(Head(reading), <<"buf">>)
    BY <1>3 DEF NextLink
  <2> QED
    BY <1>8, <2>1, <2>2, <2>3, Pointers, ComesStep
<1>4. CASE \E u \in Url : AddOption(u)
  <2>1. PICK u \in Url : AddOption(u)
    BY <1>4
  <2>2. Comes(u, OptArg(u)) /\ UNCHANGED <<crawling, reading>>
    BY <2>1 DEF AddOption
  <2> QED
    BY <1>0, <2>2, Pointers, ComesStep
<1>9. CASE \E u \in Url : Redirect(u)
  <2>1. PICK u \in Url : Redirect(u)
    BY <1>9
  <2>2. PICK p \in Array : Comes(u, p)
    BY <2>1, Pointers DEF Redirect
  <2>3. UNCHANGED <<crawling, reading>>
    BY <2>1 DEF Redirect
  <2> QED
    BY <1>0, <2>2, <2>3, Pointers, ComesStep
<1>5. CASE \E ls \in lists : file_extract_url(ls)
  <2>1. PICK ls \in lists : file_extract_url(ls)
    BY <1>5
  <2>2. ls \in Seq(Text)
    BY DEF Inputs
  <2>3. ~crawling /\ crawling' = crawling /\ UNCHANGED <<uniq, url_buf, passed, dropped>> /\ reading' = ls
    BY <2>1 DEF file_extract_url
  <2>4. reading' \in Seq(Text) /\ crawling' \in BOOLEAN /\ ~crawling'
    BY <1>0, <2>2, <2>3
  <2> QED
    BY <2>3, <2>4, SameStep
<1>6. CASE \E pg \in pages, opens \in BOOLEAN : html_dump(pg, opens)
  <2>1. PICK pg \in pages, opens \in BOOLEAN : html_dump(pg, opens)
    BY <1>6
  <2>2. pg.links \in Seq(Url)
    BY DEF Inputs
  <2>3. /\ crawling /\ crawling' = crawling /\ UNCHANGED <<uniq, url_buf, passed, dropped>>
        /\ reading' = pg.links \/ reading' = reading
    BY <2>1 DEF html_dump
  <2>4. reading' \in Seq(Text) /\ reading' \in Seq(Url) /\ crawling' \in BOOLEAN /\ crawling'
    BY <1>0, <1>8, <2>2, <2>3
  <2> QED
    BY <2>3, <2>4, SameStep
<1>7. CASE UNCHANGED pageVars
  <2>1. UNCHANGED <<uniq, url_buf, passed, dropped>> /\ crawling' = crawling /\ reading' = reading
    BY <1>7 DEF pageVars
  <2>2. crawling' \in BOOLEAN /\ reading' \in Seq(Text) /\ (crawling' => reading' \in Seq(Url))
    BY <1>0, <2>1
  <2> QED
    BY <2>1, <2>2, SameStep
<1> QED
  BY <1>1, <1>2, <1>3, <1>4, <1>5, <1>6, <1>7, <1>9 DEF PageNext

LEMMA PageInvariant ==
  ASSUME NEW lists, NEW pages, Inputs(lists, pages)
  PROVE  PageSpec(lists, pages) => []PageInv
<1>1. PageInit => PageInv
  BY InitPage
<1>2. PageInv /\ [PageNext(lists, pages)]_pageVars => PageInv'
  BY PageStep
<1> QED
  BY <1>1, <1>2, PTL DEF PageSpec

LEMMA LinksFit == PageInv => HeldBack
<1> SUFFICES ASSUME PageInv, NEW a \in Array
             PROVE  Cardinality({j \in DOMAIN passed : passed[j].ptr = a}) <= Buckets
  BY DEF PageInv, HeldInv, HeldBack, ByLoop
<1>1. PICK S : S = {j \in DOMAIN passed : passed[j].ptr = a}
  OBVIOUS
<1>2. \A j \in S : UrlHash[passed[j].url] \in Bucket
  <2>1. passed \in Seq(Entry) /\ DOMAIN passed = 1..Len(passed)
    BY LenProperties DEF PageInv, PageTypeOK
  <2>2. \A j \in DOMAIN passed : passed[j] \in Entry
    BY <2>1, ElementOfSeq
  <2> QED
    BY <1>1, <2>2, PageConstants DEF Entry, Text
<1>3. PICK f : f = [j \in S |-> UrlHash[passed[j].url]]
  OBVIOUS
<1>4. f \in Injection(S, Bucket)
  <2>1. f \in [S -> Bucket]
    BY <1>2, <1>3
  <2>2. \A i, j \in S : f[i] = f[j] => i = j
    BY <1>1, <1>3 DEF PageInv, LinkInv
  <2> QED
    BY <2>1, <2>2 DEF Injection, IsInjective
<1>5. IsFiniteSet(Bucket) /\ Cardinality(Bucket) = Buckets
  <2>1. 0 \in Int /\ Buckets - 1 \in Int /\ (Buckets - 1) - 0 + 1 = Buckets /\ ~(0 > Buckets - 1)
    BY PageConstants
  <2> QED
    BY <2>1, FS_Interval DEF Bucket
<1>6. Cardinality(S) <= Buckets
  BY <1>4, <1>5, FS_Injection
<1> QED
  BY <1>1, <1>6

\* For any urls, hash, buckets, blocks and texts, and whatever dead arrays hold,
\* filter_add passes no url on twice by one pointer, and none again that first came
\* by an option: the keys of uniq_hash are arrays that are written again or freed.
THEOREM PagePassedOnce ==
  ASSUME NEW lists, NEW pages, Inputs(lists, pages)
  PROVE  PageSpec(lists, pages) => []PassedOnce
<1>1. PageInv => PassedOnce
  BY DEF PageInv
<1> QED
  BY <1>1, PageInvariant, PTL

\* A new url is held back only when an earlier one came by an array and fell into its
\* bucket, and by url_buf of http_event_loop only when it came by that too; an array
\* fills a bucket once and for all, so that links, redirects to a path and lines of
\* files each pass on no more urls than uniq_hash has buckets.
THEOREM PageHeldBack ==
  ASSUME NEW lists, NEW pages, Inputs(lists, pages)
  PROVE  PageSpec(lists, pages) => []HeldBack
  BY LinksFit, PageInvariant, PTL

=============================================================================
