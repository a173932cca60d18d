------------------------------- MODULE AntHash -------------------------------
(***************************************************************************)
(* ant_hash: a table of chains.  An element holds the pointer it was given *)
(* as its key, not a copy, and a lookup compares what the pointers point   *)
(* at when it is made: mem is the memory, from pointers to keys.           *)
(*                                                                         *)
(* A table is [chain |-> m sequences of elements, length |-> the count];   *)
(* h gives the bucket of every key (ant_hash, or the function the caller   *)
(* passed), NULL is the value of an absent key.                            *)
(***************************************************************************)
EXTENDS Naturals, Sequences, SequencesExt

ant_hash_new(m) == [chain |-> [b \in 0..(m - 1) |-> <<>>], length |-> 0]

\* Where the chain has the key: no place, or the first one.
ant_lookup(chain, mem, k) ==
  {i \in DOMAIN chain : /\ mem[chain[i].key] = mem[k]
                        /\ \A j \in 1..(i - 1) : mem[chain[j].key] # mem[k]}

\* The chain a key belongs to, by what it points at now.
ChainOf(t, h, mem, k) == t.chain[h[mem[k]]]

ant_hash_put(t, h, mem, k, v) ==
  LET b == h[mem[k]]
      at == ant_lookup(t.chain[b], mem, k)
  IN IF at = {}
     THEN [chain |-> [t.chain EXCEPT ![b] = <<[key |-> k, val |-> v]>> \o @],
           length |-> t.length + 1]
     ELSE [t EXCEPT !.chain[b] = [i \in DOMAIN @ |->
             IF i \in at THEN [@[i] EXCEPT !.val = v] ELSE @[i]]]

ant_hash_get(t, h, mem, k, NULL) ==
  LET c == ChainOf(t, h, mem, k)
      at == ant_lookup(c, mem, k)
  IN IF at = {} THEN NULL ELSE c[CHOOSE i \in at : TRUE].val

\* Fault: the element is unlinked as if it were the first of its chain.
DelHead(t, h, mem, k) ==
  LET b == h[mem[k]]
  IN IF ant_lookup(t.chain[b], mem, k) = {} THEN t
     ELSE [chain |-> [t.chain EXCEPT ![b] = Tail(@)], length |-> t.length - 1]

ant_hash_del(t, h, mem, k) ==
  LET b == h[mem[k]]
      at == ant_lookup(t.chain[b], mem, k)
  IN IF at = {} THEN t
     ELSE [chain |-> [t.chain EXCEPT ![b] = RemoveAt(@, CHOOSE i \in at : TRUE)],
           length |-> t.length - 1]

=============================================================================
