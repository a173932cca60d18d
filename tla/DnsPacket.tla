------------------------------ MODULE DnsPacket ------------------------------
(***************************************************************************)
(* The packets of mini_ant's resolver (ant_dns.c), and the address of the  *)
(* server it asks.  A host name is a sequence of character codes, of which *)
(* only the dot matters; an encoded name is a sequence of length bytes and *)
(* characters that a length of 0 ends.  An answer record has a type, the   *)
(* length of its data, and the data.                                       *)
(***************************************************************************)
EXTENDS Integers, Sequences, SequencesExt

IP_LEN == 4
Dot == 46

\* A label with its length before it, behind the labels that are finished.
Encoded(e) == e.out \o <<Len(e.label)>> \o e.label

\* The scan of set_qname: a dot finishes a label.
Labels(s) ==
  FoldLeft(LAMBDA e, c : IF c = Dot THEN [out |-> Encoded(e), label |-> <<>>]
                                    ELSE [e EXCEPT !.label = Append(@, c)],
           [out |-> <<>>, label |-> <<>>], s)

\* Fault: what follows the last dot is left out.
QnameNoTail(s) == Append(Labels(s).out, 0)

set_qname(s) == Append(Encoded(Labels(s)), 0)

\* The query; qnlen is what is allocated and copied for the name.
set_dns_packets(name, id) ==
  [id |-> id, flags |-> "0100", questions |-> 1, qname |-> set_qname(name),
   qnlen |-> Len(name) + 2, qtype |-> 1, qclass |-> 1]

\* The name loop of parse_dns_packets: num characters of a label are to come.  A
\* dot is put behind every label, and the last one is taken away.  Of no label at all
\* the name is empty, as dns_recv_packet's caller cleared it, and the byte in front
\* of host_name is overwritten.
HostName(q) ==
  LET step(e, b) ==
        IF e.done THEN e
        ELSE IF e.num > 0 THEN [name |-> e.name \o (IF e.num = 1 THEN <<b, Dot>> ELSE <<b>>),
                                num |-> e.num - 1, done |-> FALSE]
        ELSE [e EXCEPT !.num = b, !.done = (b = 0)]
      name == FoldLeft(step, [name |-> <<>>, num |-> 0, done |-> FALSE], q).name
  IN IF name = <<>> THEN name ELSE Front(name)

\* Only an answer without an error is read, and of its records the first four that
\* hold an ipv4 address.
parse_dns_packets(flags, q, answers) ==
  LET step(ip, r) == IF r.type = 1 /\ r.len = 4 /\ Len(ip) < IP_LEN THEN Append(ip, r.data) ELSE ip
  IN [host_name |-> HostName(q), flags |-> flags,
      rc |-> IF flags = "8180" THEN 0 ELSE -1,
      ip |-> IF flags = "8180" THEN FoldLeft(step, <<>>, answers) ELSE <<>>]

\* A line of /etc/resolv.conf is the word before the first space ("#" for a
\* comment) and the rest; the rest is an address or a name.
Usable(l) == \/ l.word = "nameserver" /\ l.rest # "127.0.0.1"
             \/ l.word = "search" /\ l.rest # "name"

\* The server the first usable line names, or "none", with which the thread exits.
get_dns_ip(lines) ==
  FoldLeft(LAMBDA r, l : IF r = "none" /\ Usable(l) THEN l.rest ELSE r, "none", lines)

-----------------------------------------------------------------------------
(* Properties *)

\* Whether a name has an empty label at i: nothing between two dots, or between a
\* dot and the beginning or the end.
EmptyAt(s, i) == i \in 1..(Len(s) + 1) /\ (i = 1 \/ s[i - 1] = Dot) /\ (i = Len(s) + 1 \/ s[i] = Dot)

\* The answer to a query is found under the name that was asked for, because the
\* name that parse_dns_packets reads is the one set_qname wrote: all of it, or when
\* it has an empty label what stands before that, so that such a host waits for an
\* answer that never comes.  The name fills exactly the bytes allocated for it.
NameComesBack(name) ==
  LET p == set_dns_packets(name, 1)
      back == HostName(p.qname)
  IN /\ Len(p.qname) = p.qnlen
     /\ \/ back = name /\ \A i \in 1..(Len(name) + 1) : ~EmptyAt(name, i)
        \/ \E i \in 1..(Len(name) + 1) :
             /\ EmptyAt(name, i) /\ \A j \in 1..(i - 1) : ~EmptyAt(name, j)
             /\ back = SubSeq(name, 1, i - 2)

\* The addresses taken are the first ipv4 ones, in order, and no more than four.
AddressesTaken(answers) ==
  LET v4 == SelectSeq(answers, LAMBDA r : r.type = 1 /\ r.len = 4)
      ip == parse_dns_packets("8180", set_qname(<<97>>), answers).ip
  IN ip = [i \in 1..(IF Len(v4) < IP_LEN THEN Len(v4) ELSE IP_LEN) |-> v4[i].data]

\* The server asked is that of the first line that names one; a loopback name
\* server and a search list of names are passed over.
ServerChosen(lines) ==
  LET r == get_dns_ip(lines)
      usable == {i \in DOMAIN lines : Usable(lines[i])}
  IN IF usable = {} THEN r = "none"
     ELSE \E i \in usable : r = lines[i].rest /\ \A j \in usable : i <= j

=============================================================================
