-------------------------------- MODULE Proto --------------------------------
(***************************************************************************)
(* thread/proto.h: how the mrcp client and server talk.  A call is a       *)
(* record: a length, then its fields, each a length and its bytes; a reply *)
(* is a length and bytes.  The client puts a call together in a buffer     *)
(* (PUSH_...), ignoring that a field may be refused, and writes it; the    *)
(* other side reads records with readvrec, whose buffer grows, or with     *)
(* readvrec1, which cuts a record off at the length of its buffer.         *)
(*                                                                         *)
(* The bytes are modelled, lengths in network order.  A write or a read    *)
(* moves some of the bytes asked for; one that was interrupted moves none  *)
(* and is made again, which is no step.                                    *)
(***************************************************************************)
EXTENDS Naturals, Sequences, SequencesExt

CONSTANTS
  OutLen,    \* what the caller passes as the size of its buffer, with room for the head
  FirstLen,  \* first size of readvrec's buffer (500)
  InLen,     \* size of readvrec1's buffer
  IoSizes    \* how many bytes one write or read may move

\* Sizes are ints, and a call that moves nothing is the end or made again.
ASSUME ProtoAssumption ==
  /\ OutLen \in Nat /\ 4 <= OutLen /\ OutLen < 2147483644 /\ FirstLen \in Nat \ {0} /\ InLen \in Nat
  /\ IoSizes \subseteq Nat \ {0}

VARIABLES
  reader,    \* "readvrec" or "readvrec1"
  calls,     \* calls still to be made, each the sequence of its fields
  sent,      \* records made: [fields, data]
  wbuf,      \* what writen has not written yet
  wire,      \* bytes on their way
  open,      \* whether the writing side is open
  phase,     \* the reader: "head", "body", or "end" when it has given up
  need, acc, \* bytes readn still needs, and those it has
  buf,       \* the reader's buffer
  got        \* records read

protoVars == <<reader, calls, sent, wbuf, wire, open, phase, need, acc, buf, got>>

\* A uint32_t in memory, on a little-endian host.
Word(n) == <<n % 256, (n \div 256) % 256, (n \div 65536) % 256, (n \div 16777216) % 256>>
htonl(w) == Reverse(w)
Number(w) == w[1] + 256 * w[2] + 65536 * w[3] + 16777216 * w[4]

\* The field that is appended, with its length before it, or refused.  The test
\* leaves out the four bytes of the length.
proto_encode(b, outlen, in) ==
  IF outlen < Len(in) \/ outlen < Len(b) + Len(in) THEN b
  ELSE b \o htonl(Word(Len(in))) \o in

\* Integers of two, four and eight bytes go out in network order.
proto_encode_int(b, outlen, in) ==
  proto_encode(b, outlen, IF Len(in) \in {2, 4, 8} THEN Reverse(in) ELSE in)

\* PUSH_FUN, PUSH_STR, PUSH_BUF and PUSH_INT.
Push(b, f) == IF f.int THEN proto_encode_int(b, OutLen, f.bytes) ELSE proto_encode(b, OutLen, f.bytes)

\* The buffer after each of the fields of a call was pushed.
Pushed(fields) ==
  LET data[k \in 0..Len(fields)] == IF k = 0 THEN <<>> ELSE Push(data[k - 1], fields[k])
  IN data

\* PUSH_HEAD and proto_add_head: the length of all, in front.
PushHead(data) == htonl(Word(Len(data))) \o data

\* The field at the offset: nothing when the offset is past the buffer.  The bytes
\* are taken from the whole buffer, whatever the record's length was.
proto_decode(b, offset, outlen) ==
  IF offset >= Len(b) \/ Number(htonl(SubSeq(b, offset + 1, offset + 4))) > outlen THEN <<>>
  ELSE SubSeq(b, offset + 5, offset + 4 + Number(htonl(SubSeq(b, offset + 1, offset + 4))))

\* POP_BUF and POP_INT, with what the caller knows of the field.
Pop(b, offset, f) ==
  LET bytes == proto_decode(b, offset, Len(f.bytes))
  IN IF f.int /\ Len(f.bytes) \in {2, 4, 8} THEN Reverse(bytes) ELSE bytes

ProtoInit(todo) ==
  /\ reader \in {"readvrec", "readvrec1"} /\ calls = todo /\ sent = <<>> /\ wbuf = <<>>
  /\ wire = <<>> /\ open = TRUE /\ phase = "head" /\ need = 4 /\ acc = <<>> /\ got = <<>>
  /\ buf = [i \in 1..(IF reader = "readvrec" THEN FirstLen ELSE InLen) |-> 0]

readVars == <<phase, need, acc, buf, got>>

MakeCall ==
  /\ open /\ wbuf = <<>> /\ calls # <<>>
  /\ LET data == Pushed(Head(calls))[Len(Head(calls))] IN
       /\ sent' = Append(sent, [fields |-> Head(calls), data |-> data])
       /\ wbuf' = PushHead(data)
  /\ calls' = Tail(calls)
  /\ UNCHANGED <<reader, wire, open, readVars>>

Smaller(a, b) == IF a < b THEN a ELSE b

\* One write of writen's loop.
writen(n) ==
  /\ wbuf # <<>>
  /\ LET k == Smaller(n, Len(wbuf)) IN
       /\ wire' = wire \o SubSeq(wbuf, 1, k)
       /\ wbuf' = SubSeq(wbuf, k + 1, Len(wbuf))
  /\ UNCHANGED <<reader, calls, sent, open, readVars>>

\* The writer closes, or a write fails in the middle of a record.
CloseWriter ==
  /\ open
  /\ open' = FALSE /\ wbuf' = <<>>
  /\ UNCHANGED <<reader, calls, sent, wire, readVars>>

\* Fault: the buffer of readvrec keeps its size.
RoomKept(len) == buf

\* The buffer for a record: readvrec's grows to the record, or to twice its size.
Room(len) ==
  IF reader = "readvrec1" \/ len <= Len(buf) THEN buf
  ELSE LET needed == IF len < 2 * Len(buf) THEN 2 * Len(buf) ELSE len
       IN [i \in 1..needed |-> IF i <= Len(buf) THEN buf[i] ELSE 0]

\* How much of the record is read.
Wanted(len) == IF reader = "readvrec1" THEN Smaller(len, InLen) ELSE len

\* The buffer with a record in it; what would go behind its end is lost.
Store(data) == [i \in 1..Len(buf) |-> IF i <= Len(data) THEN data[i] ELSE buf[i]]

\* One read of readn's loop; when it is the last one, readvrec goes on to the body
\* or returns the record.  A record of no bytes looks like the end.
readn(n) ==
  /\ phase # "end" /\ wire # <<>>
  /\ LET k == Smaller(n, Smaller(need, Len(wire)))
         all == acc \o SubSeq(wire, 1, k)
         len == Number(htonl(all))
     IN /\ wire' = SubSeq(wire, k + 1, Len(wire))
        /\ \/ k < need /\ need' = need - k /\ acc' = all /\ UNCHANGED <<phase, buf, got>>
           \/ /\ k = need /\ phase = "head"
              /\ buf' = Room(len) /\ need' = Wanted(len) /\ acc' = <<>>
              /\ phase' = IF Wanted(len) = 0 THEN "end" ELSE "body"
              /\ UNCHANGED got
           \/ /\ k = need /\ phase = "body"
              /\ buf' = Store(all) /\ got' = Append(got, SubSeq(Store(all), 1, Smaller(Len(all), Len(buf))))
              /\ phase' = "head" /\ need' = 4 /\ acc' = <<>>
  /\ UNCHANGED <<reader, calls, sent, wbuf, open>>

\* read returns 0: what has arrived of a record is given up.
ReadEnd ==
  /\ phase # "end" /\ wire = <<>> /\ ~open
  /\ phase' = "end"
  /\ UNCHANGED <<reader, calls, sent, wbuf, wire, open, need, acc, buf, got>>

ProtoNext == MakeCall \/ CloseWriter \/ ReadEnd \/ \E n \in IoSizes : writen(n) \/ readn(n)

ProtoSpec(todo) == ProtoInit(todo) /\ [][ProtoNext]_protoVars

-----------------------------------------------------------------------------
(* Properties *)

\* Where the fields of a call end when every one was taken: in front of the first is 0.
Ends(fields) ==
  LET end[k \in 0..Len(fields)] == IF k = 0 THEN 0 ELSE end[k - 1] + 4 + Len(fields[k].bytes)
  IN end

\* Whether every field of a call was taken.
Complete(r) == Len(r.data) = Ends(r.fields)[Len(r.fields)]

\* Whatever sizes the writes and reads have and however the buffer grew, the
\* records read are the records written, in order, and give back the fields of
\* their calls; after readvrec1 has cut a record off, the rest of it is taken for
\* the next one and nothing more is said.
RecordsArrive ==
  \A i \in DOMAIN got :
    (\A j \in 1..(i - 1) : reader = "readvrec" \/ Len(sent[j].data) <= InLen) =>
       /\ i \in DOMAIN sent /\ IsPrefix(got[i], sent[i].data)
       /\ Len(got[i]) = Wanted(Len(sent[i].data))
       /\ Complete(sent[i]) /\ got[i] = sent[i].data =>
            \A f \in DOMAIN sent[i].fields :
              Pop(got[i], Ends(sent[i].fields)[f - 1], sent[i].fields[f]) = sent[i].fields[f].bytes

=============================================================================
