------------------------------- MODULE AntBody -------------------------------
(***************************************************************************)
(* mini_ant, ant_http.c: how one response, which arrives in pieces, becomes *)
(* a page.  http_read_head waits for nothing: it looks at what is there.   *)
(* http_read_body takes what is there by the framing the head announced,   *)
(* and is called again when more comes, but inside a chunked body it also  *)
(* blocks.  After an error event do_error opens a new connection, to which *)
(* the server sends the response again; the http_info goes on as it is,    *)
(* except for its status.  AntHttp has the loop around this.               *)
(*                                                                         *)
(* What is sent is a sequence of tokens: lines of the head (its code, then *)
(* "length", "chunked" or another one), "end", the empty line behind them, *)
(* and the bytes of the body.  In a chunked body "r" and "n" are the two   *)
(* characters that end a line, and a size is one token.                    *)
(***************************************************************************)
EXTENDS Integers, Sequences, SequencesExt

CONSTANTS
  Token,     \* lines and bytes
  Digits,    \* what the token of a size stands for
  Response,  \* responses: their lines and the pieces of their bodies, the last one empty
  MaxTry     \* retries of a connection; 2 in the code

ASSUME BodyAssumption ==
  /\ "end" \notin Token /\ {"r", "n"} \subseteq Token /\ DOMAIN Digits \subseteq Token \ {"r", "n"}
  /\ Digits \in [DOMAIN Digits -> Nat]
  /\ Response \subseteq [lines : Seq(Token), chunks : Seq([size : DOMAIN Digits, bytes : Seq(Token)])]
  /\ \A r \in Response :
       /\ r.lines # <<>> /\ r.lines[1] \notin {"length", "chunked"} /\ r.chunks # <<>>
       /\ \A k \in DOMAIN r.chunks : LET c == r.chunks[k] IN
            Digits[c.size] = Len(c.bytes) /\ (c.bytes = <<>> <=> k = Len(r.chunks))

VARIABLES
  resp,      \* the response
  togo, inq, \* what has not arrived, and what has arrived and was not read
  eof,       \* the server has closed the connection
  try,       \* http->try_num
  place,     \* "idle" between events, the place in http_read_body, or how it ended
  http,      \* the other fields of the http_info
  kept       \* history: a connection was lost after its head had been read

bodyVars == <<resp, togo, inq, eof, try, place, http, kept>>

\* What the body of a response carries, and how it is sent.
Data(r) == FlattenSeq([k \in DOMAIN r.chunks |-> r.chunks[k].bytes])
InChunk(c) == <<c.size, "r", "n">> \o c.bytes \o <<"r", "n">>
Body(r) == IF \E i \in DOMAIN r.lines : r.lines[i] = "chunked"
           THEN FlattenSeq([k \in DOMAIN r.chunks |-> InChunk(r.chunks[k])]) ELSE Data(r)
Sent(r) == r.lines \o <<"end">> \o Body(r)

http_init == [head |-> FALSE, filesize |-> -1, chunksize |-> -1, linecount |-> 0, code |-> "0",
              chunkhead |-> 0, page |-> <<>>]

BodyInit(r) ==
  /\ resp = r /\ togo = Sent(r) /\ inq = <<>> /\ eof = FALSE /\ try = 0
  /\ place = "idle" /\ http = http_init /\ kept = FALSE

Over == place \in {"dumped", "dropped", "exited"}

Arrive ==
  /\ ~Over /\ ~eof
  /\ \E n \in 1..Len(togo) :
       inq' = inq \o SubSeq(togo, 1, n) /\ togo' = SubSeq(togo, n + 1, Len(togo))
  /\ UNCHANGED <<resp, eof, try, place, http, kept>>

PeerCloses ==
  /\ ~Over /\ ~eof
  /\ eof' = TRUE
  /\ UNCHANGED <<resp, togo, inq, try, place, http, kept>>

\* do_error, after an error event; a read that fails leaves http as it is.
do_error ==
  /\ ~Over
  /\ place' = IF try < MaxTry THEN "idle" ELSE "exited"
  /\ try' = try + 1 /\ http' = [http EXCEPT !.head = FALSE]
  /\ togo' = Sent(resp) /\ inq' = <<>> /\ eof' = FALSE
  /\ kept' = (kept \/ http.linecount > 0)
  /\ UNCHANGED resp

-----------------------------------------------------------------------------
(* http_read_head *)

\* Only the first line there ever was is taken for the one with the code.
process_line(h, line) ==
  LET next == [h EXCEPT !.linecount = @ + 1]
  IN IF h.linecount = 0 THEN [next EXCEPT !.code = line]
     ELSE IF line = "length" /\ h.filesize = -1
     THEN [next EXCEPT !.filesize = Len(Data(resp)), !.chunksize = -1]
     ELSE IF line = "chunked" THEN [next EXCEPT !.filesize = -1, !.chunksize = 0]
     ELSE next

\* http after each of the lines.
process_lines(start, lines) ==
  LET after[k \in 0..Len(lines)] == IF k = 0 THEN start ELSE process_line(after[k - 1], lines[k])
  IN after

\* Without its end in sight the head counts as read, with what http holds.
http_read_head(h) ==
  LET ends == {i \in DOMAIN inq : inq[i] = "end"}
      start == [h EXCEPT !.head = TRUE, !.filesize = -1, !.chunksize = -1]
  IN IF h.head THEN [http |-> h, rest |-> inq]
     ELSE IF ends = {} THEN [http |-> start, rest |-> inq]
     ELSE LET e == CHOOSE i \in ends : TRUE
          IN [http |-> process_lines(start, SubSeq(inq, 1, e - 1))[e - 1],
              rest |-> SubSeq(inq, e + 1, Len(inq))]

\* An event: do_read.  Whatever is not 200 is done with.
do_read ==
  /\ place = "idle" /\ (inq # <<>> \/ eof)
  /\ LET r == http_read_head(http)
     IN /\ http' = r.http /\ inq' = r.rest
        /\ place' = IF r.http.code = "200" THEN "body" ELSE "dropped"
  /\ UNCHANGED <<resp, togo, eof, try, kept>>

-----------------------------------------------------------------------------
(* http_read_body *)

Chunked == http.chunksize = 0

\* Up to n bytes of what is there go to the page: readn_nonblock and ant_buf_append.
readn_nonblock(n) ==
  LET k == IF n < Len(inq) THEN n ELSE Len(inq)
  IN [got |-> SubSeq(inq, 1, k), rest |-> SubSeq(inq, k + 1, Len(inq))]

\* The number a line begins with, behind white space, and 0 without one.
strtoul(line) ==
  LET word == {i \in DOMAIN line : line[i] \notin {"r", "n"}}
      first == CHOOSE i \in word : \A j \in word : i <= j
  IN IF word # {} /\ line[first] \in DOMAIN Digits THEN Digits[line[first]] ELSE 0

LineEnds == {i \in 1..(Len(inq) - 1) : inq[i] = "r" /\ inq[i + 1] = "n"}

\* The size of the next chunk: sock_read blocks until something is there.  A line
\* that has not arrived whole ends the body, as the size 0 does.
ChunkHead ==
  /\ place = "body" /\ Chunked /\ http.chunkhead = 0 /\ (inq # <<>> \/ eof)
  /\ IF LineEnds = {} THEN place' = "dumped" /\ UNCHANGED <<inq, http>>
     ELSE LET e == CHOOSE i \in LineEnds : \A j \in LineEnds : i <= j
              size == strtoul(SubSeq(inq, 1, e - 1))
          IN /\ inq' = SubSeq(inq, e + 2, Len(inq))
             /\ http' = [http EXCEPT !.chunkhead = size]
             /\ place' = IF size = 0 THEN "dumped" ELSE "body"
  /\ UNCHANGED <<resp, togo, eof, try, kept>>

\* Fault: a part of a chunk does not count.
ChunkDataUncounted ==
  /\ place = "body" /\ Chunked /\ http.chunkhead > 0
  /\ LET r == readn_nonblock(http.chunkhead) IN
       /\ http' = [http EXCEPT !.page = @ \o r.got, !.chunkhead = IF Len(r.got) = @ THEN 0 ELSE @]
       /\ inq' = r.rest
       /\ place' = IF r.got = <<>> THEN "idle" ELSE IF http'.chunkhead = 0 THEN "crlf" ELSE "body"
  /\ UNCHANGED <<resp, togo, eof, try, kept>>

\* What is there of a chunk.  With nothing there the function returns.
ChunkData ==
  /\ place = "body" /\ Chunked /\ http.chunkhead > 0
  /\ LET r == readn_nonblock(http.chunkhead) IN
       /\ http' = [http EXCEPT !.page = @ \o r.got, !.chunkhead = @ - Len(r.got)]
       /\ inq' = r.rest
       /\ place' = IF r.got = <<>> THEN "idle" ELSE IF http'.chunkhead = 0 THEN "crlf" ELSE "body"
  /\ UNCHANGED <<resp, togo, eof, try, kept>>

\* readn_block of the two characters behind a chunk, which blocks.
readn_block ==
  /\ place = "crlf" /\ (Len(inq) >= 2 \/ eof)
  /\ inq' = readn_nonblock(2).rest /\ place' = "body"
  /\ UNCHANGED <<resp, togo, eof, try, http, kept>>

\* Content-Length: what is still missing.  For less than nothing malloc fails.
LengthData ==
  /\ place = "body" /\ ~Chunked /\ http.filesize > 0
  /\ LET len == http.filesize - Len(http.page)
         r == IF len < 0 THEN [got |-> <<>>, rest |-> inq] ELSE readn_nonblock(len)
     IN /\ http' = [http EXCEPT !.page = @ \o r.got]
        /\ inq' = r.rest
        /\ place' = IF len < 0 \/ len > Len(r.got) THEN "idle" ELSE "dumped"
  /\ UNCHANGED <<resp, togo, eof, try, kept>>

\* Neither: all there is until the connection ends.  A length of 0 is no body.
UntilEnd ==
  /\ place = "body" /\ ~Chunked /\ http.filesize <= 0
  /\ IF http.filesize = 0 THEN place' = "dumped" /\ UNCHANGED <<inq, http>>
     ELSE /\ http' = [http EXCEPT !.page = @ \o inq] /\ inq' = <<>>
          /\ place' = IF eof THEN "dumped" ELSE "idle"
  /\ UNCHANGED <<resp, togo, eof, try, kept>>

BodyNext == Arrive \/ PeerCloses \/ do_error \/ do_read \/ ChunkHead \/ ChunkData
              \/ readn_block \/ LengthData \/ UntilEnd

BodySpec(r) == BodyInit(r) /\ [][BodyNext]_bodyVars

-----------------------------------------------------------------------------
(* Properties *)

\* A Content-Length behind Transfer-Encoding replaces it, which it must not.
Overruled == \E i, j \in DOMAIN resp.lines : i < j /\ resp.lines[i] = "chunked" /\ resp.lines[j] = "length"

\* However the response was cut into pieces, the page is what the body carries, in
\* order, as long as the head announces its framing properly and no connection was
\* lost after its head: the next one adds to the page, the code and the chunk that
\* http still has.  A page that is dumped is whole, unless
\* the connection ended and the head gave no length, or what had arrived ended
\* inside the line with the size of a chunk.  A page that is there is dropped only
\* when its head was not read whole at the first event.
PageWhole ==
  /\ ~kept /\ ~Overruled =>
       /\ IsPrefix(http.page, Data(resp))
       /\ place = "dumped" /\ http.page # Data(resp) =>
            \/ eof /\ ~Chunked /\ http.filesize = -1
            \/ Chunked /\ LineEnds = {}
  /\ place = "dropped" => resp.lines[1] # "200" \/ (http.linecount = 0 /\ "end" \notin ToSet(inq))

=============================================================================
