----------------------------- MODULE SmtpCapture -----------------------------
(***************************************************************************)
(* use_libnids: libnids (external) reassembles tcp streams and calls       *)
(* tcp_callback for every piece of data.  On port 25 ant_smtp_init looks   *)
(* at how the data begins and ant_smtp_process acts on it.  The mails      *)
(* being captured are queues in g_smtp_hash, one per stream, but the state *)
(* of the capture, g_dump_status.smtp, is one for all streams.             *)
(*                                                                         *)
(* A piece of data is a record: its stream, its kind by what it begins     *)
(* with ("return" Return-Path:, "quit" QUIT, or "text") and its number in  *)
(* the stream.  A queue is the sequence of its pieces; it is reached only  *)
(* through the table, so the table holds the sequence itself.  Events that *)
(* only log (a new, closed or reset stream, urgent data, port 80) change   *)
(* nothing and are not steps: a stream cut off in the middle of a mail     *)
(* leaves the mail in the table.                                           *)
(***************************************************************************)
EXTENDS Naturals, Sequences, FiniteSets

CONSTANTS
  Stream,   \* smtp streams, by the address tuple that is the key
  M,        \* buckets of g_smtp_hash
  Hash,     \* the bucket of each stream
  From,     \* what the From: of each stream's mails says
  MaxData,  \* pieces of data a stream sends
  MaxTime,  \* seconds that pass
  MaxFd,    \* descriptors the process may have
  NULL

ASSUME SmtpAssumption ==
  /\ M \in Nat \ {0} /\ Hash \in [Stream -> 0..(M - 1)] /\ From \in [Stream -> STRING]
  /\ MaxData \in Nat /\ MaxTime \in Nat /\ MaxFd \in Nat

H == INSTANCE AntHash

VARIABLES
  status,      \* g_dump_status.smtp
  table,       \* g_smtp_hash
  nsent,       \* pieces each stream has sent
  files,       \* the files dumped: what each name holds
  fds,         \* descriptors of dumped files: dump_file closes none
  now,         \* seconds
  crashed,
  since,       \* the pieces of each stream from its last Return-Path on
  disturbed    \* streams on whose mail another stream's QUIT has fallen

smtpVars == <<status, table, nsent, files, fds, now, crashed, since, disturbed>>

Kind == {"return", "quit", "text"}
Chunk == [stream : Stream, kind : Kind, n : 1..MaxData]
Name == (0..MaxTime) \X {From[s] : s \in Stream}

\* A queue is never the null pointer.
ASSUME QueueAssumption == NULL \notin Seq(Chunk)

\* Keys are copies of the address tuple made for the table, and never change.
Own == [s \in Stream |-> s]

hash_put(t, s, v) == H!ant_hash_put(t, Hash, Own, s, v)

hash_get(t, s) == H!ant_hash_get(t, Hash, Own, s, NULL)

\* This copy of ant_hash_del leaves length alone.
hash_del(t, s) == [H!ant_hash_del(t, Hash, Own, s) EXCEPT !.length = t.length]

SmtpInit ==
  /\ status = "INIT" /\ table = H!ant_hash_new(M) /\ nsent = [s \in Stream |-> 0]
  /\ files = [n \in Name |-> NULL] /\ fds = 0 /\ now = 0 /\ crashed = FALSE
  /\ since = [s \in Stream |-> <<>>] /\ disturbed = {}

queue_new == <<>>

queue_put(d, q) == Append(q, d)

\* The name has the second and the sender only: the receiver is looked for at
\* "From:" and never found.
set_mail_name(s) == <<now, From[s]>>

\* Fault: the file is opened without truncating it.
DumpAppends(q, name) ==
  \/ /\ fds < MaxFd
     /\ files' = [files EXCEPT ![name] = IF @ = NULL THEN q ELSE @ \o q] /\ fds' = fds + 1
  \/ UNCHANGED <<files, fds>>

\* open truncates a file of that name; it fails when descriptors have run out,
\* and may fail for other reasons (a name with a slash).
dump_file(q, name) ==
  \/ /\ fds < MaxFd
     /\ files' = [files EXCEPT ![name] = q] /\ fds' = fds + 1
  \/ UNCHANGED <<files, fds>>

\* Fault: a mail already open is kept when another one begins.
InitKeeps(c) ==
  CASE c.kind = "return" ->
         [status |-> "BEGIN", table |-> IF hash_get(table, c.stream) = NULL
                                        THEN hash_put(table, c.stream, queue_new) ELSE table]
    [] c.kind = "quit" -> [status |-> "DOWNLOAD", table |-> table]
    [] OTHER -> [status |-> status, table |-> table]

ant_smtp_init(c) ==
  CASE c.kind = "return" ->
         [status |-> "BEGIN", table |-> hash_put(table, c.stream, queue_new)]
    [] c.kind = "quit" -> [status |-> "DOWNLOAD", table |-> table]
    [] OTHER -> [status |-> status, table |-> table]

\* Without a mail of its own a stream's QUIT reads through a null pointer.
ant_smtp_process(c, i) ==
  LET s == c.stream
      queue == hash_get(i.table, s)
  IN \/ /\ i.status = "BEGIN"
        /\ table' = IF queue = NULL THEN i.table ELSE hash_put(i.table, s, queue_put(c, queue))
        /\ status' = i.status /\ UNCHANGED <<files, fds, crashed>>
     \/ /\ i.status = "DOWNLOAD" /\ queue # NULL
        /\ dump_file(queue, set_mail_name(s))
        /\ status' = "INIT" /\ table' = hash_del(i.table, s) /\ UNCHANGED crashed
     \/ /\ i.status = "DOWNLOAD" /\ queue = NULL
        /\ crashed' = TRUE
        /\ status' = i.status /\ table' = i.table /\ UNCHANGED <<files, fds>>
     \/ /\ i.status = "INIT"
        /\ status' = i.status /\ table' = i.table /\ UNCHANGED <<files, fds, crashed>>

\* What the streams have really sent, for the properties.
Record(c) ==
  LET s == c.stream IN
  /\ nsent' = [nsent EXCEPT ![s] = c.n]
  /\ since' = [since EXCEPT ![s] = CASE c.kind = "return" -> <<c>> [] c.kind = "quit" -> <<>>
                                     [] OTHER -> IF @ = <<>> THEN @ ELSE Append(@, c)]
  /\ disturbed' = CASE c.kind = "return" -> disturbed \ {s}
                    [] c.kind = "quit" -> (disturbed \cup Stream) \ {s}
                    [] OTHER -> disturbed

tcp_callback(s, kind) ==
  /\ ~crashed /\ nsent[s] < MaxData
  /\ LET c == [stream |-> s, kind |-> kind, n |-> nsent[s] + 1] IN
       /\ ant_smtp_process(c, ant_smtp_init(c))
       /\ Record(c)
  /\ UNCHANGED now

Tick == /\ ~crashed /\ now < MaxTime
        /\ now' = now + 1
        /\ UNCHANGED <<status, table, nsent, files, fds, crashed, since, disturbed>>

SmtpNext == Tick \/ \E s \in Stream, k \in Kind : tcp_callback(s, k)

SmtpSpec == SmtpInit /\ [][SmtpNext]_smtpVars

-----------------------------------------------------------------------------
(* Properties *)

Mail == [s \in Stream |-> hash_get(table, s)]

Promise == INSTANCE MailCapture WITH mail <- Mail

\* Through the shared status and a table whose chains hold several streams, each
\* stream still has a mail of its own: every callback is a step of MailCapture,
\* so that a file is one stream's mail, in order, from a Return-Path on.
CapturesMail == Promise!Spec

\* A mail has every piece that its stream sent since its Return-Path, unless
\* another stream's QUIT came after that and put the shared status back: only
\* then is there a hole.
HoleNeedsQuit ==
  \A s \in Stream : Mail[s] # NULL /\ s \notin disturbed => Mail[s] = since[s]

\* A stream whose mail is open has sent Return-Path and no QUIT since; no other
\* stream's QUIT, and no neighbour in its chain, takes the mail out of the table.
MailStays == ~crashed => \A s \in Stream : Mail[s] # NULL <=> since[s] # <<>>

=============================================================================
