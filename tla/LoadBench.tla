----------------------------- MODULE LoadBench -----------------------------
(***************************************************************************)
(* The load generator shared by conn and wsurl.  A producer goroutine      *)
(* fills a channel with one token per request; -duration puts a timed      *)
(* source in its place, -rate a pacing goroutine behind it; C workers take *)
(* a token, run one client session and hand the result to the report       *)
(* goroutine; main waits for the wait group or for an interrupt, stops the *)
(* report goroutine and prints the totals.                                 *)
(*                                                                         *)
(* Channels carry struct{} tokens, so a channel is its length and whether  *)
(* it is closed.  Byte counts and times are left out of a result: a result *)
(* is one element of allResult and one addition to the byte totals.        *)
(***************************************************************************)
EXTENDS Integers, FiniteSets

CONSTANTS Workers,     \* the -ac worker goroutines
          MaxN,        \* bound: the largest -an explored
          ChanCap,     \* capacity of the channels (1000 in the code)
          MaxEmit,     \* bound: tokens a timed or paced source emits
          MaxChunks    \* bound: chunks of input one client session sends

ASSUME WorkersAssumption == Workers # {} /\ IsFiniteSet(Workers)
ASSUME BoundsAssumption == /\ MaxN \in Nat
                           /\ ChanCap \in Nat \ {0}
                           /\ MaxEmit \in Nat /\ MaxN <= MaxEmit
                           /\ MaxChunks \in Nat

VARIABLES cfg,      \* the command line: tool, n, dur, rate, bench
          ch,       \* the three work channels: length and closed flag
          sent,     \* i of the producer's loop
          tick,     \* the -duration goroutine and the tokens it sent
          pace,     \* the -rate goroutine and its count
          w,        \* the workers
          rep,      \* the report goroutine: connNum, len(allResult)
          added,    \* the results whose bytes are in readBytes/writeBytes
          errN,     \* failed requests
          quit,     \* r.quit is closed
          done,     \* wg.Wait() returned and done holds its token
          sig,      \* an interrupt is in the sig channel
          main,     \* the main goroutine
          taken     \* history: tokens taken by workers

vars == <<cfg, ch, sent, tick, pace, w, rep, added, errN, quit, done, sig,
          main, taken>>

Channels == {"prod", "timed", "paced"}

\* With -duration the value of -an is never used.
Options == {o \in [tool: {"conn", "wsurl"}, n: 0 .. MaxN, dur: BOOLEAN,
                   rate: BOOLEAN, bench: BOOLEAN] : o.dur => o.n = 0}

\* Producer() overwrites c.n by -1 when a duration is given.
n == IF cfg.dur THEN -1 ELSE cfg.n

\* The channel -rate polls, and the one the workers range over.
oldwork == IF cfg.dur THEN "timed" ELSE "prod"
work == IF cfg.rate THEN "paced" ELSE oldwork

HasRoom(c) == ch[c].len < ChanCap
Send(c) == ch' = [ch EXCEPT ![c].len = @ + 1]
Receive(c) == ch' = [ch EXCEPT ![c].len = @ - 1]
Close(c) == ch' = [ch EXCEPT ![c].closed = TRUE]
Drained(c) == ch[c].len = 0 /\ ch[c].closed

\* The process is there until main returns or someone calls os.Exit.
Running == main \notin {"end", "exit"}

Idle == [pc |-> "take", err |-> "nil", left |-> MaxChunks, reading |-> FALSE]

Init ==
  /\ cfg \in Options
  /\ ch = [c \in Channels |-> [len |-> 0, closed |-> FALSE]]
  /\ sent = 0
  /\ tick = [pc |-> IF cfg.dur THEN "run" ELSE "off", count |-> 0]
  /\ pace = [pc |-> IF cfg.rate THEN "poll" ELSE "off", count |-> 0]
  /\ w = [i \in Workers |-> Idle]
  /\ rep = [pc |-> IF cfg.bench THEN "loop" ELSE "off",
            connNum |-> 0, results |-> 0]
  /\ added = 0 /\ errN = 0
  /\ quit = FALSE /\ done = FALSE /\ sig = FALSE
  /\ main = "select"
  /\ taken = 0

-----------------------------------------------------------------------------
(* The sources of tokens. *)

\* Producer(): n tokens, or tokens for ever when n is negative.
ProducerSend ==
  /\ Running
  /\ n >= 0 => sent < n
  /\ ~ch["prod"].closed /\ HasRoom("prod")
  /\ Send("prod")
  /\ sent' = IF n >= 0 THEN sent + 1 ELSE sent
  /\ UNCHANGED <<cfg, tick, pace, w, rep, added, errN, quit, done, sig, main,
                 taken>>

ProducerClose ==
  /\ Running
  /\ sent = n /\ ~ch["prod"].closed
  /\ Close("prod")
  /\ UNCHANGED <<cfg, sent, tick, pace, w, rep, added, errN, quit, done, sig,
                 main, taken>>

\* The -duration goroutine: select between the ticker and a send.
TickSend ==
  /\ Running
  /\ tick.pc = "run" /\ tick.count < MaxEmit
  /\ HasRoom("timed")
  /\ Send("timed")
  /\ tick' = [tick EXCEPT !.count = @ + 1]
  /\ UNCHANGED <<cfg, sent, pace, w, rep, added, errN, quit, done, sig, main,
                 taken>>

TickExpire ==
  /\ Running
  /\ tick.pc = "run"
  /\ tick' = [tick EXCEPT !.pc = "close"]
  /\ UNCHANGED <<cfg, ch, sent, pace, w, rep, added, errN, quit, done, sig,
                 main, taken>>

\* Its deferred function: close the channel, empty it, wg.Done().
TickClose ==
  /\ Running
  /\ tick.pc = "close"
  /\ Close("timed")
  /\ tick' = [tick EXCEPT !.pc = "drain"]
  /\ UNCHANGED <<cfg, sent, pace, w, rep, added, errN, quit, done, sig, main,
                 taken>>

\* Fault: the closed channel is not emptied.
MutTickDrain ==
  /\ Running
  /\ tick.pc = "drain"
  /\ tick' = [tick EXCEPT !.pc = "done"] /\ UNCHANGED ch
  /\ UNCHANGED <<cfg, sent, pace, w, rep, added, errN, quit, done, sig, main,
                 taken>>

TickDrain ==
  /\ Running
  /\ tick.pc = "drain"
  /\ \/ ch["timed"].len > 0 /\ Receive("timed") /\ UNCHANGED tick
     \/ Drained("timed") /\ tick' = [tick EXCEPT !.pc = "done"] /\ UNCHANGED ch
  /\ UNCHANGED <<cfg, sent, pace, w, rep, added, errN, quit, done, sig, main,
                 taken>>

\* The -rate goroutine: a select with a default, so that a token is emitted
\* whether or not the source had one; only a closed source ends it early.
RatePoll ==
  /\ Running
  /\ pace.pc = "poll"
  /\ \/ /\ ch[oldwork].len > 0 /\ pace.count < MaxEmit
        /\ Receive(oldwork)
        /\ pace' = [pace EXCEPT !.pc = "emit"]
     \/ /\ ch[oldwork].len = 0 /\ ~ch[oldwork].closed /\ pace.count < MaxEmit
        /\ pace' = [pace EXCEPT !.pc = "emit"] /\ UNCHANGED ch
     \/ /\ Drained(oldwork)
        /\ pace' = [pace EXCEPT !.pc = "close"] /\ UNCHANGED ch
  /\ UNCHANGED <<cfg, sent, tick, w, rep, added, errN, quit, done, sig, main,
                 taken>>

\* Fault: the count is compared before it is incremented.
MutRateEmit ==
  /\ Running
  /\ pace.pc = "emit" /\ HasRoom("paced")
  /\ Send("paced")
  /\ pace' = [pc |-> IF pace.count = n THEN "close" ELSE "poll",
              count |-> pace.count + 1]
  /\ UNCHANGED <<cfg, sent, tick, w, rep, added, errN, quit, done, sig, main,
                 taken>>

RateEmit ==
  /\ Running
  /\ pace.pc = "emit" /\ HasRoom("paced")
  /\ Send("paced")
  /\ pace' = [pc |-> IF pace.count + 1 = n THEN "close" ELSE "poll",
              count |-> pace.count + 1]
  /\ UNCHANGED <<cfg, sent, tick, w, rep, added, errN, quit, done, sig, main,
                 taken>>

\* Fault: the goroutine leaves without closing its channel.
MutRateClose ==
  /\ Running
  /\ pace.pc = "close"
  /\ pace' = [pace EXCEPT !.pc = "done"]
  /\ UNCHANGED <<cfg, ch, sent, tick, w, rep, added, errN, quit, done, sig,
                 main, taken>>

RateClose ==
  /\ Running
  /\ pace.pc = "close"
  /\ Close("paced")
  /\ pace' = [pace EXCEPT !.pc = "done"]
  /\ UNCHANGED <<cfg, sent, tick, w, rep, added, errN, quit, done, sig, main,
                 taken>>

-----------------------------------------------------------------------------
(* The workers: for range work { one session; report }. *)

WorkTake(i) ==
  /\ Running
  /\ w[i].pc = "take" /\ ch[work].len > 0
  /\ Receive(work)
  /\ w' = [w EXCEPT ![i] = [Idle EXCEPT !.pc = "dial"]]
  /\ taken' = taken + 1
  /\ UNCHANGED <<cfg, sent, tick, pace, rep, added, errN, quit, done, sig,
                 main>>

WorkGone(i) ==
  /\ Running
  /\ w[i].pc = "take" /\ Drained(work)
  /\ w' = [w EXCEPT ![i].pc = "gone"]
  /\ UNCHANGED <<cfg, ch, sent, tick, pace, rep, added, errN, quit, done, sig,
                 main, taken>>

\* A step of one session: worker i leaves "from" for "to"; only w changes.
Session(i, from, to) ==
  /\ Running
  /\ w[i].pc = from
  /\ w' = [w EXCEPT ![i].pc = to]
  /\ UNCHANGED <<cfg, ch, sent, tick, pace, rep, added, errN, quit, done, sig,
                 main, taken>>

\* The session returns e; io.EOF is the "nil" of conn's worker.
Return(i, from, e) ==
  /\ Running
  /\ w[i].pc = from
  /\ w' = [w EXCEPT ![i].pc = "result", ![i].err = e]
  /\ UNCHANGED <<cfg, ch, sent, tick, pace, rep, added, errN, quit, done, sig,
                 main, taken>>

\* conn: OnceClient.  Dial; then chunks of input, each written and answered,
\* until the input ends, the peer closes, or a write or a read fails.  A port
\* range dials every port and returns the error of the last one.
OnceDial(i) ==
  /\ cfg.tool = "conn"
  /\ \/ Session(i, "dial", "in")
     \/ \E e \in {"refused", "other"} : Return(i, "dial", e)

OnceRange(i) ==
  /\ cfg.tool = "conn"
  /\ \E e \in {"nil", "refused", "other"} : Return(i, "dial", e)

OnceInput(i) ==
  \/ /\ Running
     /\ w[i].pc = "in" /\ w[i].left > 0
     /\ w' = [w EXCEPT ![i].pc = "out", ![i].left = @ - 1]
     /\ UNCHANGED <<cfg, ch, sent, tick, pace, rep, added, errN, quit, done,
                    sig, main, taken>>
  \/ \E e \in {"nil", "other"} : Return(i, "in", e)

OnceWrite(i) == Session(i, "out", "reply") \/ Return(i, "out", "other")

OnceReply(i) ==
  \/ Session(i, "reply", "in")
  \/ \E e \in {"nil", "other"} : Return(i, "reply", e)

\* wsurl: one.  A reader goroutine runs from the dial until the connection
\* fails or is closed; the writer ignores write errors, leaves the program
\* when its @file cannot be opened, may send a close message, and waits for
\* the reader.
OneDial(i) ==
  /\ cfg.tool = "wsurl"
  /\ \/ /\ Running
        /\ w[i].pc = "dial"
        /\ w' = [w EXCEPT ![i].pc = "write", ![i].reading = TRUE]
        /\ UNCHANGED <<cfg, ch, sent, tick, pace, rep, added, errN, quit,
                       done, sig, main, taken>>
     \/ \E e \in {"refused", "other"} : Return(i, "dial", e)

OneWrite(i) ==
  \/ Session(i, "write", "closing")
  \/ /\ Running
     /\ w[i].pc = "write"
     /\ main' = "exit"
     /\ UNCHANGED <<cfg, ch, sent, tick, pace, w, rep, added, errN, quit, done,
                    sig, taken>>

OneClose(i) ==
  /\ Running
  /\ w[i].pc = "closing"
  /\ \E e \in {"nil", "other"} :
       w' = [w EXCEPT ![i].pc = "wait", ![i].err = e]
  /\ UNCHANGED <<cfg, ch, sent, tick, pace, rep, added, errN, quit, done, sig,
                 main, taken>>

OneReaderEnds(i) ==
  /\ Running
  /\ w[i].reading
  /\ w' = [w EXCEPT ![i].reading = FALSE]
  /\ UNCHANGED <<cfg, ch, sent, tick, pace, rep, added, errN, quit, done, sig,
                 main, taken>>

OneWait(i) == ~w[i].reading /\ Session(i, "wait", "result")

\* What the worker does with the session's outcome.  Without -bench there is
\* no report, and cmdErr leaves the program on a refused connection.
Result(i) ==
  /\ Running
  /\ w[i].pc = "result"
  /\ \/ /\ w[i].err = "nil" /\ cfg.bench
        /\ w' = [w EXCEPT ![i] = [Idle EXCEPT !.pc = "add"]]
        /\ UNCHANGED <<errN, main>>
     \/ /\ w[i].err = "nil" /\ ~cfg.bench
        /\ w' = [w EXCEPT ![i] = Idle]
        /\ UNCHANGED <<errN, main>>
     \/ /\ w[i].err # "nil" /\ cfg.bench
        /\ errN' = errN + 1
        /\ w' = [w EXCEPT ![i] = Idle]
        /\ UNCHANGED main
     \/ /\ w[i].err # "nil" /\ ~cfg.bench
        /\ main' = IF w[i].err = "refused" THEN "exit" ELSE main
        /\ w' = [w EXCEPT ![i] = Idle]
        /\ UNCHANGED errN
  /\ UNCHANGED <<cfg, ch, sent, tick, pace, rep, added, quit, done, sig, taken>>

\* Report.Add: the byte totals first, then a send that blocks when allResult
\* is full.
AddBytes(i) ==
  /\ Running
  /\ w[i].pc = "add"
  /\ added' = added + 1
  /\ w' = [w EXCEPT ![i].pc = "push"]
  /\ UNCHANGED <<cfg, ch, sent, tick, pace, rep, errN, quit, done, sig, main,
                 taken>>

\* Fault: a send that drops the result when the channel is full.
MutAddResult(i) ==
  /\ Running
  /\ w[i].pc = "push"
  /\ rep' = [rep EXCEPT !.results = IF @ < ChanCap THEN @ + 1 ELSE @]
  /\ w' = [w EXCEPT ![i].pc = "take"]
  /\ UNCHANGED <<cfg, ch, sent, tick, pace, added, errN, quit, done, sig, main,
                 taken>>

AddResult(i) ==
  /\ Running
  /\ w[i].pc = "push" /\ rep.results < ChanCap
  /\ rep' = [rep EXCEPT !.results = @ + 1]
  /\ w' = [w EXCEPT ![i].pc = "take"]
  /\ UNCHANGED <<cfg, ch, sent, tick, pace, added, errN, quit, done, sig, main,
                 taken>>

-----------------------------------------------------------------------------
(* The report goroutine and main. *)

\* One result counted.
ReportCount ==
  /\ Running
  /\ rep.pc = "loop" /\ rep.results > 0
  /\ rep' = [rep EXCEPT !.connNum = @ + 1, !.results = @ - 1]
  /\ UNCHANGED <<cfg, ch, sent, tick, pace, w, added, errN, quit, done, sig,
                 main, taken>>

\* The quit case of the same select: ready results may still be buffered.
ReportQuit ==
  /\ Running
  /\ rep.pc = "loop" /\ quit
  /\ rep' = [rep EXCEPT !.pc = "handoff"]
  /\ UNCHANGED <<cfg, ch, sent, tick, pace, w, added, errN, quit, done, sig,
                 main, taken>>

\* r.waitQuit has no buffer: the goroutine's last send meets main's receive.
ReportHandoff ==
  /\ Running
  /\ rep.pc = "handoff" /\ main = "wait"
  /\ rep' = [rep EXCEPT !.pc = "gone"]
  /\ main' = "print"
  /\ UNCHANGED <<cfg, ch, sent, tick, pace, w, added, errN, quit, done, sig,
                 taken>>

\* wg counts the workers and the -duration and -rate goroutines.
WaitGroup ==
  /\ Running
  /\ ~done
  /\ \A i \in Workers : w[i].pc = "gone"
  /\ tick.pc \in {"off", "done"} /\ pace.pc \in {"off", "done"}
  /\ done' = TRUE
  /\ UNCHANGED <<cfg, ch, sent, tick, pace, w, rep, added, errN, quit, sig,
                 main, taken>>

Interrupt ==
  /\ Running
  /\ ~sig
  /\ sig' = TRUE
  /\ UNCHANGED <<cfg, ch, sent, tick, pace, w, rep, added, errN, quit, done,
                 main, taken>>

\* Fault: Report.Wait does not wait for the report goroutine.
MutMainSelect ==
  /\ main = "select"
  /\ sig \/ done
  /\ quit' = cfg.bench
  /\ main' = IF cfg.bench THEN "print" ELSE "end"
  /\ UNCHANGED <<cfg, ch, sent, tick, pace, w, rep, added, errN, done, sig,
                 taken>>

MainSelect ==
  /\ main = "select"
  /\ sig \/ done
  /\ quit' = cfg.bench
  /\ main' = IF cfg.bench THEN "wait" ELSE "end"
  /\ UNCHANGED <<cfg, ch, sent, tick, pace, w, rep, added, errN, done, sig,
                 taken>>

MainPrint ==
  /\ main = "print"
  /\ main' = "end"
  /\ UNCHANGED <<cfg, ch, sent, tick, pace, w, rep, added, errN, quit, done,
                 sig, taken>>

\* The process is gone.
Exited == ~Running /\ UNCHANGED vars

Source == \/ ProducerSend \/ ProducerClose
          \/ TickSend \/ TickExpire \/ TickClose \/ TickDrain
          \/ RatePoll \/ RateEmit \/ RateClose

OnceClient(i) == \/ OnceDial(i) \/ OnceRange(i) \/ OnceInput(i)
                 \/ OnceWrite(i) \/ OnceReply(i)

One(i) == OneDial(i) \/ OneWrite(i) \/ OneClose(i) \/ OneWait(i)

Worker(i) == \/ WorkTake(i) \/ WorkGone(i) \/ OnceClient(i) \/ One(i)
             \/ Result(i) \/ AddBytes(i) \/ AddResult(i)

Report == ReportCount \/ ReportQuit \/ ReportHandoff

Main == MainSelect \/ MainPrint

Next == \/ Source
        \/ \E i \in Workers : Worker(i) \/ OneReaderEnds(i)
        \/ Report \/ WaitGroup \/ Interrupt \/ Main \/ Exited

\* Every goroutine runs, the ticker expires, the peer answers or closes; the
\* interrupt may never come.
Fairness ==
  /\ WF_vars(ProducerSend \/ ProducerClose)
  /\ WF_vars(TickExpire \/ TickClose \/ TickDrain)
  /\ WF_vars(RatePoll \/ RateEmit \/ RateClose)
  /\ \A i \in Workers : WF_vars(Worker(i)) /\ WF_vars(OneReaderEnds(i))
  /\ WF_vars(ReportCount \/ ReportQuit) /\ WF_vars(ReportHandoff)
  /\ WF_vars(WaitGroup) /\ WF_vars(Main)

Spec == Init /\ [][Next]_vars
FairSpec == Spec /\ Fairness

-----------------------------------------------------------------------------
(* Properties *)

WorkerState ==
  [pc: {"take", "dial", "in", "out", "reply", "write", "closing", "wait",
        "result", "add", "push", "gone"},
   err: {"nil", "refused", "other"}, left: 0 .. MaxChunks, reading: BOOLEAN]

\* The shape of the state.
TypeOK ==
  /\ cfg \in Options
  /\ ch \in [Channels -> [len: 0 .. ChanCap, closed: BOOLEAN]]
  /\ sent \in 0 .. MaxN
  /\ tick \in [pc: {"off", "run", "close", "drain", "done"},
               count: 0 .. MaxEmit]
  /\ pace \in [pc: {"off", "poll", "emit", "close", "done"},
               count: 0 .. MaxEmit]
  /\ w \in [Workers -> WorkerState]
  /\ rep \in [pc: {"off", "loop", "handoff", "gone"}, connNum: Nat,
              results: 0 .. ChanCap]
  /\ added \in Nat /\ errN \in Nat /\ taken \in Nat
  /\ quit \in BOOLEAN /\ done \in BOOLEAN /\ sig \in BOOLEAN
  /\ main \in {"select", "wait", "print", "end", "exit"}

\* Without -duration, -an n (n > 0) starts n requests, never more, and exactly
\* n when every goroutine is finished - with -rate too, although the pacing
\* goroutine emits tokens its source never gave it.
RequestsExact ==
  ~cfg.dur /\ cfg.n > 0 => /\ taken <= cfg.n
                           /\ done => taken = cfg.n

\* No result is lost or counted twice between a worker's Report.Add and
\* connNum: what is not counted is buffered in allResult or about to be.  And
\* every request taken is failed, added, or still with a worker.
Busy == {i \in Workers : w[i].pc \notin {"take", "push", "gone"}}
ResultsAccounted ==
  cfg.bench =>
    /\ added = rep.connNum + rep.results
                 + Cardinality({i \in Workers : w[i].pc = "push"})
    /\ taken = added + errN + Cardinality(Busy)

\* report() sorts allTimes and prints connNum only after the goroutine that
\* appends to them has ended, an interrupt in the middle of a run included.
PrintAfterReporter == main = "print" => rep.pc = "gone"

\* Once the -duration goroutine has closed and emptied its channel no request
\* starts from it: directly, or through the pacing goroutine, which emits at
\* most the token it had already decided on.
NoWorkAfterDeadline ==
  [][tick.pc = "done" => /\ ~cfg.rate => taken' = taken
                         /\ pace.pc = "poll" => pace'.pc # "emit"]_vars

\* The program comes to an end: main is woken by the wait group or by the
\* interrupt, and stopping the report goroutine cannot hang.
BenchEnds == <>~Running

=============================================================================
