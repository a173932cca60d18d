--------------------------- MODULE LoadBenchProofs ---------------------------
(***************************************************************************)
(* Proofs about LoadBench, for every number of workers, channel capacity   *)
(* and bound.  Supply relates the number of requests started to the tokens *)
(* each source has emitted; it is what makes RequestsExact inductive.      *)
(***************************************************************************)
EXTENDS LoadBench, FiniteSetTheorems, TLAPS

USE WorkersAssumption DEF WorkersAssumption
USE BoundsAssumption DEF BoundsAssumption

\* The pacing goroutine decides to emit only below its bound.
TypeInv == TypeOK /\ (pace.pc = "emit" => pace.count < MaxEmit)

PcSet == {"take", "dial", "in", "out", "reply", "write", "closing", "wait",
          "result", "add", "push", "gone"}
ErrSet == {"nil", "refused", "other"}
Chan == [len: 0 .. ChanCap, closed: BOOLEAN]

LEMMA WorkerFields ==
  ASSUME NEW p \in PcSet, NEW e \in ErrSet, NEW l \in 0 .. MaxChunks,
         NEW b \in BOOLEAN
  PROVE  [pc |-> p, err |-> e, left |-> l, reading |-> b] \in WorkerState
  BY DEF WorkerState, PcSet, ErrSet

LEMMA IdleType == Idle \in WorkerState
<1>1. /\ "take" \in PcSet /\ "nil" \in ErrSet /\ MaxChunks \in 0 .. MaxChunks
      /\ FALSE \in BOOLEAN
  BY DEF PcSet, ErrSet
<1> QED BY <1>1, WorkerFields DEF Idle

\* A worker's record keeps its shape under the edits the actions make.
LEMMA WorkerEdits ==
  ASSUME NEW r \in WorkerState, NEW p \in PcSet, NEW e \in ErrSet,
         NEW l \in 0 .. MaxChunks, NEW b \in BOOLEAN
  PROVE  /\ [r EXCEPT !.pc = p] \in WorkerState
         /\ [r EXCEPT !.pc = p, !.err = e] \in WorkerState
         /\ [r EXCEPT !.pc = p, !.left = l] \in WorkerState
         /\ [r EXCEPT !.reading = b] \in WorkerState
         /\ [r EXCEPT !.pc = p, !.reading = b] \in WorkerState
<1>1. [r EXCEPT !.pc = p] \in WorkerState
  BY DEF WorkerState, PcSet
<1>2. [r EXCEPT !.pc = p, !.err = e] \in WorkerState
  BY DEF WorkerState, PcSet, ErrSet
<1>3. [r EXCEPT !.pc = p, !.left = l] \in WorkerState
  BY DEF WorkerState, PcSet
<1>4. [r EXCEPT !.reading = b] \in WorkerState
  BY DEF WorkerState
<1>5. [r EXCEPT !.pc = p, !.reading = b] \in WorkerState
  BY DEF WorkerState, PcSet
<1> QED BY <1>1, <1>2, <1>3, <1>4, <1>5

LEMMA InitType == Init => TypeInv
<1> SUFFICES ASSUME Init PROVE TypeInv OBVIOUS
<1>1. w \in [Workers -> WorkerState]
  BY IdleType DEF Init
<1>2. tick \in [pc: {"off", "run", "close", "drain", "done"}, count: 0 .. MaxEmit]
  <2>1. tick.pc \in {"off", "run"} /\ tick = [pc |-> tick.pc, count |-> 0]
    BY DEF Init
  <2> QED BY <2>1
<1>3. /\ pace \in [pc: {"off", "poll", "emit", "close", "done"}, count: 0 .. MaxEmit]
      /\ pace.pc # "emit"
  <2>1. pace.pc \in {"off", "poll"} /\ pace = [pc |-> pace.pc, count |-> 0]
    BY DEF Init
  <2> QED BY <2>1
<1>4. rep \in [pc: {"off", "loop", "handoff", "gone"}, connNum: Nat,
              results: 0 .. ChanCap]
  <2>1. rep.pc \in {"off", "loop"} /\ rep = [pc |-> rep.pc, connNum |-> 0, results |-> 0]
    BY DEF Init
  <2> QED BY <2>1
<1>5. ch \in [Channels -> [len: 0 .. ChanCap, closed: BOOLEAN]]
  BY DEF Init
<1>6. quit \in BOOLEAN /\ done \in BOOLEAN /\ sig \in BOOLEAN
  BY DEF Init
<1>7. cfg \in Options /\ main \in {"select", "wait", "print", "end", "exit"}
  BY DEF Init
<1>8. sent \in 0 .. MaxN /\ added \in Nat /\ errN \in Nat /\ taken \in Nat
  BY DEF Init
<1> QED BY <1>1, <1>2, <1>3, <1>4, <1>5, <1>6, <1>7, <1>8 DEF TypeInv, TypeOK

\* The operations on a channel keep its length between 0 and the capacity.
LEMMA ChannelEdits ==
  ASSUME ch \in [Channels -> Chan], NEW c \in Channels
  PROVE  /\ HasRoom(c) /\ Send(c) => ch' \in [Channels -> Chan]
         /\ ch[c].len > 0 /\ Receive(c) => ch' \in [Channels -> Chan]
         /\ Close(c) => ch' \in [Channels -> Chan]
<1>0. ch[c] \in Chan
  OBVIOUS
<1>1. ASSUME HasRoom(c), Send(c) PROVE ch' \in [Channels -> Chan]
  <2>1. [ch[c] EXCEPT !.len = @ + 1] \in Chan
    BY <1>0, <1>1 DEF HasRoom, Chan
  <2> QED BY <1>1, <2>1 DEF Send
<1>2. ASSUME ch[c].len > 0, Receive(c) PROVE ch' \in [Channels -> Chan]
  <2>1. [ch[c] EXCEPT !.len = @ - 1] \in Chan
    BY <1>0, <1>2 DEF Chan
  <2> QED BY <1>2, <2>1 DEF Receive
<1>3. ASSUME Close(c) PROVE ch' \in [Channels -> Chan]
  <2>1. [ch[c] EXCEPT !.closed = TRUE] \in Chan
    BY <1>0 DEF Chan
  <2> QED BY <1>3, <2>1 DEF Close
<1> QED BY <1>1, <1>2, <1>3

LEMMA SourceType == TypeInv /\ Source => TypeInv'
<1> SUFFICES ASSUME TypeInv, Source PROVE TypeInv' OBVIOUS
<1>0. /\ "prod" \in Channels /\ "timed" \in Channels /\ "paced" \in Channels
      /\ oldwork \in Channels
  BY DEF Channels, oldwork
<1>00. ch \in [Channels -> Chan]
  BY DEF TypeInv, TypeOK, Chan
<1>1. CASE ProducerSend
  <2>1. ch' \in [Channels -> Chan]
    BY <1>0, <1>00, <1>1, ChannelEdits DEF ProducerSend
  <2>2. sent' \in 0 .. MaxN
    BY <1>1 DEF ProducerSend, TypeInv, TypeOK, Options, n
  <2> QED BY <1>1, <2>1, <2>2 DEF ProducerSend, TypeInv, TypeOK, Chan
<1>2. CASE ProducerClose
  BY <1>0, <1>00, <1>2, ChannelEdits DEF ProducerClose, TypeInv, TypeOK, Chan
<1>3. CASE TickSend
  <2>1. ch' \in [Channels -> Chan]
    BY <1>0, <1>00, <1>3, ChannelEdits DEF TickSend
  <2>2. tick' \in [pc: {"off", "run", "close", "drain", "done"},
                   count: 0 .. MaxEmit]
    BY <1>3 DEF TickSend, TypeInv, TypeOK, Chan
  <2> QED BY <1>3, <2>1, <2>2 DEF TickSend, TypeInv, TypeOK, Chan
<1>4. CASE TickExpire
  BY <1>4 DEF TickExpire, TypeInv, TypeOK, Chan
<1>5. CASE TickClose
  <2>1. ch' \in [Channels -> Chan]
    BY <1>0, <1>00, <1>5, ChannelEdits DEF TickClose
  <2> QED BY <1>5, <2>1 DEF TickClose, TypeInv, TypeOK, Chan
<1>6. CASE TickDrain
  <2>1. ch' \in [Channels -> Chan]
    BY <1>0, <1>00, <1>6, ChannelEdits DEF TickDrain, TypeInv, TypeOK, Chan
  <2> QED BY <1>6, <2>1 DEF TickDrain, TypeInv, TypeOK, Chan
<1>7. CASE RatePoll
  <2>1. ch' \in [Channels -> Chan]
    BY <1>0, <1>00, <1>7, ChannelEdits DEF RatePoll, TypeInv, TypeOK, Chan
  <2> QED BY <1>7, <2>1 DEF RatePoll, TypeInv, TypeOK, Chan
<1>8. CASE RateEmit
  <2>1. ch' \in [Channels -> Chan]
    BY <1>0, <1>00, <1>8, ChannelEdits DEF RateEmit
  <2>2. pace' \in [pc: {"off", "poll", "emit", "close", "done"}, count: 0 .. MaxEmit]
    <3>1. /\ pace'.pc \in {"close", "poll"}
          /\ pace' = [pc |-> pace'.pc, count |-> pace.count + 1]
      BY <1>8 DEF RateEmit
    <3>2. pace.count + 1 \in 0 .. MaxEmit
      BY <1>8 DEF RateEmit, TypeInv, TypeOK
    <3> QED BY <3>1, <3>2
  <2>3. pace'.pc # "emit"
    BY <1>8 DEF RateEmit
  <2> QED BY <1>8, <2>1, <2>2, <2>3 DEF RateEmit, TypeInv, TypeOK, Chan
<1>9. CASE RateClose
  <2>1. ch' \in [Channels -> Chan]
    BY <1>0, <1>00, <1>9, ChannelEdits DEF RateClose
  <2> QED BY <1>9, <2>1 DEF RateClose, TypeInv, TypeOK, Chan
<1> QED BY <1>1, <1>2, <1>3, <1>4, <1>5, <1>6, <1>7, <1>8, <1>9 DEF Source

\* Every edit of w the workers make.
LEMMA WorkersEdits ==
  ASSUME w \in [Workers -> WorkerState], NEW i \in Workers
  PROVE  /\ \A p \in PcSet : [w EXCEPT ![i].pc = p] \in [Workers -> WorkerState]
         /\ \A p \in PcSet, e \in ErrSet :
              [w EXCEPT ![i].pc = p, ![i].err = e] \in [Workers -> WorkerState]
         /\ w[i].left > 0 => [w EXCEPT ![i].pc = "out", ![i].left = @ - 1]
                               \in [Workers -> WorkerState]
         /\ [w EXCEPT ![i].reading = FALSE] \in [Workers -> WorkerState]
         /\ [w EXCEPT ![i].pc = "write", ![i].reading = TRUE]
              \in [Workers -> WorkerState]
         /\ [w EXCEPT ![i] = Idle] \in [Workers -> WorkerState]
         /\ \A p \in PcSet :
              [w EXCEPT ![i] = [Idle EXCEPT !.pc = p]] \in [Workers -> WorkerState]
<1>0. w[i] \in WorkerState
  OBVIOUS
<1>c. /\ "out" \in PcSet /\ "write" \in PcSet /\ "nil" \in ErrSet
      /\ 0 \in 0 .. MaxChunks /\ TRUE \in BOOLEAN /\ FALSE \in BOOLEAN
  BY DEF PcSet, ErrSet
<1>1. ASSUME NEW p \in PcSet
      PROVE  [w EXCEPT ![i].pc = p] \in [Workers -> WorkerState]
  <2>1. [w[i] EXCEPT !.pc = p] \in WorkerState
    BY <1>0, <1>c, WorkerEdits
  <2> QED BY <2>1
<1>2. ASSUME NEW p \in PcSet, NEW e \in ErrSet
      PROVE  [w EXCEPT ![i].pc = p, ![i].err = e] \in [Workers -> WorkerState]
  <2>1. [w[i] EXCEPT !.pc = p, !.err = e] \in WorkerState
    BY <1>0, <1>c, WorkerEdits
  <2> QED BY <2>1
<1>3. ASSUME w[i].left > 0
      PROVE  [w EXCEPT ![i].pc = "out", ![i].left = @ - 1] \in [Workers -> WorkerState]
  <2>1. w[i].left - 1 \in 0 .. MaxChunks
    BY <1>0, <1>3 DEF WorkerState
  <2>2. [w[i] EXCEPT !.pc = "out", !.left = w[i].left - 1] \in WorkerState
    BY <1>0, <1>c, <2>1, WorkerEdits
  <2> QED BY <2>2
<1>4. [w EXCEPT ![i].reading = FALSE] \in [Workers -> WorkerState]
  <2>1. [w[i] EXCEPT !.reading = FALSE] \in WorkerState
    BY <1>0, <1>c, WorkerEdits
  <2> QED BY <2>1
<1>5. [w EXCEPT ![i].pc = "write", ![i].reading = TRUE] \in [Workers -> WorkerState]
  <2>1. [w[i] EXCEPT !.pc = "write", !.reading = TRUE] \in WorkerState
    BY <1>0, <1>c, WorkerEdits
  <2> QED BY <2>1
<1>6. [w EXCEPT ![i] = Idle] \in [Workers -> WorkerState]
  BY IdleType
<1>7. ASSUME NEW p \in PcSet
      PROVE  [w EXCEPT ![i] = [Idle EXCEPT !.pc = p]] \in [Workers -> WorkerState]
  <2>1. [Idle EXCEPT !.pc = p] \in WorkerState
    BY IdleType, <1>c, WorkerEdits
  <2> QED BY <2>1
<1> QED BY <1>1, <1>2, <1>3, <1>4, <1>5, <1>6, <1>7

\* A step of a session changes w alone, and keeps its shape; it may also end
\* the process.
SessionStep(i) == OnceClient(i) \/ One(i) \/ OneReaderEnds(i)

others == <<cfg, ch, sent, tick, pace, rep, added, errN, quit, done, sig, taken>>

LEMMA SessionType ==
  ASSUME TypeOK, NEW i \in Workers, SessionStep(i)
  PROVE  /\ w' \in [Workers -> WorkerState]
         /\ UNCHANGED others
         /\ main' \in {main, "exit"}
<1>0. w \in [Workers -> WorkerState]
  BY DEF TypeOK
<1>a. ASSUME NEW from, NEW to \in PcSet, Session(i, from, to)
      PROVE  w' \in [Workers -> WorkerState] /\ UNCHANGED <<others, main>>
  BY <1>a, <1>0, WorkersEdits DEF Session, others
<1>b. ASSUME NEW from, NEW e \in ErrSet, Return(i, from, e)
      PROVE  w' \in [Workers -> WorkerState] /\ UNCHANGED <<others, main>>
  <2>1. "result" \in PcSet BY DEF PcSet
  <2> QED BY <1>b, <1>0, <2>1, WorkersEdits DEF Return, others
<1>p. PcSet = {"take", "dial", "in", "out", "reply", "write", "closing", "wait",
               "result", "add", "push", "gone"} /\ ErrSet = {"nil", "refused", "other"}
  BY DEF PcSet, ErrSet
<1>1. CASE OnceDial(i) BY <1>1, <1>a, <1>b, <1>p DEF OnceDial, others
<1>2. CASE OnceRange(i) BY <1>2, <1>b, <1>p DEF OnceRange, others
<1>3. CASE OnceInput(i)
  <2>1. ASSUME w[i].left > 0,
               w' = [w EXCEPT ![i].pc = "out", ![i].left = @ - 1]
        PROVE  w' \in [Workers -> WorkerState]
    BY <2>1, <1>0, <1>p, WorkersEdits
  <2> QED BY <1>3, <2>1, <1>b, <1>p DEF OnceInput, others
<1>4. CASE OnceWrite(i) BY <1>4, <1>a, <1>b, <1>p DEF OnceWrite, others
<1>5. CASE OnceReply(i) BY <1>5, <1>a, <1>b, <1>p DEF OnceReply, others
<1>6. CASE OneDial(i)
  <2>1. ASSUME w' = [w EXCEPT ![i].pc = "write", ![i].reading = TRUE]
        PROVE  w' \in [Workers -> WorkerState]
    BY <2>1, <1>0, <1>p, WorkersEdits
  <2> QED BY <1>6, <2>1, <1>b, <1>p DEF OneDial, others
<1>7. CASE OneWrite(i) BY <1>7, <1>0, <1>a, <1>p DEF OneWrite, others
<1>8. CASE OneClose(i)
  <2>1. PICK e \in ErrSet : w' = [w EXCEPT ![i].pc = "wait", ![i].err = e]
    BY <1>8, <1>p DEF OneClose
  <2>2. w' \in [Workers -> WorkerState]
    BY <2>1, <1>0, <1>p, WorkersEdits
  <2> QED BY <1>8, <2>2 DEF OneClose, others
<1>9. CASE OneWait(i) BY <1>9, <1>a, <1>p DEF OneWait, others
<1>10. CASE OneReaderEnds(i)
  <2>1. w' \in [Workers -> WorkerState]
    BY <1>10, <1>0, <1>p, WorkersEdits DEF OneReaderEnds
  <2> QED BY <1>10, <2>1 DEF OneReaderEnds, others
<1> QED BY <1>1, <1>2, <1>3, <1>4, <1>5, <1>6, <1>7, <1>8, <1>9, <1>10
        DEF SessionStep, OnceClient, One

LEMMA WorkerType ==
  ASSUME TypeInv, NEW i \in Workers, Worker(i) \/ OneReaderEnds(i)
  PROVE  TypeInv'
<1>0. w \in [Workers -> WorkerState] /\ TypeOK
  BY DEF TypeInv, TypeOK
<1>p. {"take", "dial", "gone", "add", "push"} \subseteq PcSet
  BY DEF PcSet
<1>1. CASE SessionStep(i)
  <2>1. /\ w' \in [Workers -> WorkerState] /\ UNCHANGED others
        /\ main' \in {main, "exit"}
    BY <1>0, <1>1, SessionType
  <2> QED BY <2>1 DEF TypeInv, TypeOK, others
<1>2. CASE WorkTake(i)
  <2>1. ch' \in [Channels -> Chan]
    <3>1. work \in Channels /\ ch \in [Channels -> Chan]
      BY DEF work, oldwork, Channels, TypeInv, TypeOK, Chan
    <3> QED BY <3>1, <1>2, ChannelEdits DEF WorkTake
  <2>2. w' \in [Workers -> WorkerState]
    BY <1>2, <1>0, <1>p, WorkersEdits DEF WorkTake
  <2>3. taken' \in Nat
    BY <1>2 DEF WorkTake, TypeInv, TypeOK
  <2> QED BY <1>2, <2>1, <2>2, <2>3 DEF WorkTake, TypeInv, TypeOK, Chan
<1>3. CASE WorkGone(i)
  <2>1. w' \in [Workers -> WorkerState]
    BY <1>3, <1>0, <1>p, WorkersEdits DEF WorkGone
  <2> QED BY <1>3, <2>1 DEF WorkGone, TypeInv, TypeOK
<1>4. CASE Result(i)
  <2>1. w' \in [Workers -> WorkerState]
    <3>1. \/ w' = [w EXCEPT ![i] = Idle]
          \/ w' = [w EXCEPT ![i] = [Idle EXCEPT !.pc = "add"]]
      BY <1>4 DEF Result
    <3>2. "add" \in PcSet
      BY <1>p
    <3>3. [w EXCEPT ![i] = Idle] \in [Workers -> WorkerState]
      BY <1>0, WorkersEdits
    <3>4. [w EXCEPT ![i] = [Idle EXCEPT !.pc = "add"]] \in [Workers -> WorkerState]
      BY <1>0, <3>2, WorkersEdits
    <3> QED BY <3>1, <3>3, <3>4
  <2>2. errN' \in Nat /\ main' \in {main, "exit"}
    BY <1>4 DEF Result, TypeInv, TypeOK
  <2> QED BY <1>4, <2>1, <2>2 DEF Result, TypeInv, TypeOK
<1>5. CASE AddBytes(i)
  <2>1. w' \in [Workers -> WorkerState]
    BY <1>5, <1>0, <1>p, WorkersEdits DEF AddBytes
  <2> QED BY <1>5, <2>1 DEF AddBytes, TypeInv, TypeOK
<1>6. CASE AddResult(i)
  <2>1. w' \in [Workers -> WorkerState]
    BY <1>6, <1>0, <1>p, WorkersEdits DEF AddResult
  <2>2. rep' \in [pc: {"off", "loop", "handoff", "gone"}, connNum: Nat,
                 results: 0 .. ChanCap]
    BY <1>6 DEF AddResult, TypeInv, TypeOK
  <2> QED BY <1>6, <2>1, <2>2 DEF AddResult, TypeInv, TypeOK
<1> QED BY <1>1, <1>2, <1>3, <1>4, <1>5, <1>6 DEF Worker, SessionStep

LEMMA TypeStep == TypeInv /\ [Next]_vars => TypeInv'
<1> SUFFICES ASSUME TypeInv, [Next]_vars PROVE TypeInv' OBVIOUS
<1>1. CASE Source BY <1>1, SourceType
<1>2. ASSUME NEW i \in Workers, Worker(i) \/ OneReaderEnds(i) PROVE TypeInv'
  BY <1>2, WorkerType
<1>3. CASE ReportCount
  <2>1. rep' \in [pc: {"off", "loop", "handoff", "gone"}, connNum: Nat,
                 results: 0 .. ChanCap]
    <3>1. /\ rep.connNum + 1 \in Nat /\ rep.results - 1 \in 0 .. ChanCap
          /\ rep.pc \in {"off", "loop", "handoff", "gone"}
      BY <1>3 DEF ReportCount, TypeInv, TypeOK
    <3>2. rep' = [pc |-> rep.pc, connNum |-> rep.connNum + 1,
                  results |-> rep.results - 1]
      BY <1>3 DEF ReportCount, TypeInv, TypeOK
    <3> QED BY <3>1, <3>2
  <2> QED BY <1>3, <2>1 DEF ReportCount, TypeInv, TypeOK
<1>4. CASE ReportQuit BY <1>4 DEF ReportQuit, TypeInv, TypeOK
<1>5. CASE ReportHandoff BY <1>5 DEF ReportHandoff, TypeInv, TypeOK
<1>6. CASE WaitGroup BY <1>6 DEF WaitGroup, TypeInv, TypeOK
<1>7. CASE Interrupt BY <1>7 DEF Interrupt, TypeInv, TypeOK
<1>8. CASE MainSelect
  <2>1. quit' \in BOOLEAN /\ main' \in {"wait", "end"}
    BY <1>8 DEF MainSelect, TypeInv, TypeOK, Options
  <2> QED BY <1>8, <2>1 DEF MainSelect, TypeInv, TypeOK
<1>9. CASE MainPrint BY <1>9 DEF MainPrint, TypeInv, TypeOK
<1>10. CASE UNCHANGED vars BY <1>10 DEF vars, TypeInv, TypeOK
<1> QED
  BY <1>1, <1>2, <1>3, <1>4, <1>5, <1>6, <1>7, <1>8, <1>9, <1>10
  DEF Next, Report, Main, Exited

\* The state of the load generator keeps its shape: in particular no channel
\* ever holds more than its capacity, the results of report.go included.
THEOREM BenchTypeCorrect == Spec => []TypeOK
<1>1. TypeInv => TypeOK BY DEF TypeInv
<1> QED BY InitType, TypeStep, <1>1, PTL DEF Spec

-----------------------------------------------------------------------------
(* How many requests are started. *)

\* Without -rate the workers take what the producer sent.  With it they take
\* what the pacing goroutine emitted, which is at least what it received, and
\* it stops at n.
Supply ==
  ~cfg.dur =>
    /\ sent <= cfg.n
    /\ ch["prod"].closed => sent = cfg.n
    /\ ~cfg.rate => taken + ch["prod"].len = sent /\ pace.pc = "off"
    /\ cfg.rate =>
         /\ taken + ch["paced"].len = pace.count
         /\ pace.pc # "off"
         /\ ch["paced"].closed => pace.pc = "done"
         /\ pace.pc = "emit" => sent - ch["prod"].len <= pace.count + 1
         /\ pace.pc # "emit" => sent - ch["prod"].len <= pace.count
         /\ cfg.n > 0 /\ pace.pc \in {"poll", "emit"} => pace.count < cfg.n
         /\ cfg.n > 0 /\ pace.pc \in {"close", "done"} => pace.count = cfg.n

\* A worker leaves only when its channel is closed and empty, which lasts.
LeftDrained ==
  /\ ~cfg.dur /\ (\E i \in Workers : w[i].pc = "gone") => Drained(work)
  /\ done => \A i \in Workers : w[i].pc = "gone"

BenchInv == TypeInv /\ Supply /\ LeftDrained

LEMMA InitBench == Init => BenchInv
<1> SUFFICES ASSUME Init PROVE BenchInv OBVIOUS
<1>1. TypeInv BY InitType
<1>2. Supply
  <2>1. /\ ch["prod"] = [len |-> 0, closed |-> FALSE]
        /\ ch["paced"] = [len |-> 0, closed |-> FALSE]
    BY DEF Init, Channels
  <2>2. /\ sent = 0 /\ taken = 0 /\ pace.count = 0 /\ cfg \in Options
        /\ cfg.rate => pace.pc = "poll"
        /\ ~cfg.rate => pace.pc = "off"
    BY DEF Init
  <2> QED BY <2>1, <2>2 DEF Supply, Options
<1>3. LeftDrained
  BY DEF Init, LeftDrained, Idle
<1> QED BY <1>1, <1>2, <1>3 DEF BenchInv

\* The facts about the channels and counters that the steps below compute with.
LEMMA Numbers ==
  ASSUME TypeInv
  PROVE  /\ ch["prod"] \in Chan /\ ch["timed"] \in Chan /\ ch["paced"] \in Chan
         /\ DOMAIN ch = Channels /\ ch = [c \in Channels |-> ch[c]]
         /\ sent \in Nat /\ taken \in Nat /\ pace.count \in Nat
         /\ cfg.n \in Nat /\ cfg.dur \in BOOLEAN /\ cfg.rate \in BOOLEAN
         /\ pace \in [pc: {"off", "poll", "emit", "close", "done"}, count: 0 .. MaxEmit]
  BY DEF TypeInv, TypeOK, Chan, Channels, Options

\* What an operation on one channel does to each of them.
LEMMA ChannelStep ==
  ASSUME TypeInv, NEW c \in Channels, NEW d \in Channels
  PROVE  /\ Send(c) => /\ ch'[d].closed = ch[d].closed
                       /\ ch'[d].len = IF d = c THEN ch[d].len + 1 ELSE ch[d].len
         /\ Receive(c) => /\ ch'[d].closed = ch[d].closed
                          /\ ch'[d].len = IF d = c THEN ch[d].len - 1 ELSE ch[d].len
         /\ Close(c) => /\ ch'[d].closed = (d = c \/ ch[d].closed)
                        /\ ch'[d].len = ch[d].len
<1>0. ch \in [Channels -> [len: 0 .. ChanCap, closed: BOOLEAN]]
  BY DEF TypeInv, TypeOK
<1>1. Send(c) => /\ ch'[d].closed = ch[d].closed
                 /\ ch'[d].len = IF d = c THEN ch[d].len + 1 ELSE ch[d].len
  BY <1>0 DEF Send
<1>2. Receive(c) => /\ ch'[d].closed = ch[d].closed
                    /\ ch'[d].len = IF d = c THEN ch[d].len - 1 ELSE ch[d].len
  BY <1>0 DEF Receive
<1>3. Close(c) => /\ ch'[d].closed = (d = c \/ ch[d].closed)
                  /\ ch'[d].len = ch[d].len
  <2>1. CASE d = c BY <2>1, <1>0 DEF Close
  <2>2. CASE d # c BY <2>2, <1>0 DEF Close
  <2> QED BY <2>1, <2>2
<1> QED BY <1>1, <1>2, <1>3

\* The workers' program counters under a step of worker i.
LEMMA Leaving ==
  ASSUME TypeInv, NEW i \in Workers, Worker(i) \/ OneReaderEnds(i), NEW j \in Workers
  PROVE  /\ w[j].pc = "gone" => w'[j].pc = "gone"
         /\ ~WorkGone(i) /\ w'[j].pc = "gone" => w[j].pc = "gone"
<1>0. w \in [Workers -> WorkerState] /\ w[i] \in WorkerState /\ w[j] \in WorkerState
  BY DEF TypeInv, TypeOK
<1>p. ASSUME NEW from, NEW to, from # "gone", to # "gone", Session(i, from, to)
      PROVE  (w'[j].pc = "gone") <=> (w[j].pc = "gone")
  BY <1>p, <1>0 DEF Session, WorkerState
<1>q. ASSUME NEW from, NEW e, from # "gone", Return(i, from, e)
      PROVE  (w'[j].pc = "gone") <=> (w[j].pc = "gone")
  BY <1>q, <1>0 DEF Return, WorkerState
<1>1. CASE OnceDial(i) BY <1>1, <1>p, <1>q DEF OnceDial
<1>2. CASE OnceRange(i) BY <1>2, <1>q DEF OnceRange
<1>3. CASE OnceInput(i)
  <2>1. ASSUME w[i].pc = "in", w' = [w EXCEPT ![i].pc = "out", ![i].left = @ - 1]
        PROVE  (w'[j].pc = "gone") <=> (w[j].pc = "gone")
    BY <2>1, <1>0 DEF WorkerState
  <2> QED BY <1>3, <2>1, <1>q DEF OnceInput
<1>4. CASE OnceWrite(i) BY <1>4, <1>p, <1>q DEF OnceWrite
<1>5. CASE OnceReply(i) BY <1>5, <1>p, <1>q DEF OnceReply
<1>6. CASE OneDial(i)
  <2>1. ASSUME w[i].pc = "dial", w' = [w EXCEPT ![i].pc = "write", ![i].reading = TRUE]
        PROVE  (w'[j].pc = "gone") <=> (w[j].pc = "gone")
    BY <2>1, <1>0 DEF WorkerState
  <2> QED BY <1>6, <2>1, <1>q DEF OneDial
<1>7. CASE OneWrite(i) BY <1>7, <1>p DEF OneWrite
<1>8. CASE OneClose(i) BY <1>8, <1>0 DEF OneClose, WorkerState
<1>9. CASE OneWait(i) BY <1>9, <1>p DEF OneWait
<1>10. CASE OneReaderEnds(i) BY <1>10, <1>0 DEF OneReaderEnds, WorkerState
<1>11. CASE WorkTake(i) BY <1>11, <1>0 DEF WorkTake, WorkerState, Idle
<1>12. CASE WorkGone(i) BY <1>12, <1>0 DEF WorkGone, WorkerState
<1>13. CASE Result(i) BY <1>13, <1>0 DEF Result, WorkerState, Idle
<1>14. CASE AddBytes(i) BY <1>14, <1>0 DEF AddBytes, WorkerState
<1>15. CASE AddResult(i) BY <1>15, <1>0 DEF AddResult, WorkerState
<1> QED
  BY <1>1, <1>2, <1>3, <1>4, <1>5, <1>6, <1>7, <1>8, <1>9, <1>10, <1>11, <1>12,
     <1>13, <1>14, <1>15
  DEF Worker, OnceClient, One

\* Neither a session nor the report goroutine nor main touches the supply.
LEMMA SupplyKept ==
  ASSUME BenchInv, UNCHANGED <<cfg, ch, sent, pace, taken>>
  PROVE  Supply'
  BY DEF BenchInv, Supply

LEMMA ProducerKeeps ==
  ASSUME BenchInv, ProducerSend \/ ProducerClose
  PROVE  Supply' /\ LeftDrained'
<1>0. TypeInv /\ Supply /\ LeftDrained BY DEF BenchInv
<1>n. ~cfg.dur => n = cfg.n /\ oldwork = "prod"
  BY DEF n, oldwork
<1>c. Channels = {"prod", "timed", "paced"} BY DEF Channels
<1>u. UNCHANGED <<cfg, pace, w, done, taken>>
  BY DEF ProducerSend, ProducerClose
<1>1. CASE ProducerSend
  <2>1. /\ ~ch["prod"].closed /\ Send("prod")
        /\ ~cfg.dur => sent < cfg.n /\ sent' = sent + 1
    BY <1>0, <1>1, <1>n, Numbers DEF ProducerSend
  <2>2. /\ ch'["prod"].closed = ch["prod"].closed
        /\ ch'["prod"].len = ch["prod"].len + 1
        /\ ch'["paced"].closed = ch["paced"].closed
        /\ ch'["paced"].len = ch["paced"].len
    BY <1>0, <1>c, <2>1, ChannelStep
  <2>3. Supply'
    BY <1>0, <1>u, <2>1, <2>2, Numbers DEF Supply, Chan
  <2>4. LeftDrained'
    BY <1>0, <1>u, <2>1, <2>2 DEF LeftDrained, Drained, work, oldwork
  <2> QED BY <2>3, <2>4
<1>2. CASE ProducerClose
  <2>1. Close("prod") /\ UNCHANGED sent /\ (~cfg.dur => sent = cfg.n)
    BY <1>2, <1>n DEF ProducerClose
  <2>2. /\ ch'["prod"].closed
        /\ ch'["prod"].len = ch["prod"].len
        /\ ch'["paced"].closed = ch["paced"].closed
        /\ ch'["paced"].len = ch["paced"].len
    <3>1. /\ ch'["prod"].closed = ("prod" = "prod" \/ ch["prod"].closed)
          /\ ch'["paced"].closed = ("paced" = "prod" \/ ch["paced"].closed)
          /\ ch'["prod"].len = ch["prod"].len
          /\ ch'["paced"].len = ch["paced"].len
      BY <1>0, <1>c, <2>1, ChannelStep
    <3>2. ch["prod"].closed \in BOOLEAN /\ ch["paced"].closed \in BOOLEAN
      BY <1>0, Numbers DEF Chan
    <3> QED BY <3>1, <3>2
  <2>3. Supply'
    BY <1>0, <1>u, <2>1, <2>2, Numbers DEF Supply
  <2>4. LeftDrained'
    BY <1>0, <1>u, <2>1, <2>2 DEF LeftDrained, Drained, work, oldwork
  <2> QED BY <2>3, <2>4
<1> QED BY <1>1, <1>2

\* The -duration goroutine exists only with -duration.
LEMMA TickKeeps ==
  ASSUME BenchInv, TickSend \/ TickExpire \/ TickClose \/ TickDrain
  PROVE  Supply' /\ LeftDrained'
<1>0. TypeInv /\ Supply /\ LeftDrained BY DEF BenchInv
<1>u. UNCHANGED <<cfg, sent, pace, w, done, taken>>
  BY DEF TickSend, TickExpire, TickClose, TickDrain
<1>c. Channels = {"prod", "timed", "paced"} BY DEF Channels
<1>1. ch' = ch \/ Send("timed") \/ Receive("timed") \/ Close("timed")
  BY DEF TickSend, TickExpire, TickClose, TickDrain
<1>2. /\ ch'["prod"].closed = ch["prod"].closed
      /\ ch'["prod"].len = ch["prod"].len
      /\ ch'["paced"].closed = ch["paced"].closed
      /\ ch'["paced"].len = ch["paced"].len
  <2>1. CASE ch' = ch BY <2>1
  <2>2. CASE Send("timed") BY <2>2, <1>0, <1>c, ChannelStep
  <2>3. CASE Receive("timed") BY <2>3, <1>0, <1>c, ChannelStep
  <2>4. CASE Close("timed")
    <3>1. /\ ch'["prod"].closed = ("prod" = "timed" \/ ch["prod"].closed)
          /\ ch'["paced"].closed = ("paced" = "timed" \/ ch["paced"].closed)
          /\ ch'["prod"].len = ch["prod"].len
          /\ ch'["paced"].len = ch["paced"].len
      BY <2>4, <1>0, <1>c, ChannelStep
    <3>2. ch["prod"].closed \in BOOLEAN /\ ch["paced"].closed \in BOOLEAN
      BY <1>0, Numbers DEF Chan
    <3> QED BY <3>1, <3>2
  <2> QED BY <1>1, <2>1, <2>2, <2>3, <2>4
<1>3. Supply' BY <1>0, <1>u, <1>2 DEF Supply
<1>4. LeftDrained'
  BY <1>0, <1>u, <1>2 DEF LeftDrained, Drained, work, oldwork
<1> QED BY <1>3, <1>4

LEMMA RateKeeps ==
  ASSUME BenchInv, RatePoll \/ RateEmit \/ RateClose
  PROVE  Supply' /\ LeftDrained'
<1>0. TypeInv /\ Supply /\ LeftDrained BY DEF BenchInv
<1>c. Channels = {"prod", "timed", "paced"} BY DEF Channels
<1>u. UNCHANGED <<cfg, sent, w, done, taken>>
  BY DEF RatePoll, RateEmit, RateClose
<1>d. CASE cfg.dur BY <1>0, <1>u, <1>d DEF Supply, LeftDrained
<1>r. CASE ~cfg.dur
  <2>1. oldwork = "prod" /\ n = cfg.n
    BY <1>r DEF oldwork, n
  <2>2. cfg.rate /\ work = "paced"
    BY <1>0, <1>r, Numbers DEF RatePoll, RateEmit, RateClose, Supply, work
  <2>3. work' = "paced"
    BY <2>2, <1>u DEF work, oldwork
  <2>4. CASE RatePoll
    <3>1. /\ ch'["paced"] = ch["paced"]
          /\ ch'["prod"].closed = ch["prod"].closed
          /\ pace.pc = "poll" /\ pace'.count = pace.count
          /\ \/ pace'.pc = "emit" /\ ch'["prod"].len = ch["prod"].len - 1
             \/ pace'.pc = "emit" /\ ch'["prod"].len = ch["prod"].len
             \/ pace'.pc = "close" /\ Drained("prod") /\ ch' = ch
      <4>1. CASE Receive("prod") /\ pace' = [pace EXCEPT !.pc = "emit"]
        <5>1. /\ ch'["paced"] = ch["paced"]
              /\ ch'["prod"].closed = ch["prod"].closed
              /\ ch'["prod"].len = ch["prod"].len - 1
          BY <4>1, <1>0, <1>c, Numbers, ChannelStep DEF Receive
        <5> QED BY <4>1, <5>1, <2>4, <1>0, Numbers DEF RatePoll
      <4>2. CASE UNCHANGED ch /\ pace' = [pace EXCEPT !.pc = "emit"]
        BY <4>2, <2>4, <1>0, Numbers DEF RatePoll
      <4>3. CASE Drained("prod") /\ UNCHANGED ch /\ pace' = [pace EXCEPT !.pc = "close"]
        BY <4>3, <2>4, <1>0, Numbers DEF RatePoll
      <4> QED BY <2>1, <2>4, <4>1, <4>2, <4>3 DEF RatePoll
    <3>2. Supply'
      BY <1>0, <1>u, <1>r, <2>2, <3>1, Numbers DEF Supply, Drained, Chan
    <3>3. LeftDrained'
      BY <1>0, <1>u, <1>r, <2>2, <2>3, <3>1 DEF LeftDrained, Drained
    <3> QED BY <3>2, <3>3
  <2>5. CASE RateEmit
    <3>1. /\ ch'["prod"] = ch["prod"]
          /\ ch'["paced"].closed = ch["paced"].closed
          /\ ch'["paced"].len = ch["paced"].len + 1
      BY <2>5, <1>0, <1>c, Numbers, ChannelStep DEF RateEmit, Send
    <3>2. /\ pace.pc = "emit" /\ pace'.count = pace.count + 1
          /\ pace.count + 1 = cfg.n => pace'.pc = "close"
          /\ pace.count + 1 # cfg.n => pace'.pc = "poll"
      BY <2>5, <2>1 DEF RateEmit
    <3>3. Supply'
      BY <1>0, <1>u, <1>r, <2>2, <3>1, <3>2, Numbers DEF Supply, Chan
    <3>4. ~ch["paced"].closed
      BY <1>0, <1>r, <2>2, <3>2 DEF Supply
    <3>5. LeftDrained'
      BY <1>0, <1>u, <1>r, <2>2, <3>4 DEF LeftDrained, Drained
    <3> QED BY <3>3, <3>5
  <2>6. CASE RateClose
    <3>1. /\ ch'["prod"] = ch["prod"]
          /\ ch'["paced"].len = ch["paced"].len
          /\ ch'["paced"].closed
      BY <2>6, <1>0, <1>c, Numbers DEF RateClose, Close, Chan
    <3>2. /\ pace.pc = "close" /\ pace'.count = pace.count /\ pace'.pc = "done"
      BY <2>6, <1>0, Numbers DEF RateClose
    <3>3. Supply'
      BY <1>0, <1>u, <1>r, <2>2, <3>1, <3>2, Numbers DEF Supply
    <3>4. LeftDrained'
      BY <1>0, <1>u, <1>r, <2>2, <2>3, <3>1 DEF LeftDrained, Drained
    <3> QED BY <3>3, <3>4
  <2> QED BY <2>4, <2>5, <2>6
<1> QED BY <1>d, <1>r, <1>0, Numbers

LEMMA WorkerKeeps ==
  ASSUME BenchInv, NEW i \in Workers, Worker(i) \/ OneReaderEnds(i)
  PROVE  Supply' /\ LeftDrained'
<1>0. TypeInv /\ TypeOK /\ Supply /\ LeftDrained BY DEF BenchInv, TypeInv
<1>c. Channels = {"prod", "timed", "paced"} BY DEF Channels
<1>1. CASE WorkTake(i)
  <2>1. /\ UNCHANGED <<cfg, sent, pace, done>> /\ taken' = taken + 1
        /\ w[i].pc = "take" /\ ch[work].len > 0 /\ Receive(work)
    BY <1>1 DEF WorkTake
  <2>2. \A j \in Workers : w'[j].pc = "gone" => w[j].pc = "gone"
    BY <1>0, <1>1, Leaving DEF Worker, WorkTake, WorkGone, Drained
  <2>3. Supply'
    <3>1. CASE cfg.dur BY <3>1, <2>1 DEF Supply
    <3>2. CASE ~cfg.dur /\ cfg.rate
      <4>1. work = "paced" BY <3>2 DEF work
      <4>2. /\ ch'["prod"] = ch["prod"]
            /\ ch'["paced"].closed = ch["paced"].closed
            /\ ch'["paced"].len = ch["paced"].len - 1
        BY <4>1, <2>1, <1>0, <1>c, Numbers, ChannelStep DEF Receive
      <4> QED BY <1>0, <2>1, <3>2, <4>2, Numbers DEF Supply, Chan
    <3>3. CASE ~cfg.dur /\ ~cfg.rate
      <4>1. work = "prod" BY <3>3 DEF work, oldwork
      <4>2. /\ ch'["paced"] = ch["paced"]
            /\ ch'["prod"].closed = ch["prod"].closed
            /\ ch'["prod"].len = ch["prod"].len - 1
        BY <4>1, <2>1, <1>0, <1>c, Numbers, ChannelStep DEF Receive
      <4> QED BY <1>0, <2>1, <3>3, <4>2, Numbers DEF Supply, Chan
    <3> QED BY <3>1, <3>2, <3>3
  <2>4. LeftDrained'
    BY <1>0, <2>1, <2>2 DEF LeftDrained, Drained
  <2> QED BY <2>3, <2>4
<1>2. CASE WorkGone(i)
  <2>1. /\ UNCHANGED <<cfg, ch, sent, pace, done, taken>> /\ Drained(work)
        /\ w[i].pc = "take"
    BY <1>2 DEF WorkGone
  <2>2. Supply' BY <2>1, SupplyKept
  <2>3. ~done BY <1>0, <2>1 DEF LeftDrained
  <2>4. LeftDrained'
    BY <2>1, <2>3 DEF LeftDrained, Drained, work, oldwork
  <2> QED BY <2>2, <2>4
<1>3. CASE ~WorkTake(i) /\ ~WorkGone(i)
  <2>1. UNCHANGED <<cfg, ch, sent, pace, done, taken>>
    <3>1. CASE SessionStep(i) BY <3>1, <1>0, SessionType DEF others
    <3>2. CASE Result(i) BY <3>2 DEF Result
    <3>3. CASE AddBytes(i) BY <3>3 DEF AddBytes
    <3>4. CASE AddResult(i) BY <3>4 DEF AddResult
    <3> QED BY <1>3, <3>1, <3>2, <3>3, <3>4 DEF Worker, SessionStep
  <2>2. Supply' BY <2>1, SupplyKept
  <2>3. \A j \in Workers : (w'[j].pc = "gone") <=> (w[j].pc = "gone")
    BY <1>0, <1>3, Leaving
  <2>4. LeftDrained'
    BY <1>0, <2>1, <2>3 DEF LeftDrained, Drained, work, oldwork
  <2> QED BY <2>2, <2>4
<1> QED BY <1>1, <1>2, <1>3

LEMMA BenchStep == BenchInv /\ [Next]_vars => BenchInv'
<1> SUFFICES ASSUME BenchInv, [Next]_vars PROVE BenchInv' OBVIOUS
<1>0. TypeInv /\ Supply /\ LeftDrained BY DEF BenchInv
<1>1. TypeInv' BY <1>0, TypeStep
<1>2. Supply' /\ LeftDrained'
  <2>1. CASE Source BY <2>1, ProducerKeeps, TickKeeps, RateKeeps DEF Source
  <2>2. ASSUME NEW i \in Workers, Worker(i) \/ OneReaderEnds(i)
        PROVE  Supply' /\ LeftDrained'
    BY <2>2, WorkerKeeps
  <2>3. CASE WaitGroup
    <3>1. UNCHANGED <<cfg, ch, sent, pace, taken, w>>
      BY <2>3 DEF WaitGroup
    <3>2. LeftDrained'
      BY <1>0, <2>3, <3>1 DEF LeftDrained, Drained, work, oldwork, WaitGroup
    <3> QED BY <3>1, <3>2, SupplyKept
  <2>4. ASSUME UNCHANGED <<cfg, ch, sent, pace, taken, w, done>>
        PROVE  Supply' /\ LeftDrained'
    <3>1. LeftDrained'
      BY <1>0, <2>4 DEF LeftDrained, Drained, work, oldwork
    <3> QED BY <2>4, <3>1, SupplyKept
  <2>5. CASE Report \/ Interrupt \/ Main \/ UNCHANGED vars
    <3>1. UNCHANGED <<cfg, ch, sent, pace, taken, w, done>>
      BY <2>5 DEF Report, ReportCount, ReportQuit, ReportHandoff, Interrupt,
                  Main, MainSelect, MainPrint, vars
    <3> QED BY <3>1, <2>4
  <2> QED BY <2>1, <2>2, <2>3, <2>5 DEF Next, Exited
<1> QED BY <1>1, <1>2 DEF BenchInv

\* conn and wsurl start exactly the -an n requests that were asked for, with
\* or without -rate, for any number of workers and any channel capacity.
THEOREM BenchRequestsExact == Spec => []RequestsExact
<1>1. BenchInv => RequestsExact
  <2> SUFFICES ASSUME BenchInv, ~cfg.dur, cfg.n > 0
               PROVE  taken <= cfg.n /\ (done => taken = cfg.n)
    BY DEF RequestsExact
  <2>0. TypeInv /\ Supply /\ LeftDrained BY DEF BenchInv
  <2>1. taken <= cfg.n
    BY <2>0, Numbers DEF Supply, Chan
  <2>2. ASSUME done PROVE taken = cfg.n
    <3>1. Drained(work)
      BY <2>0, <2>2 DEF LeftDrained
    <3>2. CASE cfg.rate
      <4>1. ch["paced"].closed /\ ch["paced"].len = 0
        BY <3>1, <3>2 DEF work, Drained
      <4> QED BY <2>0, <3>2, <4>1, Numbers DEF Supply
    <3>3. CASE ~cfg.rate
      <4>1. ch["prod"].closed /\ ch["prod"].len = 0
        BY <3>1, <3>3 DEF work, oldwork, Drained
      <4> QED BY <2>0, <3>3, <4>1, Numbers DEF Supply
    <3> QED BY <3>2, <3>3
  <2> QED BY <2>1, <2>2
<1> QED BY InitBench, BenchStep, <1>1, PTL DEF Spec

-----------------------------------------------------------------------------
(* Where the results are. *)

\* Outside a session a worker waits for a token, holds a result or has left.
Outside == {"take", "push", "gone"}
Pushing == {i \in Workers : w[i].pc = "push"}

\* The counters are in step with the workers.
Results ==
  cfg.bench => /\ added = rep.connNum + rep.results + Cardinality(Pushing)
               /\ taken = added + errN + Cardinality(Busy)

\* main prints when the report goroutine has left.
ReportInv == Results /\ PrintAfterReporter

\* A set of workers that changes by worker i alone changes in size by one.
LEMMA OneMoved ==
  ASSUME NEW i \in Workers, NEW S \in SUBSET Workers, NEW T \in SUBSET Workers,
         \A j \in Workers : j # i => (j \in S <=> j \in T)
  PROVE  /\ Cardinality(S) \in Nat
         /\ (i \in S <=> i \in T) => Cardinality(T) = Cardinality(S)
         /\ i \in S /\ i \notin T => Cardinality(T) = Cardinality(S) - 1
         /\ i \notin S /\ i \in T => Cardinality(T) = Cardinality(S) + 1
<1>1. IsFiniteSet(S) /\ Cardinality(S) \in Nat
  BY FS_Subset, FS_CardinalityType
<1>2. ASSUME i \in S <=> i \in T PROVE Cardinality(T) = Cardinality(S)
  <2>1. T = S
    BY <1>2
  <2> QED BY <2>1
<1>3. ASSUME i \in S, i \notin T PROVE Cardinality(T) = Cardinality(S) - 1
  <2>1. T = S \ {i}
    BY <1>3
  <2> QED BY <1>1, <1>3, <2>1, FS_RemoveElement
<1>4. ASSUME i \notin S, i \in T PROVE Cardinality(T) = Cardinality(S) + 1
  <2>1. T = S \cup {i}
    BY <1>4
  <2> QED BY <1>1, <1>4, <2>1, FS_AddElement
<1> QED BY <1>1, <1>2, <1>3, <1>4

\* Only worker i's program counter changes.
Alone(i) == \A j \in Workers : j # i => w'[j].pc = w[j].pc

\* The two sets that Results counts, under a step of worker i.
LEMMA Counted ==
  ASSUME TypeInv, NEW i \in Workers, Alone(i)
  PROVE  /\ Cardinality(Pushing) \in Nat /\ Cardinality(Busy) \in Nat
         /\ (w[i].pc = "push" <=> w'[i].pc = "push") => Cardinality(Pushing') = Cardinality(Pushing)
         /\ w[i].pc = "push" /\ w'[i].pc # "push" => Cardinality(Pushing') = Cardinality(Pushing) - 1
         /\ w[i].pc # "push" /\ w'[i].pc = "push" => Cardinality(Pushing') = Cardinality(Pushing) + 1
         /\ (w[i].pc \in Outside <=> w'[i].pc \in Outside) => Cardinality(Busy') = Cardinality(Busy)
         /\ w[i].pc \in Outside /\ w'[i].pc \notin Outside => Cardinality(Busy') = Cardinality(Busy) + 1
         /\ w[i].pc \notin Outside /\ w'[i].pc \in Outside => Cardinality(Busy') = Cardinality(Busy) - 1
<1>1. /\ Pushing \in SUBSET Workers /\ Pushing' \in SUBSET Workers
      /\ \A j \in Workers : /\ j \in Pushing <=> w[j].pc = "push"
                            /\ j \in Pushing' <=> w'[j].pc = "push"
  BY DEF Pushing
<1>2. /\ Busy \in SUBSET Workers /\ Busy' \in SUBSET Workers
      /\ \A j \in Workers : /\ j \in Busy <=> w[j].pc \notin Outside
                            /\ j \in Busy' <=> w'[j].pc \notin Outside
  BY DEF Busy, Outside
<1>3. \A j \in Workers : j # i => (j \in Pushing <=> j \in Pushing') /\ (j \in Busy <=> j \in Busy')
  BY <1>1, <1>2 DEF Alone
<1>4. /\ Cardinality(Pushing) \in Nat
      /\ (i \in Pushing <=> i \in Pushing') => Cardinality(Pushing') = Cardinality(Pushing)
      /\ i \in Pushing /\ i \notin Pushing' => Cardinality(Pushing') = Cardinality(Pushing) - 1
      /\ i \notin Pushing /\ i \in Pushing' => Cardinality(Pushing') = Cardinality(Pushing) + 1
  BY <1>1, <1>3, OneMoved
<1>5. /\ Cardinality(Busy) \in Nat
      /\ (i \in Busy <=> i \in Busy') => Cardinality(Busy') = Cardinality(Busy)
      /\ i \in Busy /\ i \notin Busy' => Cardinality(Busy') = Cardinality(Busy) - 1
      /\ i \notin Busy /\ i \in Busy' => Cardinality(Busy') = Cardinality(Busy) + 1
  BY <1>2, <1>3, OneMoved
<1> QED BY <1>1, <1>2, <1>4, <1>5

\* A session is its worker's own business, from the token to the result.
LEMMA SessionMoves ==
  ASSUME TypeInv, NEW i \in Workers, OnceClient(i) \/ One(i)
  PROVE  Alone(i) /\ w[i].pc \notin Outside /\ w'[i].pc \notin Outside
<1> DEFINE Goal == Alone(i) /\ w[i].pc \notin Outside /\ w'[i].pc \notin Outside
<1>0. w \in [Workers -> WorkerState] /\ w[i] \in WorkerState
  BY DEF TypeInv, TypeOK
<1>a. ASSUME NEW from, NEW to, from \notin Outside, to \notin Outside, Session(i, from, to)
      PROVE  Goal
  BY <1>a, <1>0 DEF Session, WorkerState, Alone
<1>b. ASSUME NEW from, NEW e, from \notin Outside, Return(i, from, e) PROVE Goal
  BY <1>b, <1>0 DEF Return, WorkerState, Alone, Outside
<1>1. CASE OnceDial(i) BY <1>1, <1>a, <1>b DEF OnceDial, Outside
<1>2. CASE OnceRange(i) BY <1>2, <1>b DEF OnceRange, Outside
<1>3. CASE OnceInput(i)
  <2>1. ASSUME w[i].pc = "in", w' = [w EXCEPT ![i].pc = "out", ![i].left = @ - 1]
        PROVE  Goal
    BY <2>1, <1>0 DEF WorkerState, Alone, Outside
  <2> QED BY <1>3, <2>1, <1>b DEF OnceInput, Outside
<1>4. CASE OnceWrite(i) BY <1>4, <1>a, <1>b DEF OnceWrite, Outside
<1>5. CASE OnceReply(i) BY <1>5, <1>a, <1>b DEF OnceReply, Outside
<1>6. CASE OneDial(i)
  <2>1. ASSUME w[i].pc = "dial", w' = [w EXCEPT ![i].pc = "write", ![i].reading = TRUE]
        PROVE  Goal
    BY <2>1, <1>0 DEF WorkerState, Alone, Outside
  <2> QED BY <1>6, <2>1, <1>b DEF OneDial, Outside
<1>7. CASE OneWrite(i)
  <2>1. ASSUME w[i].pc = "write", w' = w PROVE Goal
    BY <2>1 DEF Alone, Outside
  <2> QED BY <1>7, <1>a, <2>1 DEF OneWrite, Outside
<1>8. CASE OneClose(i)
  <2>1. PICK e : w[i].pc = "closing" /\ w' = [w EXCEPT ![i].pc = "wait", ![i].err = e]
    BY <1>8 DEF OneClose
  <2> QED BY <2>1, <1>0 DEF WorkerState, Alone, Outside
<1>9. CASE OneWait(i) BY <1>9, <1>a DEF OneWait, Outside
<1> QED BY <1>1, <1>2, <1>3, <1>4, <1>5, <1>6, <1>7, <1>8, <1>9 DEF OnceClient, One

\* Worker i takes, counts and pushes one result at a time.
LEMMA WorkerResults ==
  ASSUME TypeInv, Results, NEW i \in Workers, Worker(i) \/ OneReaderEnds(i)
  PROVE  Results'
<1>0. /\ w \in [Workers -> WorkerState] /\ w[i] \in WorkerState
      /\ added \in Nat /\ errN \in Nat /\ taken \in Nat
      /\ rep.connNum \in Nat /\ rep.results \in Nat
  BY DEF TypeInv, TypeOK
<1>1. CASE OnceClient(i) \/ One(i)
  <2>1. Cardinality(Pushing') = Cardinality(Pushing) /\ Cardinality(Busy') = Cardinality(Busy)
    BY <1>1, SessionMoves, Counted DEF Outside
  <2>2. UNCHANGED <<cfg, rep, added, errN, taken>>
    BY <1>1, SessionType DEF SessionStep, others, TypeInv
  <2> QED BY <2>1, <2>2 DEF Results
<1>2. CASE OneReaderEnds(i)
  <2>1. Alone(i) /\ w'[i].pc = w[i].pc
    BY <1>2, <1>0 DEF OneReaderEnds, WorkerState, Alone
  <2>2. Cardinality(Pushing') = Cardinality(Pushing) /\ Cardinality(Busy') = Cardinality(Busy)
    BY <2>1, Counted
  <2> QED BY <1>2, <2>2 DEF OneReaderEnds, Results
<1>3. CASE WorkTake(i)
  <2>1. Alone(i) /\ w[i].pc = "take" /\ w'[i].pc = "dial"
    BY <1>3, <1>0 DEF WorkTake, WorkerState, Idle, Alone
  <2>2. /\ Cardinality(Pushing') = Cardinality(Pushing)
        /\ Cardinality(Busy') = Cardinality(Busy) + 1 /\ Cardinality(Busy) \in Nat
    BY <2>1, Counted DEF Outside
  <2>3. UNCHANGED <<cfg, rep, added, errN>> /\ taken' = taken + 1
    BY <1>3 DEF WorkTake
  <2> QED BY <1>0, <2>2, <2>3 DEF Results
<1>4. CASE WorkGone(i)
  <2>1. Alone(i) /\ w[i].pc = "take" /\ w'[i].pc = "gone"
    BY <1>4, <1>0 DEF WorkGone, WorkerState, Alone
  <2>2. Cardinality(Pushing') = Cardinality(Pushing) /\ Cardinality(Busy') = Cardinality(Busy)
    BY <2>1, Counted DEF Outside
  <2> QED BY <1>4, <2>2 DEF WorkGone, Results
<1>5. CASE Result(i) /\ w' = [w EXCEPT ![i] = Idle]
  <2>1. Alone(i) /\ w[i].pc = "result" /\ w'[i].pc = "take"
    BY <1>5, <1>0 DEF Result, WorkerState, Idle, Alone
  <2>2. /\ Cardinality(Pushing') = Cardinality(Pushing)
        /\ Cardinality(Busy') = Cardinality(Busy) - 1 /\ Cardinality(Busy) \in Nat
    BY <2>1, Counted DEF Outside
  <2>3. UNCHANGED <<cfg, rep, added, taken>> /\ (cfg.bench => errN' = errN + 1)
    <3>1. w'[i].pc # "add"
      BY <2>1
    <3>2. [w EXCEPT ![i] = [Idle EXCEPT !.pc = "add"]][i].pc = "add"
      BY <1>0 DEF Idle
    <3> QED BY <1>5, <3>1, <3>2 DEF Result
  <2> QED BY <1>0, <2>2, <2>3 DEF Results
<1>6. CASE Result(i) /\ w' = [w EXCEPT ![i] = [Idle EXCEPT !.pc = "add"]]
  <2>1. Alone(i) /\ w[i].pc = "result" /\ w'[i].pc = "add"
    BY <1>6, <1>0 DEF Result, WorkerState, Idle, Alone
  <2>2. Cardinality(Pushing') = Cardinality(Pushing) /\ Cardinality(Busy') = Cardinality(Busy)
    BY <2>1, Counted DEF Outside
  <2>3. UNCHANGED <<cfg, rep, added, taken, errN>>
    <3>1. w' # [w EXCEPT ![i] = Idle]
      BY <2>1, <1>0 DEF Idle
    <3> QED BY <1>6, <3>1 DEF Result
  <2> QED BY <2>2, <2>3 DEF Results
<1>7. CASE AddBytes(i)
  <2>1. Alone(i) /\ w[i].pc = "add" /\ w'[i].pc = "push"
    BY <1>7, <1>0 DEF AddBytes, WorkerState, Alone
  <2>2. /\ Cardinality(Pushing') = Cardinality(Pushing) + 1 /\ Cardinality(Pushing) \in Nat
        /\ Cardinality(Busy') = Cardinality(Busy) - 1 /\ Cardinality(Busy) \in Nat
    BY <2>1, Counted DEF Outside
  <2>3. UNCHANGED <<cfg, rep, errN, taken>> /\ added' = added + 1
    BY <1>7 DEF AddBytes
  <2> QED BY <1>0, <2>2, <2>3 DEF Results
<1>8. CASE AddResult(i)
  <2>1. Alone(i) /\ w[i].pc = "push" /\ w'[i].pc = "take"
    BY <1>8, <1>0 DEF AddResult, WorkerState, Alone
  <2>2. /\ Cardinality(Pushing') = Cardinality(Pushing) - 1 /\ Cardinality(Pushing) \in Nat
        /\ Cardinality(Busy') = Cardinality(Busy)
    BY <2>1, Counted DEF Outside
  <2>3. /\ UNCHANGED <<cfg, added, errN, taken>>
        /\ rep'.connNum = rep.connNum /\ rep'.results = rep.results + 1
    BY <1>8 DEF AddResult, TypeInv, TypeOK
  <2>4. rep'.connNum + rep'.results + Cardinality(Pushing')
          = rep.connNum + rep.results + Cardinality(Pushing)
    BY <1>0, <2>2, <2>3
  <2> QED BY <2>2, <2>3, <2>4 DEF Results
<1>9. Result(i) => \/ w' = [w EXCEPT ![i] = Idle]
                   \/ w' = [w EXCEPT ![i] = [Idle EXCEPT !.pc = "add"]]
  BY DEF Result
<1> QED BY <1>1, <1>2, <1>3, <1>4, <1>5, <1>6, <1>7, <1>8, <1>9 DEF Worker

LEMMA ReportStep == TypeInv /\ ReportInv /\ [Next]_vars => ReportInv'
<1> SUFFICES ASSUME TypeInv, ReportInv, [Next]_vars PROVE ReportInv'
  OBVIOUS
<1>0. Results /\ PrintAfterReporter /\ added \in Nat /\ rep.connNum \in Nat /\ rep.results \in Nat
  BY DEF ReportInv, TypeInv, TypeOK
<1>1. ASSUME UNCHANGED <<cfg, rep, added, errN, taken, w>>, main' \in {main, "wait", "end", "exit"}
      PROVE  ReportInv'
  <2>1. Pushing' = Pushing /\ Busy' = Busy
    BY <1>1 DEF Pushing, Busy
  <2> QED BY <1>0, <1>1, <2>1 DEF ReportInv, Results, PrintAfterReporter
<1>2. CASE Source
  BY <1>1, <1>2 DEF Source, ProducerSend, ProducerClose, TickSend, TickExpire,
     TickClose, TickDrain, RatePoll, RateEmit, RateClose
<1>3. ASSUME NEW i \in Workers, Worker(i) \/ OneReaderEnds(i) PROVE ReportInv'
  <2>1. Results'
    BY <1>0, <1>3, WorkerResults
  <2>2. main' \in {main, "exit"} /\ rep'.pc = rep.pc
    <3>1. CASE SessionStep(i)
      BY <3>1, SessionType DEF TypeInv, others
    <3>2. CASE WorkTake(i) \/ WorkGone(i) \/ AddBytes(i)
      BY <3>2 DEF WorkTake, WorkGone, AddBytes
    <3>3. CASE Result(i)
      BY <3>3 DEF Result
    <3>4. CASE AddResult(i)
      BY <3>4 DEF AddResult, TypeInv, TypeOK
    <3> QED BY <1>3, <3>1, <3>2, <3>3, <3>4 DEF Worker, SessionStep
  <2> QED BY <1>0, <2>1, <2>2 DEF ReportInv, PrintAfterReporter
<1>4. CASE ReportCount
  <2>1. /\ rep'.connNum = rep.connNum + 1 /\ rep'.results = rep.results - 1 /\ rep'.pc = rep.pc
        /\ UNCHANGED <<cfg, added, errN, taken, w, main>>
    BY <1>4 DEF ReportCount, TypeInv, TypeOK
  <2>2. Pushing' = Pushing /\ Busy' = Busy
    BY <2>1 DEF Pushing, Busy
  <2>3. rep'.connNum + rep'.results = rep.connNum + rep.results
    BY <1>0, <2>1
  <2> QED BY <1>0, <2>1, <2>2, <2>3 DEF ReportInv, Results, PrintAfterReporter
<1>5. CASE ReportQuit \/ ReportHandoff
  <2>1. /\ rep'.connNum = rep.connNum /\ rep'.results = rep.results
        /\ UNCHANGED <<cfg, added, errN, taken, w>>
    BY <1>5 DEF ReportQuit, ReportHandoff, TypeInv, TypeOK
  <2>2. Pushing' = Pushing /\ Busy' = Busy
    BY <2>1 DEF Pushing, Busy
  <2>3. PrintAfterReporter'
    <3>1. CASE ReportQuit
      BY <1>0, <3>1 DEF ReportQuit, PrintAfterReporter
    <3>2. CASE ReportHandoff
      BY <3>2 DEF ReportHandoff, PrintAfterReporter, TypeInv, TypeOK
    <3> QED BY <1>5, <3>1, <3>2
  <2> QED BY <1>0, <2>1, <2>2, <2>3 DEF ReportInv, Results
<1>6. CASE WaitGroup \/ Interrupt \/ Main \/ UNCHANGED vars
  BY <1>1, <1>6 DEF WaitGroup, Interrupt, Main, MainSelect, MainPrint, vars
<1> QED BY <1>2, <1>3, <1>4, <1>5, <1>6 DEF Next, Report, Exited

LEMMA ReportInit == Init => ReportInv
<1> SUFFICES ASSUME Init PROVE ReportInv
  OBVIOUS
<1>1. Pushing = {} /\ Busy = {}
  BY DEF Init, Idle, Pushing, Busy
<1>2. Cardinality(Pushing) = 0 /\ Cardinality(Busy) = 0
  BY <1>1, FS_EmptySet
<1> QED BY <1>2 DEF Init, ReportInv, Results, PrintAfterReporter

\* No result is lost or counted twice on its way from a worker to connNum, and
\* every request taken is failed, added or still under way, for any number of
\* workers and any room in allResult.
THEOREM BenchResultsAccounted == Spec => []ResultsAccounted
<1>1. ReportInv => ResultsAccounted
  BY DEF ReportInv, Results, ResultsAccounted, Pushing
<1> QED BY <1>1, InitType, TypeStep, ReportInit, ReportStep, PTL DEF Spec

\* main prints the totals only after the report goroutine has left.
THEOREM BenchPrintsLast == Spec => []PrintAfterReporter
<1>1. ReportInv => PrintAfterReporter
  BY DEF ReportInv
<1> QED BY <1>1, InitType, TypeStep, ReportInit, ReportStep, PTL DEF Spec

-----------------------------------------------------------------------------
(* After the deadline. *)

\* The -duration goroutine is there with -duration only; it leaves its channel
\* closed and empty, and nobody else sends into it.
DeadlineInv ==
  /\ tick.pc = "off" <=> ~cfg.dur
  /\ tick.pc \in {"drain", "done"} => ch["timed"].closed
  /\ tick.pc = "done" => ch["timed"].len = 0

\* The timed channel under a step of anyone but its goroutine.
TimedKept == /\ ch'["timed"].closed = ch["timed"].closed
             /\ ch["timed"].len = 0 => ch'["timed"].len = 0

LEMMA DeadlineKept ==
  ASSUME DeadlineInv, UNCHANGED <<cfg, tick>>, TimedKept
  PROVE  DeadlineInv'
  BY DEF DeadlineInv, TimedKept

\* A token is taken out of a channel that is not empty.
LEMMA Received ==
  ASSUME TypeInv, NEW c \in Channels, ch[c].len > 0, Receive(c)
  PROVE  TimedKept
<1>1. "timed" \in Channels
  BY DEF Channels
<1>2. /\ ch'["timed"].closed = ch["timed"].closed
      /\ ch'["timed"].len = IF "timed" = c THEN ch["timed"].len - 1 ELSE ch["timed"].len
  BY <1>1, ChannelStep
<1> QED BY <1>2 DEF TimedKept

LEMMA SourceDeadline ==
  ASSUME TypeInv, DeadlineInv, Source
  PROVE  DeadlineInv'
<1>0. /\ "prod" \in Channels /\ "timed" \in Channels /\ "paced" \in Channels
      /\ oldwork \in Channels /\ "timed" # "prod" /\ "timed" # "paced"
  BY DEF Channels, oldwork
<1>t. tick \in [pc: {"off", "run", "close", "drain", "done"}, count: 0 .. MaxEmit]
  BY DEF TypeInv, TypeOK
<1>1. CASE ProducerSend
  <2>1. TimedKept
    BY <1>0, <1>1, ChannelStep DEF ProducerSend, TimedKept
  <2> QED BY <1>1, <2>1, DeadlineKept DEF ProducerSend
<1>2. CASE ProducerClose
  <2>1. TimedKept
    BY <1>2 DEF ProducerClose, Close, TimedKept, TypeInv, TypeOK
  <2> QED BY <1>2, <2>1, DeadlineKept DEF ProducerClose
<1>3. CASE TickSend
  <2>1. tick'.pc = tick.pc /\ tick.pc = "run" /\ UNCHANGED cfg
    BY <1>3, <1>t DEF TickSend
  <2> QED BY <2>1 DEF DeadlineInv
<1>4. CASE TickExpire
  <2>1. tick'.pc = "close" /\ tick.pc = "run" /\ UNCHANGED cfg
    BY <1>4, <1>t DEF TickExpire
  <2> QED BY <2>1 DEF DeadlineInv
<1>5. CASE TickClose
  <2>1. tick'.pc = "drain" /\ tick.pc = "close" /\ UNCHANGED cfg
    BY <1>5, <1>t DEF TickClose
  <2>2. ch'["timed"].closed
    BY <1>0, <1>5 DEF TickClose, Close, TypeInv, TypeOK
  <2> QED BY <2>1, <2>2 DEF DeadlineInv
<1>6. CASE TickDrain
  <2>1. CASE ch["timed"].len > 0 /\ Receive("timed") /\ UNCHANGED tick
    <3>1. TimedKept
      BY <1>0, <2>1, Received
    <3> QED BY <1>6, <2>1, <3>1, DeadlineKept DEF TickDrain
  <2>2. CASE Drained("timed") /\ tick' = [tick EXCEPT !.pc = "done"] /\ UNCHANGED ch
    <3>1. tick'.pc = "done" /\ tick.pc = "drain" /\ UNCHANGED <<cfg, ch>>
      BY <1>6, <2>2, <1>t DEF TickDrain
    <3> QED BY <2>2, <3>1 DEF DeadlineInv, Drained
  <2> QED BY <1>6, <2>1, <2>2 DEF TickDrain
<1>7. CASE RatePoll
  <2>1. TimedKept
    <3>1. ASSUME ch[oldwork].len > 0, Receive(oldwork) PROVE TimedKept
      BY <1>0, <3>1, Received
    <3>2. ASSUME UNCHANGED ch PROVE TimedKept
      BY <3>2 DEF TimedKept
    <3> QED BY <1>7, <3>1, <3>2 DEF RatePoll
  <2> QED BY <1>7, <2>1, DeadlineKept DEF RatePoll
<1>8. CASE RateEmit
  <2>1. TimedKept
    BY <1>0, <1>8, ChannelStep DEF RateEmit, TimedKept
  <2> QED BY <1>8, <2>1, DeadlineKept DEF RateEmit
<1>9. CASE RateClose
  <2>1. TimedKept
    BY <1>9 DEF RateClose, Close, TimedKept, TypeInv, TypeOK
  <2> QED BY <1>9, <2>1, DeadlineKept DEF RateClose
<1> QED BY <1>1, <1>2, <1>3, <1>4, <1>5, <1>6, <1>7, <1>8, <1>9 DEF Source

LEMMA DeadlineStep == TypeInv /\ DeadlineInv /\ [Next]_vars => DeadlineInv'
<1> SUFFICES ASSUME TypeInv, DeadlineInv, [Next]_vars PROVE DeadlineInv'
  OBVIOUS
<1>1. ASSUME UNCHANGED <<cfg, tick, ch>> PROVE DeadlineInv'
  BY <1>1 DEF DeadlineInv
<1>2. ASSUME NEW i \in Workers, Worker(i) \/ OneReaderEnds(i) PROVE DeadlineInv'
  <2>1. CASE SessionStep(i)
    <3>1. UNCHANGED <<cfg, tick, ch>>
      BY <2>1, SessionType DEF TypeInv, others
    <3> QED BY <1>1, <3>1
  <2>2. CASE WorkTake(i)
    <3>1. work \in Channels
      BY DEF work, oldwork, Channels
    <3>2. TimedKept
      BY <2>2, <3>1, Received DEF WorkTake
    <3> QED BY <2>2, <3>2, DeadlineKept DEF WorkTake
  <2>3. CASE WorkGone(i) \/ Result(i) \/ AddBytes(i) \/ AddResult(i)
    BY <1>1, <2>3 DEF WorkGone, Result, AddBytes, AddResult
  <2> QED BY <1>2, <2>1, <2>2, <2>3 DEF Worker, SessionStep
<1>3. CASE Report \/ WaitGroup \/ Interrupt \/ Main \/ UNCHANGED vars
  BY <1>1, <1>3 DEF Report, ReportCount, ReportQuit, ReportHandoff, WaitGroup,
     Interrupt, Main, MainSelect, MainPrint, vars
<1> QED BY <1>2, <1>3, SourceDeadline DEF Next, Exited

\* From a closed and empty channel no token comes, whoever asks.
LEMMA NothingLate ==
  ASSUME TypeInv, DeadlineInv, [Next]_vars, tick.pc = "done"
  PROVE  /\ ~cfg.rate => taken' = taken
         /\ pace.pc = "poll" => pace'.pc # "emit"
<1>1. cfg.dur /\ oldwork = "timed" /\ Drained("timed")
  BY DEF DeadlineInv, oldwork, Drained
<1>2. ASSUME UNCHANGED <<taken, pace>>
      PROVE  (~cfg.rate => taken' = taken) /\ (pace.pc = "poll" => pace'.pc # "emit")
  BY <1>2
<1>3. CASE RatePoll
  <2>1. pace' = [pace EXCEPT !.pc = "close"] /\ UNCHANGED taken
    BY <1>1, <1>3 DEF RatePoll, Drained
  <2>2. pace'.pc = "close"
    BY <2>1 DEF TypeInv, TypeOK
  <2> QED BY <2>1, <2>2
<1>4. CASE RateEmit \/ RateClose
  BY <1>4 DEF RateEmit, RateClose
<1>5. CASE ProducerSend \/ ProducerClose \/ TickSend \/ TickExpire \/ TickClose \/ TickDrain
  BY <1>2, <1>5 DEF ProducerSend, ProducerClose, TickSend, TickExpire, TickClose, TickDrain
<1>6. ASSUME NEW i \in Workers, Worker(i) \/ OneReaderEnds(i)
      PROVE  (~cfg.rate => taken' = taken) /\ (pace.pc = "poll" => pace'.pc # "emit")
  <2>1. CASE SessionStep(i)
    BY <1>2, <2>1, SessionType DEF TypeInv, others
  <2>2. CASE WorkTake(i)
    <3>1. cfg.rate
      BY <1>1, <2>2 DEF WorkTake, work, Drained
    <3> QED BY <2>2, <3>1 DEF WorkTake
  <2>3. CASE WorkGone(i) \/ Result(i) \/ AddBytes(i) \/ AddResult(i)
    BY <1>2, <2>3 DEF WorkGone, Result, AddBytes, AddResult
  <2> QED BY <1>6, <2>1, <2>2, <2>3 DEF Worker, SessionStep
<1>7. CASE Report \/ WaitGroup \/ Interrupt \/ Main \/ UNCHANGED vars
  BY <1>2, <1>7 DEF Report, ReportCount, ReportQuit, ReportHandoff, WaitGroup,
     Interrupt, Main, MainSelect, MainPrint, vars
<1> QED BY <1>3, <1>4, <1>5, <1>6, <1>7 DEF Next, Source, Exited

\* Once the -duration goroutine has closed and emptied its channel no request
\* starts from it, and the pacing goroutine decides to emit nothing more.
THEOREM BenchNothingLate == Spec => NoWorkAfterDeadline
<1>1. Init => DeadlineInv
  BY DEF Init, DeadlineInv
<1>2. TypeInv /\ DeadlineInv /\ [Next]_vars
        => [tick.pc = "done" => /\ ~cfg.rate => taken' = taken
                                /\ pace.pc = "poll" => pace'.pc # "emit"]_vars
  BY NothingLate
<1> QED BY <1>1, <1>2, InitType, TypeStep, DeadlineStep, PTL DEF Spec, NoWorkAfterDeadline

=============================================================================
