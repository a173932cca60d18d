--------------------------- MODULE ProcessPoolProofs ---------------------------
(***************************************************************************)
(* Proofs about ProcessPool, for every number of calls, children, garbage  *)
(* values and every size of the socket.  TypeInv is the inductive form of  *)
(* TypeOK: what pp_pool_add is about to write is a record, and so is what  *)
(* a child runs.                                                           *)
(***************************************************************************)
EXTENDS ProcessPool, SequenceTheorems, TLAPS

InAdd == pc \in {"write", "wselect"} \/ (pc = "addn" /\ back = "add")

TypeInv == /\ TypeOK
           /\ InAdd => nadd >= 1 /\ ntry \in 1..2
           /\ \A c \in Running : child[c].rec \in Rec

\* The records one socket operation leaves behind.
LEMMA SockAppend ==
  ASSUME NEW s \in Seq(Rec), NEW r \in Rec
  PROVE  /\ Append(s, r) \in Seq(Rec)
         /\ Len(Append(s, r)) = Len(s) + 1
         /\ DOMAIN Append(s, r) = 1..(Len(s) + 1)
         /\ \A i \in 1..Len(s) : Append(s, r)[i] = s[i]
         /\ Append(s, r)[Len(s) + 1] = r
  BY AppendProperties, LenProperties

LEMMA SockTail ==
  ASSUME NEW s \in Seq(Rec), s # <<>>
  PROVE  /\ Head(s) \in Rec /\ Head(s) = s[1] /\ 1 \in DOMAIN s
         /\ Tail(s) \in Seq(Rec)
         /\ Len(Tail(s)) = Len(s) - 1
         /\ DOMAIN Tail(s) = 1..(Len(s) - 1)
         /\ \A i \in 1..(Len(s) - 1) : Tail(s)[i] = s[i + 1]
  BY HeadTailProperties, LenProperties, EmptySeq

\* A child step replaces the entry of one child.
LEMMA ChildSet ==
  ASSUME NEW s \in Seq(Child), NEW c \in DOMAIN s, NEW e \in Child
  PROVE  /\ [s EXCEPT ![c] = e] \in Seq(Child)
         /\ Len([s EXCEPT ![c] = e]) = Len(s)
         /\ DOMAIN [s EXCEPT ![c] = e] = DOMAIN s
         /\ \A d \in DOMAIN s : [s EXCEPT ![c] = e][d] = IF d = c THEN e ELSE s[d]
  BY ExceptSeq, LenProperties

\* A fork adds an entry for the new child.
LEMMA ChildAppend ==
  ASSUME NEW s \in Seq(Child), NEW e \in Child
  PROVE  /\ Append(s, e) \in Seq(Child)
         /\ Len(Append(s, e)) = Len(s) + 1
         /\ DOMAIN Append(s, e) = 1..(Len(s) + 1)
         /\ DOMAIN s = 1..Len(s)
         /\ \A d \in DOMAIN s : Append(s, e)[d] = s[d]
         /\ Append(s, e)[Len(s) + 1] = e
  BY AppendProperties, LenProperties

\* A record whose fields range over parts of a pool's types is a pool.
LEMMA PartOfPool ==
  ASSUME NEW A \in SUBSET Int, NEW B \in SUBSET Int, NEW C \in SUBSET Int,
         NEW D \in SUBSET SUBSET Flag, NEW E \in SUBSET Int,
         NEW p \in [max : A, min : B, run : C, flags : D, ms : E]
  PROVE  p \in Pool
<1>1. p = [max |-> p.max, min |-> p.min, run |-> p.run, flags |-> p.flags, ms |-> p.ms]
  OBVIOUS
<1>2. p.max \in Int /\ p.min \in Int /\ p.run \in Int /\ p.flags \in SUBSET Flag /\ p.ms \in Int
  OBVIOUS
<1> QED BY <1>1, <1>2 DEF Pool

\* What pp_pool_new leaves in the pool, and the children it will ask for.
LEMMA NewFieldsType ==
  ASSUME NEW np \in ArgNp, NEW n \in 0..3, NEW p \in NewFields(np, n)
  PROVE  /\ p \in Pool
         /\ ValidPool(p) => NeedNprocess(p) \in Nat
<1>1. p \in Pool
  <2>1. /\ {np} \subseteq Int /\ Garbage \subseteq Int
        /\ (IF n >= 1 THEN ArgMin ELSE Garbage) \subseteq Int
        /\ (IF n >= 2 THEN ArgFlags ELSE GarbageFlags) \subseteq SUBSET Flag
        /\ (IF n >= 3 THEN ArgMs ELSE {500}) \subseteq Int
    BY ArgAssumption DEF ArgAssumption
  <2> QED BY <2>1, PartOfPool DEF NewFields
<1>2. ValidPool(p) => NeedNprocess(p) \in Nat
  BY <1>1 DEF Pool, ValidPool, NeedNprocess
<1> QED BY <1>1, <1>2

LEMMA TypeInvInit == Init => TypeInv
<1> SUFFICES ASSUME Init PROVE TypeInv
  OBVIOUS
<1>1. TypeOK
  <2>1. pool \in Pool
    BY DEF Init, Pool
  <2>2. sock \in Seq(Rec) /\ Len(sock) <= SockCap /\ child \in Seq(Child)
    BY BoundAssumption, EmptySeq DEF Init, BoundAssumption
  <2> QED
    BY <2>1, <2>2, BoundAssumption DEF Init, TypeOK, Result, BoundAssumption
<1>2. Running = {} /\ ~InAdd
  BY DEF Init, Running, InAdd
<1> QED BY <1>1, <1>2 DEF TypeInv

\* AddReturns and NextTry end or go round the loop of pp_pool_add.
LEMMA LoopType ==
  ASSUME TypeInv, InAdd, NEW r \in Result, AddReturns(r) \/ NextTry
  PROVE  /\ result' \in [Call -> Result]
         /\ ntry' \in 0..2
         /\ pc' \in {"write", "idle"}
         /\ pc' = "write" => ntry' \in 1..2
  BY DEF TypeInv, TypeOK, AddReturns, NextTry, Result

LEMMA TypeInvStep == TypeInv /\ [Next]_vars => TypeInv'
<1> SUFFICES ASSUME TypeInv, [Next]_vars PROVE TypeInv'
  OBVIOUS
<1> USE DEF TypeInv, TypeOK
\* Steps of the parent that leave the socket and the children alone.
<1>1. ASSUME UNCHANGED <<sock, child, done, written>>,
             pool' \in Pool, run0' \in Int, togo' \in Nat,
             back' \in {"new", "add", "api"},
             pc' \in {"start", "addn", "idle", "write", "wselect", "wait",
                      "null", "exit", "freed"},
             nadd' \in 0..MaxAdds, ntry' \in 0..2, result' \in [Call -> Result],
             InAdd' => nadd' >= 1 /\ ntry' \in 1..2
      PROVE TypeInv'
  <2>1. Running' = Running
    BY <1>1 DEF Running
  <2> QED BY <1>1, <2>1
<1>2. CASE PoolNewFails
  <2>1. ~InAdd'
    BY <1>2 DEF PoolNewFails, InAdd
  <2> QED BY <1>1, <1>2, <2>1 DEF PoolNewFails
<1>3. ASSUME NEW np \in ArgNp, NEW n \in 0..3, PoolNew(np, n) PROVE TypeInv'
  <2>1. PICK p \in NewFields(np, n) :
          ValidPool(p) /\ pool' = p /\ run0' = p.run /\ togo' = NeedNprocess(p)
    BY <1>3 DEF PoolNew
  <2>2. p \in Pool /\ togo' \in Nat /\ run0' \in Int
    BY <2>1, NewFieldsType DEF Pool
  <2>3. ~InAdd'
    BY <1>3 DEF PoolNew, InAdd
  <2> QED BY <1>1, <1>3, <2>1, <2>2, <2>3 DEF PoolNew
<1>4. CASE PoolAdd
  BY <1>1, <1>4, BoundAssumption DEF PoolAdd, InAdd, BoundAssumption
<1>5. ASSUME NEW n \in 1..MaxAddn, AddnCall(n) PROVE TypeInv'
  <2>1. ~InAdd' /\ n \in Nat
    BY <1>5 DEF AddnCall, InAdd
  <2> QED BY <1>1, <1>5, <2>1 DEF AddnCall
<1>6. CASE PoolWait \/ PoolFree \/ WaitReturns
  <2>1. ~InAdd'
    BY <1>6 DEF PoolWait, PoolFree, WaitReturns, InAdd
  <2> QED BY <1>1, <1>6, <2>1 DEF PoolWait, PoolFree, WaitReturns
<1>7. CASE AddCoreFull
  <2>1. InAdd' = InAdd /\ togo' \in Nat
    BY <1>7 DEF AddCoreFull, InAdd
  <2> QED BY <1>1, <1>7, <2>1 DEF AddCoreFull
<1>8. CASE AddCoreFork
  <2>1. [pc |-> "read", rec |-> NoRec] \in Child
    BY DEF Child
  <2>2. child' \in Seq(Child) /\ Running' = Running
        /\ \A c \in Running : child'[c] = child[c]
    BY <1>8, <2>1, ChildAppend DEF AddCoreFork, Running
  <2>3. pool' \in Pool
    <3>1. pool.run + 1 \in Int
      BY DEF Pool
    <3> QED BY <1>8, <3>1 DEF AddCoreFork, Pool
  <2>4. InAdd' = InAdd /\ togo' \in Nat
    BY <1>8 DEF AddCoreFork, InAdd
  <2> QED BY <1>8, <2>2, <2>3, <2>4 DEF AddCoreFork
<1>9. CASE AddCoreForkFails
  <2>1. CASE back = "add"
    <3>1. AddReturns("error") /\ InAdd
      BY <1>9, <2>1 DEF AddCoreForkFails, InAdd
    <3>2. ~InAdd'
      BY <3>1 DEF AddReturns, InAdd
    <3> QED BY <1>1, <1>9, <3>1, <3>2, LoopType DEF AddCoreForkFails, Result, AddReturns
  <2>2. CASE back # "add"
    <3>1. pc' \in {"exit", "idle"} /\ UNCHANGED <<ntry, result>> /\ ~InAdd'
      BY <1>9, <2>2 DEF AddCoreForkFails, InAdd
    <3> QED BY <1>1, <1>9, <3>1 DEF AddCoreForkFails
  <2> QED BY <2>1, <2>2
<1>10. CASE AddnReturns
  <2>1. CASE back = "add"
    <3>1. NextTry /\ InAdd
      BY <1>10, <2>1 DEF AddnReturns, InAdd
    <3>2. /\ result' \in [Call -> Result] /\ ntry' \in 0..2
          /\ pc' \in {"write", "idle"} /\ (pc' = "write" => ntry' \in 1..2)
      BY <3>1, LoopType DEF Result
    <3>3. InAdd' => nadd' >= 1 /\ ntry' \in 1..2
      BY <1>10, <3>1, <3>2 DEF AddnReturns, InAdd
    <3> QED BY <1>1, <1>10, <3>2, <3>3 DEF AddnReturns
  <2>2. CASE back # "add"
    <3>1. pc' = "idle" /\ UNCHANGED <<ntry, result>> /\ ~InAdd'
      BY <1>10, <2>2 DEF AddnReturns, InAdd
    <3> QED BY <1>1, <1>10, <3>1 DEF AddnReturns
  <2> QED BY <2>1, <2>2
<1>11. CASE Write
  <2>1. InAdd /\ NextTry /\ CurRec \in Rec
    BY <1>11 DEF Write, InAdd, CurRec, Rec, Call
  <2>2. /\ result' \in [Call -> Result] /\ ntry' \in 0..2
        /\ pc' \in {"write", "idle"} /\ (pc' = "write" => ntry' \in 1..2)
    BY <2>1, LoopType DEF Result
  <2>3. sock' \in Seq(Rec) /\ Len(sock') <= SockCap /\ written' \subseteq Rec
    BY <1>11, <2>1, SockAppend, BoundAssumption, LenProperties DEF Write, BoundAssumption
  <2>4. Running' = Running
    BY <1>11 DEF Write, Running
  <2>5. InAdd' => nadd' >= 1 /\ ntry' \in 1..2
    BY <1>11, <2>1, <2>2 DEF Write, InAdd
  <2> QED BY <1>11, <2>2, <2>3, <2>4, <2>5 DEF Write
<1>12. CASE WriteAgain \/ WriteReady
  <2>1. InAdd
    BY <1>12 DEF WriteAgain, WriteReady, InAdd
  <2> QED BY <1>1, <1>12, <2>1 DEF WriteAgain, WriteReady, InAdd
<1>13. CASE WriteTimedOut
  <2>1. InAdd
    BY <1>13 DEF WriteTimedOut, InAdd
  <2>2. CASE "AUTO_ADD" \in pool.flags
    BY <1>1, <1>13, <2>1, <2>2 DEF WriteTimedOut
  <2>3. CASE "AUTO_ADD" \notin pool.flags
    <3>1. AddReturns("timeout") /\ UNCHANGED <<back, togo>>
      BY <1>13, <2>3 DEF WriteTimedOut
    <3>2. ~InAdd'
      BY <3>1 DEF AddReturns, InAdd
    <3> QED BY <1>1, <1>13, <2>1, <3>1, <3>2, LoopType
            DEF WriteTimedOut, Result, AddReturns
  <2> QED BY <2>2, <2>3
<1>14. CASE WriteFails
  <2>1. InAdd /\ AddReturns("error")
    BY <1>14 DEF WriteFails, InAdd
  <2>2. ~InAdd'
    BY <2>1 DEF AddReturns, InAdd
  <2> QED BY <1>1, <1>14, <2>1, <2>2, LoopType DEF WriteFails, Result, AddReturns
<1>15. ASSUME NEW c \in DOMAIN child, ChildRead(c) PROVE TypeInv'
  <2> DEFINE e == [pc |-> "run", rec |-> Head(sock)]
  <2>1. /\ Head(sock) \in Rec /\ sock' \in Seq(Rec) /\ Len(sock') <= SockCap
    BY <1>15, SockTail, BoundAssumption, LenProperties DEF ChildRead, BoundAssumption
  <2>2. e \in Child
    BY <2>1 DEF Child
  <2>3. child' \in Seq(Child) /\ \A d \in Running' : child'[d].rec \in Rec
    BY <1>15, <2>1, <2>2, ChildSet DEF ChildRead, SetChild, Running
  <2>4. InAdd' = InAdd
    BY <1>15 DEF ChildRead, parentVars, InAdd
  <2> QED BY <1>15, <2>1, <2>3, <2>4 DEF ChildRead, parentVars
<1>16. ASSUME NEW c \in DOMAIN child,
              ChildAgain(c) \/ ChildReady(c) \/ ChildLeaves(c) \/ ChildExit(c)
       PROVE TypeInv'
  <2>1. PICK to \in {"select", "read", "bye", "exited"} : SetChild(c, to, NoRec)
    BY <1>16 DEF ChildAgain, ChildReady, ChildLeaves, ChildExit
  <2>2. [pc |-> to, rec |-> NoRec] \in Child
    BY DEF Child
  <2>3. child' \in Seq(Child) /\ \A d \in Running' : child'[d].rec \in Rec
    BY <2>1, <2>2, ChildSet DEF SetChild, Running
  <2>4. UNCHANGED <<sock, done>> /\ UNCHANGED parentVars
    BY <1>16 DEF ChildAgain, ChildReady, ChildLeaves, ChildExit
  <2>5. InAdd' = InAdd
    BY <2>4 DEF parentVars, InAdd
  <2> QED BY <2>3, <2>4, <2>5 DEF parentVars
<1>17. ASSUME NEW c \in DOMAIN child, ChildRan(c) PROVE TypeInv'
  <2>1. [pc |-> "read", rec |-> NoRec] \in Child
    BY DEF Child
  <2>2. child' \in Seq(Child) /\ \A d \in Running' : child'[d].rec \in Rec
    BY <1>17, <2>1, ChildSet DEF ChildRan, SetChild, Running
  <2>3. done' \subseteq Rec
    BY <1>17 DEF ChildRan, Running
  <2>4. InAdd' = InAdd
    BY <1>17 DEF ChildRan, parentVars, InAdd
  <2> QED BY <1>17, <2>2, <2>3, <2>4 DEF ChildRan, parentVars
<1>18. CASE UNCHANGED vars
  BY <1>18 DEF vars, InAdd, Running
<1> QED
  BY <1>2, <1>3, <1>4, <1>5, <1>6, <1>7, <1>8, <1>9, <1>10, <1>11, <1>12,
     <1>13, <1>14, <1>15, <1>16, <1>17, <1>18
     DEF Next, Client, InCall, ChildStep, Done

\* Every variable of the pool keeps its type, and the socket its limit, over
\* all interleavings of the parent's calls with the loops of the children.
THEOREM PoolTypeCorrect == Spec => []TypeOK
<1>1. TypeInv => TypeOK
  BY DEF TypeInv
<1> QED BY <1>1, TypeInvInit, TypeInvStep, PTL DEF Spec

-----------------------------------------------------------------------------
(***************************************************************************)
(* Delivery and StartedInOrder are inductive once it is known that the     *)
(* record pp_pool_add is about to write comes after every record written   *)
(* so far: the counter ntry makes the second record of a call a new one.   *)
(***************************************************************************)
Fresh == /\ \A r \in written : r.call <= nadd
         /\ InAdd => \A r \in written : Before(r, CurRec)

DeliveryInv == Delivery /\ StartedInOrder /\ Fresh

LEMMA FreshStep == TypeInv /\ Fresh /\ [Next]_vars => Fresh'
<1> SUFFICES ASSUME TypeInv, Fresh, [Next]_vars PROVE Fresh'
  OBVIOUS
<1>0. /\ nadd \in Nat /\ written \subseteq Rec
      /\ \A r \in written : r.call \in Int /\ r.try \in Int
  BY BoundAssumption DEF TypeInv, TypeOK, Rec, Call, BoundAssumption
\* Most steps neither write nor touch the counters of pp_pool_add.
<1>1. ASSUME UNCHANGED written, nadd' = nadd,
             InAdd' => InAdd /\ ntry' = ntry
      PROVE Fresh'
  BY <1>1 DEF Fresh, CurRec
<1>2. CASE PoolAdd
  <2>1. CurRec' = [call |-> nadd + 1, try |-> 2] /\ written' = written
    BY <1>2 DEF PoolAdd, CurRec
  <2>2. \A r \in written : r.call < nadd + 1
    BY <1>0 DEF Fresh
  <2> QED BY <1>0, <1>2, <2>1, <2>2 DEF PoolAdd, Fresh, Before
<1>3. ASSUME InAdd, nadd' = nadd, NextTry,
             written' \subseteq written \cup {CurRec}
      PROVE Fresh'
  <2>1. ntry \in 1..2 /\ nadd \in Nat
    BY <1>0, <1>3 DEF TypeInv
  <2>2. \A r \in written' : r.call <= nadd /\ (r = CurRec \/ Before(r, CurRec))
    BY <1>0, <1>3, <2>1 DEF Fresh, CurRec
  <2>3. CASE ntry > 1
    <3>1. CurRec = [call |-> nadd, try |-> 2] /\ CurRec' = [call |-> nadd, try |-> 1]
      BY <1>3, <2>1, <2>3 DEF NextTry, CurRec
    <3>2. \A r \in written' : Before(r, CurRec')
      <4> SUFFICES ASSUME NEW r \in written' PROVE Before(r, CurRec')
        OBVIOUS
      <4>1. CASE r = CurRec
        BY <3>1, <4>1, <2>1 DEF Before
      <4>2. CASE Before(r, CurRec) /\ r \in written
        BY <1>0, <3>1, <4>2, <2>1 DEF Before
      <4> QED BY <1>3, <2>2, <4>1, <4>2
    <3> QED BY <1>3, <2>2, <3>2 DEF Fresh
  <2>4. CASE ~(ntry > 1)
    <3>1. ~InAdd'
      BY <1>3, <2>4 DEF NextTry, AddReturns, InAdd
    <3> QED BY <1>3, <2>2, <3>1 DEF Fresh
  <2> QED BY <2>3, <2>4
<1>4. CASE Write
  BY <1>3, <1>4 DEF Write, InAdd
<1>5. CASE AddnReturns
  <2>1. CASE back = "add"
    BY <1>3, <1>5, <2>1 DEF AddnReturns, InAdd
  <2>2. CASE back # "add"
    BY <1>1, <1>5, <2>2 DEF AddnReturns, InAdd
  <2> QED BY <2>1, <2>2
<1>6. CASE AddCoreForkFails \/ WriteTimedOut \/ WriteFails
  BY <1>1, <1>6 DEF AddCoreForkFails, WriteTimedOut, WriteFails, AddReturns, InAdd
<1>7. CASE AddCoreFull \/ AddCoreFork \/ WriteAgain \/ WriteReady
  BY <1>1, <1>7 DEF AddCoreFull, AddCoreFork, WriteAgain, WriteReady, InAdd
<1>8. CASE PoolNewFails \/ PoolWait \/ PoolFree \/ WaitReturns
  BY <1>1, <1>8 DEF PoolNewFails, PoolWait, PoolFree, WaitReturns, InAdd
<1>9. ASSUME NEW np \in ArgNp, NEW n \in 0..3, PoolNew(np, n) PROVE Fresh'
  BY <1>1, <1>9 DEF PoolNew, InAdd
<1>10. ASSUME NEW n \in 1..MaxAddn, AddnCall(n) PROVE Fresh'
  BY <1>1, <1>10 DEF AddnCall, InAdd
<1>11. ASSUME UNCHANGED parentVars PROVE Fresh'
  BY <1>1, <1>11 DEF parentVars, InAdd
<1>12. ASSUME NEW c \in DOMAIN child, ChildStep(c) PROVE UNCHANGED parentVars
  BY <1>12 DEF ChildStep, ChildRead, ChildAgain, ChildReady, ChildLeaves,
               ChildRan, ChildExit
<1>13. CASE UNCHANGED vars
  BY <1>11, <1>13 DEF vars, parentVars
<1> QED
  BY <1>2, <1>4, <1>5, <1>6, <1>7, <1>8, <1>9, <1>10, <1>11, <1>12, <1>13
     DEF Next, Client, InCall, Done

\* Delivery and order do not depend on what children outside arg.func do.
LEMMA SameDelivery ==
  ASSUME Delivery, StartedInOrder, UNCHANGED <<sock, done, written>>,
         Running' = Running, \A c \in Running : child'[c] = child[c]
  PROVE  Delivery' /\ StartedInOrder'
<1>1. Held' = Held /\ Queued' = Queued
  BY DEF Held, Queued
<1> QED BY <1>1 DEF Delivery, StartedInOrder

LEMMA DeliveryStep ==
  TypeInv /\ DeliveryInv /\ [Next]_vars => Delivery' /\ StartedInOrder'
<1> SUFFICES ASSUME TypeInv, DeliveryInv, [Next]_vars
             PROVE  Delivery' /\ StartedInOrder'
  OBVIOUS
<1> USE DEF DeliveryInv
<1>0. /\ sock \in Seq(Rec) /\ child \in Seq(Child)
      /\ DOMAIN sock = 1..Len(sock) /\ Len(sock) \in Nat
  BY LenProperties DEF TypeInv, TypeOK
<1>1. CASE Write
  <2>1. CurRec \in Rec /\ InAdd
    BY <1>1 DEF Write, TypeInv, TypeOK, InAdd, CurRec, Rec, Call
  <2>2. /\ sock' = Append(sock, CurRec) /\ written' = written \cup {CurRec}
        /\ UNCHANGED <<child, done>>
    BY <1>1 DEF Write
  <2>3. Queued' = Queued \cup {CurRec}
    BY <1>0, <2>1, <2>2, SockAppend DEF Queued
  <2>4. Held' = Held /\ Running' = Running
    BY <2>2 DEF Held, Running
  <2>5. \A r \in written : Before(r, CurRec)
    BY <2>1 DEF Fresh
  <2>6. CurRec \notin written
    BY <2>1, <2>5 DEF Before, Rec, Call
  <2>7. /\ DOMAIN sock' = 1..(Len(sock) + 1)
        /\ \A i \in 1..Len(sock) : sock'[i] = sock[i] /\ sock'[i] \in written
        /\ sock'[Len(sock) + 1] = CurRec
    BY <1>0, <2>1, <2>2, SockAppend DEF Delivery, Queued
  <2>8. Delivery'
    <3>1. \A i, j \in DOMAIN sock' : sock'[i] = sock'[j] => i = j
      BY <1>0, <2>6, <2>7 DEF Delivery
    <3>2. \A c, d \in Running' : child'[c].rec = child'[d].rec => c = d
      BY <2>2, <2>4 DEF Delivery
    <3> QED BY <2>2, <2>3, <2>4, <2>6, <3>1, <3>2 DEF Delivery
  <2>9. StartedInOrder'
    <3>1. \A i, j \in DOMAIN sock' : i < j => Before(sock'[i], sock'[j])
      BY <1>0, <2>5, <2>7 DEF StartedInOrder
    <3>2. \A r \in done' \cup Held', q \in Queued' : Before(r, q)
      BY <2>2, <2>3, <2>4, <2>5 DEF StartedInOrder, Delivery
    <3> QED BY <3>1, <3>2 DEF StartedInOrder
  <2> QED BY <2>8, <2>9
<1>2. ASSUME NEW c \in DOMAIN child, ChildRead(c)
      PROVE  Delivery' /\ StartedInOrder'
  <2> DEFINE h == Head(sock)
             e == [pc |-> "run", rec |-> h]
  <2>1. /\ h \in Rec /\ h = sock[1] /\ 1 \in DOMAIN sock
        /\ DOMAIN sock' = 1..(Len(sock) - 1)
        /\ \A i \in 1..(Len(sock) - 1) : sock'[i] = sock[i + 1]
    BY <1>0, <1>2, SockTail DEF ChildRead
  <2>2. UNCHANGED <<done, written>> /\ c \notin Running
    BY <1>2 DEF ChildRead, parentVars, Running
  <2>3. e \in Child
    BY <2>1 DEF Child
  <2>4. DOMAIN child' = DOMAIN child
        /\ \A d \in DOMAIN child : child'[d] = IF d = c THEN e ELSE child[d]
    BY <1>0, <1>2, <2>3, ChildSet DEF ChildRead, SetChild
  <2> HIDE DEF h
  <2>5. Running' = Running \cup {c} /\ \A d \in Running : child'[d] = child[d]
    BY <2>2, <2>4 DEF Running
  <2>6. Held' = Held \cup {h}
    BY <2>2, <2>4, <2>5 DEF Held
  <2>0. \A i \in DOMAIN sock' : /\ i + 1 \in DOMAIN sock /\ 1 < i + 1 /\ i + 1 # 1
                               /\ sock'[i] = sock[i + 1] /\ i \in Int
    BY <1>0, <2>1
  <2>7. h \in Queued /\ Queued' = Queued \ {h}
    <3>1. \A i \in DOMAIN sock' : sock'[i] \in Queued /\ sock'[i] # h
      BY <2>0, <2>1 DEF Queued, Delivery
    <3>2. \A i \in DOMAIN sock : sock[i] # h => i - 1 \in DOMAIN sock' /\ sock[i] = sock'[i - 1]
      BY <1>0, <2>1
    <3> QED BY <2>1, <3>1, <3>2 DEF Queued
  <2>8. Delivery'
    <3>1. \A i, j \in DOMAIN sock' : sock'[i] = sock'[j] => i = j
      BY <1>0, <2>1 DEF Delivery
    <3>2. \A d \in Running : child[d].rec # h
      BY <2>7 DEF Delivery, Held
    <3>3. \A d, f \in Running' : child'[d].rec = child'[f].rec => d = f
      BY <2>2, <2>4, <2>5, <3>2 DEF Delivery
    <3> QED BY <2>2, <2>6, <2>7, <3>1, <3>3 DEF Delivery
  <2>9. StartedInOrder'
    <3>1. \A i, j \in DOMAIN sock' : i < j => Before(sock'[i], sock'[j])
      <4> SUFFICES ASSUME NEW i \in DOMAIN sock', NEW j \in DOMAIN sock', i < j
                   PROVE  Before(sock'[i], sock'[j])
        OBVIOUS
      <4>1. i + 1 < j + 1
        BY <2>0
      <4> QED BY <2>0, <4>1 DEF StartedInOrder
    <3>2. \A q \in Queued' : Before(h, q)
      <4>1. \A i \in DOMAIN sock' : Before(h, sock'[i])
        BY <2>0, <2>1 DEF StartedInOrder
      <4> QED BY <4>1 DEF Queued
    <3> QED BY <2>2, <2>6, <2>7, <3>1, <3>2 DEF StartedInOrder
  <2> QED BY <2>8, <2>9
<1>3. ASSUME NEW c \in DOMAIN child, ChildRan(c)
      PROVE  Delivery' /\ StartedInOrder'
  <2> DEFINE r == child[c].rec
             e == [pc |-> "read", rec |-> NoRec]
  <2>1. e \in Child
    BY DEF Child
  <2>2. DOMAIN child' = DOMAIN child
        /\ \A d \in DOMAIN child : child'[d] = IF d = c THEN e ELSE child[d]
    BY <1>0, <1>3, <2>1, ChildSet DEF ChildRan, SetChild
  <2>3. /\ c \in Running /\ r \in Held /\ done' = done \cup {r}
        /\ UNCHANGED <<sock, written>>
    BY <1>3 DEF ChildRan, parentVars, Running, Held
  <2>4. Running' = Running \ {c} /\ \A d \in Running' : child'[d] = child[d]
    BY <2>2, <2>3 DEF Running
  <2>5. Held' = Held \ {r}
    BY <2>3, <2>4 DEF Held, Delivery
  <2>6. Queued' = Queued
    BY <2>3 DEF Queued
  <2>7. \A d, f \in Running' : child'[d].rec = child'[f].rec => d = f
    BY <2>4 DEF Delivery
  <2> HIDE DEF r
  <2>8. Delivery'
    BY <2>3, <2>5, <2>6, <2>7 DEF Delivery
  <2>9. StartedInOrder'
    BY <2>3, <2>5, <2>6 DEF StartedInOrder
  <2> QED BY <2>8, <2>9
<1>4. ASSUME NEW c \in DOMAIN child,
             ChildAgain(c) \/ ChildReady(c) \/ ChildLeaves(c) \/ ChildExit(c)
      PROVE  Delivery' /\ StartedInOrder'
  <2>1. PICK to \in {"select", "read", "bye", "exited"} : SetChild(c, to, NoRec)
    BY <1>4 DEF ChildAgain, ChildReady, ChildLeaves, ChildExit
  <2>2. c \notin Running /\ UNCHANGED <<sock, done, written>>
    BY <1>4 DEF ChildAgain, ChildReady, ChildLeaves, ChildExit, Running, parentVars
  <2>3. [pc |-> to, rec |-> NoRec] \in Child
    BY DEF Child
  <2>4. Running' = Running /\ \A d \in Running : child'[d] = child[d]
    BY <1>0, <2>1, <2>2, <2>3, ChildSet DEF SetChild, Running
  <2> QED BY <2>2, <2>4, SameDelivery
<1>5. CASE AddCoreFork
  <2>1. [pc |-> "read", rec |-> NoRec] \in Child
    BY DEF Child
  <2>2. Running' = Running /\ \A c \in Running : child'[c] = child[c]
    BY <1>0, <1>5, <2>1, ChildAppend DEF AddCoreFork, Running
  <2> QED BY <1>5, <2>2, SameDelivery DEF AddCoreFork
<1>6. ASSUME UNCHANGED <<sock, child, done, written>>
      PROVE  Delivery' /\ StartedInOrder'
  <2>1. Running' = Running /\ \A c \in Running : child'[c] = child[c]
    BY <1>6 DEF Running
  <2> QED BY <1>6, <2>1, SameDelivery
<1>7. CASE Client
  BY <1>6, <1>7 DEF Client, PoolNewFails, PoolNew, PoolAdd, AddnCall, PoolWait, PoolFree
<1>8. CASE AddCoreFull \/ AddCoreForkFails \/ AddnReturns \/ WriteAgain
           \/ WriteReady \/ WriteTimedOut \/ WriteFails \/ WaitReturns
  BY <1>6, <1>8 DEF AddCoreFull, AddCoreForkFails, AddnReturns, WriteAgain,
                    WriteReady, WriteTimedOut, WriteFails, WaitReturns
<1>9. CASE UNCHANGED vars
  BY <1>6, <1>9 DEF vars
<1> QED BY <1>1, <1>2, <1>3, <1>4, <1>5, <1>7, <1>8, <1>9
        DEF Next, InCall, ChildStep, Done

LEMMA DeliveryInit == Init => DeliveryInv
  BY DEF Init, DeliveryInv, Delivery, StartedInOrder, Fresh, InAdd, Queued,
         Held, Running

\* No record that pp_pool_add wrote is lost, read by two children or run twice,
\* whatever the children's timeouts and whichever child reads first.
THEOREM PoolDelivers == Spec => []Delivery
<1>1. TypeInv /\ DeliveryInv /\ [Next]_vars => TypeInv' /\ DeliveryInv'
  BY TypeInvStep, FreshStep, DeliveryStep DEF DeliveryInv
<1>2. DeliveryInv => Delivery
  BY DEF DeliveryInv
<1> QED BY <1>1, <1>2, TypeInvInit, DeliveryInit, PTL DEF Spec

\* The children start the records in the order of the calls of pp_pool_add.
THEOREM PoolStartsInOrder == Spec => []StartedInOrder
<1>1. TypeInv /\ DeliveryInv /\ [Next]_vars => TypeInv' /\ DeliveryInv'
  BY TypeInvStep, FreshStep, DeliveryStep DEF DeliveryInv
<1>2. DeliveryInv => StartedInOrder
  BY DEF DeliveryInv
<1> QED BY <1>1, <1>2, TypeInvInit, DeliveryInit, PTL DEF Spec

-----------------------------------------------------------------------------
(* The pool record is set up once, before the first fork. *)
BudgetInv == ForkBudget /\ (pc = "start" => child = <<>>)

LEMMA BudgetInit == Init => BudgetInv
  BY EmptySeq DEF Init, BudgetInv, ForkBudget

LEMMA BudgetStep == TypeInv /\ BudgetInv /\ [Next]_vars => BudgetInv'
<1> SUFFICES ASSUME TypeInv, BudgetInv, [Next]_vars PROVE BudgetInv'
  OBVIOUS
<1> USE DEF BudgetInv, ForkBudget
<1>0. /\ child \in Seq(Child) /\ Len(child) \in Nat /\ DOMAIN child = 1..Len(child)
      /\ pool.run \in Int /\ pool.max \in Int /\ run0 \in Int
      /\ child # <<>> => Len(child) > 0
  BY LenProperties, EmptySeq DEF TypeInv, TypeOK, Pool
<1>1. ASSUME NEW np \in ArgNp, NEW n \in 0..3, PoolNew(np, n) PROVE BudgetInv'
  <2>1. PICK p \in NewFields(np, n) : pool' = p /\ run0' = p.run
    BY <1>1 DEF PoolNew
  <2>2. child' = <<>> /\ pc' # "start" /\ p.run \in Int
    BY <1>1, NewFieldsType DEF PoolNew, Pool
  <2> QED BY <2>1, <2>2, EmptySeq
<1>2. CASE AddCoreFork
  <2>1. [pc |-> "read", rec |-> NoRec] \in Child
    BY DEF Child
  <2>2. Len(child') = Len(child) + 1
    BY <1>0, <1>2, <2>1, ChildAppend DEF AddCoreFork
  <2>3. /\ pool'.run = pool.run + 1 /\ pool'.max = pool.max
        /\ run0' = run0 /\ pool.run <= pool.max /\ pc' = "addn"
    BY <1>2 DEF AddCoreFork, TypeInv, TypeOK, Pool
  <2> QED BY <1>0, <2>2, <2>3
<1>3. ASSUME NEW c \in DOMAIN child, ChildStep(c) PROVE BudgetInv'
  <2>1. UNCHANGED parentVars
    BY <1>3 DEF ChildStep, ChildRead, ChildAgain, ChildReady, ChildLeaves,
                ChildRan, ChildExit
  <2>2. PICK e : child' = [child EXCEPT ![c] = e]
    BY <1>3 DEF ChildStep, ChildRead, ChildAgain, ChildReady, ChildLeaves,
                ChildRan, ChildExit, SetChild
  <2>3. child' \in Seq(Child)
    BY TypeInvStep DEF TypeInv, TypeOK
  <2>4. Len(child') = Len(child) /\ child # <<>>
    <3>1. DOMAIN child' = 1..Len(child) /\ DOMAIN child' = 1..Len(child')
          /\ Len(child') \in Nat
      BY <1>0, <2>2, <2>3, LenProperties
    <3> QED BY <1>0, <3>1
  <2> QED BY <1>0, <2>1, <2>4, EmptySeq DEF parentVars
<1>4. ASSUME UNCHANGED <<pool, child, run0>>, pc' = "start" => pc = "start"
      PROVE BudgetInv'
  BY <1>4
<1>5. CASE Client /\ ~\E np \in ArgNp, n \in 0..3 : PoolNew(np, n)
  BY <1>4, <1>5 DEF Client, PoolNewFails, PoolAdd, AddnCall, PoolWait, PoolFree
<1>6. CASE InCall /\ ~AddCoreFork
  BY <1>4, <1>6 DEF InCall, AddCoreFull, AddCoreForkFails, AddnReturns, Write,
     WriteAgain, WriteReady, WriteTimedOut, WriteFails, WaitReturns, NextTry, AddReturns
<1>7. CASE UNCHANGED vars
  BY <1>4, <1>7 DEF vars
<1> QED BY <1>1, <1>2, <1>3, <1>5, <1>6, <1>7 DEF Next, Client, Done

\* For every max_process and whatever malloc left in run_process, a pool forks
\* at most max_process + 1 - run_process children in its whole life, those of
\* PP_AUTO_ADD included.
THEOREM PoolForkBudget == Spec => []ForkBudget
<1>1. BudgetInv => ForkBudget
  BY DEF BudgetInv
<1> QED BY <1>1, TypeInvInit, TypeInvStep, BudgetInit, BudgetStep, PTL DEF Spec

-----------------------------------------------------------------------------
(***************************************************************************)
(* AddResult speaks of finished calls; it is inductive with what is known  *)
(* of the call in progress: it has no result yet, without PP_AUTO_ADD it   *)
(* never asks for a process, and its second try comes after the record of  *)
(* the first one went in.                                                  *)
(***************************************************************************)
AutoAdd == "AUTO_ADD" \in pool.flags

CallInv ==
  /\ \A i \in Call : result[i] = "none" <=> i > nadd \/ (InAdd /\ i = nadd)
  /\ InAdd /\ ~AutoAdd => /\ pc # "addn"
                          /\ ntry = 1 => [call |-> nadd, try |-> 2] \in written
  /\ pc = "start" => nadd = 0

Finished(i) ==
  /\ result[i] = "ok" /\ ~AutoAdd => \A t \in 1..2 : [call |-> i, try |-> t] \in written
  /\ result[i] = "timeout" => ~AutoAdd /\ [call |-> i, try |-> 1] \notin written

ReturnInv == CallInv /\ \A i \in Call : Finished(i)

\* Steps outside pp_pool_add, and those inside it that neither write nor return.
LEMMA ReturnKept ==
  ASSUME TypeInv, ReturnInv, UNCHANGED <<written, nadd, result, ntry>>,
         pool'.flags = pool.flags, InAdd' = InAdd, pc' = "start" => pc = "start",
         InAdd /\ pc' = "addn" => pc = "addn" \/ AutoAdd
  PROVE  ReturnInv'
<1>1. AutoAdd' = AutoAdd
  BY DEF AutoAdd
<1>2. CallInv'
  BY <1>1 DEF ReturnInv, CallInv
<1>3. \A i \in Call : Finished(i)'
  BY <1>1 DEF ReturnInv, Finished
<1> QED BY <1>2, <1>3 DEF ReturnInv

\* The call in progress returns r, having written what it ever will.
LEMMA ReturnEnds ==
  ASSUME TypeInv, ReturnInv, InAdd, NEW r \in Result \ {"none"}, AddReturns(r),
         UNCHANGED <<nadd, pool>>,
         written' \subseteq written \cup {CurRec}, written \subseteq written',
         r = "ok" /\ ~AutoAdd => \A t \in 1..2 : [call |-> nadd, try |-> t] \in written',
         r = "timeout" => ~AutoAdd /\ [call |-> nadd, try |-> 1] \notin written'
  PROVE  ReturnInv'
<1>1. AutoAdd' = AutoAdd /\ ~InAdd' /\ nadd \in Call /\ nadd' = nadd /\ pc' # "start"
  BY DEF AutoAdd, AddReturns, InAdd, TypeInv, TypeOK, Call
<1>2. /\ \A i \in Call : result'[i] = IF i = nadd THEN r ELSE result[i]
      /\ r # "none"
  BY <1>1 DEF AddReturns, TypeInv, TypeOK
<1>3. \A i \in Call : i \in Int /\ nadd \in Int
  BY <1>1 DEF Call
<1>4. CallInv'
  BY <1>1, <1>2, <1>3 DEF ReturnInv, CallInv
<1>5. ASSUME NEW i \in Call PROVE Finished(i)'
  <2>1. CASE i = nadd
    BY <1>1, <1>2, <2>1 DEF Finished
  <2>2. CASE i # nadd
    <3>1. \A t \in 1..2 : [call |-> i, try |-> t] \in written' <=> [call |-> i, try |-> t] \in written
      BY <2>2 DEF CurRec
    <3> QED BY <1>1, <1>2, <2>2, <3>1 DEF Finished, ReturnInv
  <2> QED BY <2>1, <2>2
<1> QED BY <1>4, <1>5 DEF ReturnInv

\* ntry-- after a write, or after the fork PP_AUTO_ADD asked for.
LEMMA ReturnTries ==
  ASSUME TypeInv, Fresh, ReturnInv, InAdd, NextTry, UNCHANGED <<nadd, pool>>,
         \/ written' = written \cup {CurRec}
         \/ AutoAdd /\ UNCHANGED written
  PROVE  ReturnInv'
<1>1. ntry \in 1..2 /\ nadd \in Call
  BY DEF TypeInv, TypeOK, Call
<1>2. CASE ntry = 2
  <2>1. pc' = "write" /\ ntry' = 1 /\ UNCHANGED result /\ InAdd'
    BY <1>2 DEF NextTry, InAdd
  <2>2. AutoAdd' = AutoAdd
    BY DEF AutoAdd
  <2>3. ~AutoAdd => [call |-> nadd, try |-> 2] \in written'
    BY <1>2 DEF CurRec
  <2>4. CallInv'
    BY <2>1, <2>2, <2>3 DEF ReturnInv, CallInv
  <2>5. ASSUME NEW i \in Call PROVE Finished(i)'
    <3>1. CASE i = nadd
      BY <2>1, <3>1 DEF ReturnInv, CallInv, Finished
    <3>2. CASE i # nadd
      <4>1. \A t \in 1..2 : [call |-> i, try |-> t] \in written' <=> [call |-> i, try |-> t] \in written
        BY <3>2 DEF CurRec
      <4> QED BY <2>1, <2>2, <4>1 DEF ReturnInv, Finished
    <3> QED BY <3>1, <3>2
  <2> QED BY <2>4, <2>5 DEF ReturnInv
<1>3. CASE ntry = 1
  <2>1. AddReturns("ok") /\ "ok" \in Result \ {"none"}
    BY <1>3 DEF NextTry, Result
  <2>2. ~AutoAdd => \A t \in 1..2 : [call |-> nadd, try |-> t] \in written'
    BY <1>3 DEF ReturnInv, CallInv, CurRec
  <2>3. written' \subseteq written \cup {CurRec} /\ written \subseteq written'
    OBVIOUS
  <2> QED BY <2>1, <2>2, <2>3, ReturnEnds
<1> QED BY <1>1, <1>2, <1>3

LEMMA ReturnStep == TypeInv /\ Fresh /\ ReturnInv /\ [Next]_vars => ReturnInv'
<1> SUFFICES ASSUME TypeInv, Fresh, ReturnInv, [Next]_vars PROVE ReturnInv'
  OBVIOUS
<1>1. CASE PoolAdd
  <2>1. /\ ~InAdd /\ InAdd' /\ nadd' = nadd + 1 /\ ntry' = 2 /\ pc' = "write"
        /\ UNCHANGED <<pool, result, written>> /\ nadd \in Int
    BY <1>1 DEF PoolAdd, InAdd, TypeInv, TypeOK
  <2>2. \A i \in Call : i \in Int
    BY DEF Call
  <2>3. CallInv'
    BY <2>1, <2>2 DEF ReturnInv, CallInv
  <2>4. \A i \in Call : Finished(i)'
    BY <2>1 DEF ReturnInv, Finished, AutoAdd
  <2> QED BY <2>3, <2>4 DEF ReturnInv
<1>2. ASSUME NEW np \in ArgNp, NEW n \in 0..3, PoolNew(np, n) PROVE ReturnInv'
  <2>1. /\ nadd = 0 /\ ~InAdd /\ ~InAdd' /\ pc' = "addn"
        /\ UNCHANGED <<nadd, result, written>>
    BY <1>2 DEF PoolNew, InAdd, ReturnInv, CallInv
  <2>2. \A i \in Call : i > nadd
    BY <2>1 DEF Call
  <2>3. CallInv'
    BY <2>1 DEF ReturnInv, CallInv
  <2>4. \A i \in Call : result'[i] = "none"
    BY <2>1, <2>2 DEF ReturnInv, CallInv
  <2>5. \A i \in Call : Finished(i)'
    BY <2>4 DEF Finished
  <2> QED BY <2>3, <2>5 DEF ReturnInv
<1>3. CASE Write
  <2>1. InAdd
    BY <1>3 DEF Write, InAdd
  <2> QED BY <1>3, <2>1, ReturnTries DEF Write
<1>4. CASE AddnReturns
  <2>1. CASE back = "add"
    <3>1. InAdd /\ AutoAdd
      BY <1>4, <2>1 DEF AddnReturns, InAdd, ReturnInv, CallInv
    <3> QED BY <1>4, <2>1, <3>1, ReturnTries DEF AddnReturns
  <2>2. CASE back # "add"
    BY <1>4, <2>2, ReturnKept DEF AddnReturns, InAdd
  <2> QED BY <2>1, <2>2
<1>5. CASE AddCoreForkFails
  <2>1. CASE back = "add"
    <3>1. InAdd /\ AddReturns("error") /\ "error" \in Result \ {"none"}
      BY <1>5, <2>1 DEF AddCoreForkFails, InAdd, Result
    <3> QED BY <1>5, <3>1, ReturnEnds DEF AddCoreForkFails
  <2>2. CASE back # "add"
    BY <1>5, <2>2, ReturnKept DEF AddCoreForkFails, InAdd
  <2> QED BY <2>1, <2>2
<1>6. CASE WriteTimedOut
  <2>1. CASE AutoAdd
    BY <1>6, <2>1, ReturnKept DEF WriteTimedOut, InAdd, AutoAdd
  <2>2. CASE ~AutoAdd
    <3>1. InAdd /\ AddReturns("timeout") /\ "timeout" \in Result \ {"none"}
      BY <1>6, <2>2 DEF WriteTimedOut, InAdd, Result, AutoAdd
    <3>2. ntry \in 1..2 /\ nadd \in Int
      BY <3>1 DEF TypeInv, TypeOK
    <3>3. [call |-> nadd, try |-> 1] \notin written
      <4>1. \A r \in written : r.call < nadd \/ (r.call = nadd /\ r.try > ntry)
        BY <3>1 DEF Fresh, Before, CurRec
      <4> QED BY <3>2, <4>1
    <3> QED BY <1>6, <2>2, <3>1, <3>3, ReturnEnds DEF WriteTimedOut
  <2> QED BY <2>1, <2>2
<1>7. CASE WriteFails
  <2>1. InAdd /\ AddReturns("error") /\ "error" \in Result \ {"none"}
    BY <1>7 DEF WriteFails, InAdd, Result
  <2> QED BY <1>7, <2>1, ReturnEnds DEF WriteFails
<1>8. CASE AddCoreFull \/ WriteAgain \/ WriteReady
  BY <1>8, ReturnKept DEF AddCoreFull, WriteAgain, WriteReady, InAdd
<1>9. CASE AddCoreFork
  <2>1. pool'.flags = pool.flags
    BY <1>9 DEF AddCoreFork, TypeInv, TypeOK, Pool
  <2> QED BY <1>9, <2>1, ReturnKept DEF AddCoreFork, InAdd
<1>10. CASE PoolNewFails \/ PoolWait \/ PoolFree \/ WaitReturns
  BY <1>10, ReturnKept DEF PoolNewFails, PoolWait, PoolFree, WaitReturns, InAdd
<1>11. ASSUME NEW n \in 1..MaxAddn, AddnCall(n) PROVE ReturnInv'
  BY <1>11, ReturnKept DEF AddnCall, InAdd
<1>12. ASSUME UNCHANGED parentVars PROVE ReturnInv'
  BY <1>12, ReturnKept DEF parentVars, InAdd
<1>13. ASSUME NEW c \in DOMAIN child, ChildStep(c) PROVE UNCHANGED parentVars
  BY <1>13 DEF ChildStep, ChildRead, ChildAgain, ChildReady, ChildLeaves,
               ChildRan, ChildExit
<1>14. CASE UNCHANGED vars
  BY <1>12, <1>14 DEF vars, parentVars
<1> QED
  BY <1>1, <1>2, <1>3, <1>4, <1>5, <1>6, <1>7, <1>8, <1>9, <1>10, <1>11, <1>12,
     <1>13, <1>14
  DEF Next, Client, InCall, Done

LEMMA ReturnInit == Init => ReturnInv
<1> SUFFICES ASSUME Init PROVE ReturnInv
  OBVIOUS
<1>1. nadd = 0 /\ ~InAdd /\ \A i \in Call : i > 0 /\ result[i] = "none"
  BY DEF Init, InAdd, Call
<1> QED BY <1>1 DEF ReturnInv, CallInv, Finished

\* What pp_pool_add returns is true of the socket: without PP_AUTO_ADD, 0 means
\* two records and PP_TIMEOUT at most one; with it there is no PP_TIMEOUT, and a
\* call that was not made has written nothing.
THEOREM PoolAddResult == Spec => []AddResult
<1>1. TypeInv /\ Fresh /\ ReturnInv => AddResult
  <2> SUFFICES ASSUME TypeInv, Fresh, ReturnInv, NEW i \in Call,
                      result[i] = "none", pc = "idle", NEW t \in 1..2
               PROVE  [call |-> i, try |-> t] \notin written
    BY DEF AddResult, ReturnInv, Finished, AutoAdd
  <2>1. i > nadd /\ i \in Int /\ nadd \in Int
    BY DEF ReturnInv, CallInv, InAdd, Call, TypeInv, TypeOK
  <2> QED BY <2>1 DEF Fresh
<1>2. TypeInv /\ Fresh /\ ReturnInv /\ [Next]_vars => TypeInv' /\ Fresh' /\ ReturnInv'
  BY TypeInvStep, FreshStep, ReturnStep
<1>3. Init => TypeInv /\ Fresh /\ ReturnInv
  BY TypeInvInit, DeliveryInit, ReturnInit DEF DeliveryInv
<1> QED BY <1>1, <1>2, <1>3, PTL DEF Spec

=============================================================================
