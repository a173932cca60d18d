------------------------------- MODULE HandOff -------------------------------
(***************************************************************************)
(* What a server that passes connections from one accepting thread to      *)
(* workers promises: connections wait in the order of accept, at most two  *)
(* at a time, and each is taken by one worker, the oldest first.  A server *)
(* that is not reliable may forget the oldest when a second one waits.     *)
(***************************************************************************)
EXTENDS Naturals, Sequences

VARIABLES
  reliable,  \* whether the server may forget a connection
  accepted,  \* connections accepted; they are numbered from 1
  waiting,   \* connections no worker has taken
  taken      \* connections in the order they were taken

Init == reliable \in BOOLEAN /\ accepted = 0 /\ waiting = <<>> /\ taken = <<>>

Accept == /\ Len(waiting) < 2
          /\ accepted' = accepted + 1 /\ waiting' = Append(waiting, accepted + 1)
          /\ UNCHANGED taken

Take == /\ waiting # <<>>
        /\ taken' = Append(taken, Head(waiting)) /\ waiting' = Tail(waiting)
        /\ UNCHANGED accepted

Forget == /\ ~reliable /\ Len(waiting) = 2
          /\ waiting' = Tail(waiting)
          /\ UNCHANGED <<accepted, taken>>

Next == (Accept \/ Take \/ Forget) /\ UNCHANGED reliable

Spec == Init /\ [][Next]_<<reliable, accepted, waiting, taken>>

-----------------------------------------------------------------------------

\* The order of accept is the order of service, nothing is served twice, and a
\* reliable server serves or keeps everything it accepted.
InOrder ==
  /\ \A i, j \in DOMAIN taken : i < j => taken[i] < taken[j]
  /\ \A i \in DOMAIN taken, j \in DOMAIN waiting : taken[i] < waiting[j]
  /\ reliable => Len(taken) + Len(waiting) = accepted

=============================================================================
