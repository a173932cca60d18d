----------------------------- MODULE MailCapture -----------------------------
(***************************************************************************)
(* What use_libnids promises: every smtp stream has its own mail.  A       *)
(* Return-Path begins one, later data of the same stream is added to it or *)
(* left out, and QUIT ends it and writes it, whole, to one file, or gives  *)
(* it up.  Nothing a stream sends touches the mail of another one.         *)
(***************************************************************************)
EXTENDS Sequences

CONSTANTS Stream, Chunk, Name, NULL

VARIABLES mail, files

Init == mail = [s \in Stream |-> NULL] /\ files = [n \in Name |-> NULL]

Begin(s, c) == /\ mail' = [mail EXCEPT ![s] = <<c>>]
               /\ UNCHANGED files

More(s, c) == /\ mail[s] # NULL
              /\ mail' = [mail EXCEPT ![s] = Append(@, c)]
              /\ UNCHANGED files

End(s) == /\ mail[s] # NULL
          /\ mail' = [mail EXCEPT ![s] = NULL]
          /\ files' \in {files} \cup {[files EXCEPT ![n] = mail[s]] : n \in Name}

\* Each step changes some mail.
Next == /\ mail' # mail
        /\ \E s \in Stream :
             \/ End(s)
             \/ \E c \in Chunk :
                  c.stream = s /\ (More(s, c) \/ (c.kind = "return" /\ Begin(s, c)))

Spec == Init /\ [][Next]_<<mail, files>>

=============================================================================
