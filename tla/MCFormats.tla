------------------------------ MODULE MCFormats ------------------------------
(***************************************************************************)
(* The parts of the system that one thread runs and that turn data into    *)
(* other data, each on inputs of its own: records, pages, bodies, captured *)
(* mails and the pure functions.  A behaviour is about one part: the       *)
(* others have nothing to do in it.                                        *)
(***************************************************************************)
EXTENDS Proto, AntPage, AntText, AntBody, SmtpCapture, DnsPacket, CharEngine

VARIABLES part, sample

vars == <<part, sample, protoVars, pageVars, bodyVars, smtpVars>>

-----------------------------------------------------------------------------
(* Inputs *)

Field(int, n) == [int |-> int, bytes |-> [i \in 1..n |-> 10 * n + i]]

\* A function's name, an integer and a buffer; one that does not fit, and two calls.
MCCalls == {<< <<Field(FALSE, 2), Field(TRUE, 2)>>, <<Field(FALSE, 1)>> >>,
            << <<Field(FALSE, 3), Field(TRUE, 4)>>, <<Field(FALSE, 2), Field(FALSE, 0)>> >>,
            << <<Field(FALSE, 1), Field(FALSE, 5), Field(FALSE, 4)>> >>}

u1 == "u1"
u2 == "u2"
u3 == "u3"
MCUrl == {u1, u2, u3}
MCUrlHash == [t \in MCUrl \cup {"junk"} |-> IF t \in {u1, u2} THEN 0 ELSE 1]

Lists == {<<u1>>, <<u2, "junk">>, <<u1, u3>>, <<u3, u3>>}

\* Pages with two links whose length is known, zero or not known, and no page; chunked
\* ones of which the charset is known or not.
Pages == {[code |-> c, filesize |-> n, chunksize |-> -1, utf8 |-> TRUE, charset |-> "good",
           links |-> <<u1, u2>>] : c \in {200, 403}, n \in {-1, 0, 1}}
           \cup {[code |-> 200, filesize |-> -1, chunksize |-> 0, utf8 |-> FALSE, charset |-> t,
                  links |-> l] : l \in {<<u3, u1>>, <<u2>>}, t \in {"good", "bad"}}

\* Responses of three bytes: without a length, with one, chunked, both ways of
\* having both, one that is no page, and one without a body.
MCToken == {"200", "404", "length", "chunked", "other", "x", "y", "z", "r", "n", "0", "1", "2"}
MCDigits == [d \in {"0", "1", "2"} |-> IF d = "0" THEN 0 ELSE IF d = "1" THEN 1 ELSE 2]
NoChunk == [size |-> "0", bytes |-> <<>>]
Xyz == <<[size |-> "2", bytes |-> <<"x", "y">>], [size |-> "1", bytes |-> <<"z">>], NoChunk>>
MCResponse ==
  {[lines |-> l, chunks |-> Xyz] :
     l \in {<<"200">>, <<"200", "length">>, <<"404", "length">>, <<"200", "chunked">>,
            <<"200", "length", "chunked">>, <<"200", "chunked", "length">>}}
    \cup {[lines |-> <<"200", "other", "length">>, chunks |-> <<NoChunk>>]}

\* Three streams, two of them in one bucket and two with the same sender.
MCStream == {"s1", "s2", "s3"}
MCHash == [s \in MCStream |-> IF s = "s3" THEN 1 ELSE 0]
MCFrom == [s \in MCStream |-> IF s = "s1" THEN "a" ELSE "b"]

Upto(n, S) == UNION {[1..k -> S] : k \in 0..n}

\* Samples are packed with their kind.
Names == {[kind |-> "name", s |-> s] : s \in Upto(6, {97, Dot})}
Answers == {[kind |-> "answers",
             s |-> [i \in DOMAIN s |-> [type |-> s[i][1], len |-> s[i][2], data |-> i]]] :
              s \in Upto(6, {<<1, 4>>, <<1, 2>>, <<5, 4>>})}
Confs == {[kind |-> "conf", s |-> s] :
            s \in Upto(2, [word : {"#", "nameserver", "search"},
                           rest : {"127.0.0.1", "10.0.0.1", "name"}])}
Texts == {[kind |-> "utf8", s |-> s] : s \in Upto(5, {"T", "F", "C", "B", "L1", "L2", "L3"})}
PageTexts == {[kind |-> "page", s |-> s] :
                s \in Upto(4, {"href", "sep", "=", ">", "http", "x", ".js"})
                        \cup Upto(7, {"href", "sep", "seps", "http"})}
Heads == {[kind |-> "head", s |-> s] :
            s \in Upto(5, {"charset", "head", "sep", "=", ">", "x"}) \cup Upto(5, {"charset", "=", "long"})}
UrlTexts == {[kind |-> "url", s |-> s] : s \in Upto(4, {" ", "http", "https", "h", "/"})}
Logs == {[kind |-> "log", s |-> s] : s \in Upto(7, {"a", "b", "n"})}
Sizes == {[kind |-> "buf", s |-> s] : s \in Upto(4, {0, 1, 3, 4, 5, 11})}

Pieces == {[kind |-> "lit", c |-> "a"], [kind |-> "opt", c |-> "b"], [kind |-> "d", width |-> 0],
           [kind |-> "d", width |-> 1], [kind |-> "f", width |-> 0], [kind |-> "f", width |-> 2],
           [kind |-> "set", set |-> {"a", "."}, width |-> 0],
           [kind |-> "alt", texts |-> << <<"a">>, <<"a", "b">>, <<"0">> >>],
           [kind |-> "alt", texts |-> << <<"b">>, <<"a", "0">> >>]}
Strings == Upto(3, {"0", "a", "b", "."})
MatchFormats == Upto(3, Pieces)

NoSample == [kind |-> "none", s |-> <<>>]

-----------------------------------------------------------------------------

FirstResponse == CHOOSE r \in MCResponse : TRUE

Init ==
  /\ sample = NoSample /\ PageInit /\ SmtpInit
  /\ \/ part = "proto" /\ (\E c \in MCCalls : ProtoInit(c)) /\ BodyInit(FirstResponse)
     \/ part = "body" /\ ProtoInit(<<>>) /\ reader = "readvrec" /\ \E r \in MCResponse : BodyInit(r)
     \/ /\ part \in {"page", "text", "capture"} /\ ProtoInit(<<>>) /\ reader = "readvrec"
        /\ BodyInit(FirstResponse)

\* The pure functions: any of the samples.
Pick == /\ part = "text" /\ sample = NoSample
        /\ \/ sample' \in Names \/ sample' \in Answers \/ sample' \in Confs
           \/ sample' \in Texts \/ sample' \in PageTexts \/ sample' \in Heads
           \/ sample' \in UrlTexts \/ sample' \in Logs \/ sample' \in Sizes
           \/ \E s \in Strings, f \in MatchFormats :
                sample' = [kind |-> "match", s |-> [str |-> s, format |-> f]]
        /\ UNCHANGED <<part, protoVars, pageVars, bodyVars, smtpVars>>

Next ==
  \/ part = "proto" /\ ProtoNext /\ UNCHANGED <<part, sample, pageVars, bodyVars, smtpVars>>
  \/ part = "page" /\ PageNext(Lists, Pages)
     /\ UNCHANGED <<part, sample, protoVars, bodyVars, smtpVars>>
  \/ part = "body" /\ BodyNext /\ UNCHANGED <<part, sample, protoVars, pageVars, smtpVars>>
  \/ part = "capture" /\ SmtpNext /\ UNCHANGED <<part, sample, protoVars, pageVars, bodyVars>>
  \/ Pick

Spec == Init /\ [][Next]_vars

-----------------------------------------------------------------------------
(* Properties *)

\* The functions agree with what they are meant to compute, on every sample: UTF-8
\* is told from other text, the charset, the links and the domain are found, the
\* record of downloaded urls is read back, no buffer is overrun, the resolver reads
\* back the names it writes and takes the right addresses, and str_match accepts
\* the texts of its format.
TextRead ==
  /\ sample.kind = "utf8" => LooksUtf8(sample.s)
  /\ sample.kind = "page" => LinksFound(sample.s)
  /\ sample.kind = "head" => CharsetFound(sample.s)
  /\ sample.kind = "url" => DomainStays(sample.s)
  /\ sample.kind = "log" => LogLoaded(sample.s)
  /\ sample.kind = "buf" => RoomForEnd(sample.s)
  /\ sample.kind = "match" => MatchDecides(sample.s.str, sample.s.format)
  /\ sample.kind = "name" => NameComesBack(sample.s)
  /\ sample.kind = "answers" => AddressesTaken(sample.s)
  /\ sample.kind = "conf" => ServerChosen(sample.s)

=============================================================================
