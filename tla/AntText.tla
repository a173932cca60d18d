------------------------------- MODULE AntText -------------------------------
(***************************************************************************)
(* The text handling of mini_ant: whether a page is UTF-8 (ant_look.c),    *)
(* its charset and its links (ant_page.c), the domain of a url             *)
(* (ant_url.c), the record of downloaded urls (ant_context.c), and the     *)
(* growing buffers that text is collected in (ant_buf.c, and tor_string.c  *)
(* of http_server).  Text is a sequence of tokens, a keyword being one     *)
(* token; the functions that scan it are folds that carry what the loop    *)
(* carries.                                                                *)
(***************************************************************************)
EXTENDS Integers, Sequences, SequencesExt

CONSTANTS
  FirstSize,  \* what a buffer gets at first (500)
  PageSize    \* of the memory a file is mapped to

Indices(s) == [i \in DOMAIN s |-> i]

-----------------------------------------------------------------------------
(* file_looks_utf8.  Bytes: "T" plain text, "F" a control character, "C"      *)
(* 10xxxxxx, "B" 0xfe or 0xff, and "L1" to "L5" the first of so many more.    *)

Following == [L1 |-> 1, L2 |-> 2, L3 |-> 3, L4 |-> 4, L5 |-> 5]

\* A character that the end of the text cuts off is no error, and not counted.
file_looks_utf8(s) ==
  LET step(e, b) ==
        CASE e.bad -> e
          [] ~e.bad /\ e.more > 0 -> [e EXCEPT !.bad = (b # "C"), !.more = @ - 1,
                                               !.gotone = @ \/ e.more = 1]
          [] ~e.bad /\ e.more = 0 /\ b \in DOMAIN Following -> [e EXCEPT !.more = Following[b]]
          [] OTHER -> [e EXCEPT !.bad = b \in {"C", "B"}, !.ctrl = @ \/ b = "F"]
      end == FoldLeft(step, [more |-> 0, gotone |-> FALSE, ctrl |-> FALSE, bad |-> FALSE], s)
  IN IF end.bad THEN -1 ELSE IF end.ctrl THEN 0 ELSE IF end.gotone THEN 2 ELSE 1

-----------------------------------------------------------------------------
(* ant_page.c.  Tokens: "href", "charset", "head" (</head>), "http"          *)
(* (http://), ".js" (an ending no page has), "=", "sep" (a double quote or a *)
(* space), "seps" (five of those), ">", "x" and "long" (any other character, *)
(* and thirty of them).                                                      *)

Width(t) ==
  CASE t \in {"charset", "head", "http"} -> 7 [] t = "href" -> 4 [] t = ".js" -> 3
    [] t = "seps" -> 5 [] t = "long" -> 30 [] OTHER -> 1

Chars(s) == FoldLeft(LAMBDA n, t : n + Width(t), 0, s)

\* The characters in front of token i.
Offset(s, i) == Chars(SubSeq(s, 1, i - 1))

\* How many tokens from i on are not of the kinds in stop.
Run(s, i, stop) ==
  LET stops == {j \in i..Len(s) : s[j] \in stop}
  IN IF stops = {} THEN Len(s) + 1 - i ELSE (CHOOSE j \in stops : \A k \in stops : j <= k) - i

\* What sscanf reads from token i on: characters to skip, at least one, and the text
\* behind them up to a token in stop.
Scanned(s, i, skip, stop) ==
  LET first == i + Run(s, i, {s[j] : j \in i..Len(s)} \ skip)
      n == Run(s, first, stop)
  IN [ok |-> first > i /\ n > 0, text |-> SubSeq(s, first, first + n - 1), next |-> first + n]

\* Behind href: an = is skipped in front of a url, and is part of one.
UrlAt(s, i) == Scanned(s, i, {"sep", "seps", "="}, {"sep", "seps", ">"})

filter_type_url(u) == IF u[1] # "http" \/ Len(u) = 1 \/ Last(u) = ".js" THEN -1 ELSE 0

\* Fault: the scan goes on behind the url even when it was refused.
SkipRefused(s) ==
  LET step(e, i) ==
        IF Offset(s, i) < e.resume \/ s[i] # "href" THEN e
        ELSE LET u == UrlAt(s, i + 1)
             IN [links |-> IF u.ok /\ filter_type_url(u.text) = 0 THEN Append(e.links, i) ELSE e.links,
                 resume |-> Offset(s, i + 1) + Chars(u.text) + 1]
  IN FoldLeft(step, [links |-> <<>>, resume |-> 0], Indices(s)).links

\* Where the links are that are given to the callback.  Behind a link the scan skips
\* as many characters as the url has, which leaves as many of its last ones as there
\* were separators, but one; without a link it skips the character that follows href.
\* (A href at the very end of the page makes it skip the zero byte there.)
parse_page(s) ==
  LET step(e, i) ==
        IF Offset(s, i) < e.resume \/ s[i] # "href" THEN e
        ELSE LET u == UrlAt(s, i + 1)
             IN IF u.ok /\ filter_type_url(u.text) = 0
                THEN [links |-> Append(e.links, i),
                      resume |-> Offset(s, i + 1) + Chars(u.text) + 1]
                ELSE [e EXCEPT !.resume = Offset(s, i + 1) + 1]
  IN FoldLeft(step, [links |-> <<>>, resume |-> 0], Indices(s)).links

Lesser(a, b) == IF a < b THEN a ELSE b

\* The charset, if one is named before the end of the head, and how many characters
\* of it are kept; it may be empty.
extract_fromcode(s) ==
  LET step(e, i) ==
        CASE e.rc = 1 /\ s[i] = "charset" ->
               LET c == Scanned(s, i + 1, {"sep", "seps", "="}, {"sep", "seps"})
               IN [rc |-> 0, code |-> IF c.ok THEN c.text ELSE <<>>]
          [] e.rc = 1 /\ s[i] = "head" -> [e EXCEPT !.rc = -1]
          [] OTHER -> e
      end == FoldLeft(step, [rc |-> 1, code |-> <<>>], Indices(s))
  IN [rc |-> IF end.rc = 0 THEN 0 ELSE -1, code |-> end.code, kept |-> Lesser(Chars(end.code), 36)]

-----------------------------------------------------------------------------
(* ant_url.c.  Tokens: " ", "http" and "https" (with ://), "h", and "/" for   *)
(* any of the characters that end a host, the colon among them.               *)

skip_head(u) == IF u # <<>> /\ Head(u) \in {"http", "https"} THEN 1 ELSE 0

\* A scheme that is not in front is so many letters, a colon and slashes.
Spelt(u) ==
  FlattenSeq([i \in DOMAIN u |->
    CASE u[i] = "http" -> <<"h", "h", "h", "h", "/", "/", "/">>
      [] u[i] = "https" -> <<"h", "h", "h", "h", "h", "/", "/", "/">>
      [] OTHER -> <<u[i]>>])

\* The host, cut to n - 1 characters; nothing is stored for an empty one, so that
\* the caller's buffer keeps what it held.
url_to_domain(n, u, before) ==
  LET start == SubSeq(u, Run(u, 1, {"http", "https", "h", "/"}) + 1, Len(u))
      rest == Spelt(SubSeq(start, skip_head(start) + 1, Len(start)))
      len == Run(rest, 1, {"/"})
  IN IF len = 0 THEN before ELSE SubSeq(rest, 1, Lesser(len, n - 1))

url_modify(u) == IF skip_head(u) = 0 THEN <<"http">> \o u ELSE u

-----------------------------------------------------------------------------
(* cache_url_init.  Tokens: the characters "a" and "b", and "n", a newline.   *)

\* The file is mapped to whole pages and read to the first zero byte, which stands
\* behind it if the last page has room.  After a newline the loop's own step skips
\* the first character of a line.
cache_url_init(file) ==
  LET step(e, i) == IF i < e.resume \/ file[i] # "n" THEN e
                    ELSE [urls |-> e.urls \cup {SubSeq(file, e.begin, i - 1)},
                          begin |-> i + 1, resume |-> i + 2]
      end == FoldLeft(step, [urls |-> {}, begin |-> 1, resume |-> 1], Indices(file))
      mapped == ((Len(file) + PageSize - 1) \div PageSize) * PageSize
  IN [urls |-> end.urls,
      stops |-> file = <<>> \/ (Len(file) + 1 <= mapped /\ end.resume <= mapped)]

-----------------------------------------------------------------------------
(* Growing buffers: the bytes allocated and the bytes in use.                 *)

NoBuf == [size |-> 0, use |-> 0]

Larger(a, b) == IF a < b THEN b ELSE a

ant_buf_append(b, n) ==
  IF b.size = 0 THEN [size |-> n + FirstSize, use |-> b.use + n]
  ELSE LET needed == b.use + n + 1
       IN [size |-> IF needed <= b.size THEN b.size ELSE Larger(needed, 2 * b.size),
           use |-> b.use + n]

\* n characters are printed, again after the buffer has grown if they did not fit.
sprintfcat(b, n) ==
  LET s == IF b.size = 0 THEN [size |-> FirstSize, use |-> 0] ELSE b
      needed == s.use + n + 1
  IN [size |-> IF n < s.size - s.use THEN s.size ELSE Larger(needed, 2 * s.size),
      use |-> s.use + n]

-----------------------------------------------------------------------------
(* Properties *)

\* file_looks_utf8 against the definition of UTF-8: no stray or missing byte, and
\* the result tells control characters, whole characters and plain text apart.
LooksUtf8(s) ==
  LET lead == {i \in DOMAIN s : s[i] \in DOMAIN Following}
      belongs(i) == \E j \in lead : j < i /\ i <= j + Following[s[j]]
      valid == \A i \in DOMAIN s : s[i] # "B" /\ (s[i] = "C" <=> belongs(i))
      rc == file_looks_utf8(s)
  IN /\ rc = -1 <=> ~valid
     /\ rc = 0 <=> valid /\ \E i \in DOMAIN s : s[i] = "F"
     /\ rc = 2 => \E i \in lead : i + Following[s[i]] <= Len(s)
     /\ rc = 1 => \A i \in lead : i + Following[s[i]] > Len(s)

\* parse_page finds exactly the acceptable links that do not stand inside a link
\* already taken; it misses only those right behind another href.  A link inside a
\* link is one that begins in the last characters of its url, fewer than were
\* skipped in front of it.
LinksFound(s) ==
  LET taken == {parse_page(s)[k] : k \in DOMAIN parse_page(s)}
      url(i) == UrlAt(s, i + 1)
      good(i) == s[i] = "href" /\ url(i).ok /\ filter_type_url(url(i).text) = 0
      skipped(i) == Offset(s, url(i).next) - Chars(url(i).text) - Offset(s, i + 1)
      inside(i) == \E j \in taken : /\ j < i /\ i < url(j).next
                                   /\ Offset(s, url(j).next) - Offset(s, i) >= skipped(j)
  IN \A i \in DOMAIN s : (i > 1 => s[i - 1] # "href") => (i \in taken <=> good(i) /\ ~inside(i))

\* The charset is the word that stands first in the head behind charset=, exactly
\* when a quote or a space ends it; with another end, like that of an unquoted
\* attribute, what follows is taken for a part of it.  Without any separator it is
\* empty, and never is more kept than the array has room for.
CharsetFound(s) ==
  LET first == {i \in DOMAIN s : s[i] = "charset" /\ \A j \in 1..(i - 1) : s[j] \notin {"charset", "head"}}
      r == extract_fromcode(s)
      separators == {"sep", "seps", "="}
  IN /\ r.kept <= 36 /\ (r.rc = 0 <=> first # {})
     /\ \A i \in first :
          /\ i = Len(s) \/ s[i + 1] \notin separators => r.code = <<>>
          /\ \A k, n \in (i + 1)..Len(s) :
               /\ k < n /\ \A j \in (i + 1)..k : s[j] \in separators
               /\ \A j \in (k + 1)..n : s[j] \in {"x", "long"}
               => (r.code = SubSeq(s, k + 1, n) <=> n = Len(s) \/ s[n + 1] \in {"sep", "seps"})

\* The domain under which a url waits for its address is that of the url that is
\* downloaded, the one url_modify made of it, unless the url begins with a space;
\* and a host has the same domain without a scheme and with either.  It fits into
\* the caller's buffer and holds letters of the host only: a scheme within ends it.
DomainStays(u) ==
  LET domain(v) == url_to_domain(4, v, <<"?">>)
  IN u # <<>> /\ u[1] # " " =>
       /\ domain(url_modify(u)) = domain(u)
       /\ skip_head(u) = 0 => \A h \in {"http", "https"} : domain(<<h>> \o u) = domain(u)
       /\ Len(domain(u)) < 4 /\ \A i \in DOMAIN domain(u) : domain(u)[i] \in {" ", "h", "?"}

\* Every line of the record is known after a restart, and nothing else, as long as
\* no line is empty; and the scan ends in what is mapped, except when the file fills
\* its last page, or leaves a byte of it and ends with a newline.
LogLoaded(file) ==
  LET starts == {i \in DOMAIN file : i = 1 \/ file[i - 1] = "n"}
      line(i) == SubSeq(file, i, i + Run(file, i, {"n"}) - 1)
      room == (PageSize - 1) - ((Len(file) - 1) % PageSize)
      r == cache_url_init(file)
  IN (\A i \in starts : file[i] # "n") =>
       /\ r.urls = {line(i) : i \in {j \in starts : j + Len(line(j)) <= Len(file)}}
       /\ file # <<>> => (r.stops <=> room > 1 \/ (room = 1 /\ Last(file) # "n"))

\* However a text is put together, the byte behind it is inside the buffer: the
\* scans of the text, which stop at a zero byte, and vsnprintf, which writes one,
\* have room for it.
RoomForEnd(sizes) ==
  LET b == FoldLeft(ant_buf_append, NoBuf, sizes)
      c == FoldLeft(sprintfcat, NoBuf, sizes)
  IN sizes # <<>> => b.use < b.size /\ c.use < c.size

=============================================================================
