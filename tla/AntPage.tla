------------------------------- MODULE AntPage -------------------------------
(***************************************************************************)
(* mini_ant: from a downloaded page, a redirect, the command line or a     *)
(* file of urls to filter_add, which passes a url on (to the download      *)
(* queue or to the resolver, AntDns) unless uniq_hash has it already.      *)
(* uniq_put stores the pointer it is given: the option's own text for -i,  *)
(* but one array of file_extract_url for every line, one of parse_page for *)
(* every link, one of http_event_loop for every location that is a path,   *)
(* and for another location the array inside the http_info, which          *)
(* http_clean frees.  A lookup compares with what they hold when it is     *)
(* made.                                                                   *)
(*                                                                         *)
(* Pointers are "line", "buf", "url_buf" and <<"location", b>> (the        *)
(* arrays; b is the block an http_info got from malloc) and <<"opt", url>>,*)
(* memory of its own.  An array whose function has returned, or whose      *)
(* block is freed, is dead and holds anything, which is chosen when the    *)
(* next url comes; only that of http_event_loop lives on.  A page is what  *)
(* html_dump asks of it, and its links; the loops over the lines of a file *)
(* and the links of a page take one per step.                              *)
(***************************************************************************)
EXTENDS Integers, Sequences, FiniteSets

CONSTANTS
  Url,      \* urls
  UrlHash,  \* the bucket of every url, and of any other text
  Junk,     \* a text that is no url
  Block,    \* where malloc puts an http_info
  Buckets,  \* buckets of uniq_hash (4096)
  MaxAdd    \* urls that come

ASSUME PageAssumption ==
  /\ Buckets \in Nat \ {0} /\ MaxAdd \in Nat
  /\ Junk \notin Url /\ UrlHash \in [Url \cup {Junk} -> 0..(Buckets - 1)]

Uniq == INSTANCE AntHash

VARIABLES
  uniq,     \* uniq_hash
  url_buf,  \* the text in the array of http_event_loop
  passed,   \* urls passed on, with the pointer they came by
  dropped,  \* urls held back, in the same form
  crawling, \* whether the options are done
  reading,  \* what is left of the file or the page being read
  debug,    \* opt.debug
  disk      \* what was written of the last page: nothing, or its text, "utf8" or "raw"

pageVars == <<uniq, url_buf, passed, dropped, crawling, reading, debug, disk>>

OptArg(u) == <<"opt", u>>
Location(b) == <<"location", b>>
UrlBuf == <<"url_buf">>
Array == {<<"line">>, <<"buf">>, UrlBuf} \cup {Location(b) : b \in Block}
Pointer == Array \cup {OptArg(u) : u \in Url}
Text == Url \cup {Junk}

PageInit ==
  /\ uniq = Uniq!ant_hash_new(Buckets) /\ url_buf = Junk
  /\ passed = <<>> /\ dropped = <<>> /\ crawling = FALSE /\ reading = <<>>
  /\ debug = FALSE /\ disk = "nothing"

\* Room for n more urls, while no text is being read.
Ready(n) == reading = <<>> /\ Len(passed) + Len(dropped) + n <= MaxAdd

\* Fault: a bucket that is in use counts as the url being there.
BucketUsed(t, m, p) == Uniq!ChainOf(t, UrlHash, m, p) # <<>>

uniq_exists(t, m, p) == Uniq!ant_lookup(Uniq!ChainOf(t, UrlHash, m, p), m, p) # {}

uniq_put(t, m, p) == Uniq!ant_hash_put(t, UrlHash, m, p, "null")

\* Fault: a url is stored without looking whether it is there.
AddAlways(e, m, p) ==
  [uniq |-> uniq_put(e.uniq, m, p), passed |-> Append(e.passed, [url |-> m[p], ptr |-> p]),
   dropped |-> e.dropped]

\* A url in dotted form goes to the download queue at once, another one to url_add.
filter_add(e, m, p) ==
  IF uniq_exists(e.uniq, m, p)
  THEN [e EXCEPT !.dropped = Append(@, [url |-> m[p], ptr |-> p])]
  ELSE [e EXCEPT !.uniq = uniq_put(e.uniq, m, p), !.passed = Append(@, [url |-> m[p], ptr |-> p])]

Now == [uniq |-> uniq, passed |-> passed, dropped |-> dropped]

After(e) == uniq' = e.uniq /\ passed' = e.passed /\ dropped' = e.dropped

\* The arrays that uniq_hash knows and that are dead when a url comes by pointer p.
Dead(p) == (Array \cap {passed[i].ptr : i \in DOMAIN passed}) \ {p, UrlBuf}

\* What the pointers point at when text u has come by pointer p and the dead arrays
\* in same happen to hold it as well; what the others hold does not matter.
Memory(u, p, same) ==
  [q \in Pointer |-> CASE q \in same \cup {p} -> u
                      [] q \notin same \cup {p} /\ q \notin Array -> q[2]
                      [] q \notin same \cup {p} /\ q = UrlBuf -> url_buf
                      [] OTHER -> Junk]

\* filter_add of text u, which pointer p points at.
Comes(u, p) ==
  /\ \E same \in SUBSET Dead(p) : After(filter_add(Now, Memory(u, p, same), p))
  /\ url_buf' = IF p = UrlBuf THEN u ELSE url_buf

\* -i
AddOption(u) ==
  /\ ~crawling /\ Ready(1)
  /\ Comes(u, OptArg(u))
  /\ UNCHANGED <<crawling, reading, debug, disk>>

\* -f, if fopen succeeds.
file_extract_url(lines) ==
  /\ ~crawling /\ Ready(Len(lines))
  /\ reading' = lines
  /\ UNCHANGED <<uniq, url_buf, passed, dropped, crawling, debug, disk>>

\* A line of spaces is passed over, another one cut at its first space.
NextLine ==
  /\ ~crawling /\ reading # <<>>
  /\ IF Head(reading) = Junk
     THEN UNCHANGED <<uniq, url_buf, passed, dropped>>
     ELSE Comes(Head(reading), <<"line">>)
  /\ reading' = Tail(reading)
  /\ UNCHANGED <<crawling, debug, disk>>

\* The options are done, with -d or without.
StartCrawl ==
  /\ ~crawling /\ Ready(0)
  /\ crawling' = TRUE /\ debug' \in BOOLEAN
  /\ UNCHANGED <<uniq, url_buf, passed, dropped, reading, disk>>

\* iconv works or gives up; a charset it does not know is one it gives up on.
page_to_utf8(pg) == pg.charset = "good"

\* Which text is written and searched: the page, or what it was converted to.
DumpText(pg) == IF ~pg.utf8 /\ page_to_utf8(pg) THEN "utf8" ELSE IF pg.utf8 THEN "utf8" ELSE "raw"

\* A body of any length but zero: Content-Length is a number, or it is not known.
Framed(pg) == pg.filesize > 0 \/ (pg.filesize = -1 /\ pg.chunksize \in {-1, 0})

\* The file is opened and emptied, unless chdir or open fails; the text of the page
\* is written to it, and without -d its links are read.
html_dump(pg, opens) ==
  /\ crawling /\ Ready(Len(pg.links))
  /\ reading' = IF pg.code = 200 /\ opens /\ Framed(pg) /\ ~debug THEN pg.links ELSE reading
  /\ disk' = IF pg.code = 200 /\ opens /\ Framed(pg) THEN DumpText(pg) ELSE "nothing"
  /\ UNCHANGED <<uniq, url_buf, passed, dropped, crawling, debug>>

\* parse_page gives a link to filter_add.
NextLink ==
  /\ crawling /\ reading # <<>>
  /\ Comes(Head(reading), <<"buf">>)
  /\ reading' = Tail(reading)
  /\ UNCHANGED <<crawling, debug, disk>>

\* do_read, for 301 and 302: a location that is a path is put behind the host in
\* url_buf, any other is passed where it stands in the http_info.
Redirect(u) ==
  /\ crawling /\ Ready(1)
  /\ Comes(u, UrlBuf) \/ \E b \in Block : Comes(u, Location(b))
  /\ UNCHANGED <<crawling, reading, debug, disk>>

PageNext(lists, pages) ==
  \/ StartCrawl \/ NextLine \/ NextLink
  \/ \E u \in Url : AddOption(u) \/ Redirect(u)
  \/ \E ls \in lists : file_extract_url(ls)
  \/ \E pg \in pages, opens \in BOOLEAN : html_dump(pg, opens)

PageSpec(lists, pages) == PageInit /\ [][PageNext(lists, pages)]_pageVars

-----------------------------------------------------------------------------
(* Properties *)

\* No url is passed on twice by the same pointer, and one that first came by memory
\* of its own never again: only an array is overwritten or freed, and the entry then
\* no longer says what it stood for, but one in use would hold the url once more.
PassedOnce ==
  \A i, j \in DOMAIN passed :
    i < j /\ passed[i].url = passed[j].url
      => passed[i].ptr \in Array /\ passed[i].ptr # passed[j].ptr

\* A url that was never passed on is held back only when an earlier one came by
\* an array and fell into the same bucket: by the same array, or by one that is dead
\* and happens to hold it; the loop's never dies, and holds it only when it came by
\* it too.  So each array passes on no more urls, ever, than the table has buckets.
HeldBack ==
  /\ \A i \in DOMAIN dropped :
       \/ \E j \in DOMAIN passed : passed[j].url = dropped[i].url
       \/ \E j \in DOMAIN passed :
            /\ passed[j].ptr \in Array
            /\ UrlHash[passed[j].url] = UrlHash[dropped[i].url]
            /\ passed[j].ptr = UrlBuf =>
                 \E k \in 1..i : dropped[k] = [url |-> dropped[i].url, ptr |-> UrlBuf]
  /\ \A a \in Array : Cardinality({j \in DOMAIN passed : passed[j].ptr = a}) <= Buckets

=============================================================================
