------------------------------ MODULE CharEngine ------------------------------
(***************************************************************************)
(* char_engine: str_match reads a format from left to right and takes from *)
(* the string, for every piece of the format, as much as it can; it never  *)
(* goes back.                                                              *)
(*                                                                         *)
(* A format is a sequence of pieces: a character ("lit"), one that may be  *)
(* missing ("opt", a character before %?), a run of digits ("d"), of       *)
(* characters of a set ("set", %[...] or %[^...] by the set it means) or a *)
(* number with a point ("f"), each of at most width characters when width  *)
(* is not 0, or a choice of texts ("alt", %{...|...}).  Characters are     *)
(* strings.  Formats that the scan itself trips over are left out: a       *)
(* descending range, in which it never ends, an empty text of a choice, and *)
(* strings and single characters that are signs of the format (% | }).     *)
(***************************************************************************)
EXTENDS Naturals, Sequences, SequencesExt

Digit == {"0", "1"}

\* How many characters of s from its beginning are in S, and at most width if that
\* is not 0.
Span(s, S, width) ==
  LET stops == {i \in 1..Len(s) : s[i] \notin S}
      n == IF stops = {} THEN Len(s) ELSE (CHOOSE i \in stops : \A j \in stops : i <= j) - 1
  IN IF width > 0 /\ width < n THEN width ELSE n

Rest(s, n) == SubSeq(s, n + 1, Len(s))

Less(width, n) == IF width > n THEN width - n ELSE 0

\* %f: digits, a point, digits.  A width that is used up stops it.
Float(s, width) ==
  LET whole == Span(s, Digit, width)
      open(n) == width = 0 \/ n < width
      point == IF open(whole) /\ whole < Len(s) /\ s[whole + 1] = "." THEN whole + 1 ELSE whole
  IN IF ~open(point) THEN point ELSE point + Span(Rest(s, point), Digit, Less(width, point))

\* %{...}: the first text that the string begins with, in the order of the format.
Choice(s, texts) ==
  LET fits == {k \in DOMAIN texts : IsPrefix(texts[k], s)}
  IN IF fits = {} THEN 0 ELSE CHOOSE k \in fits : \A j \in fits : k <= j

\* A choice takes the text that fits.  When none does the scan runs on behind it as
\* if the rest of the format were more texts: it reaches the second text of the next
\* choice, and goes on behind that one if it finds a text there.
Alternative(e, texts) ==
  LET k == Choice(e.s, texts)
  IN IF k = 0 THEN [e EXCEPT !.lost = TRUE]
     ELSE [e EXCEPT !.s = Rest(@, Len(texts[k])), !.lost = FALSE]

\* One piece: what is left of the string, or that it does not match.
Piece(e, p) ==
  CASE ~e.ok -> e
    [] e.ok /\ e.lost -> IF p.kind = "alt" THEN Alternative(e, Tail(p.texts)) ELSE e
    [] e.ok /\ ~e.lost /\ p.kind = "alt" -> Alternative(e, p.texts)
    [] e.ok /\ ~e.lost /\ p.kind = "d" -> [e EXCEPT !.s = Rest(@, Span(@, Digit, p.width))]
    [] e.ok /\ ~e.lost /\ p.kind = "set" -> [e EXCEPT !.s = Rest(@, Span(@, p.set, p.width))]
    [] e.ok /\ ~e.lost /\ p.kind = "f" -> [e EXCEPT !.s = Rest(@, Float(@, p.width))]
    [] OTHER ->
         IF e.s # <<>> /\ Head(e.s) = p.c THEN [e EXCEPT !.s = Tail(@)]
         ELSE [e EXCEPT !.ok = (p.kind = "opt")]

str_match(s, format) ==
  LET end == FoldLeft(Piece, [ok |-> TRUE, lost |-> FALSE, s |-> s], format)
  IN end.ok /\ ~end.lost /\ end.s = <<>>

-----------------------------------------------------------------------------
(* Properties *)

\* Whether a text is one that a piece may stand for.
Stands(t, p) ==
  LET fits == p.kind \in {"d", "set", "f"} /\ p.width > 0 => Len(t) <= p.width
      all(S) == \A i \in DOMAIN t : t[i] \in S
  IN /\ fits
     /\ CASE p.kind = "d" -> all(Digit)
          [] p.kind = "set" -> all(p.set)
          [] p.kind = "f" -> all(Digit \cup {"."}) /\ \A i, j \in DOMAIN t : t[i] = "." /\ t[j] = "." => i = j
          [] p.kind = "alt" -> \E k \in DOMAIN p.texts : p.texts[k] = t
          [] p.kind = "opt" -> t = <<>> \/ t = <<p.c>>
          [] p.kind = "lit" -> t = <<p.c>>

\* Whether the string is a text of the format: some way of cutting it gives every
\* piece a text it may stand for.
InFormat(s, format) ==
  \E cut \in [0..Len(format) -> 0..Len(s)] :
    /\ cut[0] = 0 /\ cut[Len(format)] = Len(s)
    /\ \A k \in DOMAIN format :
         cut[k - 1] <= cut[k] /\ Stands(SubSeq(s, cut[k - 1] + 1, cut[k]), format[k])

\* Characters a text of the piece may begin with, and whether it may be empty.
First(p) ==
  CASE p.kind = "d" -> Digit [] p.kind = "set" -> p.set [] p.kind = "f" -> Digit \cup {"."}
    [] p.kind = "alt" -> {p.texts[k][1] : k \in DOMAIN p.texts} [] OTHER -> {p.c}

Empties(p) == p.kind \in {"d", "set", "f", "opt"}

\* A piece that may take more or less is not followed, nor followed over pieces that
\* may be empty, by one that begins like what it takes.
Clear(format) ==
  \A i, j \in DOMAIN format :
    i < j /\ Empties(format[i]) /\ (\A k \in (i + 1)..(j - 1) : Empties(format[k]))
      => First(format[i]) \cap First(format[j]) = {}

\* No text of a choice begins another one.
Separate(format) ==
  \A i \in DOMAIN format : format[i].kind = "alt" =>
    \A j, k \in DOMAIN format[i].texts : j # k => ~IsPrefix(format[i].texts[j], format[i].texts[k])

\* The format without what stands between choice i and the second text of choice j.
Joined(format, i, j) ==
  SubSeq(format, 1, i - 1) \o <<[format[j] EXCEPT !.texts = Tail(@)]>>
    \o SubSeq(format, j + 1, Len(format))

\* What str_match accepts is a text of the format, or, because a choice that fails
\* runs on into the next one, of the format without what is between the two.  And
\* although it never goes back, it accepts every text of a format whose pieces
\* cannot take what belongs to a later one.
MatchDecides(s, format) ==
  LET alts == {i \in DOMAIN format : format[i].kind = "alt"}
  IN /\ str_match(s, format) =>
          \/ InFormat(s, format)
          \/ \E i, j \in alts : i < j /\ InFormat(s, Joined(format, i, j))
     /\ Clear(format) /\ Separate(format) /\ InFormat(s, format) => str_match(s, format)

=============================================================================
