------------------------------ MODULE Snippets ------------------------------
(***************************************************************************)
(* The snippet of a search result: what FTS5's snippet() returns, and what *)
(* the two routes make of it.  api/search.go splits it into segments at    *)
(* the highlight markers; sanitize.Snippet, for the HTML page, strips the  *)
(* publisher's HTML and turns every marker that is left into a <mark> tag. *)
(* A text is a sequence of words, markers, and the "<" and ">" at which a  *)
(* part begins and ends that the page leaves out: a tag, a comment, or an  *)
(* element like script.  Any other < or > is a word.                       *)
(***************************************************************************)
EXTENDS SequencesExt

Open == "[[HIGHLIGHT]]"
Close == "[[/HIGHLIGHT]]"
Token == {"word", "<", ">", Open, Close}
Segment == [text: Seq(Token), highlight: BOOLEAN]

Index(s, t) == SelectInSeq(s, LAMBDA x : x = t)
From(s, i) == SubSeq(s, i, Len(s))

\* Mutant: without the merge.
AppendSegmentApart(segs, text, highlight) ==
    IF text = <<>> THEN segs
    ELSE Append(segs, [text |-> text, highlight |-> highlight])

\* Skips an empty text and merges it with a last segment of the same kind.
AppendSegment(segs, text, highlight) ==
    LET n == Len(segs)
    IN  IF text = <<>> THEN segs
        ELSE IF n > 0 /\ segs[n].highlight = highlight
        THEN [segs EXCEPT ![n].text = @ \o text]
        ELSE Append(segs, [text |-> text, highlight |-> highlight])

\* The loop, for what is left of the text: from the segments so far to all.
Parse[s \in Seq(Token)] ==
    LET open == Index(s, Open)
        rest == From(s, open + 1)
        close == Index(rest, Close)
    IN  [out \in Seq(Segment) |->
          LET before == AppendSegment(out, SubSeq(s, 1, open - 1), FALSE)
          IN  IF open = 0 THEN AppendSegment(out, s, FALSE)
              ELSE IF close = 0 THEN AppendSegment(before, rest, FALSE)
              ELSE Parse[From(rest, close + 1)][
                     AppendSegment(before, SubSeq(rest, 1, close - 1), TRUE)]]

ParseSnippet(s) == Parse[s][<<>>]

\* Position i lies in a part that the page leaves out; one that does not end
\* goes on to the end of the text.
Dropped(s, i) == \E j \in 1..i : s[j] = "<" /\ \A k \in j..(i - 1) : s[k] # ">"

\* strictPolicy.Sanitize, with "" for a token that it removes.
Sanitize(s) == [i \in 1..Len(s) |-> IF Dropped(s, i) THEN "" ELSE s[i]]

\* Mutant: sanitised at the end, when the markers are tags.
SnippetSanitizedLast(s) ==
    [i \in 1..Len(s) |-> IF Dropped(s, i) \/ s[i] \in {Open, Close} THEN "" ELSE s[i]]

\* The HTML route: tags for the markers that are left, wherever they are.
Snippet(s) ==
    LET clean == Sanitize(s)
    IN  [i \in 1..Len(s) |->
           CASE clean[i] = Open -> "<mark>" [] clean[i] = Close -> "</mark>"
             [] OTHER -> clean[i]]

-----------------------------------------------------------------------------
(* What the segments should be, position by position                       *)

\* A marker opens at j: the first Open after the last pair.
Opens(s, j) ==
    s[j] = Open /\ \A i \in 1..(j - 1) : s[i] = Open => \E k \in i..j : s[k] = Close

\* Position i lies between a marker that opens and the next Close, if any.
After(s, i) ==
    \E j \in 1..(i - 1) : Opens(s, j) /\ \A k \in j..(i - 1) : s[k] # Close

Consumed(s, i) == Opens(s, i) \/ (s[i] = Close /\ After(s, i))
Highlighted(s, i) == After(s, i) /\ \E k \in i..Len(s) : s[k] = Close

\* The cells of a sequence of positions, one for each token that is shown, with
\* its kind.
Cells(s) ==
    [i \in 1..Len(s) |-> IF Consumed(s, i) THEN <<>> ELSE << <<s[i], Highlighted(s, i)>> >>]

Shown(s) == FlattenSeq(Cells(s))

Tagged(text, highlight) == [i \in 1..Len(text) |-> <<text[i], highlight>>]
Flat(segs) == FlattenSeq([n \in 1..Len(segs) |-> Tagged(segs[n].text, segs[n].highlight)])

\* What FTS5 writes about a text without markers: pairs that are not nested.
WellMarked(s) ==
    \A i \in 1..Len(s) : s[i] \in {Open, Close} =>
      s[i] = IF After(s, i) THEN Close ELSE Open

Pairs(s) == WellMarked(s) /\ ~After(Append(s, "word"), Len(s) + 1)

\* Nothing that is shown, and no marker, is in a part that the page leaves out.
Bare(s) == \A i \in 1..Len(s) : Dropped(s, i) <=> s[i] \in {"<", ">"}

\* What is shown without the tags: the API leaves them to its clients.
Untagged(flat) ==
    FlattenSeq([n \in 1..Len(flat) |->
                 IF flat[n][1] \in {"<", ">"} THEN <<>> ELSE << flat[n] >>])

\* What a browser shows of the HTML: words, marked while a <mark> is open.
TagsBefore(html, i, tag) == Cardinality({j \in 1..(i - 1) : html[j] = tag})
InMark(html, i) == TagsBefore(html, i, "<mark>") > TagsBefore(html, i, "</mark>")

Rendered(html) ==
    FlattenSeq([i \in 1..Len(html) |->
                 IF html[i] \in {"", "<mark>", "</mark>"} THEN <<>>
                 ELSE << <<html[i], InMark(html, i)>> >>])
=============================================================================
