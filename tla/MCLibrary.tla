----------------------------- MODULE MCLibrary -----------------------------
(* Library on small instances.  Every constant set holds ids or strings    *)
(* that the statements only compare.                                       *)
EXTENDS Opml, TLC

CONSTANT MoreUrls   \* in files, besides the URLs of the tables

MCXmlUrl == Url \cup MoreUrls

LibrarySymmetry ==
    Permutations(User) \cup Permutations(List) \cup Permutations(Feed)
        \cup Permutations(Request) \cup Permutations(Name)

\* Outlines on their own: feeds and folders, with a name or a blank one.
Leaf == [xmlUrl: Url \cup {None}, text: Name \cup {None}]

\* The outlines of path around each other, the first outermost, with inner in
\* the last one.
Nest(path, inner) ==
    FoldRight(LAMBDA o, within : <<Outline(o.xmlUrl, o.text, within)>>, path, inner)

Alone(o) == Nest(<<o>>, <<>>)

\* Up to three outlines around two more, and another one after them all.
MCFiles ==
    {Nest(path, Alone(a) \o Alone(b)) \o Alone(a) :
       path \in SeqOf(Leaf, 3), a \in Leaf, b \in Leaf}
=============================================================================
