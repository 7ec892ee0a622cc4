-------------------------------- MODULE Opml --------------------------------
(***************************************************************************)
(* The OPML files of handler/opml.go: the one that the export writes about *)
(* the tables of Library, and the walk by which an import turns a file     *)
(* into the entries that it handles one by one (NextEntry).  An attribute  *)
(* is what is left of it when it is trimmed, None if that is nothing;      *)
(* titles, the size of a file in bytes and XML itself are left out.        *)
(***************************************************************************)
EXTENDS Export, SequencesExt

CONSTANTS
    XmlUrl, Text,   \* the values of the two attributes in any file
    MaxDepth,       \* how deep outlines nest in a file that is still decoded
    MaxFeeds,       \* maxOPMLFeedCount
    Files           \* the files that InnermostFolder looks at

ASSUME OpmlAssumption ==
    /\ Url \subseteq XmlUrl /\ Name \subseteq Text
    /\ None \notin XmlUrl \cup Text
    /\ MaxDepth \in Nat /\ MaxDepth >= 2
    /\ MaxFeeds \in Nat

Folder == Text \cup {None}

\* Sequences of outlines, nested no deeper than d.
Outlines[d \in Nat] ==
    IF d = 0 THEN {<<>>}
    ELSE Seq([xmlUrl: XmlUrl \cup {None}, text: Folder, outlines: Outlines[d - 1]])

File == Outlines[MaxDepth]

ASSUME FilesAssumption == Files \subseteq File

Outline(x, text, children) == [xmlUrl |-> x, text |-> text, outlines |-> children]

-----------------------------------------------------------------------------
(* handleExportOPML: the file                                              *)

FeedOutlines(rows) ==
    LET order == SetToSeq(rows)
    IN  [i \in DOMAIN order |-> Outline(order[i].url, None, <<>>)]

In(rows, folder) == {r \in rows : r.folder = folder}

\* One outline for each list, around the outlines of its feeds.
FolderOutlines(rows) ==
    LET names == SetToSeq({r.folder : r \in rows} \ {None})
    IN  [i \in DOMAIN names |-> Outline(None, names[i], FeedOutlines(In(rows, names[i])))]

\* Folders first, then the feeds without a list.
Export(rows) == FolderOutlines(rows) \o FeedOutlines(In(rows, None))

-----------------------------------------------------------------------------
(* collectFeedsWithFolder                                                  *)

Feeds(o, parent) ==
    IF o.xmlUrl = None THEN <<>> ELSE <<[url |-> o.xmlUrl, folder |-> parent]>>

\* Mutant: the outermost folder.
FolderOutermost(o, parent) ==
    IF o.xmlUrl = None /\ o.text # None /\ parent = None THEN o.text ELSE parent

\* The folder for the children of o.
FolderFor(o, parent) ==
    IF o.xmlUrl = None /\ o.text # None THEN o.text ELSE parent

\* The loop over outlines nested no deeper than d, for a parent folder.
CollectFeedsWithFolder[d \in Nat] ==
    [outlines \in Outlines[d] |-> [parent \in Folder |->
      FlattenSeq([i \in DOMAIN outlines |->
        LET o == outlines[i]
        IN  Feeds(o, parent)
              \o CollectFeedsWithFolder[d - 1][o.outlines][FolderFor(o, parent)]])]]

Entries(file) == CollectFeedsWithFolder[MaxDepth][file][None]

\* handleImportOPML: a file with too many feeds is refused as a whole.
Accepted(file) == IF Len(Entries(file)) > MaxFeeds THEN <<>> ELSE Entries(file)

-----------------------------------------------------------------------------
(* Properties                                                              *)

\* The walk of a file does not look at the tables: what it makes of every file
\* is looked at where there are none yet.
AtStart == usedLists = {} /\ usedFeeds = {} /\ \A p \in Request : req[p] = Idle

\* The results that the export's query can have: a folder, or none, for each of
\* finitely many feeds.
Results ==
    UNION {{{[url |-> x, folder |-> g[x]] : x \in X} : g \in [X -> Folder]} :
             X \in {Y \in SUBSET XmlUrl : IsFiniteSet(Y)}}

\* An import takes from the file just the rows that the export read, each once,
\* or nothing at all where they are more than it takes.
Restores(rows) ==
    LET entries == Accepted(Export(rows))
    IN  IF Cardinality(rows) <= MaxFeeds
          THEN ToSet(entries) = rows /\ Len(entries) = Cardinality(rows)
          ELSE entries = <<>>

\* Whatever requests and imports have done to the tables so far, and whichever
\* of them are half way, the file that a user exports has each of the user's
\* feeds once, at the top or in a folder with the name of its list, which is a
\* list of the same user: importing it again moves no feed, or, where the user
\* has more feeds than an import takes (opml.go:198), is refused before it
\* touches any.  And that is so for any rows, however they are spread over lists.
ExportRestores ==
    /\ ExportSound
    /\ \A u \in User : Restores(ExportRows(u))
    /\ AtStart => \A rows \in Results : Restores(rows)

\* The outlines of a file in its order, each as the path to it: the outlines
\* around it, the outermost first, and itself.
Paths[d \in Nat] ==
    [outlines \in Outlines[d] |->
      FlattenSeq([i \in DOMAIN outlines |->
        LET inner == Paths[d - 1][outlines[i].outlines]
        IN  << <<outlines[i]>> >> \o [k \in DOMAIN inner |-> <<outlines[i]>> \o inner[k]]])]

\* The folders around the last outline of a path.
FoldersAround(path) ==
    {i \in 1..(Len(path) - 1) : path[i].xmlUrl = None /\ path[i].text # None}

\* What the import makes of the last outline of a path.
Placed(path) ==
    LET around == FoldersAround(path)
    IN  IF Last(path).xmlUrl = None THEN <<>>
        ELSE << [url |-> Last(path).xmlUrl,
                 folder |-> IF around = {} THEN None ELSE path[Max(around)].text] >>

\* There is a blank folder inside of a named one around the last outline.
BlankInside(path) ==
    \E i \in FoldersAround(path) : \E j \in (i + 1)..(Len(path) - 1) :
      path[j].xmlUrl = None /\ path[j].text = None

\* A feed belongs to the innermost folder around it (opml.go:346-347), in the
\* order of the file, however its outlines are nested: under a folder, under a
\* feed, or under a blank folder at the top, which is none; and what comes after
\* a folder is not in it any more.  A file with a blank folder inside of a named
\* one is left open: opml.go:347-348 says of such a feed that it is in no
\* folder, opml.go:364-366 and the code that it is in the named one.
InnermostFolder ==
    AtStart => \A file \in Files :
      LET paths == Paths[MaxDepth][file]
      IN  (\A k \in DOMAIN paths : ~BlankInside(paths[k])) =>
            Entries(file) = FlattenSeq([k \in DOMAIN paths |-> Placed(paths[k])])
=============================================================================
