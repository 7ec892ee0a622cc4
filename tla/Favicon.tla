------------------------------- MODULE Favicon -------------------------------
(***************************************************************************)
(* internal/favicon: goroutines that fetch the icons of feeds, one flight  *)
(* per slug (golang.org/x/sync/singleflight), the files on disk and the    *)
(* favicon_url of the rows.  A slug is a host: hashHost is injective for   *)
(* every purpose here.  What a URL answers is of one type, ExtOf, which is *)
(* extensionFromContentType of it.                                         *)
(***************************************************************************)
EXTENDS Naturals, Sequences

CONSTANTS
    Feed, Host, Url, Ext,
    Proc,         \* goroutines in favicon.Fetch
    None,
    Offers,       \* candidates() of the documents each feed may publish
    ExtOf,        \* extension stored for what a URL answers
    FeedHost,     \* host of the URL of each feed
    SiteHost,     \* host of the site_url each feed's documents give
    MaxCrashes    \* bound: restarts

ASSUME FaviconAssumption ==
    /\ None \notin Feed \cup Host \cup Url \cup Ext \cup Proc
    /\ Offers \in [Feed -> SUBSET (Seq(Url) \ {<<>>})]
    /\ ExtOf \in [Url -> Ext]
    /\ FeedHost \in [Feed -> Host]
    /\ SiteHost \in [Feed -> Host]
    /\ MaxCrashes \in Nat

VARIABLES
    site,      \* feeds.site_url, its host
    icon,      \* feeds.favicon_url
    files,     \* extensions of the files of each slug
    flight,    \* fetchGroup: the leader of each slug's flight
    call,      \* what each goroutine is doing
    crashes,
    stuck      \* history: of each slug, what its last removal failed to remove

vars == <<site, icon, files, flight, call, crashes, stuck>>

Idle == [step |-> "idle", feed |-> None, slug |-> None, seen |-> None,
         offer |-> <<>>, url |-> None]

Offer == UNION {Offers[f] : f \in Feed}

Call == [step: {"row", "check", "join", "wait", "download", "removeOld",
                "open", "write", "update"},
         feed: Feed, slug: Host, seen: Url \cup {None}, offer: Offer,
         url: Url \cup {None}]

\* Goroutines that are the leader of a flight.
Flying == {"download", "removeOld", "open", "write"}

FaviconTypeOK ==
    /\ site \in [Feed -> Host \cup {None}]
    /\ icon \in [Feed -> Url \cup {None}]
    /\ files \in [Host -> SUBSET Ext]
    /\ flight \in [Host -> Proc \cup {None}]
    /\ call \in [Proc -> Call \cup {Idle}]
    /\ crashes \in Nat
    /\ stuck \in [Host -> SUBSET Ext]

Init ==
    /\ site = [f \in Feed |-> None]
    /\ icon = [f \in Feed |-> None]
    /\ files = [h \in Host |-> {}]
    /\ flight = [h \in Host |-> None]
    /\ call = [p \in Proc |-> Idle]
    /\ crashes = 0
    /\ stuck = [h \in Host |-> {}]

\* Slug: the host of the site if it is known, of the feed otherwise.
Slug(f) == IF site[f] = None THEN FeedHost[f] ELSE site[f]

FileExists(h) == files[h] # {}

At(p, step) == call[p].step = step
GoTo(p, step) == call' = [call EXCEPT ![p].step = step]

-----------------------------------------------------------------------------
(* One call                                                                *)

\* The row of the feed is read (or was just inserted) and its document, with
\* its candidates, arrives later: everything below uses what was read here.
ReadRow(p, f, offer) ==
    /\ call[p] = Idle
    /\ offer \in Offers[f]
    /\ call' = [call EXCEPT ![p] =
                  [step |-> "row", feed |-> f, slug |-> Slug(f),
                   seen |-> icon[f], offer |-> offer, url |-> None]]
    /\ UNCHANGED <<site, icon, files, flight, crashes, stuck>>

\* FetchAndStoreFeed commits, then calls Fetch with the row read before.
StoreFeed(p) ==
    /\ At(p, "row")
    /\ site' = [site EXCEPT ![call[p].feed] = SiteHost[call[p].feed]]
    /\ GoTo(p, "check")
    /\ UNCHANGED <<icon, files, flight, crashes, stuck>>

\* Mutant: the file not looked for.
UnchangedOnly(c) == Head(c.offer) = c.seen

Unchanged(c) == Head(c.offer) = c.seen /\ FileExists(c.slug)

\* What was seen is not looked at again.
Check(p) ==
    /\ At(p, "check")
    /\ call' = [call EXCEPT ![p] =
                  IF Unchanged(call[p]) THEN Idle
                  ELSE [@ EXCEPT !.step = "join", !.seen = None]]
    /\ UNCHANGED <<site, icon, files, flight, crashes, stuck>>

\* Mutant: no group, every caller fetches.
JoinAlone(p) ==
    /\ At(p, "join")
    /\ flight' = [flight EXCEPT ![call[p].slug] = p]
    /\ GoTo(p, "download")
    /\ UNCHANGED <<site, icon, files, crashes, stuck>>

\* fetchGroup.Do: the first caller of a slug leads, the others wait.
Join(p) ==
    LET h == call[p].slug
    IN  /\ At(p, "join")
        /\ IF flight[h] = None
             THEN flight' = [flight EXCEPT ![h] = p] /\ GoTo(p, "download")
             ELSE UNCHANGED flight /\ GoTo(p, "wait")
        /\ UNCHANGED <<site, icon, files, crashes, stuck>>

\* A candidate answers.  Those before it in the list did not.
Download(p) ==
    /\ At(p, "download")
    /\ \E k \in DOMAIN call[p].offer :
         call' = [call EXCEPT ![p].url = call[p].offer[k], ![p].step = "removeOld"]
    /\ UNCHANGED <<site, icon, files, flight, crashes, stuck>>

\* Mutant: the comparison the other way round.
RemoveSame(p) ==
    LET h == call[p].slug
    IN  /\ At(p, "removeOld")
        /\ files' = [files EXCEPT ![h] = @ \ {ExtOf[call[p].url]}]
        /\ stuck' = [stuck EXCEPT ![h] = {}]
        /\ GoTo(p, "open")
        /\ UNCHANGED <<site, icon, flight, crashes>>

\* removeOld: each file of another extension is removed, or its removal fails,
\* which nobody learns: the new file is written beside it.
RemoveOld(p) ==
    LET h == call[p].slug
        new == ExtOf[call[p].url]
    IN  /\ At(p, "removeOld")
        /\ \E fails \in SUBSET (files[h] \ {new}) :
             /\ files' = [files EXCEPT ![h] = (@ \cap {new}) \cup fails]
             /\ stuck' = [stuck EXCEPT ![h] = fails]
        /\ GoTo(p, "open")
        /\ UNCHANGED <<site, icon, flight, crashes>>

\* os.WriteFile creates or truncates the file, then writes it.
OpenFile(p) ==
    LET h == call[p].slug
    IN  /\ At(p, "open")
        /\ files' = [files EXCEPT ![h] = @ \cup {ExtOf[call[p].url]}]
        /\ GoTo(p, "write")
        /\ UNCHANGED <<site, icon, flight, crashes, stuck>>

\* The flight of p ends: whoever waits for it shares its result, if any.
Land(p, url) ==
    LET h == call[p].slug
        shares(q) == q = p \/ (At(q, "wait") /\ call[q].slug = h)
    IN  /\ flight' = [flight EXCEPT ![h] = None]
        /\ call' = [q \in Proc |->
                      IF ~shares(q) THEN call[q]
                      ELSE IF url = None THEN Idle
                      ELSE [call[q] EXCEPT !.step = "update", !.url = url]]

Written(p) ==
    /\ At(p, "write")
    /\ Land(p, call[p].url)
    /\ UNCHANGED <<site, icon, files, crashes, stuck>>

\* No candidate answers, or the file cannot be created or written: the file
\* of a write that failed half way stays.
FlightFails(p) ==
    /\ call[p].step \in {"download", "open", "write"}
    /\ Land(p, None)
    /\ UNCHANGED <<site, icon, files, crashes, stuck>>

\* UPDATE feeds SET favicon_url, by the leader and by every sharer.
UpdateRow(p) ==
    /\ At(p, "update")
    /\ icon' = [icon EXCEPT ![call[p].feed] = call[p].url]
    /\ call' = [call EXCEPT ![p] = Idle]
    /\ UNCHANGED <<site, files, flight, crashes, stuck>>

UpdateFails(p) ==
    /\ At(p, "update")
    /\ call' = [call EXCEPT ![p] = Idle]
    /\ UNCHANGED <<site, icon, files, flight, crashes, stuck>>

-----------------------------------------------------------------------------

\* A file disappears: a restored backup, a cleaned volume.
LoseFile(h) ==
    /\ FileExists(h)
    /\ files' = [files EXCEPT ![h] = {}]
    /\ stuck' = [stuck EXCEPT ![h] = {}]
    /\ UNCHANGED <<site, icon, flight, call, crashes>>

\* Rows and files outlive the process, flights do not.
Crash ==
    /\ crashes < MaxCrashes
    /\ crashes' = crashes + 1
    /\ flight' = [h \in Host |-> None]
    /\ call' = [p \in Proc |-> Idle]
    /\ UNCHANGED <<site, icon, files, stuck>>

Fetch(p) ==
    \/ StoreFeed(p) \/ Check(p) \/ Join(p) \/ Download(p) \/ RemoveOld(p)
    \/ OpenFile(p) \/ Written(p) \/ FlightFails(p) \/ UpdateRow(p) \/ UpdateFails(p)

Poll(f) == \E p \in Proc, offer \in Offers[f] : ReadRow(p, f, offer)

Next ==
    \/ \E f \in Feed : Poll(f)
    \/ \E p \in Proc : Fetch(p)
    \/ \E h \in Host : LoseFile(h)
    \/ Crash

Spec == Init /\ [][Next]_vars

\* Every cycle fetches every feed and cycles recur (Poller), a call goes on,
\* and the network and the disk do not fail for ever.
Fairness ==
    /\ \A f \in Feed : SF_vars(Poll(f))
    /\ \A p \in Proc : WF_vars(Fetch(p))
    /\ SF_vars(\E p \in Proc : Download(p))
    /\ SF_vars(\E p \in Proc : OpenFile(p))

FairSpec == Spec /\ Fairness

-----------------------------------------------------------------------------
(* Properties                                                              *)

\* A slug's file is in the hands of one goroutine: who downloads, removes or
\* writes leads the flight of its slug, and who waits, waits for somebody
\* ("only one goroutine performs the HTTP download and disk write",
\* favicon.go:71-72).
OneWriter ==
    /\ \A p \in Proc :
        call[p].step \in Flying => flight[call[p].slug] = p
    /\ \A p \in Proc :
        At(p, "wait") => flight[call[p].slug] # None
    /\ \A h \in Host :
        flight[h] # None =>
            /\ call[flight[h]].step \in Flying
            /\ call[flight[h]].slug = h

\* Files of a slug that no failed removal explains: those it has and that its
\* last removeOld did not try to remove in vain.
Kept(h) == files[h] \ stuck[h]

\* Whoever fetches and whenever a download, a write or the process fails, a
\* slug has two files only where os.Remove failed on one of them the last time
\* it was tried (its error is dropped, favicon.go:301, and the next flight with
\* another extension tries it again).  Where removals succeed, "exactly one
\* file should exist for the shared slug" (favicon_test.go:715): which one
\* handleFavicon would serve is not a question.
AtMostOneFile ==
    \A h \in Host, d, e \in Ext : d \in Kept(h) /\ e \in Kept(h) => d = e

\* From the removal to the end of the flight no file of another extension is
\* there but those that could not be removed.
OldOnesRemoved ==
    \A p \in Proc : call[p].step \in {"open", "write"} =>
        Kept(call[p].slug) \subseteq {ExtOf[call[p].url]}

\* A call names a URL exactly from the download on.
UrlKnown ==
    \A p \in Proc :
        call[p].step \in {"removeOld", "open", "write", "update"} => call[p].url \in Url

FaviconInv ==
    /\ FaviconTypeOK
    /\ OneWriter
    /\ AtMostOneFile
    /\ OldOnesRemoved
    /\ UrlKnown

\* A feed whose slug has no file gets one, also when the row still names the
\* URL of the lost one, and when the slug changes after the first fetch.
LostFileComesBack ==
    \A f \in Feed : ~FileExists(Slug(f)) ~> FileExists(Slug(f))
=============================================================================
