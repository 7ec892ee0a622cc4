---------------------------- MODULE FaviconProofs ----------------------------
(***************************************************************************)
(* Proofs about Favicon, for any feeds, hosts, documents and goroutines.   *)
(* AtMostOneFile alone is not inductive: between the removal of the old    *)
(* files and the creation of the new one nobody else may touch the slug,   *)
(* which is OneWriter.                                                     *)
(***************************************************************************)
EXTENDS Favicon, TLAPS

\* A goroutine that is not idle has a call.
LEMMA BusyCall ==
    ASSUME FaviconTypeOK, NEW p \in Proc, call[p].step # "idle"
    PROVE  call[p] \in Call
BY DEF FaviconTypeOK, Idle

\* What GoTo makes of a call.
LEMMA NextStep ==
    ASSUME FaviconTypeOK, NEW p \in Proc, call[p] \in Call,
           NEW s \in {"row", "check", "join", "wait", "download", "removeOld",
                      "open", "write", "update"},
           GoTo(p, s)
    PROVE  \E r \in Call :
             /\ call' = [call EXCEPT ![p] = r]
             /\ r.step = s /\ r.slug = call[p].slug /\ r.url = call[p].url
<1> DEFINE r == [call[p] EXCEPT !.step = s]
<1>1. r \in Call /\ r.step = s /\ r.slug = call[p].slug /\ r.url = call[p].url
  BY DEF Call
<1>2. call' = [call EXCEPT ![p] = r]
  BY DEF GoTo
<1> QED
  BY <1>1, <1>2

LEMMA InitInv == Init => FaviconInv
<1> SUFFICES ASSUME Init PROVE FaviconInv
  OBVIOUS
<1> USE DEF Init, Idle
<1>1. FaviconTypeOK
  BY DEF FaviconTypeOK
<1>2. OneWriter
  BY DEF OneWriter, Flying, At
<1>3. AtMostOneFile /\ OldOnesRemoved /\ UrlKnown
  BY DEF AtMostOneFile, OldOnesRemoved, Kept, UrlKnown
<1> QED
  BY <1>1, <1>2, <1>3 DEF FaviconInv

-----------------------------------------------------------------------------
(* Kinds of steps                                                          *)

\* Steps outside a flight, by a goroutine that does not enter one.
Grounded(r) == r.step \notin Flying \cup {"wait"}

LEMMA GroundStepKeepsInv ==
    ASSUME FaviconInv, NEW p \in Proc, NEW r \in Call \cup {Idle},
           Grounded(call[p]), Grounded(r),
           r.step = "update" => r.url \in Url,
           call' = [call EXCEPT ![p] = r],
           site' \in [Feed -> Host \cup {None}], icon' \in [Feed -> Url \cup {None}],
           UNCHANGED <<files, flight, crashes, stuck>>
    PROVE  FaviconInv'
<1> USE DEF FaviconInv, Grounded, Flying
<1>1. FaviconTypeOK'
  BY DEF FaviconTypeOK
<1>2. \A q \in Proc : call'[q] = IF q = p THEN r ELSE call[q]
  BY DEF FaviconTypeOK
<1>3. OneWriter'
  <2>1. \A h \in Host : flight[h] # None => flight[h] \in Proc
    BY DEF FaviconTypeOK
  <2> QED
    BY <1>2, <2>1 DEF OneWriter, At
<1>4. AtMostOneFile'
  BY DEF AtMostOneFile, Kept
<1>5. OldOnesRemoved' /\ UrlKnown'
  BY <1>2 DEF OldOnesRemoved, Kept, UrlKnown
<1> QED
  BY <1>1, <1>3, <1>4, <1>5

\* A leader's step leaves the other slugs alone, and nobody else is past the
\* removal in its own.
LEMMA LeaderStepKeepsInv ==
    ASSUME FaviconInv, NEW p \in Proc, NEW r \in Call,
           call[p].step \in Flying, r.step \in Flying,
           r.slug = call[p].slug, r.url \in Url,
           call' = [call EXCEPT ![p] = r],
           NEW S \in SUBSET Ext, files' = [files EXCEPT ![r.slug] = S],
           NEW R \in SUBSET Ext, stuck' = [stuck EXCEPT ![r.slug] = R],
           \A d, e \in S \ R : d = e,
           r.step \in {"open", "write"} => S \ R \subseteq {ExtOf[r.url]},
           UNCHANGED <<site, icon, flight, crashes>>
    PROVE  FaviconInv'
<1> USE DEF FaviconInv, Flying
<1>1. FaviconTypeOK'
  BY DEF FaviconTypeOK
<1>2. \A q \in Proc : call'[q] = IF q = p THEN r ELSE call[q]
  BY DEF FaviconTypeOK
<1>3. OneWriter'
  <2>1. \A h \in Host : flight[h] # None => flight[h] \in Proc
    BY DEF FaviconTypeOK
  <2> QED
    BY <1>2, <2>1 DEF OneWriter, At
<1>4. /\ r.slug \in Host
      /\ \A h \in Host : Kept(h)' = IF h = r.slug THEN S \ R ELSE Kept(h)
  BY DEF FaviconTypeOK, Call, Kept
<1>5. AtMostOneFile'
  BY <1>4 DEF AtMostOneFile
<1>6. ASSUME NEW q \in Proc, q # p, call[q].step \in {"open", "write"}
      PROVE  call[q].slug # r.slug /\ call[q] \in Call
  <2>1. call[q] \in Call
    BY <1>6, BusyCall
  <2> QED
    BY <1>6, <2>1 DEF OneWriter
<1>7. OldOnesRemoved'
  <2> SUFFICES ASSUME NEW q \in Proc, call'[q].step \in {"open", "write"}
               PROVE  Kept(call[q].slug)' \subseteq {ExtOf[call'[q].url]}
    BY DEF OldOnesRemoved
  <2>1. CASE q = p
    BY <1>2, <1>4, <2>1
  <2>2. CASE q # p
    <3>1. call'[q] = call[q] /\ call[q].slug \in Host /\ call[q].slug # r.slug
      BY <1>2, <1>6, <2>2 DEF Call
    <3> QED
      BY <1>4, <3>1 DEF OldOnesRemoved
  <2> QED
    BY <2>1, <2>2
<1>8. UrlKnown'
  BY <1>2 DEF UrlKnown
<1> QED
  BY <1>1, <1>3, <1>5, <1>7, <1>8

\* When a flight lands, nobody flies in its slug or waits for it any more.
LEMMA LandKeepsInv ==
    ASSUME FaviconInv, NEW p \in Proc, call[p].step \in Flying,
           NEW url \in Url \cup {None}, Land(p, url),
           UNCHANGED <<site, icon, files, crashes, stuck>>
    PROVE  FaviconInv'
<1> DEFINE h == call[p].slug
<1> DEFINE shares(q) == q = p \/ (At(q, "wait") /\ call[q].slug = h)
<1> USE DEF FaviconInv
<1>1. call[p] \in Call /\ h \in Host /\ flight[h] = p
  BY BusyCall DEF OneWriter, Flying, Call
<1>2. flight' = [flight EXCEPT ![h] = None]
  BY DEF Land
<1>3. ASSUME NEW q \in Proc
      PROVE  /\ ~shares(q) => call'[q] = call[q]
             /\ shares(q) /\ url = None => call'[q] = Idle
             /\ shares(q) /\ url # None => /\ call'[q] \in Call
                                           /\ call'[q].step = "update"
                                           /\ call'[q].url \in Url
             /\ call'[q] \in Call \cup {Idle}
  <2>1. shares(q) => call[q] \in Call
    BY <1>1, BusyCall DEF At
  <2>2. call'[q] = IF ~shares(q) THEN call[q]
                   ELSE IF url = None THEN Idle
                   ELSE [call[q] EXCEPT !.step = "update", !.url = url]
    BY DEF Land
  <2>3. shares(q) /\ url # None =>
          /\ [call[q] EXCEPT !.step = "update", !.url = url] \in Call
          /\ [call[q] EXCEPT !.step = "update", !.url = url].step = "update"
          /\ [call[q] EXCEPT !.step = "update", !.url = url].url = url
    BY <2>1 DEF Call
  <2>4. call[q] \in Call \cup {Idle}
    BY DEF FaviconTypeOK
  <2> QED
    BY <2>2, <2>3, <2>4
<1>4. FaviconTypeOK'
  <2>1. DOMAIN call' = Proc /\ call' = [q \in Proc |-> call'[q]]
    BY DEF Land
  <2>2. call' \in [Proc -> Call \cup {Idle}]
    BY <1>3, <2>1
  <2>3. flight' \in [Host -> Proc \cup {None}]
    BY <1>1, <1>2 DEF FaviconTypeOK
  <2> QED
    BY <2>2, <2>3 DEF FaviconTypeOK
<1>5. \A g \in Host : flight'[g] = IF g = h THEN None ELSE flight[g]
  BY <1>2 DEF FaviconTypeOK
<1>6. \A q \in Proc : shares(q) => call'[q].step \in {"idle", "update"}
  BY <1>3 DEF Idle
<1>7. OneWriter'
  <2>1. ASSUME NEW q \in Proc, call'[q].step \in Flying
        PROVE  flight'[call'[q].slug] = q
    <3>1. ~shares(q) /\ call'[q] = call[q] /\ call[q] \in Call
      BY <1>3, <1>6, <2>1, BusyCall DEF Flying
    <3>2. call[q].slug \in Host /\ flight[call[q].slug] = q
      BY <2>1, <3>1 DEF OneWriter, Call
    <3>3. call[q].slug # h
      BY <1>1, <3>1, <3>2
    <3> QED
      BY <1>5, <3>1, <3>2, <3>3
  <2>2. ASSUME NEW q \in Proc, At(q, "wait")'
        PROVE  flight'[call'[q].slug] # None
    <3>1. ~shares(q) /\ call'[q] = call[q]
      BY <1>3, <1>6, <2>2 DEF At
    <3>2. call[q] \in Call /\ At(q, "wait")
      BY <2>2, <3>1, BusyCall DEF At
    <3> QED
      BY <1>5, <3>1, <3>2 DEF OneWriter, Call
  <2>3. ASSUME NEW g \in Host, flight'[g] # None
        PROVE  call'[flight'[g]].step \in Flying /\ call'[flight'[g]].slug = g
    <3>1. g # h /\ flight'[g] = flight[g] /\ flight[g] \in Proc
      BY <1>5, <2>3 DEF FaviconTypeOK
    <3>2. call[flight[g]].step \in Flying /\ call[flight[g]].slug = g
      BY <2>3, <3>1 DEF OneWriter
    <3>3. ~shares(flight[g])
      BY <1>1, <3>1, <3>2 DEF At, Flying
    <3> QED
      BY <1>3, <3>1, <3>2, <3>3
  <2> QED
    BY <2>1, <2>2, <2>3 DEF OneWriter
<1>8. AtMostOneFile'
  BY DEF AtMostOneFile, Kept
<1>9. OldOnesRemoved'
  <2>1. \A q \in Proc : call'[q].step \in {"open", "write"} => call'[q] = call[q]
    BY <1>3, <1>6
  <2> QED
    BY <2>1 DEF OldOnesRemoved, Kept
<1>10. UrlKnown'
  <2>1. \A q \in Proc : call'[q].step \in {"removeOld", "open", "write"} => call'[q] = call[q]
    BY <1>3, <1>6
  <2>2. \A q \in Proc : call'[q].step = "update" => call'[q] = call[q] \/ call'[q].url \in Url
    BY <1>3, <1>6 DEF Idle
  <2> HIDE DEF shares
  <2> QED
    BY <2>1, <2>2 DEF UrlKnown
<1> QED
  BY <1>4, <1>7, <1>8, <1>9, <1>10

-----------------------------------------------------------------------------
(* The actions                                                             *)

LEMMA CallKeepsInv ==
    ASSUME FaviconInv, NEW p \in Proc, Fetch(p)
    PROVE  FaviconInv'
<1>1. /\ FaviconTypeOK
      /\ site \in [Feed -> Host \cup {None}] /\ icon \in [Feed -> Url \cup {None}]
      /\ flight \in [Host -> Proc \cup {None}] /\ files \in [Host -> SUBSET Ext]
  BY DEF FaviconInv, FaviconTypeOK
<1>2. call[p] \in Call /\ call[p].slug \in Host /\ call[p].feed \in Feed
  <2>1. call[p] \in Call
    BY <1>1, BusyCall DEF Fetch, StoreFeed, Check, Join, Download, RemoveOld, OpenFile,
           Written, FlightFails, UpdateRow, UpdateFails, At
  <2> QED
    BY <2>1 DEF Call
<1>3. call[p].step \in {"removeOld", "open", "write", "update"} => call[p].url \in Url
  BY DEF FaviconInv, UrlKnown
<1>4. CASE StoreFeed(p)
  <2>1. PICK r \in Call : call' = [call EXCEPT ![p] = r] /\ r.step = "check"
    BY <1>1, <1>2, <1>4, NextStep DEF StoreFeed
  <2>2. site' \in [Feed -> Host \cup {None}]
    BY <1>1, <1>2, <1>4, FaviconAssumption DEF StoreFeed
  <2> QED
    BY <1>1, <1>4, <2>1, <2>2, GroundStepKeepsInv DEF StoreFeed, At, Grounded, Flying
<1>5. CASE Check(p)
  <2> DEFINE joining == [call[p] EXCEPT !.step = "join", !.seen = None]
  <2>1. joining \in Call /\ joining.step = "join" /\ Idle.step = "idle"
    BY <1>2 DEF Call, Idle
  <2>2. call' = [call EXCEPT ![p] = Idle] \/ call' = [call EXCEPT ![p] = joining]
    BY <1>5 DEF Check
  <2> HIDE DEF joining
  <2> QED
    BY <1>1, <1>5, <2>1, <2>2, GroundStepKeepsInv DEF Check, At, Grounded, Flying
<1>6. CASE Join(p)
  <2> DEFINE h == call[p].slug
  <2>1. CASE flight[h] # None
    <3>1. PICK r \in Call :
            call' = [call EXCEPT ![p] = r] /\ r.step = "wait" /\ r.slug = h
      BY <1>1, <1>2, <1>6, <2>1, NextStep DEF Join
    <3>2. \A q \in Proc : call'[q] = IF q = p THEN r ELSE call[q]
      BY <1>1, <3>1 DEF FaviconTypeOK
    <3>3. UNCHANGED <<site, icon, files, flight, crashes, stuck>>
      BY <1>6, <2>1 DEF Join
    <3>4. FaviconTypeOK'
      BY <1>1, <3>1, <3>3 DEF FaviconTypeOK
    <3>5. OneWriter'
      BY <1>1, <1>6, <2>1, <3>1, <3>2, <3>3 DEF Join, FaviconInv, OneWriter, At, Flying
    <3> QED
      BY <3>1, <3>2, <3>3, <3>4, <3>5
         DEF FaviconInv, AtMostOneFile, OldOnesRemoved, Kept, UrlKnown
  <2>2. CASE flight[h] = None
    <3>1. PICK r \in Call :
            call' = [call EXCEPT ![p] = r] /\ r.step = "download" /\ r.slug = h
      BY <1>1, <1>2, <1>6, <2>2, NextStep DEF Join
    <3>2. \A q \in Proc : call'[q] = IF q = p THEN r ELSE call[q]
      BY <1>1, <3>1 DEF FaviconTypeOK
    <3>3. flight' = [flight EXCEPT ![h] = p]
          /\ UNCHANGED <<site, icon, files, crashes, stuck>>
      BY <1>6, <2>2 DEF Join
    <3>4. FaviconTypeOK'
      BY <1>1, <1>2, <3>1, <3>3 DEF FaviconTypeOK
    <3>5. \A g \in Host : flight'[g] = IF g = h THEN p ELSE flight[g]
      BY <1>1, <3>3
    <3>6. OneWriter'
      <4>1. p # None
        BY FaviconAssumption
      <4>2. ASSUME NEW q \in Proc, q # p, call[q].step \in Flying \cup {"wait"}
            PROVE  call[q].slug \in Host
        BY <1>1, <4>2, BusyCall DEF Call, Flying
      <4>3. ASSUME NEW q \in Proc, call'[q].step \in Flying
            PROVE  flight'[call'[q].slug] = q
        BY <1>2, <2>2, <3>1, <3>2, <3>5, <4>2, <4>3, FaviconAssumption
           DEF FaviconInv, OneWriter
      <4>4. ASSUME NEW q \in Proc, At(q, "wait")'
            PROVE  flight'[call'[q].slug] # None
        BY <2>2, <3>1, <3>2, <3>5, <4>1, <4>2, <4>4 DEF FaviconInv, OneWriter, At
      <4>5. ASSUME NEW g \in Host, flight'[g] # None
            PROVE  call'[flight'[g]].step \in Flying /\ call'[flight'[g]].slug = g
        <5>1. call[p].step \notin Flying
          BY <1>6 DEF Join, At, Flying
        <5> QED
          BY <1>1, <3>1, <3>2, <3>5, <4>5, <5>1 DEF FaviconInv, OneWriter, Flying
      <4> QED
        BY <4>3, <4>4, <4>5 DEF OneWriter
    <3> QED
      BY <3>1, <3>2, <3>3, <3>4, <3>6
         DEF FaviconInv, AtMostOneFile, OldOnesRemoved, Kept, UrlKnown
  <2> QED
    BY <2>1, <2>2
<1>7. CASE Download(p)
  <2>1. PICK k \in DOMAIN call[p].offer :
          call' = [call EXCEPT ![p].url = call[p].offer[k], ![p].step = "removeOld"]
    BY <1>7 DEF Download
  <2> DEFINE u == call[p].offer[k]
  <2> DEFINE r == [call[p] EXCEPT !.url = u, !.step = "removeOld"]
  <2>2. u \in Url
    <3>1. PICK f \in Feed : call[p].offer \in Offers[f]
      BY <1>2 DEF Call, Offer
    <3>2. call[p].offer \in Seq(Url)
      BY <3>1, FaviconAssumption
    <3> QED
      BY <3>2
  <2> HIDE DEF u
  <2>3. r \in Call /\ r.step = "removeOld" /\ r.slug = call[p].slug /\ r.url \in Url
    BY <1>2, <2>2 DEF Call
  <2>4. call' = [call EXCEPT ![p] = r]
    BY <1>1, <2>1 DEF u
  <2> HIDE DEF r
  <2> DEFINE S == files[call[p].slug]
  <2> DEFINE R == stuck[call[p].slug]
  <2>5. /\ S \in SUBSET Ext /\ files' = [files EXCEPT ![call[p].slug] = S]
        /\ R \in SUBSET Ext /\ stuck' = [stuck EXCEPT ![call[p].slug] = R]
    BY <1>1, <1>2, <1>7 DEF Download, FaviconTypeOK
  <2>6. \A d, e \in S \ R : d = e
    BY <1>2, <2>5 DEF FaviconInv, AtMostOneFile, Kept
  <2>7. /\ call[p].step \in Flying /\ r.step \in Flying
        /\ r.url \in Url /\ r.slug = call[p].slug
        /\ UNCHANGED <<site, icon, flight, crashes>>
    BY <1>3, <1>7, <2>3 DEF Download, At, Flying
  <2> HIDE DEF S, R
  <2> QED
    BY <2>3, <2>4, <2>5, <2>6, <2>7, LeaderStepKeepsInv
<1>8. CASE RemoveOld(p)
  <2>1. PICK r \in Call :
          /\ call' = [call EXCEPT ![p] = r]
          /\ r.step = "open" /\ r.slug = call[p].slug /\ r.url = call[p].url
    BY <1>1, <1>2, <1>8, NextStep DEF RemoveOld
  <2> DEFINE new == ExtOf[call[p].url]
  <2>2. PICK R \in SUBSET (files[call[p].slug] \ {new}) :
          /\ files' = [files EXCEPT ![call[p].slug] = (@ \cap {new}) \cup R]
          /\ stuck' = [stuck EXCEPT ![call[p].slug] = R]
    BY <1>8 DEF RemoveOld
  <2> DEFINE S == (files[call[p].slug] \cap {new}) \cup R
  <2>3. /\ S \in SUBSET Ext /\ files' = [files EXCEPT ![r.slug] = S]
        /\ R \in SUBSET Ext /\ stuck' = [stuck EXCEPT ![r.slug] = R]
        /\ S \ R \subseteq {ExtOf[r.url]}
        /\ \A d, e \in S \ R : d = e
    BY <1>1, <1>2, <2>1, <2>2
  <2>7. /\ call[p].step \in Flying /\ r.step \in Flying
        /\ r.url \in Url /\ r.slug = call[p].slug
        /\ UNCHANGED <<site, icon, flight, crashes>>
    BY <1>3, <1>8, <2>1 DEF RemoveOld, At, Flying
  <2> HIDE DEF S, new
  <2> QED
    BY <2>1, <2>3, <2>7, LeaderStepKeepsInv
<1>9. CASE OpenFile(p)
  <2>1. PICK r \in Call :
          /\ call' = [call EXCEPT ![p] = r]
          /\ r.step = "write" /\ r.slug = call[p].slug /\ r.url = call[p].url
    BY <1>1, <1>2, <1>9, NextStep DEF OpenFile
  <2> DEFINE S == files[call[p].slug] \cup {ExtOf[call[p].url]}
  <2> DEFINE R == stuck[call[p].slug]
  <2>2. call[p].url \in Url /\ ExtOf[call[p].url] \in Ext
    BY <1>3, <1>9, FaviconAssumption DEF OpenFile, At
  <2>3. /\ S \in SUBSET Ext /\ files' = [files EXCEPT ![r.slug] = S]
        /\ R \in SUBSET Ext /\ stuck' = [stuck EXCEPT ![r.slug] = R]
    BY <1>1, <1>2, <1>9, <2>1, <2>2 DEF OpenFile, FaviconTypeOK
  <2>4. S \ R \subseteq {ExtOf[r.url]} /\ \A d, e \in S \ R : d = e
    BY <1>9, <2>1 DEF FaviconInv, OldOnesRemoved, Kept, OpenFile, At
  <2>7. /\ call[p].step \in Flying /\ r.step \in Flying
        /\ r.url \in Url /\ r.slug = call[p].slug
        /\ UNCHANGED <<site, icon, flight, crashes>>
    BY <1>3, <1>9, <2>1 DEF OpenFile, At, Flying
  <2> HIDE DEF S, R
  <2> QED
    BY <2>1, <2>2, <2>3, <2>4, <2>7, LeaderStepKeepsInv
<1>10. CASE Written(p)
  BY <1>3, <1>10, LandKeepsInv DEF Written, At, Flying
<1>11. CASE FlightFails(p)
  BY <1>11, LandKeepsInv DEF FlightFails, Flying
<1>12. CASE UpdateRow(p)
  <2>1. icon' \in [Feed -> Url \cup {None}]
    BY <1>1, <1>2, <1>12 DEF UpdateRow, Call
  <2> QED
    BY <1>1, <1>12, <2>1, GroundStepKeepsInv DEF UpdateRow, At, Grounded, Flying, Idle
<1>13. CASE UpdateFails(p)
  BY <1>1, <1>13, GroundStepKeepsInv DEF UpdateFails, At, Grounded, Flying, Idle
<1> QED
  BY <1>4, <1>5, <1>6, <1>7, <1>8, <1>9, <1>10, <1>11, <1>12, <1>13 DEF Fetch

LEMMA ReadRowKeepsInv ==
    ASSUME FaviconInv, NEW p \in Proc, NEW f \in Feed, NEW offer \in Offers[f],
           ReadRow(p, f, offer)
    PROVE  FaviconInv'
<1> DEFINE r == [step |-> "row", feed |-> f, slug |-> Slug(f), seen |-> icon[f],
                 offer |-> offer, url |-> None]
<1>1. /\ site \in [Feed -> Host \cup {None}] /\ icon \in [Feed -> Url \cup {None}]
  BY DEF FaviconInv, FaviconTypeOK
<1>2. Slug(f) \in Host /\ offer \in Offer
  BY <1>1, FaviconAssumption DEF Slug, Offer
<1>3. r \in Call /\ r.step = "row"
  BY <1>1, <1>2 DEF Call
<1>4. /\ call[p].step = "idle" /\ call' = [call EXCEPT ![p] = r]
      /\ UNCHANGED <<site, icon, files, flight, crashes, stuck>>
  BY DEF ReadRow, Idle
<1> HIDE DEF r
<1> QED
  BY <1>1, <1>3, <1>4, GroundStepKeepsInv DEF Grounded, Flying

\* Files that go and processes that die.
LEMMA LossKeepsInv ==
    ASSUME FaviconInv, (\E h \in Host : LoseFile(h)) \/ Crash
    PROVE  FaviconInv'
<1> USE DEF FaviconInv
<1>1. ASSUME NEW h \in Host, LoseFile(h) PROVE FaviconInv'
  <2> USE <1>1 DEF LoseFile
  <2>1. FaviconTypeOK' /\ \A g \in Host : Kept(g)' \subseteq Kept(g)
    BY DEF FaviconTypeOK, Kept
  <2>2. OneWriter' /\ UrlKnown'
    BY DEF OneWriter, UrlKnown, At
  <2>3. AtMostOneFile'
    BY <2>1 DEF AtMostOneFile
  <2>4. OldOnesRemoved'
    <3>1. \A q \in Proc : call[q].step \in {"open", "write"} => call[q].slug \in Host
      BY BusyCall DEF Call
    <3> QED
      BY <2>1, <3>1 DEF OldOnesRemoved
  <2> QED
    BY <2>1, <2>2, <2>3, <2>4
<1>2. CASE Crash
  <2> USE <1>2 DEF Crash, Idle
  <2>1. FaviconTypeOK'
    BY DEF FaviconTypeOK
  <2>2. OneWriter' /\ UrlKnown' /\ OldOnesRemoved' /\ AtMostOneFile'
    BY DEF OneWriter, UrlKnown, At, Flying, OldOnesRemoved, AtMostOneFile, Kept
  <2> QED
    BY <2>1, <2>2
<1> QED
  BY <1>1, <1>2

LEMMA NextKeepsInv == FaviconInv /\ [Next]_vars => FaviconInv'
<1> SUFFICES ASSUME FaviconInv, [Next]_vars PROVE FaviconInv'
  OBVIOUS
<1>1. ASSUME NEW f \in Feed, Poll(f) PROVE FaviconInv'
  BY <1>1, ReadRowKeepsInv DEF Poll
<1>2. ASSUME NEW p \in Proc, Fetch(p) PROVE FaviconInv'
  BY <1>2, CallKeepsInv
<1>3. CASE (\E h \in Host : LoseFile(h)) \/ Crash
  BY <1>3, LossKeepsInv
<1>4. CASE UNCHANGED vars
  BY <1>4 DEF vars, FaviconInv, FaviconTypeOK, OneWriter, AtMostOneFile,
              OldOnesRemoved, Kept, UrlKnown, At
<1> QED
  BY <1>1, <1>2, <1>3, <1>4 DEF Next

-----------------------------------------------------------------------------
(* Theorems                                                                *)

\* The inductive invariant holds in every state: one writer per slug, and when
\* the new file is created the old ones are gone, but for those whose removal
\* failed in this flight.
THEOREM FaviconInvariant == Spec => []FaviconInv
BY InitInv, NextKeepsInv, PTL DEF Spec

\* A slug has two files only where the last removal of one of them failed
\* (favicon.go:129-142, 296-304).
THEOREM TwoFilesNeedAFailedRemoval == Spec => []AtMostOneFile
BY FaviconInvariant, PTL DEF FaviconInv
=============================================================================
