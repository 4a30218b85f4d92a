--------------------------- MODULE LibraryProofs ---------------------------
(***************************************************************************)
(* What the user follows, what becomes known, what is shown and what the   *)
(* user is told of, for any artists, releases, callers, overlaps, failures *)
(* and changes of the catalogue.  Four invariants, each kept with the help *)
(* of the one before it (LibraryInvariants says what they are):            *)
(*   LibraryInv       who is followed, what is heard of, what is dismissed *)
(*   ShownLibrary     what is shown is known                               *)
(*   NewsLibrary      what a search found is stored, and what is taken off *)
(*                    the list has a reason to go                          *)
(*   FamiliarLibrary  what a search finds is news                          *)
(* For each: what a step of one call does to its own part, on tables; then *)
(* every answer, start and return, and what the other calls are left with. *)
(***************************************************************************)
EXTENDS LibraryInvariants, TLAPS

-----------------------------------------------------------------------------
(* Pieces of work and calls.                                               *)

LEMMA IdleIsNoCall ==
    /\ Idle \notin CallRecord /\ Idle.op = "idle"
    /\ \A call \in CallRecord : call # Idle /\ call.op # "idle"
  BY DEF Idle, CallRecord, Ops, OneArtist

\* What is the same of two pieces.
Same(p, q) ==
    /\ p.artist = q.artist /\ p.read = q.read /\ p.shown = q.shown /\ p.found = q.found
    /\ p.ids = q.ids /\ p.news = q.news /\ p.pruned = q.pruned

LEMMA ThenIs ==
    ASSUME NEW q \in Piece, NEW do \in Steps
    PROVE  Then(q, do) \in Piece /\ Then(q, do).do = do /\ Same(Then(q, do), q)
  BY DEF Then, Piece, Same

LEMMA WorkIs ==
    ASSUME NEW do \in Steps, NEW a \in Artists \cup {None}
    PROVE  /\ Work(do, a) \in Piece /\ Work(do, a).do = do /\ Work(do, a).artist = a
           /\ Work(do, a).read = {} /\ Work(do, a).shown = {} /\ Work(do, a).found = {}
           /\ Work(do, a).ids = {} /\ Work(do, a).news = {} /\ Work(do, a).pruned = {}
  BY DEF Work, Piece

\* A caller is at a piece of its work.
At(c, q) == TypesInv /\ c \in Callers /\ calls[c] # Idle /\ q \in calls[c].pending

LEMMA AtIs ==
    ASSUME NEW c, NEW q, At(c, q)
    PROVE  /\ calls[c] \in CallRecord /\ Shaped(calls[c]) /\ q \in Piece
           /\ PieceShaped(calls[c], q) /\ calls[c].op # "idle"
  <1>1. calls[c] \in CallRecord /\ Shaped(calls[c])
    BY DEF At, TypesInv, CallsOK
  <1>2. q \in Piece /\ PieceShaped(calls[c], q)
    BY <1>1 DEF At, CallRecord, Shaped
  <1>3. QED
    BY <1>1, <1>2, IdleIsNoCall

\* The caller's piece is done, others follow it.
Goes(c, q, more) ==
    /\ calls' = [calls EXCEPT ![c] = calls'[c]] /\ Shaped(calls'[c])
    /\ calls'[c].op = calls[c].op /\ calls'[c].asked = calls[c].asked
    /\ calls'[c].failed = calls[c].failed
    /\ calls'[c].pending = (calls[c].pending \ {q}) \cup more

\* What the caller knows beside its pieces stays.
KnowsTheSame(c) ==
    /\ calls'[c].followed = calls[c].followed /\ calls'[c].known = calls[c].known
    /\ calls'[c].news = calls[c].news /\ calls'[c].rewrites = calls[c].rewrites
    /\ calls'[c].stage = calls[c].stage

LEMMA ContinuedCall ==
    ASSUME NEW c, NEW q, At(c, q), NEW more \in SUBSET Piece, Continue(c, q, more)
    PROVE  /\ calls' = [calls EXCEPT ![c] = calls'[c]] /\ calls'[c] \in CallRecord
           /\ calls'[c].op = calls[c].op /\ calls'[c].asked = calls[c].asked
           /\ calls'[c].failed = calls[c].failed
           /\ calls'[c].pending = (calls[c].pending \ {q}) \cup more
           /\ KnowsTheSame(c)
  <1> DEFINE call == calls[c]
             new == [call EXCEPT !.pending = (call.pending \ {q}) \cup more]
  <1>1. calls \in [Callers -> CallRecord \cup {Idle}] /\ c \in Callers
    BY DEF At, TypesInv, CallsOK
  <1>2. calls' = [calls EXCEPT ![c] = new]
    BY DEF Continue
  <1>3. calls'[c] = new
    BY <1>1, <1>2
  <1>4. call \in CallRecord
    BY AtIs
  <1>5. /\ new \in CallRecord /\ new.op = call.op /\ new.asked = call.asked
        /\ new.failed = call.failed /\ new.pending = (call.pending \ {q}) \cup more
        /\ new.followed = call.followed /\ new.known = call.known
        /\ new.news = call.news /\ new.rewrites = call.rewrites /\ new.stage = call.stage
    BY <1>4 DEF CallRecord
  <1>6. QED
    BY <1>2, <1>3, <1>5 DEF KnowsTheSame

\* A call that goes on with at most one more piece is in shape, once its reads of the
\* beginning are over.
LEMMA ContinuesInShape ==
    ASSUME NEW c, NEW q, At(c, q), NEW more \in SUBSET Piece, Continue(c, q, more),
           calls[c].op = "detect" => q.do \notin DetectReads,
           \A p \in more : PieceShaped(calls[c], p),
           InOnePiece(calls[c]) => \A p, r \in more : p = r
    PROVE  Goes(c, q, more) /\ KnowsTheSame(c)
  <1> DEFINE call == calls[c]
             new == calls'[c]
  <1>1. /\ new \in CallRecord /\ new.op = call.op /\ new.asked = call.asked
        /\ new.failed = call.failed /\ new.pending = (call.pending \ {q}) \cup more
        /\ new.followed = call.followed /\ new.news = call.news
        /\ new.rewrites = call.rewrites /\ new.stage = call.stage
    BY ContinuedCall DEF KnowsTheSame
  <1>2. Shaped(call) /\ PieceShaped(call, q) /\ q \in call.pending
    BY AtIs DEF At
  <1> HIDE DEF call, new
  <1>3. \A p \in new.pending : PieceShaped(call, p)
    BY <1>1, <1>2 DEF Shaped, call
  <1>4. \A p \in new.pending : PieceShaped(new, p)
    BY <1>3, <1>1 DEF PieceShaped
  <1>5. InOnePiece(new) => \A p, r \in new.pending : p = r
    <2>1. InOnePiece(new) <=> InOnePiece(call)
      BY <1>1 DEF InOnePiece
    <2>2. InOnePiece(call) => \A p \in call.pending : p = q
      BY <1>2 DEF Shaped
    <2>3. QED
      BY <2>1, <2>2, <1>1 DEF call
  <1>6. call.op = "detect" => call.stage # "begin"
    BY <1>2 DEF PieceShaped, call
  <1>7. Shaped(new)
    BY <1>1, <1>2, <1>4, <1>5, <1>6 DEF Shaped
  <1>8. QED
    BY <1>7, ContinuedCall DEF Goes, new
-----------------------------------------------------------------------------
(* Answers that neither add nor remove an artist, and make nothing known    *)
(* that was not to be.                                                      *)

NewEntries == {"replaceKnown", "replaceRebuilt", "rebuild"}

\* What follows the piece is a removal of the same artist if it was one, a follow goes
\* on, and nothing is going to be known because of it.
Plain(c, q, more) ==
    /\ Goes(c, q, more) /\ KnowsTheSame(c)
    /\ \A a : (\E p \in more : p.do \in Removal /\ p.artist = a) <=> (q.do \in Removal /\ q.artist = a)
    /\ calls[c].op = "follow" => more # {}
    /\ \A p \in more : p.do \notin NewEntries

LEMMA PlainEnd ==
    ASSUME NEW c, NEW q, At(c, q), Continue(c, q, {}),
           q.do \notin DetectReads \cup Removal, calls[c].op # "follow"
    PROVE  Plain(c, q, {})
  <1>1. Goes(c, q, {}) /\ KnowsTheSame(c)
    BY ContinuesInShape
  <1>2. QED
    BY <1>1 DEF Plain

LEMMA PlainStep ==
    ASSUME NEW c, NEW q, At(c, q), NEW p \in Piece, Continue(c, q, {p}),
           PieceShaped(calls[c], p), p.artist = q.artist,
           q.do \notin DetectReads, p.do \notin NewEntries, p.do \in Removal <=> q.do \in Removal
    PROVE  Plain(c, q, {p})
  <1>1. Goes(c, q, {p}) /\ KnowsTheSame(c)
    BY ContinuesInShape
  <1>2. QED
    BY <1>1 DEF Plain

\* Work that needs no more than that the call takes it.
LEMMA NextPiece ==
    ASSUME NEW call, NEW p, NEW q, PieceShaped(call, q), q.do \notin DetectReads,
           p.artist = q.artist, p.news = q.news, p.pruned = q.pruned,
           Takes(call.op, p.do),
           p.do \in ArtistSteps => q.artist \in Artists,
           p.do \in UnfollowSteps => q.do \in UnfollowSteps,
           p.do \notin {"writeShown", "writeShownToUnfollow", "replaceKnown", "mergeKnown"}
                          \cup DetectReads \cup SettingsReads,
           q.do \notin SettingsReads
    PROVE  PieceShaped(call, p)
  BY DEF PieceShaped

\* Every step that is written out is one of the steps.
LEMMA StepsAre ==
    /\ {"readToFollow", "writeFollow", "storeNews", "readShown", "readKnown", "readShownToRemove",
        "writeShown", "readKnownToUnfollow", "writeShownToUnfollow", "deleteKnown", "writeRefresh",
        "readAllEntries", "removeKnown", "readShownToVerify", "replaceKnown", "replaceRebuilt",
        "readShownToUnfollow", "writeUnfollow", "readToUnfollow", "listReleases", "rebuild",
        "search", "mergeKnown", "readSummary", "readToRefresh", "readOutside", "rollBack",
        "readFollowed", "readDetectSettings", "readAllKnown", "readSettings", "saveSettings",
        "checkRelease"} \subseteq Steps
  BY DEF Steps, UnfollowSteps, Removal, FollowSteps, SearchSteps, DetectReads, RefreshSteps,
     DismissSteps, VerifySteps, SettingsReads, SettingsSteps

\* The one step that may follow such a step in the same call.
Chain ==
    {<<"replaceKnown", "readToFollow">>, <<"readToFollow", "writeFollow">>, <<"storeNews", "readShown">>,
     <<"readShown", "readKnown">>, <<"readKnown", "readShownToRemove">>,
     <<"readShownToRemove", "writeShown">>, <<"readShownToUnfollow", "readKnownToUnfollow">>,
     <<"readKnownToUnfollow", "deleteKnown">>, <<"readKnownToUnfollow", "writeShownToUnfollow">>,
     <<"writeShownToUnfollow", "deleteKnown">>, <<"readToRefresh", "writeRefresh">>,
     <<"checkRelease", "readAllEntries">>, <<"removeKnown", "readShownToVerify">>,
     <<"readShownToVerify", "writeShown">>, <<"readOutside", "writeShown">>}

\* Such a step may be the last one of its work.
Last == {"storeNews", "readKnown", "writeShown", "mergeKnown", "readToRefresh", "writeRefresh",
         "checkRelease", "readShownToVerify", "replaceRebuilt", "readOutside", "rollBack"}

\* The piece takes the work of the other one a step further.
Further(q, p) ==
    /\ p \in Piece /\ p.artist = q.artist /\ p.news = q.news /\ <<q.do, p.do>> \in Chain
    /\ q.do # "readKnown" => p.pruned = q.pruned
    /\ p.do \in {"writeShown", "writeShownToUnfollow"} => p.ids \subseteq p.shown
    /\ q.do = "readShownToRemove" => p.ids \cap p.pruned = {}

LEMMA FurtherIsShaped ==
    ASSUME NEW call, NEW q, NEW p, PieceShaped(call, q), Further(q, p)
    PROVE  /\ PieceShaped(call, p) /\ q.do \notin DetectReads /\ p.do \notin NewEntries
           /\ p.do \in Removal <=> q.do \in Removal
  <1>1. /\ q.do \notin DetectReads \cup SettingsReads /\ p.do \notin NewEntries
        /\ p.do \notin {"replaceKnown", "mergeKnown"} \cup DetectReads \cup SettingsReads
        /\ p.do \in Removal <=> q.do \in Removal
        /\ p.do \in UnfollowSteps => q.do \in UnfollowSteps
        /\ p.do = "writeShown" => q.do # "readKnown"
    BY DEF Further, Chain, DetectReads, SettingsReads, NewEntries, Removal, UnfollowSteps
  <1>2. Takes(call.op, p.do)
    BY DEF Further, Chain, PieceShaped, Takes, FollowSteps, SearchSteps, UnfollowSteps, Removal,
       DetectReads, SettingsReads, SettingsSteps, VerifySteps, DismissSteps, RefreshSteps
  <1>3. p.do \in ArtistSteps => q.artist \in Artists
    BY DEF Further, Chain, PieceShaped, ArtistSteps, FollowSteps, UnfollowSteps, Removal
  <1>4. call.op \in OneArtist => p.pruned = {}
    BY DEF Further, PieceShaped, Takes, OneArtist, FollowSteps, UnfollowSteps, Removal
  <1>5. call.op = "dismiss" /\ p.do = "writeShown" => p.ids \cap p.pruned = {}
    BY DEF Further, Chain, PieceShaped, Takes, DismissSteps
  <1>6. QED
    BY <1>1, <1>2, <1>3, <1>4, <1>5 DEF PieceShaped, Further

LEMMA FurtherIsPlain ==
    ASSUME NEW c, NEW q, At(c, q), NEW p, Further(q, p), Continue(c, q, {p})
    PROVE  \E more : Plain(c, q, more)
  <1>1. Plain(c, q, {p})
    BY AtIs, FurtherIsShaped, PlainStep DEF Further
  <1>2. QED
    BY <1>1

LEMMA LastIsPlain ==
    ASSUME NEW c, NEW q, At(c, q), q.do \in Last, Continue(c, q, {})
    PROVE  \E more : Plain(c, q, more)
  <1>1. PieceShaped(calls[c], q)
    BY AtIs
  <1>2. q.do \notin DetectReads \cup Removal /\ calls[c].op # "follow"
    BY <1>1 DEF Last, PieceShaped, Takes, FollowSteps, UnfollowSteps, Removal, DetectReads
  <1>3. Plain(c, q, {})
    BY <1>2, PlainEnd
  <1>4. QED
    BY <1>3

PlainAnswer(c, q) ==
    \/ ReplacesKnown(c, q) \/ ReadsToFollow(c, q) \/ StoresNews(c, q)
    \/ ReadsShownToUnfollow(c, q) \/ ReadsKnownToUnfollow(c, q) \/ WritesShown(c, q)
    \/ ReadsShown(c, q) \/ ReadsKnown(c, q) \/ ReadsShownToRemove(c, q)
    \/ MergesKnown(c, q) \/ ReadsToRefresh(c, q) \/ WritesRefresh(c, q)
    \/ ChecksRelease(c, q) \/ RemovesKnown(c, q) \/ ReadsShownToVerify(c, q)
    \/ ReplacesRebuilt(c, q) \/ ReadsOutside(c, q) \/ RollsBack(c, q)

LEMMA PlainAnswerIs ==
    ASSUME NEW c, NEW q, At(c, q), PlainAnswer(c, q)
    PROVE  \E more : Plain(c, q, more)
  <1>1. q \in Piece /\ newReleases \subseteq Releases /\ followingArtists \subseteq Artists
    BY AtIs DEF At, TypesInv, LibraryOK
  <1>2. ASSUME NEW p, Continue(c, q, {p}), Further(q, p) PROVE \E more : Plain(c, q, more)
    BY <1>2, FurtherIsPlain
  <1>3. ASSUME Continue(c, q, {}), q.do \in Last PROVE \E more : Plain(c, q, more)
    BY <1>3, LastIsPlain
  <1> DEFINE T(do) == Then(q, do)
             R(do) == [T(do) EXCEPT !.read = followingArtists]
             N(do) == [T(do) EXCEPT !.shown = newReleases]
             P == [T("readShownToRemove") EXCEPT !.pruned = PrunedForGood(q)]
             W(kept) == [T("writeShown") EXCEPT !.shown = newReleases, !.ids = newReleases \cap kept]
             M == [T("writeShown") EXCEPT !.shown = newReleases, !.ids = newReleases \ q.pruned]
             V == [T("writeShown") EXCEPT !.shown = newReleases, !.ids = newReleases \ calls[c].asked]
             D(do) == [T(do) EXCEPT !.ids = KeptAfterUnfollow(q)]
  <1>4. CASE ReplacesKnown(c, q) \/ StoresNews(c, q) \/ ChecksRelease(c, q) \/ RemovesKnown(c, q)
    <2>1. \A do \in {"readToFollow", "readShown", "readAllEntries", "readShownToVerify"} :
             <<q.do, do>> \in Chain => Further(q, T(do))
      BY <1>1, StepsAre DEF Piece, Then, Further, Chain
    <2>2. QED
      BY <1>2, <1>3, <1>4, <2>1 DEF ReplacesKnown, StoresNews, ChecksRelease, RemovesKnown, AfterSave, Chain, Last
  <1>5. CASE ReadsToFollow(c, q) \/ ReadsToRefresh(c, q)
    <2>1. \A do \in {"writeFollow", "writeRefresh"} : <<q.do, do>> \in Chain => Further(q, R(do))
      BY <1>1, StepsAre DEF Piece, Then, Further, Chain
    <2>2. QED
      BY <1>2, <1>3, <1>5, <2>1 DEF ReadsToFollow, ReadsToRefresh, Chain, Last
  <1>6. CASE ReadsShown(c, q) \/ ReadsShownToUnfollow(c, q)
    <2>1. \A do \in {"readKnown", "readKnownToUnfollow"} : <<q.do, do>> \in Chain => Further(q, N(do))
      BY <1>1, StepsAre DEF Piece, Then, Further, Chain
    <2>2. QED
      BY <1>2, <1>6, <2>1 DEF ReadsShown, ReadsShownToUnfollow, Chain
  <1>7. CASE ReadsKnown(c, q)
    <2>1. Further(q, P)
      BY <1>1, <1>7, StepsAre DEF ReadsKnown, Piece, Then, Further, Chain, PrunedForGood
    <2>2. QED
      BY <1>2, <1>3, <1>7, <2>1 DEF ReadsKnown, Last
  <1>8. CASE ReadsShownToRemove(c, q)
    <2>1. Further(q, M)
      BY <1>1, <1>8, StepsAre DEF ReadsShownToRemove, Piece, Then, Further, Chain
    <2>2. QED
      BY <1>2, <1>8, <2>1 DEF ReadsShownToRemove
  <1>9. CASE ReadsShownToVerify(c, q)
    <2>1. Further(q, V)
      BY <1>1, <1>9, StepsAre DEF ReadsShownToVerify, Piece, Then, Further, Chain
    <2>2. QED
      BY <1>2, <1>3, <1>9, <2>1 DEF ReadsShownToVerify, Last
  <1>10. CASE ReadsOutside(c, q)
    <2>1. PICK s : Continue(c, q, {}) \/ Continue(c, q, {W(Matches(s))})
      BY <1>10 DEF ReadsOutside
    <2> HIDE DEF Matches
    <2>2. Further(q, W(Matches(s)))
      BY <1>1, <1>10, StepsAre DEF ReadsOutside, Piece, Then, Further, Chain
    <2>3. QED
      BY <1>2, <1>3, <1>10, <2>1, <2>2 DEF ReadsOutside, Last
  <1>11. CASE ReadsKnownToUnfollow(c, q)
    <2>1. KeptAfterUnfollow(q) \subseteq q.shown /\ q.shown \subseteq Releases
      BY <1>1 DEF KeptAfterUnfollow, Piece
    <2>2. \A do \in {"deleteKnown", "writeShownToUnfollow"} : Further(q, D(do))
      BY <1>1, <1>11, <2>1, StepsAre DEF ReadsKnownToUnfollow, Piece, Then, Further, Chain
    <2>3. QED
      BY <1>2, <1>11, <2>2 DEF ReadsKnownToUnfollow
  <1>12. CASE WritesShown(c, q)
    <2>1. q.do = "writeShownToUnfollow" => Further(q, T("deleteKnown"))
      BY <1>1, StepsAre DEF Piece, Then, Further, Chain
    <2>2. QED
      BY <1>2, <1>3, <1>12, <2>1 DEF WritesShown, Last
  <1>13. CASE WritesRefresh(c, q) \/ MergesKnown(c, q) \/ ReplacesRebuilt(c, q) \/ RollsBack(c, q)
    BY <1>3, <1>13 DEF WritesRefresh, MergesKnown, ReplacesRebuilt, RollsBack, Last
  <1>14. QED
    BY <1>4, <1>5, <1>6, <1>7, <1>8, <1>9, <1>10, <1>11, <1>12, <1>13 DEF PlainAnswer

-----------------------------------------------------------------------------
(* Answers that do more.                                                    *)

\* After the write of the list, nothing is left to do for a follow.
LEMMA WritesFollowGoes ==
    ASSUME NEW c, NEW q, At(c, q), WritesFollow(c, q)
    PROVE  \E more : /\ Goes(c, q, more) /\ KnowsTheSame(c)
                     /\ \A p \in more : p.do \in {"storeNews", "readShown"}
                     /\ calls[c].op = "follow" => more = {}
  <1> DEFINE m(do) == {Then(q, do)}
  <1>1. q \in Piece /\ PieceShaped(calls[c], q) /\ q.do = "writeFollow"
    BY AtIs DEF WritesFollow
  <1>2. \A do \in {"storeNews", "readShown"} :
           Then(q, do) \in Piece /\ Then(q, do).do = do /\ Same(Then(q, do), q)
    BY <1>1, ThenIs, StepsAre
  <1>3. calls[c].op \in {"follow", "detect"} /\ calls[c].op \in Ops
    BY <1>1, AtIs DEF PieceShaped, CallRecord, Ops, OneArtist, Takes, FollowSteps, SearchSteps,
       UnfollowSteps, Removal, DetectReads, SettingsReads, SettingsSteps, VerifySteps,
       DismissSteps, RefreshSteps
  <1>4. calls[c].op = "follow" => Continue(c, q, {})
    <2>1. calls[c].op = "follow" => q.news = {} /\ q.pruned = {}
      BY <1>1 DEF PieceShaped, OneArtist
    <2>2. QED
      BY <2>1 DEF WritesFollow, AfterSave
  <1>5. Continue(c, q, {}) \/ \E do \in {"storeNews", "readShown"} : Continue(c, q, m(do))
    BY DEF WritesFollow, AfterSave
  <1>6. CASE Continue(c, q, {})
    <2>1. Goes(c, q, {}) /\ KnowsTheSame(c)
      BY <1>6, <1>1, ContinuesInShape DEF DetectReads
    <2>2. QED
      BY <2>1
  <1>7. ASSUME calls[c].op = "detect", NEW do \in {"storeNews", "readShown"}, Continue(c, q, m(do))
        PROVE  Goes(c, q, m(do)) /\ KnowsTheSame(c)
    <2> DEFINE p == Then(q, do)
    <2>1. p \in Piece /\ p.do = do /\ Same(p, q)
      BY <1>2
    <2>2. Continue(c, q, {p})
      BY <1>7
    <2> HIDE DEF p
    <2>3. PieceShaped(calls[c], p)
      BY <1>1, <1>7, <2>1, NextPiece DEF PieceShaped, Same, Takes, ArtistSteps, FollowSteps, SearchSteps,
         UnfollowSteps, Removal, DetectReads, SettingsReads
    <2>4. Goes(c, q, {p}) /\ KnowsTheSame(c)
      BY <1>1, <2>1, <2>2, <2>3, ContinuesInShape DEF DetectReads
    <2>5. QED
      BY <2>4 DEF p
  <1>8. ASSUME calls[c].op = "detect", NEW do \in {"storeNews", "readShown"}, Continue(c, q, m(do))
        PROVE  \A p \in m(do) : p.do \in {"storeNews", "readShown"}
    BY <1>8, <1>2
  <1>9. calls[c].op = "detect" => calls[c].op # "follow"
    OBVIOUS
  <1> HIDE DEF m
  <1>10. CASE calls[c].op = "detect" /\ \E do \in {"storeNews", "readShown"} : Continue(c, q, m(do))
    BY <1>10, <1>7, <1>8, <1>9
  <1>11. CASE calls[c].op = "follow"
    BY <1>11, <1>4, <1>6
  <1>12. QED
    BY <1>3, <1>5, <1>6, <1>10, <1>11

\* The artist is on the list or its removal is over.
LEMMA ReadsToUnfollowGoes ==
    ASSUME NEW c, NEW q, At(c, q), ReadsToUnfollow(c, q)
    PROVE  \E p : /\ Goes(c, q, {p}) /\ KnowsTheSame(c) /\ p.artist = q.artist
                  /\ p.do = IF q.artist \in followingArtists THEN "writeUnfollow"
                            ELSE "readShownToUnfollow"
  <1> DEFINE next == IF q.artist \in followingArtists THEN "writeUnfollow" ELSE "readShownToUnfollow"
             p == [Then(q, next) EXCEPT !.read = followingArtists]
  <1>1. q \in Piece /\ PieceShaped(calls[c], q) /\ q.do = "readToUnfollow" /\ followingArtists \subseteq Artists
    BY AtIs DEF ReadsToUnfollow, At, TypesInv, LibraryOK
  <1>2. Continue(c, q, {p}) /\ next \in {"writeUnfollow", "readShownToUnfollow"}
    BY DEF ReadsToUnfollow
  <1> HIDE DEF next
  <1>3. Then(q, next) \in Piece /\ Then(q, next).do = next /\ Same(Then(q, next), q)
    BY <1>1, <1>2, ThenIs, StepsAre
  <1>4. p \in Piece /\ p.do = next /\ p.artist = q.artist /\ p.news = q.news /\ p.pruned = q.pruned
    BY <1>1, <1>3 DEF Piece, Same
  <1> HIDE DEF p
  <1>5. PieceShaped(calls[c], p)
    BY <1>1, <1>2, <1>4, NextPiece DEF PieceShaped, Takes, ArtistSteps, FollowSteps, SearchSteps,
       UnfollowSteps, Removal, DetectReads, SettingsReads, SettingsSteps, VerifySteps,
       DismissSteps, RefreshSteps
  <1>6. Goes(c, q, {p}) /\ KnowsTheSame(c)
    BY <1>1, <1>2, <1>4, <1>5, ContinuesInShape DEF DetectReads
  <1>7. QED
    BY <1>4, <1>6 DEF next

LEMMA WritesUnfollowGoes ==
    ASSUME NEW c, NEW q, At(c, q), WritesUnfollow(c, q)
    PROVE  \E p : /\ Goes(c, q, {p}) /\ KnowsTheSame(c) /\ p.artist = q.artist
                  /\ p.do = "readShownToUnfollow"
  <1> DEFINE p == Then(q, "readShownToUnfollow")
  <1>1. q \in Piece /\ PieceShaped(calls[c], q) /\ q.do = "writeUnfollow"
    BY AtIs DEF WritesUnfollow
  <1>2. p \in Piece /\ p.do = "readShownToUnfollow" /\ Same(p, q)
    BY <1>1, ThenIs, StepsAre
  <1>3. Continue(c, q, {p})
    BY DEF WritesUnfollow
  <1> HIDE DEF p
  <1>4. PieceShaped(calls[c], p)
    BY <1>1, <1>2, NextPiece DEF PieceShaped, Same, Takes, ArtistSteps, FollowSteps, SearchSteps,
       UnfollowSteps, Removal, DetectReads, SettingsReads, SettingsSteps, VerifySteps,
       DismissSteps, RefreshSteps
  <1>5. Goes(c, q, {p}) /\ KnowsTheSame(c)
    BY <1>1, <1>2, <1>3, <1>4, ContinuesInShape DEF DetectReads
  <1>6. QED
    BY <1>2, <1>5 DEF Same

\* followArtist goes on, everything else is done with this artist.
LEMMA DeletesKnownGoes ==
    ASSUME NEW c, NEW q, At(c, q), DeletesKnown(c, q)
    PROVE  \E more : /\ Goes(c, q, more) /\ KnowsTheSame(c)
                     /\ \A p \in more : p.do = "listReleases"
                     /\ calls[c].op = "follow" => more # {}
  <1> DEFINE p == Work("listReleases", q.artist)
  <1>1. q \in Piece /\ PieceShaped(calls[c], q) /\ q.do = "deleteKnown"
    BY AtIs DEF DeletesKnown
  <1>2. p \in Piece /\ p.do = "listReleases" /\ p.artist = q.artist /\ p.news = {} /\ p.pruned = {}
    BY <1>1, WorkIs, StepsAre DEF Piece
  <1>3. IF calls[c].op = "follow" THEN Continue(c, q, {p}) ELSE Continue(c, q, {})
    BY DEF DeletesKnown
  <1> HIDE DEF p
  <1>4. CASE calls[c].op = "follow"
    <2>1. PieceShaped(calls[c], p)
      BY <1>1, <1>2, <1>4 DEF PieceShaped, Takes, OneArtist, ArtistSteps, FollowSteps,
         UnfollowSteps, Removal
    <2>2. Goes(c, q, {p}) /\ KnowsTheSame(c)
      BY <1>1, <1>2, <1>3, <1>4, <2>1, ContinuesInShape DEF DetectReads
    <2>3. QED
      BY <2>2, <1>2
  <1>5. CASE calls[c].op # "follow"
    <2>1. Goes(c, q, {}) /\ KnowsTheSame(c)
      BY <1>1, <1>3, <1>5, ContinuesInShape DEF DetectReads
    <2>2. QED
      BY <2>1, <1>5
  <1>6. QED
    BY <1>4, <1>5

LEMMA FoundIsOfReleases == ASSUME WorldOK, NEW a PROVE Found(a) \subseteq Releases
  BY DEF WorldOK, Found

\* What was listed is going to be known.
LEMMA ListsReleasesGoes ==
    ASSUME NEW c, NEW q, At(c, q), ListsReleases(c, q)
    PROVE  \E p : /\ Goes(c, q, {p}) /\ KnowsTheSame(c) /\ p.do = "replaceKnown"
                  /\ p.artist = q.artist /\ p.ids \subseteq Found(q.artist)
  <1> DEFINE P(ids, found) == [Then(q, "replaceKnown") EXCEPT !.ids = ids, !.found = found]
  <1>1. q \in Piece /\ PieceShaped(calls[c], q) /\ q.do = "listReleases" /\ Found(q.artist) \subseteq Releases
    BY AtIs, FoundIsOfReleases DEF ListsReleases, At, TypesInv
  <1>2. PICK ids \in SUBSET Found(q.artist) : \E found \in SUBSET Found(q.artist) :
           Continue(c, q, {P(ids, found)})
    <2>1. PICK ids \in SUBSET Found(q.artist) :
             \/ Continue(c, q, {P(ids, ids)}) \/ Continue(c, q, {P(ids, Found(q.artist))})
      BY DEF ListsReleases
    <2> HIDE DEF P
    <2>2. QED
      BY <2>1
  <1>3. PICK found \in SUBSET Found(q.artist) : Continue(c, q, {P(ids, found)})
    BY <1>2
  <1> DEFINE p == P(ids, found)
  <1>4. Then(q, "replaceKnown") \in Piece /\ Then(q, "replaceKnown").do = "replaceKnown"
        /\ Same(Then(q, "replaceKnown"), q)
    BY <1>1, ThenIs, StepsAre
  <1>5. ids \subseteq Releases /\ found \subseteq Releases
    BY <1>1
  <1>6. p \in Piece /\ p.do = "replaceKnown" /\ p.artist = q.artist /\ p.ids = ids
        /\ p.news = q.news /\ p.pruned = q.pruned
    BY <1>4, <1>5 DEF Piece, Same
  <1> HIDE DEF P
  <1> HIDE DEF p
  <1>7. calls[c].op = "follow"
    BY <1>1, AtIs DEF PieceShaped, CallRecord, Ops, OneArtist, Takes, FollowSteps, SearchSteps,
       UnfollowSteps, Removal, DetectReads, SettingsReads, SettingsSteps, VerifySteps,
       DismissSteps, RefreshSteps
  <1>8. PieceShaped(calls[c], p)
    BY <1>1, <1>6, <1>7 DEF PieceShaped, OneArtist, Takes, ArtistSteps, FollowSteps,
       UnfollowSteps, Removal
  <1>9. Goes(c, q, {p}) /\ KnowsTheSame(c)
    BY <1>1, <1>3, <1>6, <1>8, ContinuesInShape DEF DetectReads, p
  <1>10. QED
    BY <1>6, <1>9

\* What is rebuilt was on the list that was looked at.
LEMMA ListsToRebuildGoes ==
    ASSUME NEW c, NEW q, At(c, q), ListsToRebuild(c, q)
    PROVE  \E p : /\ Goes(c, q, {p}) /\ KnowsTheSame(c) /\ p.do = "replaceRebuilt"
                  /\ p.artist = q.artist /\ p.ids \subseteq heard'
  <1>1. q \in Piece /\ PieceShaped(calls[c], q) /\ q.do = "rebuild" /\ Found(q.artist) \subseteq Releases
    BY AtIs, FoundIsOfReleases DEF ListsToRebuild, At, TypesInv
  <1>2. PICK s \in calls[c].asked :
           /\ Continue(c, q, {[Then(q, "replaceRebuilt") EXCEPT
                                 !.found = Found(q.artist) \cap Matches(s),
                                 !.ids = Rebuilt(calls[c], Found(q.artist))]})
           /\ heard' = heard \cup (Found(q.artist) \cap Matches(s))
    BY DEF ListsToRebuild
  <1> DEFINE found == Found(q.artist) \cap Matches(s)
             ids == Rebuilt(calls[c], Found(q.artist))
             p == [Then(q, "replaceRebuilt") EXCEPT !.found = found, !.ids = ids]
  <1>3. ids \subseteq found /\ found \subseteq Releases
    BY <1>1 DEF Rebuilt
  <1>4. ids \subseteq heard' /\ Continue(c, q, {p})
    BY <1>2, <1>3
  <1> HIDE DEF ids, found
  <1>5. Then(q, "replaceRebuilt") \in Piece /\ Then(q, "replaceRebuilt").do = "replaceRebuilt"
        /\ Same(Then(q, "replaceRebuilt"), q)
    BY <1>1, ThenIs, StepsAre
  <1>6. p \in Piece /\ p.do = "replaceRebuilt" /\ p.artist = q.artist /\ p.ids = ids
        /\ p.news = q.news /\ p.pruned = q.pruned
    BY <1>3, <1>5 DEF Piece, Same
  <1> HIDE DEF p
  <1>7. PieceShaped(calls[c], p)
    BY <1>1, <1>6, NextPiece DEF PieceShaped, Takes, ArtistSteps, FollowSteps, SearchSteps,
       UnfollowSteps, Removal, DetectReads, SettingsReads, SettingsSteps, VerifySteps,
       DismissSteps, RefreshSteps
  <1>8. Goes(c, q, {p}) /\ KnowsTheSame(c)
    BY <1>1, <1>4, <1>6, <1>7, ContinuesInShape DEF DetectReads
  <1>9. QED
    BY <1>4, <1>6, <1>8

\* A change of settings and a refresh look at followed artists.
LEMMA ReadsFollowedGoes ==
    ASSUME NEW c, NEW q, At(c, q), ReadsFollowed(c, q), calls[c].op # "detect"
    PROVE  \E more : /\ Goes(c, q, more) /\ KnowsTheSame(c) /\ calls[c].op # "follow"
                     /\ \A p \in more : /\ p.do \in {"rebuild", "readSummary"}
                                        /\ p.artist \in followingArtists
  <1>1. q \in Piece /\ PieceShaped(calls[c], q) /\ q.do = "readFollowed" /\ followingArtists \subseteq Artists
    BY AtIs DEF ReadsFollowed, At, TypesInv, LibraryOK
  <1>2. \/ /\ calls[c].op = "settings"
           /\ Continue(c, q, {Work("rebuild", a) : a \in followingArtists})
        \/ /\ calls[c].op = "refresh"
           /\ \E stale \in SUBSET followingArtists :
                 Continue(c, q, {Work("readSummary", a) : a \in stale})
    BY DEF ReadsFollowed
  <1>3. \A do \in {"rebuild", "readSummary"} : \A a \in followingArtists :
           /\ Work(do, a) \in Piece /\ Work(do, a).do = do /\ Work(do, a).artist = a
           /\ Work(do, a).news = {} /\ Work(do, a).pruned = {}
    BY <1>1, WorkIs, StepsAre
  <1>4. CASE calls[c].op = "settings"
    <2> DEFINE more == {Work("rebuild", a) : a \in followingArtists}
    <2>1. Continue(c, q, more)
      BY <1>2, <1>4
    <2>2. more \in SUBSET Piece
          /\ \A p \in more : p.do = "rebuild" /\ p.artist \in followingArtists
      BY <1>3
    <2> HIDE DEF more
    <2>3. calls[c].stage # "begin" /\ ~InOnePiece(calls[c])
      BY <1>1, <1>4 DEF PieceShaped, SettingsReads, InOnePiece, OneArtist
    <2>4. \A p \in more : PieceShaped(calls[c], p)
      BY <1>1, <1>4, <2>2, <2>3 DEF PieceShaped, Takes, OneArtist, UnfollowSteps, Removal,
         SettingsReads, SettingsSteps
    <2>5. Goes(c, q, more) /\ KnowsTheSame(c)
      BY <1>4, <2>1, <2>2, <2>3, <2>4, ContinuesInShape
    <2>6. QED
      BY <1>4, <2>2, <2>5
  <1>5. CASE calls[c].op = "refresh"
    <2>1. PICK stale \in SUBSET followingArtists :
             Continue(c, q, {Work("readSummary", a) : a \in stale})
      BY <1>2, <1>5
    <2> DEFINE more == {Work("readSummary", a) : a \in stale}
    <2>2. more \in SUBSET Piece
          /\ \A p \in more : p.do = "readSummary" /\ p.artist \in followingArtists
      BY <1>3
    <2>3. Continue(c, q, more)
      BY <2>1
    <2> HIDE DEF more
    <2>4. ~InOnePiece(calls[c])
      BY <1>5 DEF InOnePiece, OneArtist
    <2>5. \A p \in more : PieceShaped(calls[c], p)
      BY <1>1, <1>5, <2>2 DEF PieceShaped, Takes, OneArtist, UnfollowSteps, Removal,
         RefreshSteps
    <2>6. Goes(c, q, more) /\ KnowsTheSame(c)
      BY <1>5, <2>2, <2>3, <2>4, <2>5, ContinuesInShape
    <2>7. QED
      BY <1>5, <2>2, <2>6
  <1>6. QED
    BY <1>2, <1>4, <1>5

LEMMA MovedCall ==
    ASSUME CallsOK, NEW c \in Callers, NEW new, calls' = [calls EXCEPT ![c] = new]
    PROVE  calls'[c] = new /\ calls' = [calls EXCEPT ![c] = calls'[c]]
           /\ \A x \in Callers : x # c => calls'[x] = calls[x]
  BY DEF CallsOK

\* Work in one piece is done with it.
LEMMA OnlyPiece ==
    ASSUME NEW c, NEW q, At(c, q), InOnePiece(calls[c])
    PROVE  calls[c].pending = {q}
  BY AtIs DEF At, Shaped

\* The reads at the beginning of a search: what it looks at, and for which settings.
LEMMA ReadsFollowedToDetect ==
    ASSUME NEW c, NEW q, At(c, q), ReadsFollowed(c, q), calls[c].op = "detect"
    PROVE  \E p : /\ Goes(c, q, {p}) /\ p.do = "readDetectSettings"
                  /\ calls'[c].followed = followingArtists /\ calls'[c].news = calls[c].news
                  /\ calls'[c].known = calls[c].known /\ calls'[c].rewrites = calls[c].rewrites
  <1> DEFINE call == calls[c]
             p == Then(q, "readDetectSettings")
             new == [call EXCEPT !.followed = followingArtists, !.pending = {p}]
  <1>1. q \in Piece /\ PieceShaped(call, q) /\ q.do = "readFollowed" /\ followingArtists \subseteq Artists
        /\ call \in CallRecord /\ Shaped(call)
    BY AtIs DEF ReadsFollowed, At, TypesInv, LibraryOK
  <1>2. p \in Piece /\ p.do = "readDetectSettings" /\ Same(p, q)
    BY <1>1, ThenIs, StepsAre
  <1>3. calls' = [calls EXCEPT ![c] = new]
    BY DEF ReadsFollowed
  <1>4. calls'[c] = new /\ calls' = [calls EXCEPT ![c] = calls'[c]]
    BY <1>3, MovedCall DEF At, TypesInv
  <1>5. call.stage = "begin" /\ InOnePiece(call) /\ call.op = "detect"
    BY <1>1 DEF PieceShaped, DetectReads, InOnePiece
  <1>6. call.pending = {q}
    BY <1>5, OnlyPiece
  <1> HIDE DEF p
  <1>7. /\ new \in CallRecord /\ new.op = call.op /\ new.asked = call.asked
        /\ new.failed = call.failed /\ new.pending = {p} /\ new.stage = call.stage
        /\ new.followed = followingArtists /\ new.known = call.known
        /\ new.news = call.news /\ new.rewrites = call.rewrites
    BY <1>1, <1>2 DEF CallRecord
  <1> HIDE DEF new, call
  <1>8. PieceShaped(new, p)
    BY <1>1, <1>2, <1>5, <1>7 DEF PieceShaped, Takes, DetectReads, OneArtist, ArtistSteps,
       FollowSteps, UnfollowSteps, Removal
  <1>9. Shaped(new)
    BY <1>1, <1>5, <1>7, <1>8 DEF Shaped, Rewrites, OneArtist
  <1>10. Goes(c, q, {p})
    BY <1>4, <1>6, <1>7, <1>9 DEF Goes, call
  <1>11. QED
    BY <1>2, <1>4, <1>7, <1>10 DEF call

LEMMA ReadsDetectSettingsGoes ==
    ASSUME NEW c, NEW q, At(c, q), ReadsDetectSettings(c, q)
    PROVE  \E p : Goes(c, q, {p}) /\ KnowsTheSame(c) /\ p.do = "readAllKnown"
  <1> DEFINE call == calls[c]
             p == Then(q, "readAllKnown")
             new == [call EXCEPT !.settings = settings, !.pending = {p}]
  <1>1. q \in Piece /\ PieceShaped(call, q) /\ q.do = "readDetectSettings" /\ settings \in Settings
        /\ call \in CallRecord /\ Shaped(call)
    BY AtIs DEF ReadsDetectSettings, At, TypesInv, LibraryOK
  <1>2. p \in Piece /\ p.do = "readAllKnown" /\ Same(p, q)
    BY <1>1, ThenIs, StepsAre
  <1>3. calls' = [calls EXCEPT ![c] = new]
    BY DEF ReadsDetectSettings
  <1>4. calls'[c] = new /\ calls' = [calls EXCEPT ![c] = calls'[c]]
    BY <1>3, MovedCall DEF At, TypesInv
  <1>5. call.op = "detect"
    BY <1>1 DEF PieceShaped, CallRecord, Ops, OneArtist, Takes, FollowSteps,
       UnfollowSteps, Removal, SettingsReads, SettingsSteps, VerifySteps, DismissSteps, RefreshSteps
  <1>6. call.stage = "begin" /\ InOnePiece(call)
    BY <1>1, <1>5 DEF PieceShaped, DetectReads, InOnePiece
  <1>7. call.pending = {q}
    BY <1>6, OnlyPiece
  <1> HIDE DEF p
  <1>8. /\ new \in CallRecord /\ new.op = call.op /\ new.asked = call.asked
        /\ new.failed = call.failed /\ new.pending = {p} /\ new.stage = call.stage
        /\ new.followed = call.followed /\ new.known = call.known
        /\ new.news = call.news /\ new.rewrites = call.rewrites
    BY <1>1, <1>2 DEF CallRecord
  <1> HIDE DEF new, call
  <1>9. PieceShaped(new, p)
    BY <1>1, <1>2, <1>5, <1>6, <1>8 DEF PieceShaped, Takes, DetectReads, OneArtist, ArtistSteps,
       FollowSteps, UnfollowSteps, Removal
  <1>10. Shaped(new)
    BY <1>1, <1>5, <1>6, <1>8, <1>9 DEF Shaped, Rewrites, OneArtist
  <1>11. Goes(c, q, {p}) /\ KnowsTheSame(c)
    BY <1>4, <1>7, <1>8, <1>10 DEF Goes, KnowsTheSame, call
  <1>12. QED
    BY <1>2, <1>11

LEMMA ReadsAllKnownGoes ==
    ASSUME NEW c, NEW q, At(c, q), ReadsAllKnown(c, q)
    PROVE  \E more : /\ Goes(c, q, more) /\ \A p \in more : p.do = "search"
                     /\ calls[c].op = "detect" /\ calls'[c].known = knownReleases
                     /\ calls'[c].followed = calls[c].followed /\ calls'[c].news = calls[c].news
                     /\ calls'[c].rewrites = calls[c].rewrites
  <1> DEFINE call == calls[c]
             more == {Work("search", a) : a \in call.followed}
             new == [call EXCEPT !.known = knownReleases, !.stage = "search", !.pending = more]
  <1>1. q \in Piece /\ PieceShaped(call, q) /\ q.do = "readAllKnown"
        /\ knownReleases \in [Artists -> SUBSET Releases]
        /\ call \in CallRecord /\ Shaped(call)
    BY AtIs DEF ReadsAllKnown, At, TypesInv, LibraryOK
  <1>2. call.followed \subseteq Artists
    BY <1>1 DEF CallRecord
  <1>3. \A a \in call.followed : /\ Work("search", a) \in Piece /\ Work("search", a).do = "search"
                                 /\ Work("search", a).artist = a
    BY <1>2, WorkIs, StepsAre
  <1>4. more \subseteq Piece /\ \A p \in more : p.do = "search" /\ p.artist \in call.followed
    BY <1>3
  <1>5. calls' = [calls EXCEPT ![c] = new]
    BY DEF ReadsAllKnown
  <1>6. calls'[c] = new /\ calls' = [calls EXCEPT ![c] = calls'[c]]
    BY <1>5, MovedCall DEF At, TypesInv
  <1>7. call.op = "detect"
    BY <1>1 DEF PieceShaped, CallRecord, Ops, OneArtist, Takes, FollowSteps,
       UnfollowSteps, Removal, SettingsReads, SettingsSteps, VerifySteps, DismissSteps, RefreshSteps
  <1>8. call.stage = "begin" /\ InOnePiece(call)
    BY <1>1, <1>7 DEF PieceShaped, DetectReads, InOnePiece
  <1>9. call.pending = {q}
    BY <1>8, OnlyPiece
  <1> HIDE DEF more
  <1>10. /\ new \in CallRecord /\ new.op = call.op /\ new.asked = call.asked
         /\ new.failed = call.failed /\ new.pending = more /\ new.stage = "search"
         /\ new.followed = call.followed /\ new.known = knownReleases
         /\ new.news = call.news /\ new.rewrites = call.rewrites
    BY <1>1, <1>4 DEF CallRecord
  <1> HIDE DEF new, call
  <1>11. \A p \in more : PieceShaped(new, p)
    BY <1>2, <1>4, <1>7, <1>10 DEF PieceShaped, Takes, DetectReads, SearchSteps, OneArtist, ArtistSteps,
       FollowSteps, UnfollowSteps, Removal
  <1>12. Shaped(new)
    BY <1>1, <1>7, <1>10, <1>11 DEF Shaped, Rewrites, OneArtist, InOnePiece
  <1>13. Goes(c, q, more)
    BY <1>6, <1>9, <1>10, <1>12 DEF Goes, call
  <1>14. QED
    BY <1>4, <1>6, <1>7, <1>10, <1>13 DEF call

\* What a search of one artist is going to make known was known or is news.
LEMMA SearchesGoes ==
    ASSUME NEW c, NEW q, At(c, q), Searches(c, q)
    PROVE  \E more : /\ Goes(c, q, more) /\ calls[c].op = "detect" /\ q.artist \in Artists
                     /\ \A p \in more : p.do = "replaceKnown"
                           /\ p.ids \subseteq calls[c].known[q.artist] \cup calls'[c].news
                     /\ calls[c].news \subseteq calls'[c].news /\ calls'[c].known = calls[c].known
                     /\ calls'[c].followed = calls[c].followed
                     /\ calls'[c].rewrites = calls[c].rewrites
                     /\ familiar' \subseteq familiar
  <1> DEFINE call == calls[c]
             known == call.known[q.artist]
             candidates == Candidates(Found(q.artist), known, call.settings)
             news == NewAmong(candidates, known)
             pruned == Pruned(candidates, known)
             p == [Then(q, "replaceKnown") EXCEPT !.ids = candidates, !.news = news, !.pruned = pruned]
             more == IF news = {} /\ pruned = {} THEN {} ELSE {p}
             new == [call EXCEPT !.news = call.news \cup news,
                                 !.pending = (call.pending \ {q}) \cup more]
  <1>1. q \in Piece /\ PieceShaped(call, q) /\ q.do = "search" /\ Found(q.artist) \subseteq Releases
        /\ call \in CallRecord /\ Shaped(call)
    BY AtIs, FoundIsOfReleases DEF Searches, At, TypesInv
  <1>2. q.artist \in Artists
    BY <1>1 DEF PieceShaped, ArtistSteps
  <1>3. known \subseteq Releases
    BY <1>1, <1>2 DEF CallRecord
  <1>4. candidates \subseteq Found(q.artist)
    BY DEF Candidates
  <1>5. /\ candidates \subseteq Releases /\ news \subseteq candidates /\ pruned \cap candidates = {}
        /\ news \subseteq Releases /\ pruned \subseteq Releases /\ candidates \subseteq known \cup news
    BY <1>1, <1>3, <1>4 DEF NewAmong, Pruned
  <1>6. calls' = [calls EXCEPT ![c] = new]
    BY DEF Searches
  <1>7. familiar' \subseteq familiar
    BY DEF Searches, StillFamiliar
  <1>8. calls'[c] = new /\ calls' = [calls EXCEPT ![c] = calls'[c]]
    BY <1>6, MovedCall DEF At, TypesInv
  <1>9. call.op = "detect" /\ call.stage # "begin" /\ q.artist \in call.followed
    <2>1. call.op = "detect"
      BY <1>1 DEF PieceShaped, CallRecord, Ops, OneArtist, Takes, FollowSteps,
         UnfollowSteps, Removal, SettingsReads, SettingsSteps, VerifySteps, DismissSteps, RefreshSteps
    <2>2. QED
      BY <2>1, <1>1 DEF PieceShaped, DetectReads
  <1>10. Then(q, "replaceKnown") \in Piece /\ Then(q, "replaceKnown").do = "replaceKnown"
         /\ Same(Then(q, "replaceKnown"), q)
    BY <1>1, ThenIs, StepsAre
  <1> HIDE DEF candidates, news, pruned
  <1>11. p \in Piece /\ p.do = "replaceKnown" /\ p.artist = q.artist /\ p.ids = candidates
         /\ p.news = news /\ p.pruned = pruned
    BY <1>5, <1>10 DEF Piece, Same
  <1> HIDE DEF p
  <1>12. more \subseteq {p} /\ more \subseteq Piece
    BY <1>11
  <1> HIDE DEF more
  <1>13. call.news \cup news \subseteq Releases
    BY <1>1, <1>5 DEF CallRecord
  <1>14. /\ new \in CallRecord /\ new.op = call.op /\ new.asked = call.asked
         /\ new.failed = call.failed /\ new.pending = (call.pending \ {q}) \cup more
         /\ new.stage = call.stage /\ new.followed = call.followed /\ new.known = call.known
         /\ new.news = call.news \cup news /\ new.rewrites = call.rewrites
    BY <1>1, <1>12, <1>13 DEF CallRecord
  <1> HIDE DEF new, call
  <1>15. \A x \in call.pending : PieceShaped(new, x)
    <2>1. \A x \in call.pending : PieceShaped(call, x)
      BY <1>1 DEF Shaped
    <2>2. QED
      BY <2>1, <1>14 DEF PieceShaped
  <1>16. PieceShaped(new, p)
    BY <1>2, <1>5, <1>9, <1>11, <1>14 DEF PieceShaped, Takes, SearchSteps, DetectReads, OneArtist,
       UnfollowSteps, Removal
  <1>17. Shaped(new)
    BY <1>1, <1>9, <1>12, <1>14, <1>15, <1>16 DEF Shaped, Rewrites, OneArtist, InOnePiece
  <1>18. Goes(c, q, more)
    BY <1>8, <1>14, <1>17 DEF Goes, call
  <1>19. \A x \in more : x.do = "replaceKnown" /\ x.ids \subseteq known \cup calls'[c].news
    BY <1>5, <1>8, <1>11, <1>12, <1>14
  <1>20. calls[c].op = "detect" /\ calls[c].news \subseteq calls'[c].news
         /\ calls'[c].known = calls[c].known /\ calls'[c].followed = calls[c].followed
         /\ calls'[c].rewrites = calls[c].rewrites
    BY <1>8, <1>9, <1>14 DEF call
  <1>21. QED
    BY <1>2, <1>7, <1>18, <1>19, <1>20 DEF call

\* An artist that is missing is about to be removed, by a call that rewrites then.
LEMMA ReadsSummaryGoes ==
    ASSUME NEW c, NEW q, At(c, q), ReadsSummary(c, q)
    PROVE  \E more : /\ Goes(c, q, more) /\ calls[c].op # "detect"
                     /\ \A p \in more : p.do \in {"listReleases", "readToUnfollow"}
                     /\ calls[c].op = "follow" => more # {}
                     /\ calls'[c].followed = calls[c].followed /\ calls'[c].news = calls[c].news
                     /\ calls'[c].known = calls[c].known
                     /\ \/ calls'[c].rewrites = calls[c].rewrites /\ intact' = intact
                        \/ intact' = (intact /\ ~OthersRewrite(c))
  <1> DEFINE call == calls[c]
             l == Work("listReleases", q.artist)
             u == Work("readToUnfollow", q.artist)
             listed1 == IF call.op = "follow" THEN {l} ELSE {}
             new1 == [call EXCEPT !.fetched = call.fetched \cup {q.artist},
                                  !.pending = (call.pending \ {q}) \cup listed1]
             new2 == [call EXCEPT !.rewrites = TRUE, !.pending = (call.pending \ {q}) \cup {u}]
  <1>1. q \in Piece /\ PieceShaped(call, q) /\ q.do = "readSummary"
        /\ call \in CallRecord /\ Shaped(call)
    BY AtIs DEF ReadsSummary
  <1>2. q.artist \in Artists
    BY <1>1 DEF PieceShaped, ArtistSteps
  <1>3. call.op \in {"follow", "details", "refresh"}
    BY <1>1 DEF PieceShaped, CallRecord, Ops, OneArtist, Takes, FollowSteps, SearchSteps, DetectReads,
       UnfollowSteps, Removal, SettingsReads, SettingsSteps, VerifySteps, DismissSteps, RefreshSteps
  <1>4. /\ l \in Piece /\ l.do = "listReleases" /\ l.artist = q.artist /\ l.news = {} /\ l.pruned = {}
        /\ u \in Piece /\ u.do = "readToUnfollow" /\ u.artist = q.artist /\ u.news = {} /\ u.pruned = {}
    BY <1>2, WorkIs, StepsAre
  <1>5. \/ calls' = [calls EXCEPT ![c] = new1] /\ intact' = intact
        \/ calls' = [calls EXCEPT ![c] = new2] /\ intact' = (intact /\ ~OthersRewrite(c))
    BY DEF ReadsSummary
  <1> HIDE DEF l, u
  <1>6. \A x \in call.pending : PieceShaped(call, x)
    BY <1>1 DEF Shaped
  <1>7. InOnePiece(call) => call.pending = {q}
    BY OnlyPiece
  <1>8. CASE calls' = [calls EXCEPT ![c] = new1] /\ intact' = intact
    <2>1. listed1 \subseteq {l} /\ (call.op = "follow" => listed1 # {})
          /\ (call.op # "follow" => listed1 = {})
      OBVIOUS
    <2>2. calls'[c] = new1 /\ calls' = [calls EXCEPT ![c] = calls'[c]]
      BY <1>8, MovedCall DEF At, TypesInv
    <2> HIDE DEF listed1
    <2>3. /\ new1 \in CallRecord /\ new1.op = call.op /\ new1.asked = call.asked
          /\ new1.failed = call.failed /\ new1.pending = (call.pending \ {q}) \cup listed1
          /\ new1.stage = call.stage /\ new1.followed = call.followed /\ new1.known = call.known
          /\ new1.news = call.news /\ new1.rewrites = call.rewrites
      BY <1>1, <1>2, <1>4, <2>1 DEF CallRecord
    <2> HIDE DEF new1, call
    <2>4. \A x \in call.pending : PieceShaped(new1, x)
      BY <1>6, <2>3 DEF PieceShaped
    <2>5. call.op = "follow" => PieceShaped(new1, l)
      BY <1>1, <1>2, <1>4, <2>3 DEF PieceShaped, Takes, OneArtist, UnfollowSteps, Removal, FollowSteps
    <2>6. Shaped(new1)
      BY <1>1, <1>3, <1>7, <2>1, <2>3, <2>4, <2>5 DEF Shaped, InOnePiece
    <2>7. Goes(c, q, listed1)
      BY <2>2, <2>3, <2>6 DEF Goes, call
    <2>8. QED
      BY <1>3, <1>4, <1>8, <2>1, <2>2, <2>3, <2>7 DEF call
  <1>9. CASE calls' = [calls EXCEPT ![c] = new2] /\ intact' = (intact /\ ~OthersRewrite(c))
    <2>1. calls'[c] = new2 /\ calls' = [calls EXCEPT ![c] = calls'[c]]
      BY <1>9, MovedCall DEF At, TypesInv
    <2>2. /\ new2 \in CallRecord /\ new2.op = call.op /\ new2.asked = call.asked
          /\ new2.failed = call.failed /\ new2.pending = (call.pending \ {q}) \cup {u}
          /\ new2.stage = call.stage /\ new2.followed = call.followed /\ new2.known = call.known
          /\ new2.news = call.news /\ new2.rewrites = TRUE
      BY <1>1, <1>4 DEF CallRecord
    <2> HIDE DEF new2, call
    <2>3. \A x \in call.pending : PieceShaped(new2, x)
      BY <1>6, <2>2 DEF PieceShaped
    <2>4. PieceShaped(new2, u)
      BY <1>1, <1>2, <1>3, <1>4, <2>2 DEF PieceShaped, Takes, OneArtist, UnfollowSteps, Removal, FollowSteps
    <2>5. Shaped(new2)
      BY <1>1, <1>3, <1>7, <2>2, <2>3, <2>4 DEF Shaped, InOnePiece
    <2>6. Goes(c, q, {u})
      BY <2>1, <2>2, <2>5 DEF Goes, call
    <2>7. QED
      BY <1>3, <1>4, <1>9, <2>1, <2>2, <2>6 DEF call
  <1>10. QED
    BY <1>5, <1>8, <1>9

LEMMA ReadsAllEntriesGoes ==
    ASSUME NEW c, NEW q, At(c, q), ReadsAllEntries(c, q)
    PROVE  \E p : /\ Goes(c, q, {p}) /\ p.do = "removeKnown" /\ calls[c].op = "verify"
                  /\ calls'[c].rewrites = calls[c].rewrites
  <1> DEFINE call == calls[c]
             p == Then(q, "removeKnown")
             new == [call EXCEPT !.known = knownReleases, !.pending = {p}]
  <1>1. q \in Piece /\ PieceShaped(call, q) /\ q.do = "readAllEntries" /\ LibraryOK
        /\ call \in CallRecord /\ Shaped(call)
    BY AtIs DEF ReadsAllEntries, At, TypesInv
  <1>2. p \in Piece /\ p.do = "removeKnown" /\ Same(p, q)
    BY <1>1, ThenIs, StepsAre
  <1>3. calls' = [calls EXCEPT ![c] = new]
    BY DEF ReadsAllEntries
  <1>4. calls'[c] = new /\ calls' = [calls EXCEPT ![c] = calls'[c]]
    BY <1>3, MovedCall DEF At, TypesInv
  <1>5. call.op = "verify"
    BY <1>1 DEF PieceShaped, CallRecord, Ops, OneArtist, Takes, FollowSteps, SearchSteps, DetectReads,
       UnfollowSteps, Removal, SettingsReads, SettingsSteps, VerifySteps, DismissSteps, RefreshSteps
  <1>6. call.pending = {q}
    BY <1>1, <1>5, OnlyPiece DEF InOnePiece, PieceShaped, SettingsReads
  <1> HIDE DEF p
  <1>7. /\ new \in CallRecord /\ new.op = call.op /\ new.asked = call.asked
        /\ new.failed = call.failed /\ new.pending = {p} /\ new.stage = call.stage
        /\ new.rewrites = call.rewrites
    BY <1>1, <1>2 DEF CallRecord, LibraryOK
  <1> HIDE DEF new, call
  <1>8. PieceShaped(new, p)
    BY <1>1, <1>2, <1>5, <1>7 DEF PieceShaped, Takes, DetectReads, OneArtist, ArtistSteps,
       FollowSteps, UnfollowSteps, Removal, SettingsReads, SettingsSteps, VerifySteps
  <1>9. Shaped(new)
    BY <1>1, <1>5, <1>7, <1>8 DEF Shaped, Rewrites, OneArtist
  <1>10. Goes(c, q, {p})
    BY <1>4, <1>6, <1>7, <1>9 DEF Goes, call
  <1>11. QED
    BY <1>2, <1>4, <1>5, <1>7, <1>10 DEF call

LEMMA ReadsSettingsGoes ==
    ASSUME NEW c, NEW q, At(c, q), ReadsSettings(c, q)
    PROVE  \E p : /\ Goes(c, q, {p}) /\ p.do = "saveSettings" /\ calls[c].op = "settings"
                  /\ calls'[c].rewrites = calls[c].rewrites
  <1> DEFINE call == calls[c]
             p == Then(q, "saveSettings")
             new == [call EXCEPT !.settings = settings, !.pending = {p}]
  <1>1. q \in Piece /\ PieceShaped(call, q) /\ q.do = "readSettings" /\ LibraryOK
        /\ call \in CallRecord /\ Shaped(call)
    BY AtIs DEF ReadsSettings, At, TypesInv
  <1>2. p \in Piece /\ p.do = "saveSettings" /\ Same(p, q)
    BY <1>1, ThenIs, StepsAre
  <1>3. calls' = [calls EXCEPT ![c] = new]
    BY DEF ReadsSettings
  <1>4. calls'[c] = new /\ calls' = [calls EXCEPT ![c] = calls'[c]]
    BY <1>3, MovedCall DEF At, TypesInv
  <1>5. call.op = "settings"
    BY <1>1 DEF PieceShaped, CallRecord, Ops, OneArtist, Takes, FollowSteps, SearchSteps, DetectReads,
       UnfollowSteps, Removal, SettingsReads, SettingsSteps, VerifySteps, DismissSteps, RefreshSteps
  <1>6. call.pending = {q}
    BY <1>1, <1>5, OnlyPiece DEF InOnePiece, PieceShaped, SettingsReads
  <1> HIDE DEF p
  <1>7. /\ new \in CallRecord /\ new.op = call.op /\ new.asked = call.asked
        /\ new.failed = call.failed /\ new.pending = {p} /\ new.stage = call.stage
        /\ new.rewrites = call.rewrites
    BY <1>1, <1>2 DEF CallRecord, LibraryOK
  <1> HIDE DEF new, call
  <1>8. PieceShaped(new, p)
    BY <1>1, <1>2, <1>5, <1>7 DEF PieceShaped, Takes, DetectReads, OneArtist, ArtistSteps,
       FollowSteps, UnfollowSteps, Removal, SettingsReads, SettingsSteps, VerifySteps
  <1>9. Shaped(new)
    BY <1>1, <1>5, <1>7, <1>8 DEF Shaped, Rewrites, OneArtist
  <1>10. Goes(c, q, {p})
    BY <1>4, <1>6, <1>7, <1>9 DEF Goes, call
  <1>11. QED
    BY <1>2, <1>4, <1>5, <1>7, <1>10 DEF call

LEMMA SavesSettingsGoes ==
    ASSUME NEW c, NEW q, At(c, q), SavesSettings(c, q)
    PROVE  \E p : /\ Goes(c, q, {p}) /\ p.do = "readFollowed" /\ calls[c].op = "settings"
                  /\ calls'[c].rewrites = calls[c].rewrites
  <1> DEFINE call == calls[c]
             p == Then(q, "readFollowed")
             new == [call EXCEPT !.stage = "rebuild", !.pending = {p}]
  <1>1. q \in Piece /\ PieceShaped(call, q) /\ q.do = "saveSettings" /\ LibraryOK
        /\ call \in CallRecord /\ Shaped(call)
    BY AtIs DEF SavesSettings, At, TypesInv
  <1>2. p \in Piece /\ p.do = "readFollowed" /\ Same(p, q)
    BY <1>1, ThenIs, StepsAre
  <1>3. calls' = [calls EXCEPT ![c] = new]
    BY DEF SavesSettings
  <1>4. calls'[c] = new /\ calls' = [calls EXCEPT ![c] = calls'[c]]
    BY <1>3, MovedCall DEF At, TypesInv
  <1>5. call.op = "settings"
    BY <1>1 DEF PieceShaped, CallRecord, Ops, OneArtist, Takes, FollowSteps, SearchSteps, DetectReads,
       UnfollowSteps, Removal, SettingsReads, SettingsSteps, VerifySteps, DismissSteps, RefreshSteps
  <1>6. call.pending = {q}
    BY <1>1, <1>5, OnlyPiece DEF InOnePiece, PieceShaped, SettingsReads
  <1> HIDE DEF p
  <1>7. /\ new \in CallRecord /\ new.op = call.op /\ new.asked = call.asked
        /\ new.failed = call.failed /\ new.pending = {p} /\ new.stage = "rebuild"
        /\ new.rewrites = call.rewrites
    BY <1>1, <1>2 DEF CallRecord, LibraryOK
  <1> HIDE DEF new, call
  <1>8. PieceShaped(new, p)
    BY <1>1, <1>2, <1>5, <1>7 DEF PieceShaped, Takes, DetectReads, OneArtist, ArtistSteps,
       FollowSteps, UnfollowSteps, Removal, SettingsReads, SettingsSteps, VerifySteps
  <1>9. Shaped(new)
    BY <1>1, <1>5, <1>7, <1>8 DEF Shaped, Rewrites, OneArtist
  <1>10. Goes(c, q, {p})
    BY <1>4, <1>6, <1>7, <1>9 DEF Goes, call
  <1>11. QED
    BY <1>2, <1>4, <1>5, <1>7, <1>10 DEF call

\* What fails ends; a change of settings may have to be taken back.
LEMMA FailsIn ==
    ASSUME NEW c, NEW q, At(c, q), Fails(c, q)
    PROVE  /\ calls' = [calls EXCEPT ![c] = calls'[c]] /\ Shaped(calls'[c])
           /\ calls'[c].rewrites = calls[c].rewrites
  <1> DEFINE call == calls[c]
             r == Work("rollBack", q.artist)
             back == IF call.op = "settings" /\ ~call.failed /\ q.do \notin SettingsReads THEN {r} ELSE {}
             new == [call EXCEPT !.failed = TRUE, !.pending = (call.pending \ {q}) \cup back]
  <1>1. q \in Piece /\ PieceShaped(call, q) /\ call \in CallRecord /\ Shaped(call)
        /\ q \in call.pending
    BY AtIs DEF At
  <1>2. r \in Piece /\ r.do = "rollBack"
    BY <1>1, WorkIs, StepsAre DEF Piece
  <1>3. calls' = [calls EXCEPT ![c] = new]
    BY DEF Fails, SettingsReads
  <1>4. calls'[c] = new /\ calls' = [calls EXCEPT ![c] = calls'[c]]
    BY <1>3, MovedCall DEF At, TypesInv
  <1>5. back \subseteq {r} /\ (back # {} => call.op = "settings" /\ q.do \notin SettingsReads)
    OBVIOUS
  <1> HIDE DEF r, back
  <1>6. /\ new \in CallRecord /\ new.op = call.op /\ new.asked = call.asked
        /\ new.failed = TRUE /\ new.pending = (call.pending \ {q}) \cup back
        /\ new.stage = call.stage /\ new.followed = call.followed
        /\ new.news = call.news /\ new.rewrites = call.rewrites
    BY <1>1, <1>2, <1>5 DEF CallRecord
  <1> HIDE DEF new, call
  <1>7. \A x \in call.pending : PieceShaped(new, x)
    <2>1. \A x \in call.pending : PieceShaped(call, x)
      BY <1>1 DEF Shaped
    <2>2. QED
      BY <2>1, <1>6 DEF PieceShaped
  <1>8. back # {} => call.stage # "begin"
    BY <1>1, <1>5 DEF PieceShaped
  <1>9. back # {} => PieceShaped(new, r)
    BY <1>2, <1>5, <1>6, <1>8 DEF PieceShaped, Takes, OneArtist, ArtistSteps, FollowSteps,
       UnfollowSteps, Removal, SettingsReads, SettingsSteps
  <1>10. InOnePiece(new) => \A x, y \in new.pending : x = y
    <2>1. InOnePiece(call) => \A x, y \in call.pending : x = y
      BY <1>1 DEF Shaped
    <2>2. InOnePiece(new) => InOnePiece(call) /\ back = {}
      BY <1>5, <1>6, <1>8 DEF InOnePiece, OneArtist
    <2>3. QED
      BY <1>6, <2>1, <2>2
  <1>11. \A x \in new.pending : PieceShaped(new, x)
    BY <1>5, <1>6, <1>7, <1>9
  <1>12. Shaped(new)
    BY <1>1, <1>6, <1>10, <1>11 DEF Shaped
  <1>13. QED
    BY <1>4, <1>6, <1>12 DEF call

-----------------------------------------------------------------------------
(* Calls that start, go on to their next stage and return.                  *)

FirstReads == {"readSummary", "readToUnfollow", "readFollowed", "readShownToRemove",
               "checkRelease", "readSettings"}

\* What a call does first.
FirstStep(op, work, asked) ==
    /\ op \in Ops /\ work \in Piece /\ asked \subseteq Artists \cup Releases \cup Settings
    /\ Takes(op, work.do)
    /\ work.do \in ArtistSteps => work.artist \in Artists
    /\ work.do \in UnfollowSteps => op \in Rewrites
    /\ work.do \in FirstReads
    /\ op \in OneArtist => asked = {work.artist} /\ work.artist \in Artists
                           /\ work.news = {} /\ work.pruned = {}
    /\ op = "detect" => work.do \in DetectReads
    /\ op = "settings" => work.do \in SettingsReads /\ \E s \in Settings : asked = {s}

\* A call that starts knows nothing yet.
StartsWith(c) ==
    /\ calls[c] = Idle /\ calls' = [calls EXCEPT ![c] = calls'[c]] /\ Shaped(calls'[c])
    /\ ~calls'[c].failed /\ calls'[c].followed = {} /\ calls'[c].news = {}
    /\ calls'[c].known = [a \in Artists |-> {}] /\ calls'[c].pending # {}
    /\ \A q \in calls'[c].pending : q.do \notin Removal \cup NewEntries
    /\ \E w : /\ calls'[c].pending = {w} /\ w.do \in FirstReads
              /\ calls'[c].op = "settings" => w.do \in SettingsReads
    /\ intact' = (intact /\ (calls'[c].rewrites => ~OthersRewrite(c)))

LEMMA StartedCall ==
    ASSUME CallsOK, NEW c \in Callers, NEW op, NEW work, NEW asked, FirstStep(op, work, asked),
           Start(c, op, work, asked)
    PROVE  StartsWith(c)
  <1> DEFINE new == [op |-> op, asked |-> asked, pending |-> {work}, stage |-> "begin",
                     failed |-> FALSE, followed |-> {}, settings |-> "all",
                     known |-> [a \in Artists |-> {}], news |-> {}, fetched |-> {},
                     rewrites |-> op \in Rewrites]
  <1>1. /\ calls[c] = Idle /\ calls' = [calls EXCEPT ![c] = new]
        /\ intact' = (intact /\ (op \in Rewrites => ~OthersRewrite(c)))
    BY DEF Start
  <1> HIDE DEF new
  <1>2. calls'[c] = new /\ calls' = [calls EXCEPT ![c] = calls'[c]]
    BY <1>1, MovedCall
  <1>3. /\ new \in CallRecord /\ new.op = op /\ new.asked = asked /\ new.pending = {work}
        /\ new.stage = "begin" /\ new.failed = FALSE /\ new.followed = {} /\ new.news = {}
        /\ new.known = [a \in Artists |-> {}] /\ new.rewrites = (op \in Rewrites)
    BY DEF CallRecord, FirstStep, Settings, new
  <1>4. PieceShaped(new, work)
    BY <1>3 DEF PieceShaped, FirstStep, FirstReads
  <1>5. op \in OneArtist => \E a \in Artists : asked = {a}
    BY DEF FirstStep
  <1>6. op = "settings" => \E s \in Settings : asked = {s}
    BY DEF FirstStep
  <1>7. Shaped(new)
    BY <1>3, <1>4, <1>5, <1>6 DEF Shaped
  <1>8. QED
    <2>1. work.do \notin Removal \cup NewEntries /\ work.do \in FirstReads
          /\ (op = "settings" => work.do \in SettingsReads)
      BY DEF FirstStep, FirstReads, Removal, NewEntries
    <2>2. QED
      BY <1>1, <1>2, <1>3, <1>7, <2>1 DEF StartsWith

LEMMA StartsIs ==
    ASSUME TypesInv, NEW c \in Callers, Starts(c)
    PROVE  /\ StartsWith(c)
           /\ UNCHANGED <<library, world, familiar, heard, dismissed, wanted, listed, failures, changes>>
           /\ overlaps' \in 0..MaxOverlaps
  <1>1. PICK op, work, asked : FirstStep(op, work, asked) /\ Start(c, op, work, asked)
    <2>1. \A do \in Steps : \A a \in Artists \cup {None} : Work(do, a) \in Piece /\ Work(do, a).do = do
             /\ Work(do, a).artist = a /\ Work(do, a).news = {} /\ Work(do, a).pruned = {}
      BY WorkIs
    <2>2. ASSUME NEW a \in Artists, NEW op \in {"follow", "details"}
          PROVE  FirstStep(op, Work("readSummary", a), {a})
      BY <2>1, StepsAre DEF FirstStep, Ops, OneArtist, Takes, UnfollowSteps, Removal, FirstReads, Rewrites
    <2>3. ASSUME NEW a \in Artists
          PROVE  FirstStep("unfollow", Work("readToUnfollow", a), {a})
      BY <2>1, StepsAre DEF FirstStep, Ops, OneArtist, Takes, UnfollowSteps, Removal, FirstReads, Rewrites
    <2>4. ASSUME NEW op \in {"detect", "refresh"}
          PROVE  FirstStep(op, Work("readFollowed", None), {})
      BY <2>1, StepsAre DEF FirstStep, Ops, OneArtist, Takes, UnfollowSteps, Removal, FirstReads, Rewrites,
         ArtistSteps, FollowSteps, DetectReads, RefreshSteps
    <2>5. ASSUME NEW ids \in SUBSET newReleases
          PROVE  FirstStep("dismiss", [Work("readShownToRemove", None) EXCEPT !.pruned = ids], ids)
      <3> DEFINE w == [Work("readShownToRemove", None) EXCEPT !.pruned = ids]
      <3>1. ids \subseteq Releases
        BY DEF TypesInv, LibraryOK
      <3>2. w \in Piece /\ w.do = "readShownToRemove"
        BY <2>1, <3>1, StepsAre DEF Piece
      <3> HIDE DEF w
      <3>3. FirstStep("dismiss", w, ids)
        BY <3>1, <3>2 DEF FirstStep, Ops, OneArtist, Takes, UnfollowSteps, Removal, FirstReads, Rewrites,
           ArtistSteps, FollowSteps, DismissSteps
      <3>4. QED
        BY <3>3 DEF w
    <2>6. ASSUME NEW r \in Releases
          PROVE  FirstStep("verify", Work("checkRelease", None), {r})
      BY <2>1, StepsAre DEF FirstStep, Ops, OneArtist, Takes, UnfollowSteps, Removal, FirstReads, Rewrites,
         ArtistSteps, FollowSteps, VerifySteps
    <2>7. ASSUME NEW s \in Settings
          PROVE  FirstStep("settings", Work("readSettings", None), {s})
      BY <2>1, StepsAre DEF FirstStep, Ops, OneArtist, Takes, UnfollowSteps, Removal, FirstReads, Rewrites,
         ArtistSteps, FollowSteps, SettingsReads
    <2> USE DEF Starts
    <2>8. \/ \E a \in Artists : \/ Start(c, "follow", Work("readSummary", a), {a})
                                \/ Start(c, "unfollow", Work("readToUnfollow", a), {a})
                                \/ Start(c, "details", Work("readSummary", a), {a})
          \/ Start(c, "detect", Work("readFollowed", None), {})
          \/ Start(c, "refresh", Work("readFollowed", None), {})
          \/ \E ids \in SUBSET newReleases :
                Start(c, "dismiss", [Work("readShownToRemove", None) EXCEPT !.pruned = ids], ids)
          \/ \E r \in Releases : Start(c, "verify", Work("checkRelease", None), {r})
          \/ \E s \in Settings : Start(c, "settings", Work("readSettings", None), {s})
      OBVIOUS
    <2>9. QED
      BY <2>2, <2>3, <2>4, <2>5, <2>6, <2>7, <2>8
  <1>2. StartsWith(c)
    BY <1>1, StartedCall DEF TypesInv
  <1>3. /\ UNCHANGED <<library, world, familiar, heard, dismissed, wanted, listed, failures, changes>>
        /\ overlaps' <= MaxOverlaps
        /\ overlaps' = overlaps + (IF \E x \in Callers : calls[x] # Idle THEN 1 ELSE 0)
    BY <1>1 DEF Start
  <1>4. overlaps' \in 0..MaxOverlaps
    BY <1>3, BoundsAssumption DEF TypesInv, CountersOK
  <1>5. QED
    BY <1>2, <1>3, <1>4

\* The next stage of a call whose pieces are done.
LEMMA GoesOnIs ==
    ASSUME TypesInv, NEW c \in Callers, GoesOn(c)
    PROVE  /\ calls[c] # Idle /\ calls[c].pending = {} /\ calls[c].op # "follow"
           /\ calls' = [calls EXCEPT ![c] = calls'[c]] /\ Shaped(calls'[c])
           /\ calls'[c].op = calls[c].op /\ calls'[c].failed = calls[c].failed
           /\ calls'[c].followed = calls[c].followed /\ calls'[c].known = calls[c].known
           /\ calls'[c].news = calls[c].news /\ calls'[c].rewrites = calls[c].rewrites
           /\ \A q \in calls'[c].pending : q.do \notin Removal \cup NewEntries
           /\ OnlyReads
  <1> DEFINE call == calls[c]
  <1>1. PICK stage, work :
           /\ NextStage(c, stage, work)
           /\ \/ HasNews(c) /\ stage = "merge" /\ work = Merges(c)
              \/ HasLookedUp(c) /\ stage = "save" /\ work = {Work("readToRefresh", None)}
              \/ HasRebuilt(c) /\ stage = "remove" /\ work = {Work("readOutside", None)}
    BY DEF GoesOn
  <1>2. /\ call.pending = {} /\ call.op \in {"detect", "refresh", "settings"} /\ ~call.failed
        /\ HasNews(c) => call.op = "detect"
        /\ HasLookedUp(c) => call.op = "refresh"
        /\ HasRebuilt(c) => call.op = "settings"
    BY <1>1 DEF HasNews, HasLookedUp, HasRebuilt, IsDone
  <1>3. call \in CallRecord /\ Shaped(call) /\ call # Idle
    BY <1>2, IdleIsNoCall DEF TypesInv, CallsOK
  <1>4. call.op = "detect" => \A p \in Merges(c) :
           /\ p \in Piece /\ p.do = "mergeKnown" /\ p.artist \in call.followed
           /\ p.ids \subseteq call.news /\ p.artist \in Artists
    <2>1. call.followed \subseteq Artists /\ call.news \subseteq Releases
      BY <1>3 DEF CallRecord
    <2>2. ASSUME NEW a \in call.followed
          PROVE  LET p == [Work("mergeKnown", a) EXCEPT !.ids = calls[c].news \cap ReleasesBy(a)]
                 IN /\ p \in Piece /\ p.do = "mergeKnown" /\ p.artist = a /\ p.ids \subseteq call.news
      <3>1. Work("mergeKnown", a) \in Piece /\ Work("mergeKnown", a).do = "mergeKnown"
            /\ Work("mergeKnown", a).artist = a
        BY <2>1, WorkIs, StepsAre
      <3>2. call.news \cap ReleasesBy(a) \subseteq Releases
        BY <2>1
      <3>3. QED
        BY <3>1, <3>2 DEF Piece
    <2>3. ASSUME NEW p \in Merges(c)
          PROVE  /\ p \in Piece /\ p.do = "mergeKnown" /\ p.artist \in call.followed
                 /\ p.ids \subseteq call.news /\ p.artist \in Artists
      <3>1. PICK a \in call.followed :
               p = [Work("mergeKnown", a) EXCEPT !.ids = calls[c].news \cap ReleasesBy(a)]
        BY <2>3 DEF Merges
      <3>2. QED
        BY <2>1, <2>2, <3>1
    <2>4. QED
      BY <2>3
  <1>5. /\ Work("readToRefresh", None) \in Piece /\ Work("readToRefresh", None).do = "readToRefresh"
        /\ Work("readOutside", None) \in Piece /\ Work("readOutside", None).do = "readOutside"
    BY WorkIs, StepsAre
  <1>6. /\ work \subseteq Piece /\ stage \in {"merge", "save", "remove"}
        /\ call.op = "detect" => stage = "merge" /\ \A p \in work : p.do = "mergeKnown"
              /\ p.artist \in call.followed /\ p.ids \subseteq call.news /\ p.artist \in Artists
        /\ call.op = "refresh" => \A p \in work : p.do = "readToRefresh"
        /\ call.op = "settings" => \A p \in work : p.do = "readOutside"
    BY <1>1, <1>2, <1>4, <1>5
  <1> DEFINE new == [call EXCEPT !.stage = stage, !.pending = work]
  <1>7. calls' = [calls EXCEPT ![c] = new]
    BY <1>1 DEF NextStage
  <1>8. calls'[c] = new /\ calls' = [calls EXCEPT ![c] = calls'[c]]
    BY <1>7, MovedCall DEF TypesInv
  <1>9. /\ new \in CallRecord /\ new.op = call.op /\ new.asked = call.asked
        /\ new.failed = call.failed /\ new.pending = work /\ new.stage = stage
        /\ new.followed = call.followed /\ new.known = call.known
        /\ new.news = call.news /\ new.rewrites = call.rewrites
    BY <1>3, <1>6 DEF CallRecord
  <1> HIDE DEF new, call
  <1>10. \A p \in work : PieceShaped(new, p)
    BY <1>2, <1>6, <1>9 DEF PieceShaped, Takes, OneArtist, UnfollowSteps, FollowSteps, Removal,
       DetectReads, SettingsReads, SettingsSteps, RefreshSteps, ArtistSteps
  <1>11. ~InOnePiece(new)
    BY <1>2, <1>6, <1>9 DEF InOnePiece, OneArtist
  <1>12. Shaped(new)
    BY <1>3, <1>2, <1>6, <1>9, <1>10, <1>11 DEF Shaped, OneArtist
  <1>13. \A p \in work : p.do \notin Removal \cup NewEntries
    BY <1>2, <1>6 DEF Removal, NewEntries
  <1>14. OnlyReads
    BY <1>1 DEF NextStage
  <1>15. QED
    BY <1>2, <1>3, <1>8, <1>9, <1>12, <1>13, <1>14 DEF call

-----------------------------------------------------------------------------
(* The invariant and a step of one caller, on tables.                       *)

LEMMA CallsKept ==
    ASSUME CallsOK, NEW c \in Callers, calls' = [calls EXCEPT ![c] = calls'[c]],
           calls'[c] = Idle \/ Shaped(calls'[c])
    PROVE  CallsOK'
  <1>1. calls'[c] \in CallRecord \cup {Idle}
    BY DEF Shaped
  <1>2. calls' \in [Callers -> CallRecord \cup {Idle}] /\ \A x \in Callers : x # c => calls'[x] = calls[x]
    BY <1>1 DEF CallsOK
  <1>3. QED
    BY <1>2 DEF CallsOK

LEMMA OneRewriterKept ==
    ASSUME CallsOK, NEW c \in Callers, calls' = [calls EXCEPT ![c] = calls'[c]],
           OneRewriter(calls),
           Rewriting(calls'[c]) => Rewriting(calls[c]) \/ ~OthersRewrite(c)
    PROVE  OneRewriter(calls')
  <1>1. \A x \in Callers : x # c => calls'[x] = calls[x]
    BY DEF CallsOK
  <1>2. \A x \in Callers \ {c} : Rewriting(calls[x]) => OthersRewrite(c)
    BY DEF Rewriting, OthersRewrite
  <1>3. QED
    BY <1>1, <1>2 DEF OneRewriter

LEMMA FollowKept ==
    ASSUME CallsOK, NEW c \in Callers, calls' = [calls EXCEPT ![c] = calls'[c]],
           NEW F, NEW W, FollowInv(F, W, calls),
           \A a \in Artists : /\ Removing(calls'[c], a) <=> Removing(calls[c], a)
                              /\ Adding(calls'[c], a) <=> Adding(calls[c], a),
           calls'[c].op = "detect" => calls'[c].followed \subseteq F,
           calls'[c].op = "settings" => \A q \in calls'[c].pending :
               q.do \in {"rebuild", "replaceRebuilt"} => q.artist \in F
    PROVE  FollowInv(F, W, calls')
  <1>1. \A x \in Callers : x # c => calls'[x] = calls[x]
    BY DEF CallsOK
  <1>2. \A x \in Callers : \A a \in Artists :
           /\ Removing(calls'[x], a) <=> Removing(calls[x], a)
           /\ Adding(calls'[x], a) <=> Adding(calls[x], a)
    BY <1>1
  <1>3. \A a \in Artists : a \in F <=> \/ a \in W /\ \A x \in Callers : ~Removing(calls'[x], a)
                                       \/ \E x \in Callers : Adding(calls'[x], a)
    BY <1>2 DEF FollowInv
  <1>4. QED
    BY <1>1, <1>3 DEF FollowInv

LEMMA HeardKept ==
    ASSUME CallsOK, NEW c \in Callers, calls' = [calls EXCEPT ![c] = calls'[c]],
           NEW K, NEW K2, NEW H, NEW H2, HeardInv(K, H, calls), H \subseteq H2,
           HearsOf(calls'[c], H2),
           \A r \in ToTell(calls[c]) : r \in H2 \cup ToTell(calls'[c]),
           \A a \in Artists : \A r \in K2[a] : r \in K[a] \/ r \in H2 \/ r \in ToTell(calls'[c])
    PROVE  HeardInv(K2, H2, calls')
  <1>1. \A x \in Callers : x # c => calls'[x] = calls[x]
    BY DEF CallsOK
  <1>2. \A x \in Callers : HearsOf(calls[x], H) => HearsOf(calls[x], H2)
    BY DEF HearsOf
  <1>3. \A x \in Callers : HearsOf(calls'[x], H2)
    BY <1>1, <1>2 DEF HeardInv
  <1>4. ASSUME NEW a \in Artists, NEW r \in K2[a]
        PROVE  r \in H2 \/ \E x \in Callers : r \in ToTell(calls'[x])
    <2>1. CASE r \in K[a]
      <3>1. r \in H \/ \E x \in Callers : r \in ToTell(calls[x])
        BY <2>1 DEF HeardInv
      <3>2. QED
        BY <3>1, <1>1
    <2>2. CASE r \in H2 \/ r \in ToTell(calls'[c])
      BY <2>2
    <2>3. QED
      BY <2>1, <2>2
  <1>5. QED
    BY <1>3, <1>4 DEF HeardInv

\* A piece that is done and followed by others removes and adds what it did before.
LEMMA GoesTheSame ==
    ASSUME NEW c, NEW q, At(c, q), NEW more, Goes(c, q, more),
           \A a : (\E p \in more : p.do \in Removal /\ p.artist = a)
                    <=> (q.do \in Removal /\ q.artist = a),
           calls[c].op = "follow" => more # {}
    PROVE  \A a \in Artists : /\ Removing(calls'[c], a) <=> Removing(calls[c], a)
                              /\ Adding(calls'[c], a) <=> Adding(calls[c], a)
  <1>1. calls[c] # Idle /\ calls'[c] # Idle /\ q \in calls[c].pending
    BY IdleIsNoCall DEF At, Goes, Shaped
  <1>2. calls'[c].pending = (calls[c].pending \ {q}) \cup more /\ calls'[c].op = calls[c].op
    BY DEF Goes
  <1>3. \A a \in Artists : Removing(calls'[c], a) <=> Removing(calls[c], a)
    BY <1>1, <1>2 DEF Removing
  <1>4. \A a \in Artists : Adding(calls'[c], a) <=> Adding(calls[c], a)
    BY <1>1, <1>2 DEF Adding
  <1>5. QED
    BY <1>3, <1>4

\* A call that looks on is one that hears of nothing new.
LEMMA HearsTheSame ==
    ASSUME NEW c, NEW q, At(c, q), NEW more, Goes(c, q, more), NEW H, NEW H2, H \subseteq H2,
           HearsOf(calls[c], H),
           calls[c].op = "detect" => calls'[c].news = calls[c].news /\ calls'[c].known = calls[c].known,
           \A p \in more : p.do \in {"replaceKnown", "replaceRebuilt"} =>
               p.ids \subseteq H2 \cup ToTell(calls[c])
    PROVE  HearsOf(calls'[c], H2) /\ ToTell(calls'[c]) = ToTell(calls[c])
  <1>1. calls[c] # Idle /\ calls'[c].op = calls[c].op
        /\ calls'[c].pending = (calls[c].pending \ {q}) \cup more
    BY DEF At, Goes
  <1>2. ToTell(calls'[c]) = ToTell(calls[c])
    BY <1>1 DEF ToTell
  <1>3. QED
    BY <1>1, <1>2 DEF HearsOf

\* A read changes nothing but what the call knows.
LEMMA ReadsChangeNothing ==
    ASSUME NEW c, NEW q,
           \/ ReadsToFollow(c, q) \/ ReadsToUnfollow(c, q) \/ ReadsShownToUnfollow(c, q)
           \/ ReadsKnownToUnfollow(c, q) \/ ReadsShown(c, q) \/ ReadsKnown(c, q)
           \/ ReadsShownToRemove(c, q) \/ ReadsFollowed(c, q) \/ ReadsDetectSettings(c, q)
           \/ ReadsAllKnown(c, q) \/ ReadsToRefresh(c, q) \/ ChecksRelease(c, q)
           \/ ReadsAllEntries(c, q) \/ ReadsShownToVerify(c, q) \/ ReadsSettings(c, q)
           \/ ReadsOutside(c, q)
    PROVE  OnlyReads
  BY DEF ReadsToFollow, ReadsToUnfollow, ReadsShownToUnfollow, ReadsKnownToUnfollow, ReadsShown,
     ReadsKnown, ReadsShownToRemove, ReadsFollowed, ReadsDetectSettings, ReadsAllKnown, ReadsToRefresh,
     ChecksRelease, ReadsAllEntries, ReadsShownToVerify, ReadsSettings, ReadsOutside

-----------------------------------------------------------------------------
(* Every answer.                                                            *)

LEMMA AnsweredIs ==
    ASSUME NEW c, NEW q, Answered(c, q)
    PROVE  \/ PlainAnswer(c, q)
           \/ WritesFollow(c, q) \/ ReadsToUnfollow(c, q) \/ WritesUnfollow(c, q) \/ DeletesKnown(c, q)
           \/ ListsReleases(c, q) \/ ListsToRebuild(c, q) \/ ReadsFollowed(c, q)
           \/ ReadsDetectSettings(c, q) \/ ReadsAllKnown(c, q) \/ Searches(c, q) \/ ReadsSummary(c, q)
           \/ ReadsAllEntries(c, q) \/ ReadsSettings(c, q) \/ SavesSettings(c, q) \/ Fails(c, q)
  BY DEF Answered, PlainAnswer

\* An answer keeps the call in shape; if it makes it rewrite, no other call does.
LEMMA AnsweredMoves ==
    ASSUME NEW c, NEW q, At(c, q), Answered(c, q)
    PROVE  /\ calls' = [calls EXCEPT ![c] = calls'[c]] /\ Shaped(calls'[c])
           /\ \/ calls'[c].rewrites = calls[c].rewrites
              \/ ReadsSummary(c, q) /\ (intact' => ~OthersRewrite(c))
           /\ ~Fails(c, q) => calls'[c].failed = calls[c].failed
  <1>1. CASE PlainAnswer(c, q)
    BY <1>1, PlainAnswerIs DEF Plain, Goes, KnowsTheSame
  <1>2. CASE WritesFollow(c, q)
    BY <1>2, WritesFollowGoes DEF Goes, KnowsTheSame
  <1>3. CASE ReadsToUnfollow(c, q)
    BY <1>3, ReadsToUnfollowGoes DEF Goes, KnowsTheSame
  <1>4. CASE WritesUnfollow(c, q)
    BY <1>4, WritesUnfollowGoes DEF Goes, KnowsTheSame
  <1>5. CASE DeletesKnown(c, q)
    BY <1>5, DeletesKnownGoes DEF Goes, KnowsTheSame
  <1>6. CASE ListsReleases(c, q)
    BY <1>6, ListsReleasesGoes DEF Goes, KnowsTheSame
  <1>7. CASE ListsToRebuild(c, q)
    BY <1>7, ListsToRebuildGoes DEF Goes, KnowsTheSame
  <1>8. CASE ReadsFollowed(c, q)
    BY <1>8, ReadsFollowedGoes, ReadsFollowedToDetect DEF Goes, KnowsTheSame
  <1>9. CASE ReadsDetectSettings(c, q)
    BY <1>9, ReadsDetectSettingsGoes DEF Goes, KnowsTheSame
  <1>10. CASE ReadsAllKnown(c, q)
    BY <1>10, ReadsAllKnownGoes DEF Goes
  <1>11. CASE Searches(c, q)
    BY <1>11, SearchesGoes DEF Goes
  <1>12. CASE ReadsSummary(c, q)
    BY <1>12, ReadsSummaryGoes DEF Goes
  <1>13. CASE ReadsAllEntries(c, q)
    BY <1>13, ReadsAllEntriesGoes DEF Goes
  <1>14. CASE ReadsSettings(c, q)
    BY <1>14, ReadsSettingsGoes DEF Goes
  <1>15. CASE SavesSettings(c, q)
    BY <1>15, SavesSettingsGoes DEF Goes
  <1>16. CASE Fails(c, q)
    BY <1>16, FailsIn
  <1>17. QED
    BY <1>1, <1>2, <1>3, <1>4, <1>5, <1>6, <1>7, <1>8, <1>9, <1>10, <1>11, <1>12, <1>13, <1>14,
       <1>15, <1>16, AnsweredIs

\* What the library, the world and the histories hold stays what it is.
LEMMA AnsweredTypes ==
    ASSUME NEW c, NEW q, At(c, q), Answered(c, q)
    PROVE  TypesInv'
  <1>1. CallsOK'
    BY AnsweredMoves, CallsKept DEF At, TypesInv
  <1>2. /\ q \in Piece /\ PieceShaped(calls[c], q) /\ calls[c] \in CallRecord /\ Shaped(calls[c])
        /\ LibraryOK /\ WorldOK /\ HistoryOK /\ CountersOK
    BY AtIs DEF At, TypesInv
  <1> DEFINE Others == LibraryOK' /\ WorldOK' /\ HistoryOK' /\ CountersOK'
  <1>3. /\ q.read \subseteq Artists /\ q.shown \subseteq Releases /\ q.found \subseteq Releases
        /\ q.ids \subseteq Releases /\ q.news \subseteq Releases /\ q.pruned \subseteq Releases
        /\ q.artist \in Artists \cup {None}
    BY <1>2 DEF Piece
  <1>4. q.do \in ArtistSteps => q.artist \in Artists
    BY <1>2 DEF PieceShaped
  <1>5. ASSUME OnlyReads PROVE Others
    BY <1>2, <1>5 DEF OnlyReads, library, world, history, counters, LibraryOK, WorldOK, HistoryOK, CountersOK
  <1>6. CASE ReplacesKnown(c, q)
    <2>1. Acquainted(q) \subseteq Releases
      BY <1>2, <1>3 DEF Acquainted, HistoryOK
    <2>2. QED
      BY <1>1, <1>2, <1>3, <1>6, <2>1 DEF ReplacesKnown, world, counters, LibraryOK, WorldOK,
         HistoryOK, CountersOK, TypesInv
  <1>7. CASE WritesFollow(c, q)
    <2>1. q.artist \in Artists
      BY <1>4, <1>7 DEF WritesFollow, ArtistSteps, FollowSteps
    <2>2. QED
      BY <1>1, <1>2, <1>3, <1>7, <2>1 DEF WritesFollow, WriteFollowing, world, counters, LibraryOK, WorldOK,
         HistoryOK, CountersOK, TypesInv
  <1>8. CASE StoresNews(c, q)
    BY <1>1, <1>2, <1>3, <1>8 DEF StoresNews, world, counters, LibraryOK, WorldOK,
       HistoryOK, CountersOK, TypesInv
  <1>9. CASE WritesUnfollow(c, q)
    BY <1>1, <1>2, <1>3, <1>9 DEF WritesUnfollow, WriteFollowing, world, counters, LibraryOK, WorldOK,
       HistoryOK, CountersOK, TypesInv
  <1>10. CASE DeletesKnown(c, q)
    BY <1>1, <1>2, <1>3, <1>10 DEF DeletesKnown, world, counters, LibraryOK, WorldOK,
       HistoryOK, CountersOK, TypesInv
  <1>11. CASE WritesShown(c, q)
    BY <1>1, <1>2, <1>3, <1>11 DEF WritesShown, WriteNewReleases, world, counters, LibraryOK, WorldOK,
       HistoryOK, CountersOK, TypesInv
  <1>12. CASE Searches(c, q)
    <2>1. familiar' \subseteq familiar
      BY <1>12, SearchesGoes
    <2>2. UNCHANGED <<library, world, counters, heard, dismissed, wanted, intact, listed>>
      BY <1>12 DEF Searches
    <2>3. QED
      BY <1>1, <1>2, <2>1, <2>2 DEF library, world, counters, LibraryOK, WorldOK,
         HistoryOK, CountersOK, TypesInv
  <1>13. CASE MergesKnown(c, q)
    <2>1. q.artist \in Artists
      BY <1>4, <1>13 DEF MergesKnown, ArtistSteps
    <2>2. knownReleases' \in [Artists -> SUBSET Releases]
      BY <1>2, <1>3, <1>13, <2>1 DEF MergesKnown, LibraryOK
    <2>3. QED
      BY <1>1, <1>2, <1>13, <2>2 DEF MergesKnown, world, history, counters, LibraryOK, WorldOK,
         HistoryOK, CountersOK, TypesInv
  <1>14. CASE ReadsSummary(c, q)
    <2>1. intact' \in BOOLEAN
      BY <1>2, <1>14, ReadsSummaryGoes DEF HistoryOK
    <2>2. UNCHANGED <<library, world, counters, familiar, heard, dismissed, wanted, listed>>
      BY <1>14 DEF ReadsSummary
    <2>3. QED
      BY <1>1, <1>2, <2>1, <2>2 DEF library, world, counters, LibraryOK, WorldOK, HistoryOK, CountersOK, TypesInv
  <1>15. CASE ListsReleases(c, q)
    <2>1. Found(q.artist) \subseteq Releases
      BY <1>2, FoundIsOfReleases
    <2>2. listed' \in BOOLEAN /\ failures' \in 0..MaxFailures
      <3>1. \E ids \in SUBSET Found(q.artist) :
               \/ listed' = (listed /\ NothingVanished(q.artist, ids)) /\ failures' = failures
               \/ listed' = FALSE /\ failures < MaxFailures /\ failures' = failures + 1
        BY <1>15 DEF ListsReleases
      <3>2. listed' \in BOOLEAN
        BY <3>1
      <3>3. failures' = failures \/ (failures < MaxFailures /\ failures' = failures + 1)
        BY <3>1
      <3>4. failures' \in 0..MaxFailures
        BY <1>2, <3>3, BoundsAssumption DEF CountersOK
      <3>5. QED
        BY <3>2, <3>4
    <2>3. heard' = heard \cup Found(q.artist)
          /\ UNCHANGED <<library, world, familiar, dismissed, wanted, intact, overlaps, changes>>
      BY <1>15 DEF ListsReleases
    <2>4. QED
      BY <1>1, <1>2, <2>1, <2>2, <2>3 DEF library, world, LibraryOK, WorldOK, HistoryOK, CountersOK, TypesInv
  <1>16. CASE WritesRefresh(c, q)
    BY <1>1, <1>2, <1>3, <1>16 DEF WritesRefresh, WriteFollowing, Refreshed, world, counters, LibraryOK,
       WorldOK, HistoryOK, CountersOK, TypesInv
  <1>17. CASE RemovesKnown(c, q)
    BY <1>1, <1>2, <1>17 DEF RemovesKnown, world, counters, LibraryOK,
       WorldOK, HistoryOK, CountersOK, TypesInv
  <1>18. CASE SavesSettings(c, q)
    <2>1. PICK s \in Settings : calls[c].asked = {s}
      BY <1>2, <1>18, SavesSettingsGoes DEF Shaped
    <2>2. settings' \in Settings
      BY <1>18, <2>1 DEF SavesSettings
    <2>3. QED
      BY <1>1, <1>2, <1>18, <2>2 DEF SavesSettings, world, history, counters, LibraryOK,
         WorldOK, HistoryOK, CountersOK, TypesInv
  <1>19. CASE ListsToRebuild(c, q)
    <2>1. PICK s \in calls[c].asked : heard' = heard \cup (Found(q.artist) \cap Matches(s))
      BY <1>19 DEF ListsToRebuild
    <2>2. Found(q.artist) \subseteq Releases
      BY <1>2, FoundIsOfReleases
    <2>3. /\ listed' = (listed /\ NothingVanished(q.artist, catalog))
          /\ UNCHANGED <<library, world, counters, familiar, dismissed, wanted, intact>>
      BY <1>19 DEF ListsToRebuild
    <2>4. QED
      BY <1>1, <1>2, <2>1, <2>2, <2>3 DEF library, world, counters, LibraryOK, WorldOK, HistoryOK, CountersOK, TypesInv
  <1>20. CASE ReplacesRebuilt(c, q)
    <2>1. Acquainted(q) \subseteq Releases
      BY <1>2, <1>3 DEF Acquainted, HistoryOK
    <2>2. QED
      BY <1>1, <1>2, <1>3, <1>20, <2>1 DEF ReplacesRebuilt, world, counters, LibraryOK, WorldOK,
         HistoryOK, CountersOK, TypesInv
  <1>21. CASE RollsBack(c, q)
    <2>1. calls[c].settings \in Settings
      BY <1>2 DEF CallRecord
    <2>2. QED
      BY <1>1, <1>2, <1>21, <2>1 DEF RollsBack, world, history, counters, LibraryOK, WorldOK,
         HistoryOK, CountersOK, TypesInv
  <1>22. CASE Fails(c, q)
    <2>1. failures' \in 0..MaxFailures
      BY <1>2, <1>22, BoundsAssumption DEF Fails, CountersOK
    <2>2. /\ intact' = (intact /\ calls[c].op # "settings")
          /\ UNCHANGED <<library, world, familiar, heard, dismissed, wanted, listed, overlaps, changes>>
      BY <1>22 DEF Fails
    <2>3. QED
      BY <1>1, <1>2, <2>1, <2>2 DEF library, world, LibraryOK, WorldOK, HistoryOK, CountersOK, TypesInv
  <1>23. ASSUME ~ReplacesKnown(c, q), ~WritesFollow(c, q), ~StoresNews(c, q), ~WritesUnfollow(c, q),
                ~DeletesKnown(c, q), ~WritesShown(c, q), ~Searches(c, q), ~MergesKnown(c, q),
                ~ReadsSummary(c, q), ~ListsReleases(c, q), ~WritesRefresh(c, q), ~RemovesKnown(c, q),
                ~SavesSettings(c, q), ~ListsToRebuild(c, q), ~ReplacesRebuilt(c, q), ~RollsBack(c, q),
                ~Fails(c, q)
         PROVE  OnlyReads
    BY <1>23, ReadsChangeNothing DEF Answered
  <1>24. QED
    BY <1>1, <1>5, <1>6, <1>7, <1>8, <1>9, <1>10, <1>11, <1>12, <1>13, <1>14, <1>15, <1>16, <1>17,
       <1>18, <1>19, <1>20, <1>21, <1>22, <1>23 DEF TypesInv

\* What no answer undoes, and who alone changes the list, the settings and the catalogue.
LEMMA AnsweredLeaves ==
    ASSUME NEW c, NEW q, Answered(c, q)
    PROVE  /\ intact' => intact
           /\ listed' => listed
           /\ ~WritesShown(c, q) => newReleases \subseteq newReleases'
           /\ ~StoresNews(c, q) /\ ~WritesShown(c, q) => UNCHANGED <<dismissed, newReleases>>
           /\ q.do \notin {"saveSettings", "rollBack"} => settings' = settings
           /\ old' = old
           /\ ~Fails(c, q) /\ ~ListsReleases(c, q) => failures' = failures
  <1> USE DEF Answered, ReplacesKnown, ReadsToFollow, WritesFollow, StoresNews, ReadsToUnfollow,
     WritesUnfollow, ReadsShownToUnfollow, ReadsKnownToUnfollow, DeletesKnown, WritesShown,
     ReadsShown, ReadsKnown, ReadsShownToRemove, ReadsFollowed, ReadsDetectSettings,
     ReadsAllKnown, Searches, MergesKnown, ReadsSummary, ListsReleases, ReadsToRefresh,
     WritesRefresh, ChecksRelease, ReadsAllEntries, RemovesKnown, ReadsShownToVerify,
     ReadsSettings, SavesSettings, ListsToRebuild, ReplacesRebuilt, ReadsOutside, RollsBack, Fails,
     OnlyReads,
     library, history, world, counters, WriteFollowing, WriteNewReleases
  <1>1. intact' => intact
    OBVIOUS
  <1>2. listed' => listed
    OBVIOUS
  <1>3. ~WritesShown(c, q) => newReleases \subseteq newReleases'
    OBVIOUS
  <1>4. ~StoresNews(c, q) /\ ~WritesShown(c, q) => UNCHANGED <<dismissed, newReleases>>
    OBVIOUS
  <1>5. q.do \notin {"saveSettings", "rollBack"} => settings' = settings
    OBVIOUS
  <1>6. old' = old
    OBVIOUS
  <1>7. ~Fails(c, q) /\ ~ListsReleases(c, q) => failures' = failures
    OBVIOUS
  <1>8. QED
    BY ONLY <1>1, <1>2, <1>3, <1>4, <1>5, <1>6, <1>7

\* Only a search puts releases on the list, and what it stores is dismissed no longer.
LEMMA DismissedStaysOff ==
    ASSUME NEW c, NEW q, At(c, q), Answered(c, q), dismissed \cap newReleases = {}, intact'
    PROVE  (dismissed \cap newReleases = {})'
  <1>1. q \in Piece /\ PieceShaped(calls[c], q)
    BY AtIs
  <1>2. CASE StoresNews(c, q)
    BY <1>2 DEF StoresNews
  <1>3. CASE WritesShown(c, q)
    <2>1. /\ newReleases' = q.ids /\ newReleases = q.shown /\ q.ids \subseteq q.shown
          /\ dismissed' = dismissed \cup (IF calls[c].op = "dismiss" THEN q.pruned ELSE {})
      BY <1>1, <1>3 DEF WritesShown, WriteNewReleases, PieceShaped
    <2>2. calls[c].op = "dismiss" => q.ids \cap q.pruned = {}
      BY <1>1, <1>3 DEF WritesShown, PieceShaped, Takes, DismissSteps
    <2>3. QED
      BY <2>1, <2>2
  <1>4. CASE ~StoresNews(c, q) /\ ~WritesShown(c, q)
    <2>1. UNCHANGED <<dismissed, newReleases>>
      BY <1>4, AnsweredLeaves
    <2>2. QED
      BY <2>1
  <1>5. QED
    BY <1>2, <1>3, <1>4

LEMMA AnsweredKeepsApart ==
    ASSUME NEW c, NEW q, At(c, q), Answered(c, q), intact',
           OneRewriter(calls), dismissed \cap newReleases = {}
    PROVE  OneRewriter(calls') /\ (dismissed \cap newReleases = {})'
  <1>1. /\ calls' = [calls EXCEPT ![c] = calls'[c]] /\ CallsOK /\ c \in Callers
        /\ calls'[c].rewrites = calls[c].rewrites \/ ~OthersRewrite(c)
    BY AnsweredMoves DEF At, TypesInv
  <1>2. Rewriting(calls'[c]) => Rewriting(calls[c]) \/ ~OthersRewrite(c)
    BY <1>1 DEF Rewriting, At
  <1>3. QED
    BY <1>1, <1>2, OneRewriterKept, DismissedStaysOff

-----------------------------------------------------------------------------
(* Who is followed.                                                         *)

LEMMA FollowGoes ==
    ASSUME NEW c, NEW q, At(c, q), NEW more, Goes(c, q, more),
           calls[c].op = "detect" => calls'[c].followed = calls[c].followed,
           \A a : (\E p \in more : p.do \in Removal /\ p.artist = a)
                    <=> (q.do \in Removal /\ q.artist = a),
           calls[c].op = "follow" => more # {},
           NEW F, NEW W, FollowInv(F, W, calls),
           \A p \in more : p.do \in {"rebuild", "replaceRebuilt"} => p.artist \in F
    PROVE  FollowInv(F, W, calls')
  <1>1. CallsOK /\ c \in Callers /\ calls' = [calls EXCEPT ![c] = calls'[c]]
    BY DEF At, TypesInv, Goes
  <1>2. \A a \in Artists : /\ Removing(calls'[c], a) <=> Removing(calls[c], a)
                           /\ Adding(calls'[c], a) <=> Adding(calls[c], a)
    BY GoesTheSame
  <1>3. calls'[c].op = "detect" => calls'[c].followed \subseteq F
    BY <1>1 DEF FollowInv, Goes
  <1>4. calls'[c].op = "settings" => \A p \in calls'[c].pending :
            p.do \in {"rebuild", "replaceRebuilt"} => p.artist \in F
    <2>1. calls'[c].pending = (calls[c].pending \ {q}) \cup more /\ calls'[c].op = calls[c].op
      BY DEF Goes
    <2>2. calls[c].op = "settings" => \A p \in calls[c].pending :
              p.do \in {"rebuild", "replaceRebuilt"} => p.artist \in F
      BY <1>1 DEF FollowInv
    <2>3. QED
      BY <2>1, <2>2
  <1>5. QED
    BY <1>1, <1>2, <1>3, <1>4, FollowKept

LEMMA PlainKeepsFollow ==
    ASSUME NEW c, NEW q, At(c, q), PlainAnswer(c, q), intact',
           FollowInv(followingArtists, wanted, calls)
    PROVE  FollowInv(followingArtists', wanted', calls')
  <1>1. followingArtists' = followingArtists /\ wanted' = wanted
    BY DEF PlainAnswer, ReplacesKnown, ReadsToFollow, StoresNews, ReadsShownToUnfollow,
       ReadsKnownToUnfollow, WritesShown, ReadsShown, ReadsKnown, ReadsShownToRemove, MergesKnown,
       ReadsToRefresh, WritesRefresh, ChecksRelease, RemovesKnown, ReadsShownToVerify,
       ReplacesRebuilt, ReadsOutside, RollsBack, OnlyReads, library, history, WriteFollowing, Refreshed
  <1>2. PICK more : Plain(c, q, more)
    BY PlainAnswerIs
  <1>3. FollowInv(followingArtists, wanted, calls')
    BY <1>2, FollowGoes DEF Plain, KnowsTheSame, NewEntries
  <1>4. QED
    BY <1>1, <1>3

\* A call that does not rewrite takes no artist off the list and puts none on it.
LEMMA RestIsQuiet ==
    ASSUME CallsOK, NEW x \in Callers, ~Rewriting(calls[x])
    PROVE  /\ \A a : ~Removing(calls[x], a) /\ ~Adding(calls[x], a)
           /\ calls[x].op \notin {"detect", "settings"}
  <1>1. CASE calls[x] = Idle
    BY <1>1, IdleIsNoCall DEF Removing, Adding
  <1>2. CASE calls[x] # Idle
    <2>1. Shaped(calls[x]) /\ ~calls[x].rewrites
      BY <1>2 DEF CallsOK, Rewriting
    <2>2. calls[x].op \notin Rewrites
      BY <2>1 DEF Shaped
    <2>3. \A p \in calls[x].pending : p.do \notin UnfollowSteps
      BY <2>1 DEF Shaped, PieceShaped
    <2>4. QED
      BY <2>2, <2>3 DEF Removing, Adding, Rewrites, UnfollowSteps
  <1>3. QED
    BY <1>1, <1>2

\* A call that puts an artist on the list or takes it off is the only one that rewrites.
LEMMA OthersKeepOff ==
    ASSUME NEW c, NEW q, At(c, q), OneRewriter(calls), calls[c].rewrites
    PROVE  \A x \in Callers \ {c} :
              /\ \A a : ~Removing(calls[x], a) /\ ~Adding(calls[x], a)
              /\ calls[x].op \notin {"detect", "settings"}
  <1>1. \A x \in Callers \ {c} : ~Rewriting(calls[x])
    BY DEF OneRewriter, Rewriting, At
  <1>2. QED
    BY <1>1, RestIsQuiet DEF At, TypesInv

\* As long as the caller is the only one that rewrites, the list is its doing.
LEMMA FollowAlone ==
    ASSUME NEW c, NEW q, At(c, q), OneRewriter(calls), calls[c].rewrites,
           calls' = [calls EXCEPT ![c] = calls'[c]]
    PROVE  /\ \A F, W : FollowInv(F, W, calls) =>
                 \A a \in Artists : a \in F <=> \/ a \in W /\ ~Removing(calls[c], a)
                                                \/ Adding(calls[c], a)
           /\ calls'[c].op \notin {"detect", "settings"} =>
              \A F, W : (\A a \in Artists : a \in F <=> \/ a \in W /\ ~Removing(calls'[c], a)
                                                        \/ Adding(calls'[c], a))
                        => FollowInv(F, W, calls')
  <1>1. c \in Callers /\ \A x \in Callers \ {c} : calls'[x] = calls[x]
    BY DEF At, TypesInv, CallsOK
  <1>2. \A x \in Callers \ {c} :
           /\ \A a : ~Removing(calls[x], a) /\ ~Adding(calls[x], a)
           /\ calls[x].op \notin {"detect", "settings"}
    BY OthersKeepOff
  <1>3. ASSUME NEW F, NEW W, FollowInv(F, W, calls)
        PROVE  \A a \in Artists : a \in F <=> \/ a \in W /\ ~Removing(calls[c], a)
                                              \/ Adding(calls[c], a)
    BY <1>1, <1>2, <1>3 DEF FollowInv
  <1>4. ASSUME NEW F, NEW W, calls'[c].op \notin {"detect", "settings"},
               \A a \in Artists : a \in F <=> \/ a \in W /\ ~Removing(calls'[c], a)
                                              \/ Adding(calls'[c], a)
        PROVE  FollowInv(F, W, calls')
    <2>1. \A x \in Callers : calls'[x].op \notin {"detect", "settings"}
      BY <1>1, <1>2, <1>4
    <2>2. \A a \in Artists : /\ (\A x \in Callers : ~Removing(calls'[x], a)) <=> ~Removing(calls'[c], a)
                             /\ (\E x \in Callers : Adding(calls'[x], a)) <=> Adding(calls'[c], a)
      BY <1>1, <1>2
    <2>3. QED
      BY <1>4, <2>1, <2>2 DEF FollowInv
  <1>5. QED
    BY <1>3, <1>4

\* A follow puts its artist on the list; what a search writes back is on it.
LEMMA WritesFollowKeepsFollow ==
    ASSUME NEW c, NEW q, At(c, q), WritesFollow(c, q), intact', OneRewriter(calls),
           FollowInv(followingArtists, wanted, calls)
    PROVE  FollowInv(followingArtists', wanted', calls')
  <1>1. /\ PieceShaped(calls[c], q) /\ Shaped(calls[c]) /\ calls[c] \in CallRecord /\ q.do = "writeFollow"
    BY AtIs DEF WritesFollow
  <1>2. followingArtists' = followingArtists \cup {q.artist} /\ wanted' = wanted
    BY DEF WritesFollow, WriteFollowing
  <1>3. calls[c].op \in {"follow", "detect"}
    BY <1>1 DEF PieceShaped, CallRecord, Ops, OneArtist, Takes, FollowSteps, SearchSteps,
       UnfollowSteps, Removal, DetectReads, SettingsReads, SettingsSteps, VerifySteps,
       DismissSteps, RefreshSteps
  <1>4. PICK more : /\ Goes(c, q, more) /\ KnowsTheSame(c)
                    /\ \A p \in more : p.do \in {"storeNews", "readShown"}
                    /\ calls[c].op = "follow" => more = {}
    BY WritesFollowGoes
  <1>5. CASE calls[c].op = "detect"
    <2>1. q.artist \in followingArtists
      BY <1>1, <1>5 DEF PieceShaped, DetectReads, FollowInv, At
    <2>2. followingArtists' = followingArtists
      BY <1>2, <2>1
    <2>3. FollowInv(followingArtists, wanted, calls')
      BY <1>1, <1>4, <1>5, FollowGoes DEF KnowsTheSame, Removal
    <2>4. QED
      BY <1>2, <2>2, <2>3
  <1>6. CASE calls[c].op = "follow"
    <2>1. calls[c].pending = {q} /\ calls[c].rewrites /\ calls[c].asked = {q.artist}
      BY <1>1, <1>6, OnlyPiece DEF InOnePiece, OneArtist, Shaped, Rewrites, PieceShaped
    <2>2. calls'[c].pending = {} /\ calls'[c].op = "follow" /\ calls'[c].asked = {q.artist}
          /\ calls' = [calls EXCEPT ![c] = calls'[c]]
      BY <1>4, <1>6, <2>1 DEF Goes
    <2>3. \A a \in Artists : ~Removing(calls[c], a) /\ ~Adding(calls[c], a)
      BY <1>1, <2>1 DEF Removing, Adding, Removal
    <2>4. \A a \in Artists : ~Removing(calls'[c], a) /\ (Adding(calls'[c], a) <=> a = q.artist)
      BY <2>2 DEF Removing, Adding
    <2>5. \A a \in Artists : a \in followingArtists <=> a \in wanted
      BY <2>1, <2>2, <2>3, FollowAlone
    <2>6. \A a \in Artists : a \in followingArtists' <=> \/ a \in wanted' /\ ~Removing(calls'[c], a)
                                                         \/ Adding(calls'[c], a)
      BY <1>2, <2>4, <2>5
    <2>7. QED
      BY <2>1, <2>2, <2>6, FollowAlone
  <1>7. QED
    BY <1>3, <1>5, <1>6

LEMMA UnfollowIsNoSearch ==
    ASSUME NEW c, NEW q, At(c, q), q.do \in UnfollowSteps
    PROVE  calls[c].op \notin {"detect", "settings"} /\ calls[c].rewrites /\ q.artist \in Artists
  BY AtIs DEF PieceShaped, Takes, UnfollowSteps, Removal, DetectReads, SearchSteps, SettingsReads,
     SettingsSteps, ArtistSteps

\* Taking an artist off the list starts its removal; the end of it is that it is no
\* longer wanted.
LEMMA UnfollowKeepsFollow ==
    ASSUME NEW c, NEW q, At(c, q), intact', OneRewriter(calls),
           FollowInv(followingArtists, wanted, calls),
           ReadsToUnfollow(c, q) \/ WritesUnfollow(c, q) \/ DeletesKnown(c, q)
    PROVE  FollowInv(followingArtists', wanted', calls')
  <1>1. q.do \in UnfollowSteps
    BY DEF ReadsToUnfollow, WritesUnfollow, DeletesKnown, UnfollowSteps, Removal
  <1>2. calls[c].op \notin {"detect", "settings"} /\ calls[c].rewrites /\ q.artist \in Artists
    BY <1>1, UnfollowIsNoSearch
  <1>3. calls[c] # Idle /\ q \in calls[c].pending
    BY DEF At
  <1>4. \A a \in Artists : ~Adding(calls[c], a)
    BY <1>3 DEF Adding
  <1>5. ASSUME NEW more, Goes(c, q, more), calls[c].op = "follow" => more # {}
        PROVE  /\ calls' = [calls EXCEPT ![c] = calls'[c]] /\ calls'[c].op \notin {"detect", "settings"}
               /\ \A a \in Artists : ~Adding(calls'[c], a)
               /\ \A a \in Artists : Removing(calls'[c], a) <=>
                     \/ \E p \in calls[c].pending \ {q} : p.do \in Removal /\ p.artist = a
                     \/ \E p \in more : p.do \in Removal /\ p.artist = a
    <2>1. calls'[c] # Idle /\ calls'[c].op = calls[c].op
          /\ calls'[c].pending = (calls[c].pending \ {q}) \cup more
      BY <1>5, IdleIsNoCall DEF Goes, Shaped
    <2>2. QED
      BY <1>2, <1>5, <2>1 DEF Goes, Removing, Adding
  <1>6. CASE ReadsToUnfollow(c, q)
    <2>1. PICK p : /\ Goes(c, q, {p}) /\ p.artist = q.artist
                   /\ p.do = IF q.artist \in followingArtists THEN "writeUnfollow"
                             ELSE "readShownToUnfollow"
      BY <1>6, ReadsToUnfollowGoes
    <2>2. q.do = "readToUnfollow" /\ followingArtists' = followingArtists /\ wanted' = wanted
      BY <1>6 DEF ReadsToUnfollow, OnlyReads, library, history
    <2>3. \A a \in Artists : Removing(calls'[c], a) <=>
             Removing(calls[c], a) \/ (a = q.artist /\ q.artist \notin followingArtists)
      BY <1>3, <1>5, <2>1, <2>2 DEF Removing, Removal
    <2>4. \A a \in Artists : a \in followingArtists <=> a \in wanted /\ ~Removing(calls[c], a)
      BY <1>2, <1>4, <1>5, <2>1, FollowAlone
    <2>5. \A a \in Artists : a \in followingArtists' <=> \/ a \in wanted' /\ ~Removing(calls'[c], a)
                                                         \/ Adding(calls'[c], a)
      BY <1>5, <2>1, <2>2, <2>3, <2>4
    <2>6. QED
      BY <1>2, <1>5, <2>1, <2>5, FollowAlone
  <1>7. CASE WritesUnfollow(c, q)
    <2>1. PICK p : Goes(c, q, {p}) /\ p.artist = q.artist /\ p.do = "readShownToUnfollow"
      BY <1>7, WritesUnfollowGoes
    <2>2. q.do = "writeUnfollow" /\ followingArtists' = followingArtists \ {q.artist} /\ wanted' = wanted
      BY <1>7 DEF WritesUnfollow, WriteFollowing
    <2>3. \A a \in Artists : Removing(calls'[c], a) <=> Removing(calls[c], a) \/ a = q.artist
      BY <1>3, <1>5, <2>1, <2>2 DEF Removing, Removal
    <2>4. \A a \in Artists : a \in followingArtists <=> a \in wanted /\ ~Removing(calls[c], a)
      BY <1>2, <1>4, <1>5, <2>1, FollowAlone
    <2>5. \A a \in Artists : a \in followingArtists' <=> \/ a \in wanted' /\ ~Removing(calls'[c], a)
                                                         \/ Adding(calls'[c], a)
      BY <1>5, <2>1, <2>2, <2>3, <2>4
    <2>6. QED
      BY <1>2, <1>5, <2>1, <2>5, FollowAlone
  <1>8. CASE DeletesKnown(c, q)
    <2>1. PICK more : /\ Goes(c, q, more) /\ \A p \in more : p.do = "listReleases"
                      /\ calls[c].op = "follow" => more # {}
      BY <1>8, DeletesKnownGoes
    <2>2. q.do = "deleteKnown" /\ followingArtists' = followingArtists /\ wanted' = wanted \ {q.artist}
      BY <1>8 DEF DeletesKnown
    <2>3. \A a \in Artists \ {q.artist} : Removing(calls'[c], a) <=> Removing(calls[c], a)
      BY <1>3, <1>5, <2>1, <2>2 DEF Removing, Removal
    <2>4. Removing(calls[c], q.artist)
      BY <1>3, <2>2 DEF Removing, Removal
    <2>5. \A a \in Artists : a \in followingArtists <=> a \in wanted /\ ~Removing(calls[c], a)
      BY <1>2, <1>4, <1>5, <2>1, FollowAlone
    <2>6. \A a \in Artists : a \in followingArtists' <=> \/ a \in wanted' /\ ~Removing(calls'[c], a)
                                                         \/ Adding(calls'[c], a)
      BY <1>5, <2>1, <2>2, <2>3, <2>4, <2>5
    <2>7. QED
      BY <1>2, <1>5, <2>1, <2>6, FollowAlone
  <1>9. QED
    BY <1>6, <1>7, <1>8

LEMMA AnsweredKeepsFollow ==
    ASSUME NEW c, NEW q, At(c, q), Answered(c, q), ~Fails(c, q), intact', OneRewriter(calls),
           FollowInv(followingArtists, wanted, calls)
    PROVE  FollowInv(followingArtists', wanted', calls')
  <1> DEFINE F == followingArtists
  <1>1. q.do \notin Removal /\ followingArtists' = followingArtists /\ wanted' = wanted
        => \A more : /\ Goes(c, q, more) /\ \A p \in more : p.do \notin Removal
                     /\ calls[c].op = "detect" => calls'[c].followed = calls[c].followed
                     /\ calls[c].op = "follow" => more # {}
                     /\ \A p \in more : p.do \in {"rebuild", "replaceRebuilt"} => p.artist \in F
                     => FollowInv(followingArtists', wanted', calls')
    BY FollowGoes
  <1>2. q.do \notin Removal /\ followingArtists' = followingArtists /\ wanted' = wanted
        => \A p : /\ Goes(c, q, {p}) /\ p.do \notin Removal
                  /\ calls[c].op = "detect" => calls'[c].followed = calls[c].followed
                  /\ p.do \in {"rebuild", "replaceRebuilt"} => p.artist \in F
                  => FollowInv(followingArtists', wanted', calls')
    <2> SUFFICES ASSUME q.do \notin Removal, followingArtists' = followingArtists, wanted' = wanted,
                        NEW p, Goes(c, q, {p}), p.do \notin Removal,
                        calls[c].op = "detect" => calls'[c].followed = calls[c].followed,
                        p.do \in {"rebuild", "replaceRebuilt"} => p.artist \in F
                 PROVE  FollowInv(followingArtists', wanted', calls')
      OBVIOUS
    <2> DEFINE more == {p}
    <2>1. more # {} /\ \A x \in more : x = p
      OBVIOUS
    <2>2. Goes(c, q, more)
      OBVIOUS
    <2> HIDE DEF more
    <2>3. QED
      BY <1>1, <2>1, <2>2
  <1>3. CASE PlainAnswer(c, q)
    BY <1>3, PlainKeepsFollow
  <1>4. CASE WritesFollow(c, q)
    BY <1>4, WritesFollowKeepsFollow
  <1>5. CASE ReadsToUnfollow(c, q) \/ WritesUnfollow(c, q) \/ DeletesKnown(c, q)
    BY <1>5, UnfollowKeepsFollow
  <1>6. CASE ListsReleases(c, q)
    <2>1. q.do \notin Removal /\ followingArtists' = followingArtists /\ wanted' = wanted
      BY <1>6 DEF ListsReleases, library, Removal
    <2>2. QED
      BY <1>2, <1>6, <2>1, ListsReleasesGoes DEF KnowsTheSame, Removal
  <1>7. CASE ListsToRebuild(c, q)
    <2>1. q.do = "rebuild" /\ followingArtists' = followingArtists /\ wanted' = wanted
      BY <1>7 DEF ListsToRebuild, library
    <2>2. calls[c].op = "settings" /\ q \in calls[c].pending
      BY <2>1, AtIs DEF At, PieceShaped, CallRecord, Ops, OneArtist, Takes, FollowSteps, SearchSteps,
         UnfollowSteps, Removal, DetectReads, SettingsReads, SettingsSteps, VerifySteps,
         DismissSteps, RefreshSteps
    <2>3. q.artist \in F
      BY <2>1, <2>2 DEF FollowInv, At
    <2>4. QED
      BY <1>2, <1>7, <2>1, <2>3, ListsToRebuildGoes DEF KnowsTheSame, Removal
  <1>8. CASE ReadsFollowed(c, q)
    <2>1. q.do = "readFollowed" /\ followingArtists' = followingArtists /\ wanted' = wanted
      BY <1>8 DEF ReadsFollowed, OnlyReads, library, history
    <2>2. CASE calls[c].op # "detect"
      BY <1>1, <1>8, <2>1, <2>2, ReadsFollowedGoes DEF KnowsTheSame, Removal
    <2>3. CASE calls[c].op = "detect"
      <3>1. PICK p : /\ Goes(c, q, {p}) /\ p.do = "readDetectSettings"
                     /\ calls'[c].followed = followingArtists
        BY <1>8, <2>3, ReadsFollowedToDetect
      <3>2. \A a \in Artists : /\ Removing(calls'[c], a) <=> Removing(calls[c], a)
                               /\ Adding(calls'[c], a) <=> Adding(calls[c], a)
        BY <2>1, <2>3, <3>1, GoesTheSame DEF Removal
      <3>3. calls' = [calls EXCEPT ![c] = calls'[c]] /\ calls'[c].op = "detect"
        BY <2>3, <3>1 DEF Goes
      <3>4. QED
        BY <2>1, <3>1, <3>2, <3>3, FollowKept DEF At, TypesInv
    <2>4. QED
      BY <2>2, <2>3
  <1>9. CASE ReadsDetectSettings(c, q)
    <2>1. q.do = "readDetectSettings" /\ followingArtists' = followingArtists /\ wanted' = wanted
      BY <1>9 DEF ReadsDetectSettings, OnlyReads, library, history
    <2>2. QED
      BY <1>2, <1>9, <2>1, ReadsDetectSettingsGoes DEF KnowsTheSame, Removal
  <1>10. CASE ReadsAllKnown(c, q)
    <2>1. q.do = "readAllKnown" /\ followingArtists' = followingArtists /\ wanted' = wanted
      BY <1>10 DEF ReadsAllKnown, OnlyReads, library, history
    <2>2. QED
      BY <1>1, <1>10, <2>1, ReadsAllKnownGoes DEF Removal
  <1>11. CASE Searches(c, q)
    <2>1. q.do = "search" /\ followingArtists' = followingArtists /\ wanted' = wanted
      BY <1>11 DEF Searches, library
    <2>2. QED
      BY <1>1, <1>11, <2>1, SearchesGoes DEF Removal
  <1>12. CASE ReadsSummary(c, q)
    <2>1. q.do = "readSummary" /\ followingArtists' = followingArtists /\ wanted' = wanted
      BY <1>12 DEF ReadsSummary, library
    <2>2. QED
      BY <1>1, <1>12, <2>1, ReadsSummaryGoes DEF Removal
  <1>13. CASE ReadsAllEntries(c, q)
    <2>1. q.do = "readAllEntries" /\ followingArtists' = followingArtists /\ wanted' = wanted
      BY <1>13 DEF ReadsAllEntries, OnlyReads, library, history
    <2>2. QED
      BY <1>2, <1>13, <2>1, ReadsAllEntriesGoes DEF Removal
  <1>14. CASE ReadsSettings(c, q)
    <2>1. q.do = "readSettings" /\ followingArtists' = followingArtists /\ wanted' = wanted
      BY <1>14 DEF ReadsSettings, OnlyReads, library, history
    <2>2. QED
      BY <1>2, <1>14, <2>1, ReadsSettingsGoes DEF Removal
  <1>15. CASE SavesSettings(c, q)
    <2>1. q.do = "saveSettings" /\ followingArtists' = followingArtists /\ wanted' = wanted
      BY <1>15 DEF SavesSettings, history
    <2>2. QED
      BY <1>2, <1>15, <2>1, SavesSettingsGoes DEF Removal
  <1>16. QED
    BY <1>3, <1>4, <1>5, <1>6, <1>7, <1>8, <1>9, <1>10, <1>11, <1>12, <1>13, <1>14, <1>15, AnsweredIs

-----------------------------------------------------------------------------
(* What is heard of.                                                        *)

\* The known releases that a plain answer writes were going to be known.
LEMMA PlainKnown ==
    ASSUME NEW c, NEW q, At(c, q), PlainAnswer(c, q), NEW H, HearsOf(calls[c], H)
    PROVE  /\ heard' = heard
           /\ \A a \in Artists : \A r \in knownReleases'[a] :
                 r \in knownReleases[a] \/ r \in H \/ r \in ToTell(calls[c])
  <1>1. heard' = heard
    BY DEF PlainAnswer, ReplacesKnown, ReadsToFollow, StoresNews, ReadsShownToUnfollow,
       ReadsKnownToUnfollow, WritesShown, ReadsShown, ReadsKnown, ReadsShownToRemove, MergesKnown,
       ReadsToRefresh, WritesRefresh, ChecksRelease, RemovesKnown, ReadsShownToVerify,
       ReplacesRebuilt, ReadsOutside, RollsBack, OnlyReads, history
  <1>2. PieceShaped(calls[c], q) /\ q \in calls[c].pending /\ calls[c] # Idle
        /\ knownReleases \in [Artists -> SUBSET Releases] /\ calls[c] \in CallRecord
    BY AtIs DEF At, TypesInv, LibraryOK
  <1>3. CASE ReplacesKnown(c, q) \/ ReplacesRebuilt(c, q)
    <2>1. /\ q.do \in {"replaceKnown", "replaceRebuilt"}
          /\ knownReleases' = [knownReleases EXCEPT ![q.artist] = q.ids]
      BY <1>3 DEF ReplacesKnown, ReplacesRebuilt
    <2>2. q.ids \subseteq H \cup ToTell(calls[c])
      BY <1>2, <2>1 DEF HearsOf
    <2>3. QED
      BY <1>1, <1>2, <2>1, <2>2
  <1>4. CASE MergesKnown(c, q)
    <2>1. calls[c].op = "detect"
      BY <1>2, <1>4 DEF MergesKnown, PieceShaped, CallRecord, Ops, OneArtist, Takes, FollowSteps,
         UnfollowSteps, Removal, SettingsReads, SettingsSteps, VerifySteps, DismissSteps, RefreshSteps
    <2>2. q.ids \subseteq ToTell(calls[c])
      BY <1>2, <1>4, <2>1 DEF MergesKnown, PieceShaped, ToTell
    <2>3. knownReleases' = [knownReleases EXCEPT ![q.artist] = @ \cup q.ids]
      BY <1>4 DEF MergesKnown
    <2>4. QED
      BY <1>1, <1>2, <2>2, <2>3
  <1>5. CASE RemovesKnown(c, q)
    BY <1>1, <1>2, <1>5 DEF RemovesKnown
  <1>6. CASE ~ReplacesKnown(c, q) /\ ~ReplacesRebuilt(c, q) /\ ~MergesKnown(c, q) /\ ~RemovesKnown(c, q)
    <2>1. knownReleases' = knownReleases
      BY <1>6 DEF PlainAnswer, ReadsToFollow, StoresNews, ReadsShownToUnfollow,
         ReadsKnownToUnfollow, WritesShown, ReadsShown, ReadsKnown, ReadsShownToRemove,
         ReadsToRefresh, WritesRefresh, ChecksRelease, ReadsShownToVerify,
         ReadsOutside, RollsBack, OnlyReads, library
    <2>2. QED
      BY <1>1, <2>1
  <1>7. QED
    BY <1>3, <1>4, <1>5, <1>6

LEMMA HeardGoes ==
    ASSUME NEW c, NEW q, At(c, q), NEW more, Goes(c, q, more), NEW K, NEW K2, NEW H, NEW H2, H \subseteq H2,
           HeardInv(K, H, calls),
           calls[c].op = "detect" => calls'[c].news = calls[c].news /\ calls'[c].known = calls[c].known,
           \A p \in more : p.do \in {"replaceKnown", "replaceRebuilt"} =>
               p.ids \subseteq H2 \cup ToTell(calls[c]),
           \A a \in Artists : \A r \in K2[a] : r \in K[a] \/ r \in H2 \/ r \in ToTell(calls[c])
    PROVE  HeardInv(K2, H2, calls')
  <1>1. c \in Callers /\ CallsOK /\ calls' = [calls EXCEPT ![c] = calls'[c]]
    BY DEF At, TypesInv, Goes
  <1>2. HearsOf(calls[c], H)
    BY <1>1 DEF HeardInv
  <1>3. HearsOf(calls'[c], H2) /\ ToTell(calls'[c]) = ToTell(calls[c])
    BY <1>2, HearsTheSame
  <1>4. QED
    BY <1>1, <1>3, HeardKept

LEMMA SameHeard ==
    ASSUME NEW c, NEW q, At(c, q), NEW more, Goes(c, q, more),
           HeardInv(knownReleases, heard, calls),
           calls[c].op = "detect" => calls'[c].news = calls[c].news /\ calls'[c].known = calls[c].known,
           \A p \in more : p.do \notin {"replaceKnown", "replaceRebuilt"},
           heard' = heard, \A a \in Artists : knownReleases'[a] \subseteq knownReleases[a]
    PROVE  HeardInv(knownReleases', heard', calls')
  <1>1. heard \subseteq heard'
    OBVIOUS
  <1>2. \A a \in Artists : \A r \in knownReleases'[a] :
           r \in knownReleases[a] \/ r \in heard' \/ r \in ToTell(calls[c])
    OBVIOUS
  <1>3. QED
    BY <1>1, <1>2, HeardGoes

LEMMA SameHeardOfOne ==
    ASSUME NEW c, NEW q, At(c, q), NEW p, Goes(c, q, {p}),
           HeardInv(knownReleases, heard, calls),
           calls[c].op = "detect" => calls'[c].news = calls[c].news /\ calls'[c].known = calls[c].known,
           p.do \notin {"replaceKnown", "replaceRebuilt"},
           heard' = heard, \A a \in Artists : knownReleases'[a] \subseteq knownReleases[a]
    PROVE  HeardInv(knownReleases', heard', calls')
  <1> DEFINE more == {p}
  <1>1. Goes(c, q, more) /\ \A x \in more : x.do \notin {"replaceKnown", "replaceRebuilt"}
    OBVIOUS
  <1> HIDE DEF more
  <1>2. QED
    BY <1>1, SameHeard

LEMMA HeardOfOne ==
    ASSUME NEW c, NEW q, At(c, q), NEW p, Goes(c, q, {p}), KnowsTheSame(c),
           HeardInv(knownReleases, heard, calls),
           p.ids \subseteq heard', heard \subseteq heard', knownReleases' = knownReleases
    PROVE  HeardInv(knownReleases', heard', calls')
  <1> DEFINE more == {p}
  <1>1. Goes(c, q, more) /\ \A x \in more : x.ids \subseteq heard' \cup ToTell(calls[c])
    OBVIOUS
  <1> HIDE DEF more
  <1>2. \A a \in Artists : \A r \in knownReleases'[a] :
           r \in knownReleases[a] \/ r \in heard' \/ r \in ToTell(calls[c])
    OBVIOUS
  <1>3. QED
    BY <1>1, <1>2, HeardGoes DEF KnowsTheSame

LEMMA AnsweredKeepsHeard ==
    ASSUME NEW c, NEW q, At(c, q), Answered(c, q), ~Fails(c, q), OneRewriter(calls),
           HeardInv(knownReleases, heard, calls)
    PROVE  HeardInv(knownReleases', heard', calls')
  <1>1. c \in Callers /\ HearsOf(calls[c], heard) /\ calls[c] # Idle
        /\ knownReleases \in [Artists -> SUBSET Releases]
    BY DEF At, TypesInv, HeardInv, LibraryOK
  <1>2. CASE PlainAnswer(c, q)
    <2>1. PICK more : Plain(c, q, more)
      BY <1>2, PlainAnswerIs
    <2>2. /\ heard' = heard
          /\ \A a \in Artists : \A r \in knownReleases'[a] :
                r \in knownReleases[a] \/ r \in heard' \/ r \in ToTell(calls[c])
      BY <1>1, <1>2, PlainKnown
    <2>3. QED
      BY <2>1, <2>2, HeardGoes DEF Plain, KnowsTheSame, NewEntries
  <1>3. CASE WritesFollow(c, q)
    <2>1. heard' = heard /\ knownReleases' = knownReleases
      BY <1>3 DEF WritesFollow
    <2>2. QED
      BY <1>3, <2>1, WritesFollowGoes, SameHeard DEF KnowsTheSame
  <1>4. CASE ReadsToUnfollow(c, q)
    <2>1. heard' = heard /\ knownReleases' = knownReleases
      BY <1>4 DEF ReadsToUnfollow, OnlyReads, library, history
    <2>2. QED
      BY <1>4, <2>1, ReadsToUnfollowGoes, SameHeardOfOne DEF KnowsTheSame
  <1>5. CASE WritesUnfollow(c, q)
    <2>1. heard' = heard /\ knownReleases' = knownReleases
      BY <1>5 DEF WritesUnfollow
    <2>2. QED
      BY <1>5, <2>1, WritesUnfollowGoes, SameHeardOfOne DEF KnowsTheSame
  <1>6. CASE DeletesKnown(c, q)
    <2>1. heard' = heard /\ \A a \in Artists : knownReleases'[a] \subseteq knownReleases[a]
      BY <1>1, <1>6 DEF DeletesKnown
    <2>2. QED
      BY <1>6, <2>1, DeletesKnownGoes, SameHeard DEF KnowsTheSame
  <1>7. CASE ListsReleases(c, q)
    <2>1. heard' = heard \cup Found(q.artist) /\ knownReleases' = knownReleases
      BY <1>7 DEF ListsReleases, library
    <2>2. PICK p : Goes(c, q, {p}) /\ KnowsTheSame(c) /\ p.ids \subseteq Found(q.artist)
      BY <1>7, ListsReleasesGoes
    <2>3. QED
      BY <2>1, <2>2, HeardOfOne
  <1>8. CASE ListsToRebuild(c, q)
    <2>1. heard \subseteq heard' /\ knownReleases' = knownReleases
      BY <1>8 DEF ListsToRebuild, library
    <2>2. PICK p : Goes(c, q, {p}) /\ KnowsTheSame(c) /\ p.ids \subseteq heard'
      BY <1>8, ListsToRebuildGoes
    <2>3. QED
      BY <2>1, <2>2, HeardOfOne
  <1>9. CASE ReadsFollowed(c, q)
    <2>1. heard' = heard /\ knownReleases' = knownReleases
      BY <1>9 DEF ReadsFollowed, OnlyReads, library, history
    <2>2. CASE calls[c].op # "detect"
      BY <1>9, <2>1, <2>2, ReadsFollowedGoes, SameHeard DEF KnowsTheSame
    <2>3. CASE calls[c].op = "detect"
      BY <1>9, <2>1, <2>3, ReadsFollowedToDetect, SameHeardOfOne
    <2>4. QED
      BY <2>2, <2>3
  <1>10. CASE ReadsDetectSettings(c, q)
    <2>1. heard' = heard /\ knownReleases' = knownReleases
      BY <1>10 DEF ReadsDetectSettings, OnlyReads, library, history
    <2>2. QED
      BY <1>10, <2>1, ReadsDetectSettingsGoes, SameHeardOfOne DEF KnowsTheSame
  <1>11. CASE ReadsAllKnown(c, q)
    <2>1. heard' = heard /\ knownReleases' = knownReleases
      BY <1>11 DEF ReadsAllKnown, OnlyReads, library, history
    <2>2. PICK more : /\ Goes(c, q, more) /\ \A p \in more : p.do = "search"
                      /\ calls[c].op = "detect" /\ calls'[c].known = knownReleases
                      /\ calls'[c].news = calls[c].news
      BY <1>11, ReadsAllKnownGoes
    <2>3. calls[c].rewrites
      BY <2>2, AtIs DEF Shaped, Rewrites
    <2>4. \A x \in Callers \ {c} : calls[x].op # "detect"
      BY <2>3, OthersKeepOff
    <2>5. \A a \in Artists : knownReleases[a] \subseteq heard \cup calls[c].news
      BY <1>1, <2>2, <2>4 DEF HeardInv, ToTell
    <2>6. calls'[c].op = "detect" /\ calls'[c].pending = (calls[c].pending \ {q}) \cup more
          /\ calls' = [calls EXCEPT ![c] = calls'[c]]
      BY <2>2 DEF Goes
    <2>7. HearsOf(calls'[c], heard)
      BY <1>1, <2>2, <2>5, <2>6 DEF HearsOf, ToTell
    <2>8. ToTell(calls'[c]) = ToTell(calls[c])
      BY <2>2, <2>6 DEF ToTell
    <2>9. HeardInv(knownReleases, heard, calls')
      BY <1>1, <2>6, <2>7, <2>8, HeardKept DEF At, TypesInv
    <2>10. QED
      BY <2>1, <2>9
  <1>12. CASE Searches(c, q)
    <2>1. heard' = heard /\ knownReleases' = knownReleases
      BY <1>12 DEF Searches, library
    <2>2. PICK more : /\ Goes(c, q, more) /\ calls[c].op = "detect" /\ q.artist \in Artists
                      /\ \A p \in more : p.do = "replaceKnown"
                            /\ p.ids \subseteq calls[c].known[q.artist] \cup calls'[c].news
                      /\ calls[c].news \subseteq calls'[c].news /\ calls'[c].known = calls[c].known
      BY <1>12, SearchesGoes
    <2>3. calls'[c].op = "detect" /\ calls'[c].pending = (calls[c].pending \ {q}) \cup more
          /\ calls' = [calls EXCEPT ![c] = calls'[c]]
      BY <2>2 DEF Goes
    <2>4. \A a \in Artists : calls[c].known[a] \subseteq heard \cup calls[c].news
      BY <1>1, <2>2 DEF HearsOf
    <2>5. \A p \in more : p.ids \subseteq heard \cup calls'[c].news
      BY <2>2, <2>4
    <2>6. HearsOf(calls'[c], heard)
      BY <1>1, <2>2, <2>3, <2>4, <2>5 DEF HearsOf, ToTell
    <2>7. \A r \in ToTell(calls[c]) : r \in heard \cup ToTell(calls'[c])
      BY <2>2, <2>3 DEF ToTell
    <2>8. HeardInv(knownReleases, heard, calls')
      BY <1>1, <2>3, <2>6, <2>7, HeardKept DEF At, TypesInv
    <2>9. QED
      BY <2>1, <2>8
  <1>13. CASE ReadsSummary(c, q)
    <2>1. heard' = heard /\ knownReleases' = knownReleases
      BY <1>13 DEF ReadsSummary, library
    <2>2. QED
      BY <1>13, <2>1, ReadsSummaryGoes, SameHeard
  <1>14. CASE ReadsAllEntries(c, q)
    <2>1. heard' = heard /\ knownReleases' = knownReleases
      BY <1>14 DEF ReadsAllEntries, OnlyReads, library, history
    <2>2. QED
      BY <1>14, <2>1, ReadsAllEntriesGoes, SameHeardOfOne
  <1>15. CASE ReadsSettings(c, q)
    <2>1. heard' = heard /\ knownReleases' = knownReleases
      BY <1>15 DEF ReadsSettings, OnlyReads, library, history
    <2>2. QED
      BY <1>15, <2>1, ReadsSettingsGoes, SameHeardOfOne
  <1>16. CASE SavesSettings(c, q)
    <2>1. heard' = heard /\ knownReleases' = knownReleases
      BY <1>16 DEF SavesSettings, history
    <2>2. QED
      BY <1>16, <2>1, SavesSettingsGoes, SameHeardOfOne
  <1>17. QED
    BY <1>2, <1>3, <1>4, <1>5, <1>6, <1>7, <1>8, <1>9, <1>10, <1>11, <1>12, <1>13, <1>14, <1>15,
       <1>16, AnsweredIs

-----------------------------------------------------------------------------
(* The invariant holds.                                                     *)

LEMMA NoFailureBefore ==
    ASSUME NEW c, NEW q, At(c, q), Answered(c, q), failures' = 0
    PROVE  failures = 0 /\ ~Fails(c, q) /\ calls'[c].failed = calls[c].failed
  <1>1. failures \in Nat
    BY BoundsAssumption DEF At, TypesInv, CountersOK
  <1>2. ~Fails(c, q)
    BY <1>1 DEF Fails
  <1>3. failures = 0
    <2>1. CASE ListsReleases(c, q)
      <3>1. failures' = failures \/ failures' = failures + 1
        BY <2>1 DEF ListsReleases
      <3>2. QED
        BY <1>1, <3>1
    <2>2. CASE ~ListsReleases(c, q)
      BY <1>2, <2>2, AnsweredLeaves
    <2>3. QED
      BY <2>1, <2>2
  <1>4. calls'[c].failed = calls[c].failed
    BY <1>2, AnsweredMoves
  <1>5. QED
    BY <1>2, <1>3, <1>4

LEMMA AnsweredKeeps ==
    ASSUME NEW c, NEW q, LibraryInv, At(c, q), Answered(c, q)
    PROVE  LibraryInv'
  <1>1. TypesInv'
    BY AnsweredTypes
  <1>2. intact' => OneRewriter(calls') /\ (dismissed \cap newReleases = {})'
    BY AnsweredLeaves, AnsweredKeepsApart DEF LibraryInv
  <1>3. ASSUME intact', failures' = 0
        PROVE  /\ \A x \in Callers : calls'[x] # Idle => ~calls'[x].failed
               /\ FollowInv(followingArtists', wanted', calls')
               /\ HeardInv(knownReleases', heard', calls')
    <2>1. intact /\ failures = 0 /\ ~Fails(c, q) /\ calls'[c].failed = calls[c].failed
      BY <1>3, AnsweredLeaves, NoFailureBefore
    <2>2. /\ OneRewriter(calls) /\ FollowInv(followingArtists, wanted, calls)
          /\ HeardInv(knownReleases, heard, calls)
          /\ \A x \in Callers : calls[x] # Idle => ~calls[x].failed
      BY <2>1 DEF LibraryInv
    <2>3. calls' = [calls EXCEPT ![c] = calls'[c]] /\ c \in Callers /\ calls[c] # Idle
      BY AnsweredMoves DEF At
    <2>4. \A x \in Callers : x # c => calls'[x] = calls[x]
      BY <2>3 DEF At, TypesInv, CallsOK
    <2>5. \A x \in Callers : calls'[x] # Idle => ~calls'[x].failed
      BY <2>1, <2>2, <2>3, <2>4
    <2>6. QED
      BY <1>3, <2>1, <2>2, <2>5, AnsweredKeepsFollow, AnsweredKeepsHeard
  <1>4. QED
    BY <1>1, <1>2, <1>3 DEF LibraryInv

LEMMA StartsKeeps ==
    ASSUME LibraryInv, NEW c \in Callers, Starts(c)
    PROVE  LibraryInv'
  <1>1. /\ StartsWith(c) /\ CallsOK /\ TypesInv
        /\ UNCHANGED <<library, world, familiar, heard, dismissed, wanted, listed, failures, changes>>
        /\ overlaps' \in 0..MaxOverlaps
    BY StartsIs DEF LibraryInv, TypesInv
  <1>2. /\ calls[c] = Idle /\ calls' = [calls EXCEPT ![c] = calls'[c]] /\ Shaped(calls'[c])
        /\ ~calls'[c].failed /\ calls'[c].followed = {} /\ calls'[c].news = {}
        /\ calls'[c].known = [a \in Artists |-> {}] /\ calls'[c].pending # {}
        /\ \A q \in calls'[c].pending : q.do \notin Removal \cup NewEntries
        /\ intact' = (intact /\ (calls'[c].rewrites => ~OthersRewrite(c)))
    BY <1>1 DEF StartsWith
  <1>3. CallsOK'
    BY <1>1, <1>2, CallsKept
  <1>4. TypesInv'
    BY <1>1, <1>2, <1>3 DEF TypesInv, LibraryOK, WorldOK, HistoryOK, CountersOK, library, world
  <1>5. \A x \in Callers : x # c => calls'[x] = calls[x]
    BY <1>1, <1>2 DEF CallsOK
  <1>6. intact' => OneRewriter(calls') /\ (dismissed \cap newReleases = {})'
    <2>1. intact' => (Rewriting(calls'[c]) => ~OthersRewrite(c))
      BY <1>2 DEF Rewriting
    <2>2. intact' => OneRewriter(calls')
      BY <1>1, <1>2, <2>1, OneRewriterKept DEF LibraryInv
    <2>3. QED
      BY <1>1, <1>2, <2>2 DEF LibraryInv, library
  <1>7. ASSUME intact', failures' = 0
        PROVE  /\ \A x \in Callers : calls'[x] # Idle => ~calls'[x].failed
               /\ FollowInv(followingArtists', wanted', calls')
               /\ HeardInv(knownReleases', heard', calls')
    <2>1. /\ FollowInv(followingArtists, wanted, calls) /\ HeardInv(knownReleases, heard, calls)
          /\ \A x \in Callers : calls[x] # Idle => ~calls[x].failed
      BY <1>1, <1>2, <1>7 DEF LibraryInv
    <2>2. /\ followingArtists' = followingArtists /\ wanted' = wanted
          /\ knownReleases' = knownReleases /\ heard' = heard
      BY <1>1 DEF library
    <2>3. \A a \in Artists : /\ Removing(calls'[c], a) <=> Removing(calls[c], a)
                             /\ Adding(calls'[c], a) <=> Adding(calls[c], a)
      BY <1>2, IdleIsNoCall DEF Removing, Adding
    <2>4. FollowInv(followingArtists, wanted, calls')
      BY <1>1, <1>2, <2>1, <2>3, FollowKept DEF NewEntries
    <2>5. HearsOf(calls'[c], heard) /\ ToTell(calls[c]) = {}
      BY <1>2, IdleIsNoCall DEF HearsOf, ToTell, NewEntries
    <2>6. HeardInv(knownReleases, heard, calls')
      BY <1>1, <1>2, <2>1, <2>5, HeardKept
    <2>7. QED
      BY <1>2, <1>5, <2>1, <2>2, <2>4, <2>6
  <1>8. QED
    BY <1>4, <1>6, <1>7 DEF LibraryInv

LEMMA GoesOnKeeps ==
    ASSUME LibraryInv, NEW c \in Callers, GoesOn(c)
    PROVE  LibraryInv'
  <1>1. /\ calls[c] # Idle /\ calls[c].pending = {} /\ calls[c].op # "follow"
        /\ calls' = [calls EXCEPT ![c] = calls'[c]] /\ Shaped(calls'[c])
        /\ calls'[c].op = calls[c].op /\ calls'[c].failed = calls[c].failed
        /\ calls'[c].followed = calls[c].followed /\ calls'[c].known = calls[c].known
        /\ calls'[c].news = calls[c].news /\ calls'[c].rewrites = calls[c].rewrites
        /\ \A q \in calls'[c].pending : q.do \notin Removal \cup NewEntries
        /\ OnlyReads
    BY GoesOnIs DEF LibraryInv
  <1>2. CallsOK /\ TypesInv
    BY DEF LibraryInv, TypesInv
  <1>3. CallsOK'
    BY <1>1, <1>2, CallsKept
  <1>4. /\ followingArtists' = followingArtists /\ wanted' = wanted
        /\ knownReleases' = knownReleases /\ heard' = heard /\ intact' = intact
        /\ failures' = failures /\ dismissed' = dismissed /\ newReleases' = newReleases
    BY <1>1 DEF OnlyReads, library, history, counters
  <1>5. TypesInv'
    BY <1>1, <1>2, <1>3 DEF TypesInv, LibraryOK, WorldOK, HistoryOK, CountersOK,
       OnlyReads, library, world, history, counters
  <1>6. \A x \in Callers : x # c => calls'[x] = calls[x]
    BY <1>1, <1>2 DEF CallsOK
  <1>7. calls'[c] # Idle
    BY <1>1, IdleIsNoCall DEF Shaped
  <1>8. intact' => OneRewriter(calls') /\ (dismissed \cap newReleases = {})'
    BY <1>1, <1>2, <1>4, OneRewriterKept DEF LibraryInv, Rewriting
  <1>9. ASSUME intact', failures' = 0
        PROVE  /\ \A x \in Callers : calls'[x] # Idle => ~calls'[x].failed
               /\ FollowInv(followingArtists', wanted', calls')
               /\ HeardInv(knownReleases', heard', calls')
    <2>1. /\ FollowInv(followingArtists, wanted, calls) /\ HeardInv(knownReleases, heard, calls)
          /\ \A x \in Callers : calls[x] # Idle => ~calls[x].failed
      BY <1>4, <1>9 DEF LibraryInv
    <2>2. \A a \in Artists : /\ Removing(calls'[c], a) <=> Removing(calls[c], a)
                             /\ Adding(calls'[c], a) <=> Adding(calls[c], a)
      BY <1>1 DEF Removing, Adding
    <2>3. calls'[c].op = "detect" => calls'[c].followed \subseteq followingArtists
      BY <1>1, <2>1 DEF FollowInv
    <2>4. FollowInv(followingArtists, wanted, calls')
      BY <1>1, <1>2, <2>1, <2>2, <2>3, FollowKept DEF NewEntries
    <2>5. HearsOf(calls'[c], heard) /\ ToTell(calls[c]) = ToTell(calls'[c])
      BY <1>1, <2>1 DEF HeardInv, HearsOf, ToTell, NewEntries
    <2>6. HeardInv(knownReleases, heard, calls')
      BY <1>1, <1>2, <2>1, <2>5, HeardKept
    <2>7. QED
      BY <1>1, <1>4, <1>6, <2>1, <2>4, <2>6
  <1>10. QED
    BY <1>5, <1>8, <1>9 DEF LibraryInv

\* A call that returns leaves nothing it owes: a search that is over was told of, or
\* found nothing.
LEMMA ReturnsKeeps ==
    ASSUME LibraryInv, NEW c \in Callers, Returns(c) \/ Tells(c)
    PROVE  LibraryInv'
  <1>1. CallsOK /\ TypesInv
    BY DEF LibraryInv, TypesInv
  <1>2. /\ calls[c].pending = {} /\ calls' = [calls EXCEPT ![c] = Idle]
        /\ UNCHANGED <<library, world, counters, dismissed, intact, listed>>
    BY DEF Returns, Tells, Return, IsDone
  <1>3. calls[c] # Idle
    BY IdleIsNoCall DEF Returns, Tells, IsDone
  <1>4. calls'[c] = Idle /\ calls' = [calls EXCEPT ![c] = calls'[c]]
        /\ \A x \in Callers : x # c => calls'[x] = calls[x]
    BY <1>1, <1>2, MovedCall
  <1>5. Shaped(calls[c]) /\ calls[c] \in CallRecord
    BY <1>1, <1>3 DEF CallsOK, Shaped
  <1>6. CallsOK'
    BY <1>1, <1>4, CallsKept
  <1>7. \/ Returns(c) /\ familiar' = familiar /\ heard' = heard
           /\ wanted' = wanted \cup (IF calls[c].op = "follow" /\ ~calls[c].failed
                                     THEN calls[c].asked ELSE {})
        \/ Tells(c) /\ familiar' = familiar \cup calls[c].news /\ heard' = heard \cup calls[c].news
           /\ wanted' = wanted /\ calls[c].op = "detect"
    BY DEF Returns, Tells, IsDone
  <1>8. TypesInv'
    <2>1. calls[c].op = "follow" => calls[c].asked \subseteq Artists
      BY <1>5 DEF Shaped, OneArtist
    <2>2. calls[c].news \subseteq Releases
      BY <1>5 DEF CallRecord
    <2>3. wanted' \subseteq Artists /\ familiar' \subseteq Releases /\ heard' \subseteq Releases
      BY <1>1, <1>7, <2>1, <2>2 DEF TypesInv, HistoryOK
    <2>4. QED
      BY <1>1, <1>2, <1>6, <2>3 DEF TypesInv, LibraryOK, WorldOK, HistoryOK, CountersOK,
         library, world, counters
  <1>9. intact' => OneRewriter(calls') /\ (dismissed \cap newReleases = {})'
    BY <1>1, <1>2, <1>4, OneRewriterKept DEF LibraryInv, Rewriting, library
  <1>10. ASSUME intact', failures' = 0
         PROVE  /\ \A x \in Callers : calls'[x] # Idle => ~calls'[x].failed
                /\ FollowInv(followingArtists', wanted', calls')
                /\ HeardInv(knownReleases', heard', calls')
    <2>1. /\ OneRewriter(calls) /\ FollowInv(followingArtists, wanted, calls)
          /\ HeardInv(knownReleases, heard, calls)
          /\ \A x \in Callers : calls[x] # Idle => ~calls[x].failed
      BY <1>2, <1>10 DEF LibraryInv, counters
    <2>2. \A a \in Artists : ~Removing(calls[c], a) /\ ~Removing(calls'[c], a) /\ ~Adding(calls'[c], a)
      BY <1>2, <1>4, IdleIsNoCall DEF Removing, Adding
    <2>3. /\ followingArtists' = followingArtists /\ knownReleases' = knownReleases
          /\ calls'[c].op \notin {"detect", "settings"}
      BY <1>2, <1>4, IdleIsNoCall DEF library
    <2>4. FollowInv(followingArtists', wanted', calls')
      <3>1. CASE calls[c].op # "follow"
        <4>1. \A a \in Artists : ~Adding(calls[c], a)
          BY <3>1 DEF Adding
        <4>2. FollowInv(followingArtists, wanted, calls')
          BY <1>1, <1>4, <2>1, <2>2, <2>3, <4>1, FollowKept
        <4>3. QED
          BY <1>7, <2>3, <3>1, <4>2
      <3>2. CASE calls[c].op = "follow"
        <4>1. calls[c].rewrites
          BY <1>5, <3>2 DEF Shaped, Rewrites
        <4>2. \A x \in Callers \ {c} :
                 /\ \A a : ~Removing(calls[x], a) /\ ~Adding(calls[x], a)
                 /\ calls[x].op \notin {"detect", "settings"}
          <5>1. \A x \in Callers \ {c} : ~Rewriting(calls[x])
            BY <1>3, <2>1, <4>1 DEF OneRewriter, Rewriting
          <5>2. ASSUME NEW x \in Callers \ {c}
                PROVE  /\ \A a : ~Removing(calls[x], a) /\ ~Adding(calls[x], a)
                       /\ calls[x].op \notin {"detect", "settings"}
            BY <1>1, <5>1, RestIsQuiet
          <5>3. QED
            BY <5>2
        <4>3. \A a \in Artists : a \in followingArtists <=> a \in wanted \/ Adding(calls[c], a)
          BY <2>1, <2>2, <4>2 DEF FollowInv
        <4>4. \A a \in Artists : Adding(calls[c], a) <=> a \in calls[c].asked
          BY <1>2, <3>2 DEF Adding
        <4>5. wanted' = wanted \cup calls[c].asked
          BY <1>3, <1>7, <2>1, <3>2
        <4>6. \A x \in Callers : /\ \A a \in Artists : ~Removing(calls'[x], a) /\ ~Adding(calls'[x], a)
                                 /\ calls'[x].op \notin {"detect", "settings"}
          BY <1>4, <2>2, <2>3, <4>2
        <4>7. \A a \in Artists : a \in followingArtists' <=> a \in wanted'
          BY <2>3, <4>3, <4>4, <4>5
        <4>8. QED
          BY <4>6, <4>7 DEF FollowInv
      <3>3. QED
        BY <3>1, <3>2
    <2>5. HearsOf(calls'[c], heard') /\ heard \subseteq heard'
      BY <1>4, <1>7 DEF HearsOf
    <2>6. ToTell(calls[c]) \subseteq heard'
      <3>1. CASE Tells(c)
        BY <1>7, <3>1 DEF ToTell, Returns, Tells
      <3>2. CASE ~Tells(c) /\ calls[c].op = "detect"
        <4>1. /\ calls[c].stage \in {"begin", "search", "merge"} /\ ~calls[c].failed
              /\ calls[c].stage # "begin"
          BY <1>2, <1>3, <1>5, <2>1, <3>2 DEF Shaped
        <4>2. ~HasNews(c) /\ ~IsDone(c, "detect", "merge")
          BY <3>2 DEF Returns
        <4>3. calls[c].news = {}
          BY <1>2, <3>2, <4>1, <4>2 DEF HasNews, IsDone
        <4>4. QED
          BY <4>3 DEF ToTell
      <3>3. CASE calls[c].op # "detect"
        BY <3>3 DEF ToTell
      <3>4. QED
        BY <3>1, <3>2, <3>3
    <2>7. HeardInv(knownReleases, heard', calls')
      BY <1>1, <1>4, <2>1, <2>5, <2>6, HeardKept
    <2>8. QED
      BY <1>4, <2>1, <2>3, <2>4, <2>7
  <1>11. QED
    BY <1>8, <1>9, <1>10 DEF LibraryInv

LEMMA CatalogChangesKeeps ==
    ASSUME LibraryInv, CatalogChanges
    PROVE  LibraryInv'
  <1>1. UNCHANGED <<library, calls, history, overlaps, failures>>
    BY DEF CatalogChanges
  <1>2. changes' \in 0..MaxChanges
    BY BoundsAssumption DEF CatalogChanges, LibraryInv, TypesInv, CountersOK
  <1>3. WorldOK'
    BY DEF CatalogChanges, LibraryInv, TypesInv, WorldOK
  <1>4. TypesInv'
    BY <1>1, <1>2, <1>3 DEF LibraryInv, TypesInv, LibraryOK, HistoryOK, CountersOK, CallsOK,
       library, history
  <1>5. QED
    BY <1>1, <1>4 DEF LibraryInv, library, history

LEMMA LibraryStarts == Init => LibraryInv
  <1> SUFFICES ASSUME Init PROVE LibraryInv
    OBVIOUS
  <1>1. \A c \in Callers : calls[c] = Idle
    BY DEF Init
  <1>2. CallsOK
    BY <1>1 DEF Init, CallsOK
  <1>3. TypesInv
    BY <1>2, BoundsAssumption DEF Init, TypesInv, LibraryOK, WorldOK, HistoryOK, CountersOK, Settings
  <1>4. \A c \in Callers : \A a : ~Removing(calls[c], a) /\ ~Adding(calls[c], a)
    BY <1>1, IdleIsNoCall DEF Removing, Adding
  <1>5. \A c \in Callers : calls[c].op \notin {"detect", "settings"}
    BY <1>1, IdleIsNoCall
  <1>6. FollowInv(followingArtists, wanted, calls)
    BY <1>4, <1>5 DEF FollowInv, Init
  <1>7. HeardInv(knownReleases, heard, calls)
    BY <1>1 DEF HeardInv, HearsOf, Init
  <1>8. OneRewriter(calls) /\ dismissed \cap newReleases = {}
    BY <1>1 DEF OneRewriter, Rewriting, Init
  <1>9. QED
    BY <1>1, <1>3, <1>6, <1>7, <1>8 DEF LibraryInv

LEMMA LibraryStep == LibraryInv /\ [Next]_vars => LibraryInv'
  <1> SUFFICES ASSUME LibraryInv, [Next]_vars PROVE LibraryInv'
    OBVIOUS
  <1>1. CASE CatalogChanges
    BY <1>1, CatalogChangesKeeps
  <1>2. ASSUME NEW c \in Callers, Starts(c) PROVE LibraryInv'
    BY <1>2, StartsKeeps
  <1>3. ASSUME NEW c \in Callers, calls[c] # Idle, NEW q \in calls[c].pending, Answered(c, q)
        PROVE  LibraryInv'
    BY <1>3, AnsweredKeeps DEF At, LibraryInv
  <1>4. ASSUME NEW c \in Callers, GoesOn(c) PROVE LibraryInv'
    BY <1>4, GoesOnKeeps
  <1>5. ASSUME NEW c \in Callers, Tells(c) \/ Returns(c) PROVE LibraryInv'
    BY <1>5, ReturnsKeeps
  <1>6. CASE UNCHANGED vars
    <2>1. UNCHANGED <<library, world, calls, history, counters>>
      BY <1>6 DEF vars
    <2>2. QED
      BY <2>1 DEF LibraryInv, TypesInv, LibraryOK, WorldOK, HistoryOK, CountersOK, CallsOK,
         library, world, history, counters
  <1>7. QED
    BY <1>1, <1>2, <1>3, <1>4, <1>5, <1>6 DEF Next

\* The invariant holds for every number of artists, releases, callers and failures
\* (src/src/services/firebase): the library's shapes, one rewriter at a time as long as
\* no call spoiled another's work, and what is followed, heard of and dismissed.
THEOREM LibraryHolds == Spec => []LibraryInv
  BY LibraryStarts, LibraryStep, PTL DEF Spec

\* The user follows what was asked for and no other artist, whenever no call is under
\* way, no call spoiled another one's work and no request failed
\* (saveArtistAndKnownReleasesToDb, deleteArtistFromDb, saveFollowingArtistSummariesToDb).
THEOREM FollowingAlwaysAsWanted == Spec => []FollowingAsWanted
  <1>1. LibraryInv => FollowingAsWanted
    <2> SUFFICES ASSUME LibraryInv, intact, failures = 0, AtRest
                 PROVE  followingArtists = wanted
      BY DEF FollowingAsWanted
    <2>1. /\ FollowInv(followingArtists, wanted, calls)
          /\ followingArtists \subseteq Artists /\ wanted \subseteq Artists
      BY DEF LibraryInv, TypesInv, LibraryOK, HistoryOK
    <2>2. \A c \in Callers : \A a : ~Removing(calls[c], a) /\ ~Adding(calls[c], a)
      BY IdleIsNoCall DEF AtRest, Removing, Adding
    <2>3. \A a \in Artists : a \in followingArtists <=> a \in wanted
      BY <2>1, <2>2 DEF FollowInv
    <2>4. QED
      BY <2>1, <2>3
  <1>2. QED
    BY <1>1, LibraryHolds, PTL

\* What becomes known was there when its artist was followed or its releases were
\* rebuilt, or the user is told of it: a search that ends without a failure swallows
\* nothing (getNewReleases, mergeKnownReleasesForFollowedReleaseArtists).  The theorem
\* states the model's type invariant too.
THEOREM KnownAlwaysHeard == Spec => []KnownWasHeard
  <1>1. LibraryInv => KnownWasHeard
    <2> SUFFICES ASSUME LibraryInv PROVE KnownWasHeard
      OBVIOUS
    <2>1. TypeOK
      <3>1. \A c \in Callers : calls[c] # Idle => \A q \in calls[c].pending :
               /\ q.artist \in Artists \cup {None}
               /\ q.do = "replaceKnown" => q.news \subseteq q.ids /\ q.pruned \cap q.ids = {}
        <4>1. ASSUME NEW c \in Callers, calls[c] # Idle, NEW q \in calls[c].pending
              PROVE  At(c, q)
          BY <4>1 DEF At, LibraryInv
        <4>2. QED
          BY <4>1, AtIs DEF Piece, PieceShaped
      <3>2. QED
        BY <3>1 DEF TypeOK, LibraryInv, TypesInv, LibraryOK, WorldOK, HistoryOK, CountersOK
    <2>2. ASSUME intact, failures = 0, AtRest, NEW a \in Artists
          PROVE  knownReleases[a] \subseteq heard
      <3>1. HeardInv(knownReleases, heard, calls)
        BY <2>2 DEF LibraryInv
      <3>2. \A c \in Callers : ToTell(calls[c]) = {}
        BY <2>2, IdleIsNoCall DEF AtRest, ToTell
      <3>3. QED
        BY <3>1, <3>2 DEF HeardInv
    <2>3. QED
      BY <2>1, <2>2 DEF KnownWasHeard
  <1>2. QED
    BY <1>1, LibraryHolds, PTL

\* A new release that the user removed does not come back unless it is found anew,
\* whatever is searched meanwhile (removeNewReleasesFromDb, mergeNewReleasesIntoState).
THEOREM DismissedAlwaysStaysAway == Spec => []DismissedStaysAway
  <1>1. LibraryInv => DismissedStaysAway
    BY DEF LibraryInv, DismissedStaysAway
  <1>2. QED
    BY <1>1, LibraryHolds, PTL

-----------------------------------------------------------------------------
(* Tables.                                                                  *)

\* The call's piece q is done, those of more follow.
Follows(call, next, q, more) ==
    /\ next.op = call.op /\ next.asked = call.asked /\ next.stage = call.stage
    /\ next.known = call.known /\ next.pending = (call.pending \ {q}) \cup more
    /\ \A p \in more : p.artist = q.artist /\ p.do # "readFollowed"
    /\ \A p, r \in more : p = r

LEMMA FollowsApart ==
    ASSUME NEW call, NEW next, NEW q \in call.pending, NEW more,
           Follows(call, next, q, more), Apart(call)
    PROVE  Apart(next)
  BY DEF Apart, Follows

\* What a piece knows and takes off the list depends on its call only in part.
LEMMA SameCallFits ==
    ASSUME NEW call, NEW next, next.op = call.op, next.asked = call.asked,
           next.stage = call.stage, next.known = call.known
    PROVE  /\ \A q, K, F, N, O : PieceFits(next, q, K, F, N, O) <=> PieceFits(call, q, K, F, N, O)
           /\ \A q, r, K : Leaves(next, q, r, K) <=> Leaves(call, q, r, K)
  BY DEF PieceFits, Leaves

\* Only calls about artists remove any.
LEMMA NoneRemoved ==
    ASSUME NEW call, Shaped(call), call.op \in {"detect", "settings", "verify"}
    PROVE  \A q \in call.pending : q.do \notin UnfollowSteps
  BY DEF Shaped, PieceShaped, Takes, DetectReads, SearchSteps, SettingsReads, SettingsSteps,
     VerifySteps, UnfollowSteps, Removal

LEMMA NothingLater ==
    ASSUME NEW call, \A q \in call.pending : q.do \notin Removal
    PROVE  Nested(call) /\ \A K, F, N : LaterOf(call, K, F, N)
  BY DEF Nested, LaterOf

\* There is no other piece of work, or what is known of the other artists stays and
\* neither list grows, but for the news of a search.
OnlyOf(call, q, K, F, N, K2, F2, N2) ==
    \/ call.pending = {q}
    \/ /\ \A a \in Artists : a # q.artist => K2[a] = K[a]
       /\ N2 \subseteq N \/ call.op = "detect"
       /\ F2 \subseteq F

OthersFit(call, q, K, K2, F2, N2, O) ==
    \A p \in call.pending \ {q} :
       /\ PieceFits(call, p, K2, F2, N2, O)
       /\ \A r : Leaves(call, p, r, K2) <=> Leaves(call, p, r, K)

\* Pieces beside the one that goes on know what they knew.
LEMMA OthersStillFit ==
    ASSUME NEW call, Shaped(call), Apart(call), NEW q \in call.pending,
           NEW K, NEW F, NEW N, NEW O, NEW K2, NEW F2, NEW N2,
           Sole(call, K, F, N, O), OnlyOf(call, q, K, F, N, K2, F2, N2)
    PROVE  OthersFit(call, q, K, K2, F2, N2, O)
  <1> SUFFICES ASSUME NEW p \in call.pending \ {q}
               PROVE  /\ PieceFits(call, p, K2, F2, N2, O)
                      /\ \A r : Leaves(call, p, r, K2) <=> Leaves(call, p, r, K)
    BY DEF OthersFit
  <1>1. p.artist # q.artist /\ PieceShaped(call, p) /\ PieceFits(call, p, K, F, N, O) /\ F2 \subseteq F
    BY DEF Shaped, Apart, Sole, OnlyOf
  <1>2. /\ p.artist \in Artists => K2[p.artist] = K[p.artist]
        /\ N2 \subseteq N \/ call.op = "detect"
    BY <1>1 DEF OnlyOf
  <1>3. call.op = "detect" /\ p.do \notin DetectReads => p.artist \in Artists
    BY <1>1 DEF PieceShaped, Shaped, CallRecord
  <1>4. p.do \in ArtistSteps => p.artist \in Artists
    BY <1>1 DEF PieceShaped
  <1>5. call.op # "follow"
    BY DEF Shaped, InOnePiece, OneArtist
  <1>6. p.do \in Removal => call.op # "detect"
    BY NoneRemoved DEF UnfollowSteps
  <1>7. PieceFits(call, p, K2, F2, N2, O)
    <2>1. call.op = "detect" =>
            /\ p.do = "search" => K2[p.artist] \subseteq call.known[p.artist]
            /\ p.do = "replaceKnown" => K2[p.artist] \subseteq p.ids \cup p.pruned
            /\ p.do \in {"readToFollow", "writeFollow", "storeNews"} => p.news \subseteq K2[p.artist]
      BY <1>1, <1>2, <1>3 DEF PieceFits, DetectReads
    <2>2. call.op = "settings" =>
            /\ p.do \in {"readFollowed", "rebuild", "replaceRebuilt"} => call.stage = "rebuild"
            /\ p.do = "replaceRebuilt" =>
                  \A r \in K2[p.artist] \cap N2 : r \in p.ids \/ \E s \in call.asked : r \in Outside(s, O)
      BY <1>1, <1>2, <1>4 DEF PieceFits, ArtistSteps
    <2>3. /\ p.do \in {"replaceKnown", "replaceRebuilt", "mergeKnown"} => p.ids \subseteq ReleasesBy(p.artist)
          /\ p.do = "readKnownToUnfollow" => N2 \subseteq p.shown
          /\ p.do \in Removal => F2 \subseteq p.read \ {p.artist}
      BY <1>1, <1>2, <1>6 DEF PieceFits, Removal
    <2>4. QED
      BY <2>1, <2>2, <2>3, <1>5 DEF PieceFits
  <1>8. p.do \in {"readShownToUnfollow", "readKnownToUnfollow"} => p.artist \in Artists
    BY <1>4 DEF ArtistSteps, UnfollowSteps, Removal
  <1>9. \A r : Leaves(call, p, r, K2) <=> Leaves(call, p, r, K)
    BY <1>2, <1>8 DEF Leaves
  <1>10. QED
    BY <1>7, <1>9

LEMMA SoleStep ==
    ASSUME NEW call, Shaped(call), NEW next, NEW q \in call.pending, NEW more,
           Follows(call, next, q, more),
           NEW K, NEW F, NEW N, NEW O, NEW K2, NEW F2, NEW N2,
           Sole(call, K, F, N, O), Apart(call),
           OnlyOf(call, q, K, F, N, K2, F2, N2),
           \A p \in more : PieceFits(call, p, K2, F2, N2, O),
           EntriesOf(next, K2, F2), Nested(next), LaterOf(next, K2, F2, N2),
           \A r \in N2 : \/ KeptBy(r, K2, F2) \/ WillLeave(next, r, K2, O)
                         \/ /\ r \in N /\ ~KeptBy(r, K, F) /\ ~Leaves(call, q, r, K)
                            /\ Sifts(call) => Sifts(next)
    PROVE  Apart(next) /\ Sole(next, K2, F2, N2, O)
  <1>1. OthersFit(call, q, K, K2, F2, N2, O)
    BY OthersStillFit
  <1>2. \A p : /\ PieceFits(next, p, K2, F2, N2, O) <=> PieceFits(call, p, K2, F2, N2, O)
               /\ \A r : Leaves(next, p, r, K2) <=> Leaves(call, p, r, K2)
    BY SameCallFits DEF Follows
  <1>3. \A p \in next.pending : PieceFits(next, p, K2, F2, N2, O)
    BY <1>1, <1>2 DEF Follows, OthersFit
  <1>4. ASSUME NEW r \in N2
        PROVE  KeptBy(r, K2, F2) \/ WillLeave(next, r, K2, O)
    <2>1. SUFFICES ASSUME r \in N, ~KeptBy(r, K, F), ~Leaves(call, q, r, K), Sifts(call) => Sifts(next)
                   PROVE  WillLeave(next, r, K2, O)
      OBVIOUS
    <2>2. WillLeave(call, r, K, O)
      BY <2>1 DEF Sole
    <2>3. CASE \E p \in call.pending : Leaves(call, p, r, K)
      <3>1. PICK p \in call.pending \ {q} : Leaves(call, p, r, K)
        BY <2>1, <2>3
      <3>2. p \in next.pending /\ Leaves(next, p, r, K2)
        BY <3>1, <1>1, <1>2 DEF Follows, OthersFit
      <3>3. QED
        BY <3>2 DEF WillLeave
    <2>4. CASE Sifts(call) /\ \E s \in call.asked : r \in Outside(s, O)
      BY <2>1, <2>4 DEF WillLeave, Follows
    <2>5. QED
      BY <2>2, <2>3, <2>4 DEF WillLeave
  <1>5. Apart(next)
    BY FollowsApart
  <1>6. QED
    BY <1>3, <1>4, <1>5 DEF Sole

\* What is being removed stays the same.
LEMMA SameRemovals ==
    ASSUME NEW call, NEW next, NEW q, NEW more, Follows(call, next, q, more),
           q.do \notin Removal, \A p \in more : p.do \notin Removal,
           NEW K, NEW F, NEW N, NEW O, Sole(call, K, F, N, O), call # Idle, next # Idle
    PROVE  EntriesOf(next, K, F) /\ Nested(next) /\ LaterOf(next, K, F, N)
  <1>1. \A p : p \in next.pending /\ p.do \in Removal <=> p \in call.pending /\ p.do \in Removal
    BY DEF Follows
  <1>2. \A a : Removing(next, a) <=> Removing(call, a)
    BY <1>1 DEF Removing
  <1>3. EntriesOf(next, K, F)
    BY <1>2 DEF Sole, EntriesOf, Following, Follows
  <1>4. Nested(next)
    BY <1>1 DEF Sole, Nested
  <1>5. \A p, r : Leaves(next, p, r, K) <=> Leaves(call, p, r, K)
    BY SameCallFits DEF Follows
  <1>6. LaterOf(next, K, F, N)
    BY <1>1, <1>5 DEF Sole, LaterOf
  <1>7. QED
    BY <1>3, <1>4, <1>6

\* A call that only looks on.
LEMMA LooksOn ==
    ASSUME NEW call, Shaped(call), NEW next, next # Idle, NEW q \in call.pending, NEW more,
           Follows(call, next, q, more),
           NEW K, NEW F, NEW N, NEW O, Sole(call, K, F, N, O), Apart(call),
           q.do \notin Removal, \A p \in more : p.do \notin Removal,
           \A p \in more : PieceFits(call, p, K, F, N, O),
           \A r \in N : Leaves(call, q, r, K) => KeptBy(r, K, F) \/ \E p \in more : Leaves(call, p, r, K),
           q.do # "readOutside"
    PROVE  Apart(next) /\ Sole(next, K, F, N, O)
  <1>1. call # Idle
    BY IdleIsNoCall DEF Shaped
  <1>2. EntriesOf(next, K, F) /\ Nested(next) /\ LaterOf(next, K, F, N)
    BY <1>1, SameRemovals
  <1>3. Sifts(call) => Sifts(next)
    BY DEF Sifts, Follows
  <1>4. \A p, r : Leaves(next, p, r, K) <=> Leaves(call, p, r, K)
    BY SameCallFits DEF Follows
  <1>5. \A r \in N : \/ KeptBy(r, K, F) \/ WillLeave(next, r, K, O)
                     \/ /\ r \in N /\ ~KeptBy(r, K, F) /\ ~Leaves(call, q, r, K)
                        /\ Sifts(call) => Sifts(next)
    BY <1>3, <1>4 DEF WillLeave, Follows
  <1>6. OnlyOf(call, q, K, F, N, K, F, N)
    BY DEF OnlyOf
  <1>7. QED
    BY <1>2, <1>5, <1>6, SoleStep

\* A call at the beginning of what it does: there is one piece of work, which takes
\* nothing off the list.
LEMMA Begins ==
    ASSUME NEW call, call # Idle, NEW next, NEW q, call.pending = {q}, q.do \notin Removal,
           next # Idle, next.op = call.op, next.asked = call.asked,
           NEW K, NEW F, NEW N, NEW O, Sole(call, K, F, N, O),
           \A r : ~Leaves(call, q, r, K), Sifts(call) => Sifts(next),
           \A p \in next.pending : PieceFits(next, p, K, F, N, O) /\ p.do \notin Removal
    PROVE  Sole(next, K, F, N, O)
  <1>1. \A a : ~Removing(call, a)
    BY DEF Removing
  <1>2. EntriesOf(next, K, F)
    BY <1>1 DEF Sole, EntriesOf, Following
  <1>3. \A r \in N : KeptBy(r, K, F) \/ WillLeave(next, r, K, O)
    BY DEF Sole, WillLeave
  <1>4. QED
    BY <1>2, <1>3, NothingLater DEF Sole

-----------------------------------------------------------------------------
(* The call that rewrites the library answers a request.                    *)

Alone(c, q) ==
    /\ At(c, q) /\ Apart(calls[c]) /\ OfOne(knownReleases)
    /\ Sole(calls[c], knownReleases, followingArtists, newReleases, old)
    /\ calls[c].op = "detect" => calls[c].followed \subseteq followingArtists
    /\ calls[c].op = "settings" => \A p \in calls[c].pending :
          p.do \in {"rebuild", "replaceRebuilt"} => p.artist \in followingArtists

StaysAlone(c) ==
    /\ OfOne(knownReleases') /\ Apart(calls'[c])
    /\ Sole(calls'[c], knownReleases', followingArtists', newReleases', old')

LEMMA AloneIs ==
    ASSUME NEW c, NEW q, Alone(c, q)
    PROVE  /\ calls[c] \in CallRecord /\ Shaped(calls[c]) /\ calls[c] # Idle /\ q \in calls[c].pending
           /\ q \in Piece /\ PieceShaped(calls[c], q)
           /\ PieceFits(calls[c], q, knownReleases, followingArtists, newReleases, old)
           /\ q.do \in ArtistSteps => q.artist \in Artists
           /\ calls[c].op = "detect" /\ q.do \notin DetectReads =>
                 q.artist \in Artists /\ q.artist \in followingArtists
           /\ LibraryOK /\ WorldOK
  <1>1. /\ calls[c] \in CallRecord /\ Shaped(calls[c]) /\ calls[c] # Idle /\ q \in calls[c].pending
        /\ q \in Piece /\ PieceShaped(calls[c], q)
        /\ PieceFits(calls[c], q, knownReleases, followingArtists, newReleases, old)
        /\ LibraryOK /\ WorldOK
    BY AtIs DEF Alone, At, TypesInv, Sole
  <1>2. calls[c].op = "detect" /\ q.do \notin DetectReads =>
                 q.artist \in Artists /\ q.artist \in followingArtists
    BY <1>1 DEF PieceShaped, Alone, CallRecord
  <1>3. QED
    BY <1>1, <1>2 DEF PieceShaped

\* What goes on with one piece, and what ends.
LEMMA OneFollows ==
    ASSUME NEW c, NEW q, Alone(c, q), NEW p \in Piece, p.artist = q.artist, p.do # "readFollowed",
           Continue(c, q, {p})
    PROVE  Follows(calls[c], calls'[c], q, {p}) /\ calls'[c] # Idle
  <1>1. At(c, q)
    BY DEF Alone
  <1>2. /\ calls'[c] \in CallRecord /\ calls'[c].op = calls[c].op /\ calls'[c].asked = calls[c].asked
        /\ calls'[c].pending = (calls[c].pending \ {q}) \cup {p} /\ KnowsTheSame(c)
    BY <1>1, ContinuedCall
  <1>3. QED
    BY <1>2, IdleIsNoCall DEF Follows, KnowsTheSame

LEMMA NoneFollows ==
    ASSUME NEW c, NEW q, Alone(c, q), Continue(c, q, {})
    PROVE  Follows(calls[c], calls'[c], q, {}) /\ calls'[c] # Idle
  <1>1. At(c, q)
    BY DEF Alone
  <1>2. /\ calls'[c] \in CallRecord /\ calls'[c].op = calls[c].op /\ calls'[c].asked = calls[c].asked
        /\ calls'[c].pending = (calls[c].pending \ {q}) \cup {} /\ KnowsTheSame(c)
    BY <1>1, ContinuedCall
  <1>3. QED
    BY <1>2, IdleIsNoCall DEF Follows, KnowsTheSame

\* Nothing changes but the piece that looked.
LEMMA LookedAt ==
    ASSUME NEW c, NEW q, Alone(c, q), NEW more, Follows(calls[c], calls'[c], q, more), calls'[c] # Idle,
           UNCHANGED <<knownReleases, followingArtists, newReleases, old>>,
           q.do \notin Removal \cup {"readOutside"},
           \A p \in more :
              /\ p.do \notin Removal
              /\ PieceFits(calls[c], p, knownReleases, followingArtists, newReleases, old),
           \A r \in newReleases : Leaves(calls[c], q, r, knownReleases) =>
              \/ KeptBy(r, knownReleases, followingArtists)
              \/ \E p \in more : Leaves(calls[c], p, r, knownReleases)
    PROVE  StaysAlone(c)
  <1> DEFINE K == knownReleases
             F == followingArtists
             N == newReleases
             O == old
             call == calls[c]
             next == calls'[c]
  <1>1. Shaped(call) /\ q \in call.pending /\ Sole(call, K, F, N, O) /\ Apart(call) /\ OfOne(K)
    BY AloneIs DEF Alone
  <1>2. K' = K /\ F' = F /\ N' = N /\ O' = O
    OBVIOUS
  <1>3. Apart(next) /\ Sole(next, K, F, N, O)
    <2> HIDE DEF K, F, N, O, call, next
    <2>1. /\ Follows(call, next, q, more) /\ next # Idle /\ q.do \notin Removal /\ q.do # "readOutside"
          /\ \A p \in more : p.do \notin Removal /\ PieceFits(call, p, K, F, N, O)
          /\ \A r \in N : Leaves(call, q, r, K) => KeptBy(r, K, F) \/ \E p \in more : Leaves(call, p, r, K)
      BY DEF K, F, N, O, call, next
    <2>2. QED
      BY <1>1, <2>1, LooksOn
  <1>4. QED
    BY <1>1, <1>2, <1>3 DEF StaysAlone

\* What goes on with one piece that knows what it has to, and takes off the list what the
\* piece before it would have.
LEMMA LooksOnce ==
    ASSUME NEW c, NEW q, Alone(c, q), NEW p \in Piece, p.artist = q.artist, Continue(c, q, {p}),
           UNCHANGED <<knownReleases, followingArtists, newReleases, old>>,
           q.do \notin Removal \cup {"readOutside"}, p.do \notin Removal \cup {"readFollowed"},
           PieceFits(calls[c], p, knownReleases, followingArtists, newReleases, old),
           \A r \in newReleases : Leaves(calls[c], q, r, knownReleases) =>
              \/ KeptBy(r, knownReleases, followingArtists)
              \/ Leaves(calls[c], p, r, knownReleases)
    PROVE  StaysAlone(c)
  <1>1. Follows(calls[c], calls'[c], q, {p}) /\ calls'[c] # Idle
    BY OneFollows
  <1> DEFINE more == {p}
  <1>2. /\ \A x \in more : x = p
        /\ p \in more /\ Follows(calls[c], calls'[c], q, more)
    BY <1>1
  <1> HIDE DEF more
  <1>3. \A r \in newReleases : Leaves(calls[c], q, r, knownReleases) =>
              \/ KeptBy(r, knownReleases, followingArtists)
              \/ \E x \in more : Leaves(calls[c], x, r, knownReleases)
    BY <1>2
  <1>4. \A x \in more : /\ x.do \notin Removal
                        /\ PieceFits(calls[c], x, knownReleases, followingArtists, newReleases, old)
    BY <1>2
  <1>5. QED
    BY <1>1, <1>2, <1>3, <1>4, LookedAt

LEMMA LooksLast ==
    ASSUME NEW c, NEW q, Alone(c, q), Continue(c, q, {}),
           UNCHANGED <<knownReleases, followingArtists, newReleases, old>>,
           q.do \notin Removal \cup {"readOutside"},
           \A r \in newReleases : Leaves(calls[c], q, r, knownReleases) =>
              KeptBy(r, knownReleases, followingArtists)
    PROVE  StaysAlone(c)
  <1>1. Follows(calls[c], calls'[c], q, {}) /\ calls'[c] # Idle
    BY NoneFollows
  <1>2. QED
    BY <1>1, LookedAt

LEMMA ReadsToFollowAlone ==
    ASSUME NEW c, NEW q, Alone(c, q), ReadsToFollow(c, q)
    PROVE  StaysAlone(c)
  <1> DEFINE p == [Then(q, "writeFollow") EXCEPT !.read = followingArtists]
  <1>1. q \in Piece /\ q.do = "readToFollow" /\ followingArtists \subseteq Artists
        /\ PieceFits(calls[c], q, knownReleases, followingArtists, newReleases, old)
        /\ Continue(c, q, {p}) /\ OnlyReads
    BY AloneIs DEF ReadsToFollow, LibraryOK
  <1>2. p \in Piece /\ p.do = "writeFollow" /\ p.artist = q.artist /\ p.news = q.news
        /\ p.pruned = q.pruned
    BY <1>1, StepsAre DEF Piece, Then
  <1> HIDE DEF p
  <1>3. PieceFits(calls[c], p, knownReleases, followingArtists, newReleases, old)
    BY <1>1, <1>2 DEF PieceFits, Removal
  <1>4. \A r : Leaves(calls[c], q, r, knownReleases) => Leaves(calls[c], p, r, knownReleases)
    BY <1>1, <1>2 DEF Leaves
  <1>5. QED
    BY <1>1, <1>2, <1>3, <1>4, LooksOnce DEF Removal, OnlyReads, library, world

LEMMA ReadsShownAlone ==
    ASSUME NEW c, NEW q, Alone(c, q), ReadsShown(c, q)
    PROVE  StaysAlone(c)
  <1> DEFINE p == [Then(q, "readKnown") EXCEPT !.shown = newReleases]
  <1>1. q \in Piece /\ q.do = "readShown" /\ newReleases \subseteq Releases
        /\ Continue(c, q, {p}) /\ OnlyReads
    BY AloneIs DEF ReadsShown, LibraryOK
  <1>2. p \in Piece /\ p.do = "readKnown" /\ p.artist = q.artist
        /\ p.pruned = q.pruned /\ p.shown = newReleases
    BY <1>1, StepsAre DEF Piece, Then
  <1> HIDE DEF p
  <1>3. PieceFits(calls[c], p, knownReleases, followingArtists, newReleases, old)
    BY <1>2 DEF PieceFits, Removal
  <1>4. \A r \in newReleases : Leaves(calls[c], q, r, knownReleases) => Leaves(calls[c], p, r, knownReleases)
    BY <1>1, <1>2 DEF Leaves
  <1>5. QED
    BY <1>1, <1>2, <1>3, <1>4, LooksOnce DEF Removal, OnlyReads, library, world

\* What another artist still knows is kept: it is followed, as nobody is being removed.
LEMMA ReadsKnownAlone ==
    ASSUME NEW c, NEW q, Alone(c, q), ReadsKnown(c, q)
    PROVE  StaysAlone(c)
  <1> DEFINE p == [Then(q, "readShownToRemove") EXCEPT !.pruned = PrunedForGood(q)]
             K == knownReleases
  <1>1. q \in Piece /\ q.do = "readKnown" /\ OnlyReads /\ Shaped(calls[c]) /\ PieceShaped(calls[c], q)
    BY AloneIs DEF ReadsKnown
  <1>2. PrunedForGood(q) \subseteq Releases
    BY <1>1 DEF PrunedForGood, Piece
  <1>3. p \in Piece /\ p.do = "readShownToRemove" /\ p.artist = q.artist /\ p.pruned = PrunedForGood(q)
    BY <1>1, <1>2, StepsAre DEF Piece, Then
  <1>4. Continue(c, q, IF PrunedForGood(q) = {} THEN {} ELSE {p})
    BY DEF ReadsKnown
  <1> HIDE DEF p
  <1>5. calls[c].op = "detect"
    BY <1>1 DEF Shaped, CallRecord, Ops, OneArtist, PieceShaped, Takes, FollowSteps, UnfollowSteps,
       Removal, RefreshSteps, DismissSteps, VerifySteps, SettingsReads, SettingsSteps
  <1>6. ASSUME NEW r, Leaves(calls[c], q, r, K), r \notin PrunedForGood(q)
        PROVE  KeptBy(r, K, followingArtists)
    <2>1. PICK a \in Artists : r \in K[a]
      BY <1>1, <1>6 DEF Leaves, PrunedForGood
    <2>2. ~Removing(calls[c], a) /\ ~Following(calls[c], a)
      BY <1>1, <1>5, NoneRemoved DEF Removing, Following, UnfollowSteps
    <2>3. a \in followingArtists
      BY <2>1, <2>2 DEF Alone, Sole, EntriesOf
    <2>4. QED
      BY <2>1, <2>3 DEF KeptBy
  <1>7. CASE PrunedForGood(q) = {}
    BY <1>1, <1>4, <1>6, <1>7, LooksLast DEF Removal, OnlyReads, library, world
  <1>8. CASE PrunedForGood(q) # {}
    <2>1. PieceFits(calls[c], p, K, followingArtists, newReleases, old)
      BY <1>3 DEF PieceFits, Removal
    <2>2. \A r : Leaves(calls[c], q, r, K) => KeptBy(r, K, followingArtists) \/ Leaves(calls[c], p, r, K)
      BY <1>3, <1>6 DEF Leaves
    <2>3. QED
      BY <1>1, <1>3, <1>4, <1>8, <2>1, <2>2, LooksOnce DEF Removal, OnlyReads, library, world
  <1>9. QED
    BY <1>7, <1>8

LEMMA ReadsShownToRemoveAlone ==
    ASSUME NEW c, NEW q, Alone(c, q), ReadsShownToRemove(c, q)
    PROVE  StaysAlone(c)
  <1> DEFINE p == [Then(q, "writeShown") EXCEPT !.shown = newReleases, !.ids = newReleases \ q.pruned]
  <1>1. q \in Piece /\ q.do = "readShownToRemove" /\ newReleases \subseteq Releases
        /\ Continue(c, q, {p}) /\ OnlyReads
    BY AloneIs DEF ReadsShownToRemove, LibraryOK
  <1>2. p \in Piece /\ p.do = "writeShown" /\ p.artist = q.artist /\ p.ids = newReleases \ q.pruned
    BY <1>1, StepsAre DEF Piece, Then
  <1> HIDE DEF p
  <1>3. PieceFits(calls[c], p, knownReleases, followingArtists, newReleases, old)
    BY <1>2 DEF PieceFits, Removal
  <1>4. \A r : Leaves(calls[c], q, r, knownReleases) => Leaves(calls[c], p, r, knownReleases)
    BY <1>1, <1>2 DEF Leaves
  <1>5. QED
    BY <1>1, <1>2, <1>3, <1>4, LooksOnce DEF Removal, OnlyReads, library, world

LEMMA ReadsShownToVerifyAlone ==
    ASSUME NEW c, NEW q, Alone(c, q), ReadsShownToVerify(c, q)
    PROVE  StaysAlone(c)
  <1> DEFINE p == [Then(q, "writeShown") EXCEPT !.shown = newReleases, !.ids = newReleases \ calls[c].asked]
  <1>1. q \in Piece /\ q.do = "readShownToVerify" /\ newReleases \subseteq Releases /\ OnlyReads
        /\ Continue(c, q, IF calls[c].asked \cap newReleases = {} THEN {} ELSE {p})
    BY AloneIs DEF ReadsShownToVerify, LibraryOK
  <1>2. p \in Piece /\ p.do = "writeShown" /\ p.artist = q.artist /\ p.ids = newReleases \ calls[c].asked
    BY <1>1, StepsAre DEF Piece, Then
  <1> HIDE DEF p
  <1>3. \A r : Leaves(calls[c], q, r, knownReleases) => r \in calls[c].asked
    BY <1>1 DEF Leaves
  <1>4. CASE calls[c].asked \cap newReleases = {}
    BY <1>1, <1>3, <1>4, LooksLast DEF Removal, OnlyReads, library, world
  <1>5. CASE calls[c].asked \cap newReleases # {}
    <2>1. PieceFits(calls[c], p, knownReleases, followingArtists, newReleases, old)
      BY <1>2 DEF PieceFits, Removal
    <2>2. \A r : Leaves(calls[c], q, r, knownReleases) => Leaves(calls[c], p, r, knownReleases)
      BY <1>2, <1>3 DEF Leaves
    <2>3. QED
      BY <1>1, <1>2, <1>5, <2>1, <2>2, LooksOnce DEF Removal, OnlyReads, library, world
  <1>6. QED
    BY <1>4, <1>5

LEMMA ReadsToRefreshAlone ==
    ASSUME NEW c, NEW q, Alone(c, q), ReadsToRefresh(c, q)
    PROVE  StaysAlone(c)
  <1> DEFINE p == [Then(q, "writeRefresh") EXCEPT !.read = followingArtists]
  <1>1. q \in Piece /\ q.do = "readToRefresh" /\ followingArtists \subseteq Artists /\ OnlyReads
        /\ Continue(c, q, IF followingArtists \cap calls[c].fetched = {} THEN {} ELSE {p})
    BY AloneIs DEF ReadsToRefresh, LibraryOK
  <1>2. p \in Piece /\ p.do = "writeRefresh" /\ p.artist = q.artist
    BY <1>1, StepsAre DEF Piece, Then
  <1> HIDE DEF p
  <1>3. \A r : ~Leaves(calls[c], q, r, knownReleases)
    BY <1>1 DEF Leaves
  <1>4. PieceFits(calls[c], p, knownReleases, followingArtists, newReleases, old)
    BY <1>2 DEF PieceFits, Removal
  <1>5. CASE followingArtists \cap calls[c].fetched = {}
    BY <1>1, <1>3, <1>5, LooksLast DEF Removal, OnlyReads, library, world
  <1>6. CASE followingArtists \cap calls[c].fetched # {}
    BY <1>1, <1>2, <1>3, <1>4, <1>6, LooksOnce DEF Removal, OnlyReads, library, world
  <1>7. QED
    BY <1>5, <1>6

\* The list is written back as it was read.
LEMMA WritesRefreshAlone ==
    ASSUME NEW c, NEW q, Alone(c, q), WritesRefresh(c, q), intact'
    PROVE  StaysAlone(c)
  <1>1. /\ q.do = "writeRefresh" /\ Continue(c, q, {})
        /\ UNCHANGED <<knownReleases, followingArtists, newReleases, old>>
    BY DEF WritesRefresh, WriteFollowing, Refreshed, world
  <1>2. \A r : ~Leaves(calls[c], q, r, knownReleases)
    BY <1>1 DEF Leaves
  <1>3. QED
    BY <1>1, <1>2, LooksLast DEF Removal

LEMMA ChecksReleaseAlone ==
    ASSUME NEW c, NEW q, Alone(c, q), ChecksRelease(c, q)
    PROVE  StaysAlone(c)
  <1> DEFINE p == Then(q, "readAllEntries")
  <1>1. q \in Piece /\ q.do = "checkRelease" /\ OnlyReads
        /\ Continue(c, q, IF calls[c].asked \subseteq catalog THEN {} ELSE {p})
    BY AloneIs DEF ChecksRelease
  <1>2. p \in Piece /\ p.do = "readAllEntries" /\ p.artist = q.artist
    BY <1>1, StepsAre DEF Piece, Then
  <1> HIDE DEF p
  <1>3. \A r : ~Leaves(calls[c], q, r, knownReleases)
    BY <1>1 DEF Leaves
  <1>4. PieceFits(calls[c], p, knownReleases, followingArtists, newReleases, old)
    BY <1>2 DEF PieceFits, Removal
  <1>5. CASE calls[c].asked \subseteq catalog
    BY <1>1, <1>3, <1>5, LooksLast DEF Removal, OnlyReads, library, world
  <1>6. CASE ~(calls[c].asked \subseteq catalog)
    BY <1>1, <1>2, <1>3, <1>4, <1>6, LooksOnce DEF Removal, OnlyReads, library, world
  <1>7. QED
    BY <1>5, <1>6

LEMMA RollsBackAlone ==
    ASSUME NEW c, NEW q, Alone(c, q), RollsBack(c, q)
    PROVE  StaysAlone(c)
  <1>1. /\ q.do = "rollBack" /\ Continue(c, q, {})
        /\ UNCHANGED <<knownReleases, followingArtists, newReleases, old>>
    BY DEF RollsBack, world
  <1>2. \A r : ~Leaves(calls[c], q, r, knownReleases)
    BY <1>1 DEF Leaves
  <1>3. QED
    BY <1>1, <1>2, LooksLast DEF Removal

\* The list of an artist's releases was complete, and is of its releases only.
LEMMA ListsReleasesAlone ==
    ASSUME NEW c, NEW q, Alone(c, q), ListsReleases(c, q), listed'
    PROVE  StaysAlone(c)
  <1>1. /\ q \in Piece /\ q.do = "listReleases" /\ q.artist \in Artists /\ PieceShaped(calls[c], q)
        /\ UNCHANGED <<knownReleases, followingArtists, newReleases, old>>
    BY AloneIs DEF ListsReleases, ArtistSteps, FollowSteps, library, world
  <1>2. PICK ids \in SUBSET Found(q.artist) :
           /\ Continue(c, q, {[Then(q, "replaceKnown") EXCEPT !.ids = ids, !.found = ids]})
           /\ NothingVanished(q.artist, ids)
    BY DEF ListsReleases
  <1> DEFINE p == [Then(q, "replaceKnown") EXCEPT !.ids = ids, !.found = ids]
  <1>3. ids \subseteq Releases /\ ids \subseteq ReleasesBy(q.artist)
    BY DEF Found, ReleasesBy
  <1>4. Continue(c, q, {p})
    BY <1>2
  <1>5. p \in Piece /\ p.do = "replaceKnown" /\ p.artist = q.artist /\ p.ids = ids
    BY <1>1, <1>3, StepsAre DEF Piece, Then
  <1> HIDE DEF p
  <1>6. calls[c].op # "detect"
    BY <1>1 DEF PieceShaped, Takes, DetectReads, SearchSteps
  <1>7. PieceFits(calls[c], p, knownReleases, followingArtists, newReleases, old)
    BY <1>2, <1>3, <1>5, <1>6 DEF PieceFits, Removal, NothingVanished
  <1>8. \A r : ~Leaves(calls[c], q, r, knownReleases)
    BY <1>1 DEF Leaves
  <1>9. QED
    BY <1>1, <1>4, <1>5, <1>7, <1>8, LooksOnce DEF Removal

\* What is shown and not rebuilt is too old for the settings.
LEMMA ListsToRebuildAlone ==
    ASSUME NEW c, NEW q, Alone(c, q), ListsToRebuild(c, q), listed'
    PROVE  StaysAlone(c)
  <1> DEFINE call == calls[c]
             ids == Rebuilt(call, Found(q.artist))
  <1>1. /\ q \in Piece /\ q.do = "rebuild" /\ q.artist \in Artists /\ PieceShaped(call, q)
        /\ PieceFits(call, q, knownReleases, followingArtists, newReleases, old)
        /\ NothingVanished(q.artist, catalog) /\ LibraryOK /\ WorldOK
        /\ UNCHANGED <<knownReleases, followingArtists, newReleases, old>>
    BY AloneIs DEF ListsToRebuild, ArtistSteps, library, world
  <1>2. PICK s \in call.asked : Continue(c, q, {[Then(q, "replaceRebuilt") EXCEPT
              !.found = Found(q.artist) \cap Matches(s), !.ids = ids]})
    BY DEF ListsToRebuild
  <1> DEFINE found == Found(q.artist) \cap Matches(s)
             p == [Then(q, "replaceRebuilt") EXCEPT !.found = found, !.ids = ids]
  <1>3. /\ ids \subseteq ReleasesBy(q.artist) /\ ids \subseteq Releases /\ found \subseteq Releases
        /\ \A r \in Found(q.artist) : r \in ids \/ \E x \in call.asked : r \notin Matches(x)
    BY DEF Rebuilt, Found, ReleasesBy
  <1>4. Continue(c, q, {p})
    BY <1>2
  <1> HIDE DEF ids, found
  <1>5. p \in Piece /\ p.do = "replaceRebuilt" /\ p.artist = q.artist /\ p.ids = ids
    BY <1>1, <1>3, StepsAre DEF Piece, Then
  <1> HIDE DEF p
  <1>6. ASSUME NEW r \in knownReleases[q.artist] \cap newReleases
        PROVE  r \in ids \/ \E x \in call.asked : r \in Outside(x, old)
    <2>1. r \in ReleasesBy(q.artist) /\ r \in catalog
      BY <1>1 DEF NothingVanished, Alone, OfOne
    <2>2. r \in Found(q.artist) /\ r \in Releases
      BY <2>1 DEF Found, ReleasesBy
    <2>3. \A x : r \notin Matches(x) => r \in Outside(x, old)
      BY <2>2 DEF Matches, Outside
    <2>4. QED
      BY <1>3, <2>2, <2>3
  <1>7. call.op \notin {"detect", "follow"}
    BY <1>1 DEF PieceShaped, Takes, DetectReads, SearchSteps, FollowSteps, UnfollowSteps, Removal
  <1>8. PieceFits(call, p, knownReleases, followingArtists, newReleases, old)
    BY <1>1, <1>3, <1>5, <1>6, <1>7 DEF PieceFits, Removal
  <1>9. \A r : ~Leaves(call, q, r, knownReleases)
    BY <1>1 DEF Leaves
  <1>10. QED
    BY <1>1, <1>4, <1>5, <1>8, <1>9, LooksOnce DEF Removal

LEMMA ReadsToUnfollowListed ==
    ASSUME NEW c, NEW q, Alone(c, q), ReadsToUnfollow(c, q), q.artist \in followingArtists
    PROVE  StaysAlone(c)
  <1> DEFINE p == [Then(q, "writeUnfollow") EXCEPT !.read = followingArtists]
  <1>1. q \in Piece /\ q.do = "readToUnfollow" /\ followingArtists \subseteq Artists
        /\ Continue(c, q, {p}) /\ OnlyReads
    BY AloneIs DEF ReadsToUnfollow, LibraryOK
  <1>2. p \in Piece /\ p.do = "writeUnfollow" /\ p.artist = q.artist
    BY <1>1, StepsAre DEF Piece, Then
  <1> HIDE DEF p
  <1>3. PieceFits(calls[c], p, knownReleases, followingArtists, newReleases, old)
    BY <1>2 DEF PieceFits, Removal
  <1>4. \A r : ~Leaves(calls[c], q, r, knownReleases)
    BY <1>1 DEF Leaves
  <1>5. QED
    BY <1>1, <1>2, <1>3, <1>4, LooksOnce DEF Removal, OnlyReads, library, world

LEMMA CandidatesAre ==
    ASSUME NEW releases, NEW known, NEW s
    PROVE  Candidates(releases, known, s) \subseteq releases
  BY DEF Candidates

\* What was known at the beginning is a candidate still, or pruned.
LEMMA SearchesAlone ==
    ASSUME NEW c, NEW q, Alone(c, q), Searches(c, q)
    PROVE  StaysAlone(c)
  <1> DEFINE call == calls[c]
             known == call.known[q.artist]
             candidates == Candidates(Found(q.artist), known, call.settings)
             news == NewAmong(candidates, known)
             pruned == Pruned(candidates, known)
             p == [Then(q, "replaceKnown") EXCEPT !.ids = candidates, !.news = news, !.pruned = pruned]
             more == IF news = {} /\ pruned = {} THEN {} ELSE {p}
             pending == (call.pending \ {q}) \cup more
             new == [call EXCEPT !.news = @ \cup news, !.pending = pending]
  <1>1. /\ q \in Piece /\ q.do = "search" /\ q.artist \in Artists /\ PieceShaped(call, q)
        /\ PieceFits(call, q, knownReleases, followingArtists, newReleases, old)
        /\ UNCHANGED <<knownReleases, followingArtists, newReleases, old>>
        /\ call \in CallRecord /\ c \in Callers /\ CallsOK /\ WorldOK
    BY AloneIs DEF Searches, ArtistSteps, library, world, Alone, At, TypesInv
  <1>2. candidates \subseteq Found(q.artist) /\ Found(q.artist) \subseteq Releases
        /\ Found(q.artist) \subseteq ReleasesBy(q.artist)
    BY CandidatesAre DEF Found, ReleasesBy
  <1>3. /\ candidates \subseteq Releases /\ candidates \subseteq ReleasesBy(q.artist)
        /\ known \subseteq Releases
    BY <1>1, <1>2 DEF CallRecord
  <1>4. news \subseteq Releases /\ pruned \subseteq Releases /\ known \subseteq candidates \cup pruned
    BY <1>3 DEF NewAmong, Pruned
  <1>5. calls' = [calls EXCEPT ![c] = new]
    BY DEF Searches
  <1> HIDE DEF candidates, news, pruned
  <1>6. p \in Piece /\ p.do = "replaceKnown" /\ p.artist = q.artist /\ p.ids = candidates
        /\ p.pruned = pruned
    BY <1>1, <1>3, <1>4, StepsAre DEF Piece, Then
  <1> HIDE DEF p
  <1>7. more \subseteq {p}
    OBVIOUS
  <1> HIDE DEF more
  <1> HIDE DEF pending
  <1>8. /\ new.op = call.op /\ new.asked = call.asked /\ new.stage = call.stage
        /\ new.known = call.known /\ new.pending = pending
    BY <1>1 DEF CallRecord
  <1>9. calls'[c] = new
    BY <1>1, <1>5, MovedCall
  <1> HIDE DEF new
  <1>10. calls'[c].op # "idle"
    BY <1>1, <1>8, <1>9, IdleIsNoCall
  <1>11. Follows(call, calls'[c], q, more) /\ calls'[c] # Idle
    BY <1>6, <1>7, <1>8, <1>9, <1>10, IdleIsNoCall DEF Follows, pending
  <1>12. call.op = "detect"
    BY <1>1 DEF CallRecord, Ops, OneArtist, PieceShaped, Takes, FollowSteps, UnfollowSteps,
       Removal, RefreshSteps, DismissSteps, VerifySteps, SettingsReads, SettingsSteps
  <1>13. knownReleases[q.artist] \subseteq known
    BY <1>1, <1>12 DEF PieceFits
  <1>14. PieceFits(call, p, knownReleases, followingArtists, newReleases, old)
    BY <1>3, <1>4, <1>6, <1>12, <1>13 DEF PieceFits, Removal
  <1>15. \A r : ~Leaves(call, q, r, knownReleases)
    BY <1>1 DEF Leaves
  <1>16. \A x \in more : /\ x.do \notin Removal
                         /\ PieceFits(call, x, knownReleases, followingArtists, newReleases, old)
    BY <1>6, <1>7, <1>14 DEF Removal
  <1>17. q.do \notin Removal \cup {"readOutside"}
    BY <1>1 DEF Removal
  <1> HIDE DEF call, known
  <1>18. QED
    BY <1>1, <1>11, <1>15, <1>16, <1>17, LookedAt DEF call

LEMMA ReadsSummaryFollows ==
    ASSUME NEW c, NEW q, At(c, q), ReadsSummary(c, q)
    PROVE  \E more : /\ Follows(calls[c], calls'[c], q, more) /\ calls'[c] # Idle
                     /\ \A p \in more : p.do \in {"listReleases", "readToUnfollow"}
                     /\ calls[c].rewrites => calls'[c].rewrites
                     /\ UNCHANGED <<knownReleases, followingArtists, newReleases, old>>
  <1> DEFINE call == calls[c]
             go == Work("listReleases", q.artist)
             drop == Work("readToUnfollow", q.artist)
  <1>1. /\ call \in CallRecord /\ q \in Piece /\ c \in Callers /\ CallsOK
        /\ UNCHANGED <<knownReleases, followingArtists, newReleases, old>>
    BY AtIs DEF At, TypesInv, ReadsSummary, library, world
  <1>2. /\ go.do = "listReleases" /\ go.artist = q.artist
        /\ drop.do = "readToUnfollow" /\ drop.artist = q.artist
    BY DEF Work
  <1> HIDE DEF go, drop
  <1>3. CASE q.artist \notin missing
    <2> DEFINE more == IF call.op = "follow" THEN {go} ELSE {}
               pending == (call.pending \ {q}) \cup more
               new == [call EXCEPT !.fetched = @ \cup {q.artist}, !.pending = pending]
    <2>1. calls' = [calls EXCEPT ![c] = new]
      BY <1>3 DEF ReadsSummary, go
    <2>2. more \subseteq {go}
      OBVIOUS
    <2> HIDE DEF more
    <2> HIDE DEF pending
    <2>3. /\ new.op = call.op /\ new.asked = call.asked /\ new.stage = call.stage
          /\ new.known = call.known /\ new.pending = pending /\ new.rewrites = call.rewrites
      BY <1>1 DEF CallRecord
    <2>4. calls'[c] = new
      BY <1>1, <2>1, MovedCall
    <2> HIDE DEF new
    <2>5. calls'[c] # Idle
      BY <1>1, <2>3, <2>4, IdleIsNoCall
    <2>6. Follows(call, calls'[c], q, more)
      BY <1>2, <2>2, <2>3, <2>4 DEF Follows, pending
    <2>7. QED
      BY <1>1, <1>2, <2>2, <2>3, <2>4, <2>5, <2>6
  <1>4. CASE q.artist \in missing
    <2> DEFINE more == {drop}
               pending == (call.pending \ {q}) \cup more
               new == [call EXCEPT !.rewrites = TRUE, !.pending = pending]
    <2>1. calls' = [calls EXCEPT ![c] = new]
      BY <1>4 DEF ReadsSummary, drop
    <2>2. more \subseteq {drop}
      OBVIOUS
    <2> HIDE DEF more
    <2> HIDE DEF pending
    <2>3. /\ new.op = call.op /\ new.asked = call.asked /\ new.stage = call.stage
          /\ new.known = call.known /\ new.pending = pending /\ new.rewrites
      BY <1>1 DEF CallRecord
    <2>4. calls'[c] = new
      BY <1>1, <2>1, MovedCall
    <2> HIDE DEF new
    <2>5. calls'[c] # Idle
      BY <1>1, <2>3, <2>4, IdleIsNoCall
    <2>6. Follows(call, calls'[c], q, more)
      BY <1>2, <2>2, <2>3, <2>4 DEF Follows, pending
    <2>7. QED
      BY <1>1, <1>2, <2>2, <2>3, <2>4, <2>5, <2>6
  <1>5. QED
    BY <1>3, <1>4

LEMMA ReadsSummaryAlone ==
    ASSUME NEW c, NEW q, Alone(c, q), ReadsSummary(c, q)
    PROVE  StaysAlone(c)
  <1>1. PICK more : /\ Follows(calls[c], calls'[c], q, more) /\ calls'[c] # Idle
                    /\ \A p \in more : p.do \in {"listReleases", "readToUnfollow"}
                    /\ UNCHANGED <<knownReleases, followingArtists, newReleases, old>>
    BY ReadsSummaryFollows DEF Alone
  <1>2. q.do = "readSummary"
    BY DEF ReadsSummary
  <1>3. \A r : ~Leaves(calls[c], q, r, knownReleases)
    BY <1>2 DEF Leaves
  <1>4. ASSUME NEW p \in more
        PROVE  /\ p.do \notin Removal
               /\ PieceFits(calls[c], p, knownReleases, followingArtists, newReleases, old)
    BY <1>1 DEF PieceFits, Removal
  <1>5. QED
    BY <1>1, <1>2, <1>3, <1>4, LookedAt DEF Removal

\* A call at the beginning of what it does.
LEMMA BeginsAlone ==
    ASSUME NEW c, NEW q, Alone(c, q), calls[c].pending = {q}, q.do \notin Removal,
           UNCHANGED <<knownReleases, followingArtists, newReleases, old>>,
           calls'[c] # Idle, calls'[c].op = calls[c].op, calls'[c].asked = calls[c].asked,
           \A r : ~Leaves(calls[c], q, r, knownReleases), Sifts(calls[c]) => Sifts(calls'[c]),
           Apart(calls'[c]),
           \A p \in calls'[c].pending :
              /\ PieceFits(calls'[c], p, knownReleases, followingArtists, newReleases, old)
              /\ p.do \notin Removal
    PROVE  StaysAlone(c)
  <1> DEFINE K == knownReleases
             F == followingArtists
             N == newReleases
             O == old
             call == calls[c]
             next == calls'[c]
  <1>1. K' = K /\ F' = F /\ N' = N /\ O' = O
    OBVIOUS
  <1>2. Sole(next, K, F, N, O)
    <2>1. call # Idle /\ Sole(call, K, F, N, O) /\ call.pending = {q} /\ q.do \notin Removal
          /\ next # Idle /\ next.op = call.op /\ next.asked = call.asked
          /\ (\A r : ~Leaves(call, q, r, K)) /\ (Sifts(call) => Sifts(next))
          /\ \A p \in next.pending : PieceFits(next, p, K, F, N, O) /\ p.do \notin Removal
      BY AloneIs DEF Alone
    <2> HIDE DEF K, F, N, O, call, next
    <2>2. QED
      BY <2>1, Begins
  <1>3. QED
    BY <1>1, <1>2 DEF StaysAlone, Alone

\* The artists' pieces of work that a call begins with are about different artists.
LEMMA WorkApart ==
    ASSUME NEW call, NEW do, do # "readFollowed", NEW S, call.pending = {Work(do, a) : a \in S}
    PROVE  Apart(call)
  <1>1. \A a : Work(do, a).artist = a /\ Work(do, a).do = do
    BY DEF Work
  <1>2. QED
    BY <1>1 DEF Apart

LEMMA OneApart ==
    ASSUME NEW call, NEW p, call.pending = {p}
    PROVE  Apart(call)
  BY DEF Apart

LEMMA ReadsFollowedAlone ==
    ASSUME NEW c, NEW q, Alone(c, q), ReadsFollowed(c, q)
    PROVE  StaysAlone(c)
  <1> DEFINE call == calls[c]
             next == calls'[c]
  <1>1. /\ q \in Piece /\ q.do = "readFollowed" /\ OnlyReads /\ c \in Callers /\ CallsOK
        /\ call \in CallRecord /\ followingArtists \subseteq Artists
        /\ PieceFits(call, q, knownReleases, followingArtists, newReleases, old)
    BY AloneIs DEF ReadsFollowed, Alone, At, TypesInv, LibraryOK
  <1>2. call.pending = {q}
    BY <1>1, AloneIs DEF Alone, Apart
  <1>3. /\ UNCHANGED <<knownReleases, followingArtists, newReleases, old>>
        /\ q.do \notin Removal /\ \A r : ~Leaves(call, q, r, knownReleases)
    BY <1>1 DEF OnlyReads, library, world, Removal, Leaves
  <1>4. CASE call.op = "detect"
    <2> DEFINE p == Then(q, "readDetectSettings")
               new == [call EXCEPT !.followed = followingArtists, !.pending = {p}]
    <2>1. calls' = [calls EXCEPT ![c] = new]
      BY <1>4 DEF ReadsFollowed
    <2>2. p.do = "readDetectSettings"
      BY <1>1 DEF Then, Piece
    <2> HIDE DEF p
    <2>3. new.op = call.op /\ new.asked = call.asked /\ new.pending = {p}
      BY <1>1 DEF CallRecord
    <2>4. next = new
      BY <1>1, <2>1, MovedCall
    <2> HIDE DEF new
    <2>5. next # Idle /\ ~Sifts(call)
      BY <1>1, <1>4, <2>3, <2>4, IdleIsNoCall DEF Sifts
    <2>6. \A x \in next.pending : /\ x.do \notin Removal
                                  /\ PieceFits(next, x, knownReleases, followingArtists, newReleases, old)
      BY <1>4, <2>2, <2>3, <2>4 DEF PieceFits, Removal
    <2>7. Apart(next)
      BY <2>3, <2>4, OneApart
    <2>8. QED
      BY <1>2, <1>3, <2>3, <2>4, <2>5, <2>6, <2>7, BeginsAlone
  <1>5. CASE call.op \in {"settings", "refresh"}
    <2> DEFINE Works(do, S) == {Work(do, a) : a \in S}
    <2>1. \/ Continue(c, q, Works("rebuild", followingArtists))
          \/ \E S \in SUBSET followingArtists : Continue(c, q, Works("readSummary", S))
      BY <1>5 DEF ReadsFollowed
    <2>2. \A do, S : \A p \in Works(do, S) : p.do = do /\ \E a \in S : p = Work(do, a)
      BY DEF Work
    <2>3. \A do, S : do # "readFollowed" /\ next.pending = Works(do, S) => Apart(next)
      BY WorkApart
    <2> HIDE DEF Works
    <2>4. PICK do, S : /\ do \in {"rebuild", "readSummary"} /\ S \subseteq followingArtists
                       /\ Continue(c, q, Works(do, S))
      BY <2>1
    <2> DEFINE more == Works(do, S)
    <2>5. \A p \in more : p.do = do /\ p \in Piece
      BY <1>1, <2>4, <2>2, StepsAre DEF Work, Piece
    <2>6. next.pending = more => Apart(next)
      BY <2>4, <2>3
    <2> HIDE DEF more
    <2>7. At(c, q) /\ more \in SUBSET Piece /\ Continue(c, q, more)
      BY <2>4, <2>5 DEF Alone, more
    <2>8. next \in CallRecord /\ next.op = call.op /\ next.asked = call.asked
          /\ next.pending = more /\ next.stage = call.stage
      BY <1>2, <2>7, ContinuedCall DEF KnowsTheSame
    <2>9. next # Idle /\ Apart(next)
      BY <2>6, <2>8, IdleIsNoCall
    <2>10. Sifts(call) => Sifts(next)
      BY <1>1, <1>2, <2>8 DEF Sifts
    <2>11. \A x \in next.pending : /\ x.do \notin Removal
                                  /\ PieceFits(next, x, knownReleases, followingArtists, newReleases, old)
      BY <1>1, <1>5, <2>4, <2>5, <2>8 DEF PieceFits, Removal
    <2>12. QED
      BY <1>2, <1>3, <2>8, <2>9, <2>10, <2>11, BeginsAlone
  <1>6. QED
    BY <1>4, <1>5 DEF ReadsFollowed

LEMMA ReadsDetectSettingsAlone ==
    ASSUME NEW c, NEW q, Alone(c, q), ReadsDetectSettings(c, q)
    PROVE  StaysAlone(c)
  <1> DEFINE call == calls[c]
             p == Then(q, "readAllKnown")
             new == [call EXCEPT !.settings = settings, !.pending = {p}]
  <1>1. /\ q \in Piece /\ q.do = "readDetectSettings" /\ OnlyReads /\ c \in Callers /\ CallsOK
        /\ call \in CallRecord /\ Shaped(call) /\ PieceShaped(call, q) /\ q \in call.pending
    BY AloneIs DEF ReadsDetectSettings, Alone, At, TypesInv
  <1>2. call.op = "detect" /\ call.stage = "begin"
    BY <1>1 DEF Shaped, CallRecord, Ops, OneArtist, PieceShaped, Takes, FollowSteps, UnfollowSteps,
       Removal, RefreshSteps, DismissSteps, VerifySteps, SettingsReads, SettingsSteps, DetectReads
  <1>3. call.pending = {q}
    BY <1>1, <1>2 DEF Shaped, InOnePiece
  <1>4. calls' = [calls EXCEPT ![c] = new]
    BY DEF ReadsDetectSettings
  <1>5. p.do = "readAllKnown"
    BY <1>1 DEF Then, Piece
  <1> HIDE DEF p
  <1>6. new.op = call.op /\ new.asked = call.asked /\ new.pending = {p}
    BY <1>1 DEF CallRecord
  <1>7. calls'[c] = new
    BY <1>1, <1>4, MovedCall
  <1> HIDE DEF new
  <1>8. calls'[c] # Idle /\ ~Sifts(call)
    BY <1>1, <1>2, <1>6, <1>7, IdleIsNoCall DEF Sifts
  <1>9. \A x \in calls'[c].pending :
           /\ x.do \notin Removal
           /\ PieceFits(calls'[c], x, knownReleases, followingArtists, newReleases, old)
    BY <1>2, <1>5, <1>6, <1>7 DEF PieceFits, Removal
  <1>10. Apart(calls'[c])
    BY <1>6, <1>7, OneApart
  <1>11. /\ UNCHANGED <<knownReleases, followingArtists, newReleases, old>>
         /\ q.do \notin Removal /\ \A r : ~Leaves(call, q, r, knownReleases)
    BY <1>1 DEF OnlyReads, library, world, Removal, Leaves
  <1>12. QED
    BY <1>3, <1>6, <1>7, <1>8, <1>9, <1>10, <1>11, BeginsAlone

\* From then on the search knows what is known.
LEMMA ReadsAllKnownAlone ==
    ASSUME NEW c, NEW q, Alone(c, q), ReadsAllKnown(c, q)
    PROVE  StaysAlone(c)
  <1> DEFINE call == calls[c]
             more == {Work("search", a) : a \in call.followed}
             new == [call EXCEPT !.known = knownReleases, !.stage = "search", !.pending = more]
  <1>1. /\ q \in Piece /\ q.do = "readAllKnown" /\ OnlyReads /\ c \in Callers /\ CallsOK
        /\ call \in CallRecord /\ Shaped(call) /\ PieceShaped(call, q) /\ q \in call.pending
    BY AloneIs DEF ReadsAllKnown, Alone, At, TypesInv
  <1>2. call.op = "detect" /\ call.stage = "begin"
    BY <1>1 DEF Shaped, CallRecord, Ops, OneArtist, PieceShaped, Takes, FollowSteps, UnfollowSteps,
       Removal, RefreshSteps, DismissSteps, VerifySteps, SettingsReads, SettingsSteps, DetectReads
  <1>3. call.pending = {q}
    BY <1>1, <1>2 DEF Shaped, InOnePiece
  <1>4. calls' = [calls EXCEPT ![c] = new]
    BY DEF ReadsAllKnown
  <1>5. \A p \in more : p.do = "search"
    BY DEF Work
  <1>6. Apart(calls'[c]) \/ calls'[c].pending # more
    BY WorkApart
  <1> HIDE DEF more
  <1>7. new.op = call.op /\ new.asked = call.asked /\ new.pending = more /\ new.known = knownReleases
    BY <1>1 DEF CallRecord
  <1>8. calls'[c] = new
    BY <1>1, <1>4, MovedCall
  <1> HIDE DEF new
  <1>9. calls'[c] # Idle /\ ~Sifts(call)
    BY <1>1, <1>2, <1>7, <1>8, IdleIsNoCall DEF Sifts
  <1>10. \A x \in calls'[c].pending :
            /\ x.do \notin Removal
            /\ PieceFits(calls'[c], x, knownReleases, followingArtists, newReleases, old)
    BY <1>2, <1>5, <1>7, <1>8 DEF PieceFits, Removal
  <1>11. /\ UNCHANGED <<knownReleases, followingArtists, newReleases, old>>
         /\ q.do \notin Removal /\ \A r : ~Leaves(call, q, r, knownReleases)
    BY <1>1 DEF OnlyReads, library, world, Removal, Leaves
  <1>12. QED
    BY <1>3, <1>6, <1>7, <1>8, <1>9, <1>10, <1>11, BeginsAlone

LEMMA ReadsAllEntriesAlone ==
    ASSUME NEW c, NEW q, Alone(c, q), ReadsAllEntries(c, q)
    PROVE  StaysAlone(c)
  <1> DEFINE call == calls[c]
             p == Then(q, "removeKnown")
             new == [call EXCEPT !.known = knownReleases, !.pending = {p}]
  <1>1. /\ q \in Piece /\ q.do = "readAllEntries" /\ OnlyReads /\ c \in Callers /\ CallsOK
        /\ call \in CallRecord /\ Shaped(call) /\ PieceShaped(call, q) /\ q \in call.pending
    BY AloneIs DEF ReadsAllEntries, Alone, At, TypesInv
  <1>2. call.op = "verify"
    BY <1>1 DEF Shaped, CallRecord, Ops, OneArtist, PieceShaped, Takes, FollowSteps, UnfollowSteps,
       Removal, RefreshSteps, DismissSteps, SearchSteps, SettingsReads, SettingsSteps, DetectReads
  <1>3. call.pending = {q}
    BY <1>1, <1>2 DEF Shaped, InOnePiece
  <1>4. calls' = [calls EXCEPT ![c] = new]
    BY DEF ReadsAllEntries
  <1>5. p.do = "removeKnown"
    BY <1>1 DEF Then, Piece
  <1> HIDE DEF p
  <1>6. new.op = call.op /\ new.asked = call.asked /\ new.pending = {p}
    BY <1>1 DEF CallRecord
  <1>7. calls'[c] = new
    BY <1>1, <1>4, MovedCall
  <1> HIDE DEF new
  <1>8. calls'[c] # Idle /\ ~Sifts(call)
    BY <1>1, <1>2, <1>6, <1>7, IdleIsNoCall DEF Sifts
  <1>9. \A x \in calls'[c].pending :
           /\ x.do \notin Removal
           /\ PieceFits(calls'[c], x, knownReleases, followingArtists, newReleases, old)
    BY <1>2, <1>5, <1>6, <1>7 DEF PieceFits, Removal
  <1>10. Apart(calls'[c])
    BY <1>6, <1>7, OneApart
  <1>11. /\ UNCHANGED <<knownReleases, followingArtists, newReleases, old>>
         /\ q.do \notin Removal /\ \A r : ~Leaves(call, q, r, knownReleases)
    BY <1>1 DEF OnlyReads, library, world, Removal, Leaves
  <1>12. QED
    BY <1>3, <1>6, <1>7, <1>8, <1>9, <1>10, <1>11, BeginsAlone

LEMMA ReadsSettingsAlone ==
    ASSUME NEW c, NEW q, Alone(c, q), ReadsSettings(c, q)
    PROVE  StaysAlone(c)
  <1> DEFINE call == calls[c]
             p == Then(q, "saveSettings")
             new == [call EXCEPT !.settings = settings, !.pending = {p}]
  <1>1. /\ q \in Piece /\ q.do = "readSettings" /\ OnlyReads /\ c \in Callers /\ CallsOK
        /\ call \in CallRecord /\ Shaped(call) /\ PieceShaped(call, q) /\ q \in call.pending
    BY AloneIs DEF ReadsSettings, Alone, At, TypesInv
  <1>2. call.op = "settings" /\ call.stage = "begin"
    BY <1>1 DEF Shaped, CallRecord, Ops, OneArtist, PieceShaped, Takes, FollowSteps, UnfollowSteps,
       Removal, RefreshSteps, DismissSteps, VerifySteps, SearchSteps, SettingsReads, DetectReads
  <1>3. call.pending = {q}
    BY <1>1, <1>2 DEF Shaped, InOnePiece
  <1>4. calls' = [calls EXCEPT ![c] = new]
    BY DEF ReadsSettings
  <1>5. p.do = "saveSettings"
    BY <1>1 DEF Then, Piece
  <1> HIDE DEF p
  <1>6. new.op = call.op /\ new.asked = call.asked /\ new.pending = {p} /\ new.stage = call.stage
    BY <1>1 DEF CallRecord
  <1>7. calls'[c] = new
    BY <1>1, <1>4, MovedCall
  <1> HIDE DEF new
  <1>8. calls'[c] # Idle /\ ~Sifts(call)
    BY <1>1, <1>2, <1>3, <1>6, <1>7, IdleIsNoCall DEF Sifts
  <1>9. \A x \in calls'[c].pending :
           /\ x.do \notin Removal
           /\ PieceFits(calls'[c], x, knownReleases, followingArtists, newReleases, old)
    BY <1>2, <1>5, <1>6, <1>7 DEF PieceFits, Removal
  <1>10. Apart(calls'[c])
    BY <1>6, <1>7, OneApart
  <1>11. /\ UNCHANGED <<knownReleases, followingArtists, newReleases, old>>
         /\ q.do \notin Removal /\ \A r : ~Leaves(call, q, r, knownReleases)
    BY <1>1 DEF OnlyReads, library, world, Removal, Leaves
  <1>12. QED
    BY <1>3, <1>6, <1>7, <1>8, <1>9, <1>10, <1>11, BeginsAlone

\* From then on the call is going to look at what is shown.
LEMMA SavesSettingsAlone ==
    ASSUME NEW c, NEW q, Alone(c, q), SavesSettings(c, q)
    PROVE  StaysAlone(c)
  <1> DEFINE call == calls[c]
             p == Then(q, "readFollowed")
             new == [call EXCEPT !.stage = "rebuild", !.pending = {p}]
  <1>1. /\ q \in Piece /\ q.do = "saveSettings" /\ c \in Callers /\ CallsOK
        /\ call \in CallRecord /\ Shaped(call) /\ PieceShaped(call, q) /\ q \in call.pending
        /\ UNCHANGED <<knownReleases, followingArtists, newReleases, old>>
    BY AloneIs DEF SavesSettings, Alone, At, TypesInv, world
  <1>2. call.op = "settings" /\ call.stage = "begin"
    BY <1>1 DEF Shaped, CallRecord, Ops, OneArtist, PieceShaped, Takes, FollowSteps, UnfollowSteps,
       Removal, RefreshSteps, DismissSteps, VerifySteps, SearchSteps, SettingsReads, DetectReads
  <1>3. call.pending = {q}
    BY <1>1, <1>2 DEF Shaped, InOnePiece
  <1>4. calls' = [calls EXCEPT ![c] = new]
    BY DEF SavesSettings
  <1>5. p.do = "readFollowed"
    BY <1>1 DEF Then, Piece
  <1> HIDE DEF p
  <1>6. new.op = call.op /\ new.asked = call.asked /\ new.pending = {p} /\ new.stage = "rebuild"
    BY <1>1 DEF CallRecord
  <1>7. calls'[c] = new
    BY <1>1, <1>4, MovedCall
  <1> HIDE DEF new
  <1>8. calls'[c] # Idle /\ Sifts(calls'[c])
    BY <1>1, <1>2, <1>3, <1>6, <1>7, IdleIsNoCall DEF Sifts
  <1>9. \A x \in calls'[c].pending :
           /\ x.do \notin Removal
           /\ PieceFits(calls'[c], x, knownReleases, followingArtists, newReleases, old)
    BY <1>2, <1>5, <1>6, <1>7 DEF PieceFits, Removal
  <1>10. Apart(calls'[c])
    BY <1>6, <1>7, OneApart
  <1>11. q.do \notin Removal /\ \A r : ~Leaves(call, q, r, knownReleases)
    BY <1>1 DEF Removal, Leaves
  <1>12. QED
    BY <1>1, <1>3, <1>6, <1>7, <1>8, <1>9, <1>10, <1>11, BeginsAlone

-----------------------------------------------------------------------------
(* Answers that change what is known, followed or shown.                    *)

\* No artist is being removed beside this piece of work.
RemovesNone(call, q) ==
    q.do \notin Removal /\ (call.op \in {"detect", "settings", "verify"} \/ call.pending = {q})

LEMMA NobodyRemoved ==
    ASSUME NEW c, NEW q, Alone(c, q), RemovesNone(calls[c], q)
    PROVE  /\ \A p \in calls[c].pending : p.do \notin Removal
           /\ \A a \in Artists : knownReleases[a] # {} =>
                 a \in followingArtists \/ Following(calls[c], a)
  <1>1. \A p \in calls[c].pending : p.do \notin Removal
    BY AloneIs, NoneRemoved DEF RemovesNone, UnfollowSteps
  <1>2. \A a : ~Removing(calls[c], a)
    BY <1>1 DEF Removing
  <1>3. QED
    BY <1>1, <1>2 DEF Alone, Sole, EntriesOf

LEMMA WritesAlone ==
    ASSUME NEW c, NEW q, Alone(c, q), RemovesNone(calls[c], q), NEW more,
           Follows(calls[c], calls'[c], q, more), old' = old, OfOne(knownReleases'),
           OnlyOf(calls[c], q, knownReleases, followingArtists, newReleases,
                  knownReleases', followingArtists', newReleases'),
           \A p \in more :
              /\ p.do \notin Removal
              /\ PieceFits(calls[c], p, knownReleases', followingArtists', newReleases', old),
           \A a \in Artists : knownReleases'[a] # {} =>
              a \in followingArtists' \/ Following(calls[c], a),
           \A r \in newReleases' :
              \/ KeptBy(r, knownReleases', followingArtists')
              \/ WillLeave(calls'[c], r, knownReleases', old)
              \/ /\ r \in newReleases /\ ~KeptBy(r, knownReleases, followingArtists)
                 /\ ~Leaves(calls[c], q, r, knownReleases) /\ q.do # "readOutside"
    PROVE  StaysAlone(c)
  <1> DEFINE K == knownReleases
             F == followingArtists
             N == newReleases
             O == old
             K2 == knownReleases'
             F2 == followingArtists'
             N2 == newReleases'
             call == calls[c]
             next == calls'[c]
  <1>1. /\ Shaped(call) /\ q \in call.pending /\ Sole(call, K, F, N, O) /\ Apart(call)
        /\ \A p \in call.pending : p.do \notin Removal
    BY AloneIs, NobodyRemoved DEF Alone
  <1>2. /\ Follows(call, next, q, more) /\ OnlyOf(call, q, K, F, N, K2, F2, N2)
        /\ \A p \in more : p.do \notin Removal /\ PieceFits(call, p, K2, F2, N2, O)
        /\ \A a \in Artists : K2[a] # {} => a \in F2 \/ Following(call, a)
        /\ \A r \in N2 : \/ KeptBy(r, K2, F2)
                         \/ WillLeave(next, r, K2, O)
                         \/ /\ r \in N /\ ~KeptBy(r, K, F) /\ ~Leaves(call, q, r, K)
                            /\ q.do # "readOutside"
    OBVIOUS
  <1>3. Apart(next) /\ Sole(next, K2, F2, N2, O)
    <2> HIDE DEF K, F, N, O, K2, F2, N2, call, next
    <2>1. \A p \in next.pending : p.do \notin Removal
      BY <1>1, <1>2 DEF Follows
    <2>2. Nested(next) /\ LaterOf(next, K2, F2, N2)
      BY <2>1, NothingLater
    <2>3. EntriesOf(next, K2, F2)
      BY <1>2 DEF EntriesOf, Following, Follows
    <2>4. q.do # "readOutside" => (Sifts(call) => Sifts(next))
      BY <1>2 DEF Sifts, Follows
    <2>5. QED
      BY <1>1, <1>2, <2>2, <2>3, <2>4, SoleStep
  <1>4. QED
    BY <1>3 DEF StaysAlone

\* The table after the artist's entry was replaced.
LEMMA Replaced ==
    ASSUME NEW K \in [Artists -> SUBSET Releases], OfOne(K), NEW a \in Artists,
           NEW ids, ids \subseteq ReleasesBy(a), NEW K2, K2 = [K EXCEPT ![a] = ids]
    PROVE  /\ K2[a] = ids /\ \A b \in Artists : b # a => K2[b] = K[b]
           /\ OfOne(K2)
  BY DEF OfOne

LEMMA OneOf ==
    ASSUME NEW c, NEW q, Alone(c, q), calls[c].op \in OneArtist \cup {"verify", "dismiss"}
    PROVE  calls[c].pending = {q}
  BY OnlyPiece DEF Alone, InOnePiece

\* What the search prunes it is going to take off the list; what a follow lists has all
\* that is shown.
LEMMA ReplacesKnownAlone ==
    ASSUME NEW c, NEW q, Alone(c, q), ReplacesKnown(c, q)
    PROVE  StaysAlone(c)
  <1> DEFINE call == calls[c]
             p == Then(q, "readToFollow")
             K == knownReleases
             F == followingArtists
             N == newReleases
  <1>1. /\ q \in Piece /\ q.do = "replaceKnown" /\ q.artist \in Artists /\ Shaped(call) /\ PieceShaped(call, q)
        /\ PieceFits(call, q, K, F, N, old) /\ Continue(c, q, {p})
        /\ UNCHANGED <<followingArtists, newReleases, old>> /\ K' = [K EXCEPT ![q.artist] = q.ids]
        /\ K \in [Artists -> SUBSET Releases] /\ OfOne(K) /\ F \subseteq Artists
    BY AloneIs DEF ReplacesKnown, ArtistSteps, FollowSteps, world, LibraryOK, Alone
  <1>2. p \in Piece /\ p.do = "readToFollow" /\ p.artist = q.artist /\ p.news = q.news
        /\ p.pruned = q.pruned
    BY <1>1, StepsAre DEF Piece, Then
  <1> HIDE DEF p
  <1>3. Follows(call, calls'[c], q, {p})
    BY <1>1, <1>2, OneFollows
  <1>4. K'[q.artist] = q.ids /\ (\A b \in Artists : b # q.artist => K'[b] = K[b]) /\ OfOne(K')
    BY <1>1, Replaced DEF PieceFits
  <1>5. p \in calls'[c].pending
    BY <1>3 DEF Follows
  <1>6. call.op \in {"detect", "follow"}
    BY <1>1 DEF Shaped, CallRecord, Ops, OneArtist, PieceShaped, Takes, UnfollowSteps,
       Removal, RefreshSteps, DismissSteps, VerifySteps, SettingsReads, SettingsSteps
  <1>7. call.op = "detect" => q.artist \in F
    BY <1>1, AloneIs DEF DetectReads
  <1>8. RemovesNone(call, q)
    BY <1>1, <1>6, OneOf DEF RemovesNone, Removal, OneArtist
  <1>9. call.op = "follow" => Following(call, q.artist)
    BY <1>1 DEF PieceShaped, OneArtist, Following
  <1>10. \A a \in Artists : K'[a] # {} => a \in F \/ Following(call, a)
    BY <1>4, <1>6, <1>7, <1>8, <1>9, NobodyRemoved
  <1>11. \A r : ~Leaves(call, q, r, K)
    BY <1>1 DEF Leaves
  <1>12. ASSUME NEW r \in N, KeptBy(r, K, F)
         PROVE  KeptBy(r, K', F) \/ WillLeave(calls'[c], r, K', old)
    <2>1. PICK b \in F : r \in K[b]
      BY <1>12 DEF KeptBy
    <2>2. CASE b # q.artist
      BY <1>1, <1>4, <2>1, <2>2 DEF KeptBy
    <2>3. CASE b = q.artist
      <3>1. r \in q.ids \/ (call.op = "detect" /\ r \in q.pruned)
        BY <1>1, <1>6, <2>1, <2>3 DEF PieceFits
      <3>2. r \in q.pruned => Leaves(calls'[c], p, r, K')
        BY <1>2 DEF Leaves
      <3>3. QED
        BY <1>4, <1>5, <2>1, <2>3, <3>1, <3>2 DEF KeptBy, WillLeave
    <2>4. QED
      BY <2>2, <2>3
  <1>13. PieceFits(call, p, K', F, N, old)
    BY <1>1, <1>2, <1>4, <1>6 DEF PieceFits, PieceShaped, Removal
  <1>14. OnlyOf(call, q, K, F, N, K', F, N)
    BY <1>4 DEF OnlyOf
  <1> DEFINE more == {p}
  <1>15. /\ Follows(call, calls'[c], q, more)
         /\ \A x \in more : x.do \notin Removal /\ PieceFits(call, x, K', F, N, old)
    BY <1>2, <1>3, <1>13 DEF Removal
  <1> HIDE DEF more
  <1>16. q.do # "readOutside"
    BY <1>1
  <1>17. QED
    BY <1>1, <1>4, <1>8, <1>10, <1>11, <1>12, <1>14, <1>15, <1>16, WritesAlone

LEMMA SomeFollow ==
    ASSUME NEW c, NEW q, Alone(c, q), NEW more \in SUBSET Piece, Continue(c, q, more),
           \A p \in more : p.artist = q.artist /\ p.do # "readFollowed",
           \A p, r \in more : p = r
    PROVE  Follows(calls[c], calls'[c], q, more) /\ calls'[c] # Idle
  <1>1. At(c, q)
    BY DEF Alone
  <1>2. /\ calls'[c] \in CallRecord /\ calls'[c].op = calls[c].op /\ calls'[c].asked = calls[c].asked
        /\ calls'[c].pending = (calls[c].pending \ {q}) \cup more /\ KnowsTheSame(c)
    BY <1>1, ContinuedCall
  <1>3. QED
    BY <1>2, IdleIsNoCall DEF Follows, KnowsTheSame

LEMMA AfterSaveIs ==
    ASSUME NEW q \in Piece
    PROVE  /\ \A p \in AfterSave(q) :
                 p \in Piece /\ p.do = "readShown" /\ p.artist = q.artist /\ p.pruned = q.pruned
           /\ \A p, r \in AfterSave(q) : p = r
           /\ q.pruned # {} => \E p \in AfterSave(q) : TRUE
  <1> DEFINE x == Then(q, "readShown")
  <1>1. x \in Piece /\ x.do = "readShown" /\ x.artist = q.artist /\ x.pruned = q.pruned
    BY StepsAre DEF Piece, Then
  <1> HIDE DEF x
  <1>2. AfterSave(q) = IF q.pruned = {} THEN {} ELSE {x}
    BY DEF AfterSave, x
  <1>3. QED
    BY <1>1, <1>2

LEMMA WritesFollowAlone ==
    ASSUME NEW c, NEW q, Alone(c, q), WritesFollow(c, q), intact'
    PROVE  StaysAlone(c)
  <1> DEFINE call == calls[c]
             p == Then(q, "storeNews")
             more == IF q.news = {} THEN AfterSave(q) ELSE {p}
             K == knownReleases
             F == followingArtists
             N == newReleases
  <1>1. /\ q \in Piece /\ q.do = "writeFollow" /\ q.artist \in Artists /\ Shaped(call) /\ PieceShaped(call, q)
        /\ PieceFits(call, q, K, F, N, old) /\ Continue(c, q, more)
        /\ UNCHANGED <<knownReleases, newReleases, old>> /\ F' = F \cup {q.artist}
        /\ OfOne(K)
    BY AloneIs DEF WritesFollow, WriteFollowing, ArtistSteps, FollowSteps, world, Alone
  <1>2. p \in Piece /\ p.do = "storeNews" /\ p.artist = q.artist /\ p.news = q.news
        /\ p.pruned = q.pruned
    BY <1>1, StepsAre DEF Piece, Then
  <1> HIDE DEF p
  <1>3. /\ \A x \in more : /\ x \in Piece /\ x.artist = q.artist /\ x.pruned = q.pruned
                           /\ x = p \/ x.do = "readShown"
        /\ \A x, y \in more : x = y
        /\ q.pruned # {} => \E x \in more : TRUE
    BY <1>1, <1>2, AfterSaveIs
  <1> HIDE DEF more
  <1>4. Follows(call, calls'[c], q, more)
    BY <1>1, <1>2, <1>3, SomeFollow
  <1>5. call.op \in {"detect", "follow"}
    BY <1>1 DEF Shaped, CallRecord, Ops, OneArtist, PieceShaped, Takes, UnfollowSteps,
       Removal, RefreshSteps, DismissSteps, VerifySteps, SettingsReads, SettingsSteps
  <1>6. call.op = "detect" => F' = F
    BY <1>1, AloneIs DEF DetectReads
  <1>7. RemovesNone(call, q) /\ (call.op = "follow" => call.pending = {q})
    BY <1>1, <1>5, OneOf DEF RemovesNone, Removal, OneArtist
  <1>8. OnlyOf(call, q, K, F, N, K, F', N)
    BY <1>5, <1>6, <1>7 DEF OnlyOf
  <1>9. \A a \in Artists : K[a] # {} => a \in F' \/ Following(call, a)
    BY <1>1, <1>7, NobodyRemoved
  <1>10. \A x \in more : x.do \notin Removal /\ PieceFits(call, x, K, F', N, old)
    BY <1>1, <1>2, <1>3 DEF PieceFits, Removal
  <1>11. \A r \in N : KeptBy(r, K, F) => KeptBy(r, K, F')
    BY <1>1 DEF KeptBy
  <1>12. ASSUME NEW r, Leaves(call, q, r, K)
         PROVE  WillLeave(calls'[c], r, K, old)
    <2>1. r \in q.pruned
      BY <1>1, <1>12 DEF Leaves
    <2>2. PICK x \in more : TRUE
      BY <1>3, <2>1
    <2>3. x \in calls'[c].pending
      BY <1>4, <2>2 DEF Follows
    <2>4. Leaves(calls'[c], x, r, K)
      BY <1>2, <1>3, <2>1, <2>2 DEF Leaves
    <2>5. QED
      BY <2>3, <2>4 DEF WillLeave
  <1>13. QED
    BY <1>1, <1>4, <1>7, <1>8, <1>9, <1>10, <1>11, <1>12, WritesAlone

\* News is of releases that are known by then.
LEMMA StoresNewsAlone ==
    ASSUME NEW c, NEW q, Alone(c, q), StoresNews(c, q)
    PROVE  StaysAlone(c)
  <1> DEFINE call == calls[c]
             more == AfterSave(q)
             K == knownReleases
             F == followingArtists
             N == newReleases
  <1>1. /\ q \in Piece /\ q.do = "storeNews" /\ Shaped(call) /\ PieceShaped(call, q)
        /\ PieceFits(call, q, K, F, N, old) /\ Continue(c, q, more)
        /\ UNCHANGED <<knownReleases, followingArtists, old>> /\ N' = N \cup q.news
        /\ OfOne(K)
    BY AloneIs DEF StoresNews, world, Alone
  <1>2. /\ \A x \in more : x \in Piece /\ x.artist = q.artist /\ x.pruned = q.pruned /\ x.do = "readShown"
        /\ \A x, y \in more : x = y
        /\ q.pruned # {} => \E x \in more : TRUE
    BY <1>1, AfterSaveIs
  <1> HIDE DEF more
  <1>3. Follows(call, calls'[c], q, more)
    BY <1>1, <1>2, SomeFollow
  <1>4. call.op = "detect"
    BY <1>1 DEF Shaped, CallRecord, Ops, OneArtist, PieceShaped, Takes, UnfollowSteps, FollowSteps,
       Removal, RefreshSteps, DismissSteps, VerifySteps, SettingsReads, SettingsSteps
  <1>5. q.artist \in F
    BY <1>1, <1>4, AloneIs DEF DetectReads
  <1>6. RemovesNone(call, q)
    BY <1>1, <1>4 DEF RemovesNone, Removal
  <1>7. OnlyOf(call, q, K, F, N, K, F, N')
    BY <1>4 DEF OnlyOf
  <1>8. \A a \in Artists : K[a] # {} => a \in F \/ Following(call, a)
    BY <1>6, NobodyRemoved
  <1>9. \A x \in more : x.do \notin Removal /\ PieceFits(call, x, K, F, N', old)
    BY <1>2 DEF PieceFits, Removal
  <1>10. \A r \in q.news : KeptBy(r, K, F)
    BY <1>1, <1>4, <1>5 DEF KeptBy, PieceFits
  <1>11. ASSUME NEW r, Leaves(call, q, r, K)
         PROVE  WillLeave(calls'[c], r, K, old)
    <2>1. r \in q.pruned
      BY <1>1, <1>11 DEF Leaves
    <2>2. PICK x \in more : TRUE
      BY <1>2, <2>1
    <2>3. x \in calls'[c].pending
      BY <1>3, <2>2 DEF Follows
    <2>4. Leaves(calls'[c], x, r, K)
      BY <1>2, <2>1, <2>2 DEF Leaves
    <2>5. QED
      BY <2>3, <2>4 DEF WillLeave
  <1>12. QED
    BY <1>1, <1>3, <1>6, <1>7, <1>8, <1>9, <1>10, <1>11, WritesAlone

LEMMA WritesShownAlone ==
    ASSUME NEW c, NEW q, Alone(c, q), WritesShown(c, q), intact', q.do = "writeShown"
    PROVE  StaysAlone(c)
  <1> DEFINE call == calls[c]
             K == knownReleases
             F == followingArtists
             N == newReleases
  <1>1. /\ q \in Piece /\ Shaped(call) /\ PieceShaped(call, q)
        /\ Continue(c, q, {}) /\ UNCHANGED <<knownReleases, followingArtists, old>>
        /\ N' = q.ids /\ q.shown = N /\ OfOne(K)
    BY AloneIs DEF WritesShown, WriteNewReleases, world, Alone
  <1>2. N' \subseteq N
    BY <1>1 DEF PieceShaped
  <1>3. Follows(call, calls'[c], q, {})
    BY <1>1, NoneFollows
  <1>4. call.op \in {"detect", "dismiss", "verify", "settings"}
    BY <1>1 DEF Shaped, CallRecord, Ops, OneArtist, PieceShaped, Takes, UnfollowSteps, FollowSteps,
       Removal, RefreshSteps
  <1>5. RemovesNone(call, q)
    BY <1>4, OneOf DEF RemovesNone, Removal
  <1>6. OnlyOf(call, q, K, F, N, K, F, N')
    BY <1>2 DEF OnlyOf
  <1>7. \A a \in Artists : K[a] # {} => a \in F \/ Following(call, a)
    BY <1>5, NobodyRemoved
  <1>8. \A r \in N' : ~Leaves(call, q, r, K)
    BY <1>1 DEF Leaves
  <1>9. QED
    BY <1>1, <1>2, <1>3, <1>5, <1>6, <1>7, <1>8, WritesAlone

LEMMA MergesKnownAlone ==
    ASSUME NEW c, NEW q, Alone(c, q), MergesKnown(c, q)
    PROVE  StaysAlone(c)
  <1> DEFINE call == calls[c]
             K == knownReleases
             F == followingArtists
             N == newReleases
             ids == K[q.artist] \cup q.ids
  <1>1. /\ q \in Piece /\ q.do = "mergeKnown" /\ q.artist \in Artists /\ Shaped(call) /\ PieceShaped(call, q)
        /\ PieceFits(call, q, K, F, N, old) /\ Continue(c, q, {})
        /\ UNCHANGED <<followingArtists, newReleases, old>>
        /\ K' = [K EXCEPT ![q.artist] = ids]
        /\ K \in [Artists -> SUBSET Releases] /\ OfOne(K)
    BY AloneIs DEF MergesKnown, ArtistSteps, world, LibraryOK, Alone
  <1>2. ids \subseteq ReleasesBy(q.artist)
    BY <1>1 DEF PieceFits, OfOne
  <1> HIDE DEF ids
  <1>3. K'[q.artist] = ids /\ (\A b \in Artists : b # q.artist => K'[b] = K[b]) /\ OfOne(K')
    BY <1>1, <1>2, Replaced
  <1>4. Follows(call, calls'[c], q, {})
    BY <1>1, NoneFollows
  <1>5. call.op = "detect"
    BY <1>1 DEF Shaped, CallRecord, Ops, OneArtist, PieceShaped, Takes, UnfollowSteps, FollowSteps,
       Removal, RefreshSteps, DismissSteps, VerifySteps, SettingsReads, SettingsSteps
  <1>6. q.artist \in F /\ F \subseteq Artists
    BY <1>1, <1>5, AloneIs DEF DetectReads, LibraryOK
  <1>7. RemovesNone(call, q)
    BY <1>1, <1>5 DEF RemovesNone, Removal
  <1>8. OnlyOf(call, q, K, F, N, K', F, N)
    BY <1>3 DEF OnlyOf
  <1>9. \A a \in Artists : K'[a] # {} => a \in F \/ Following(call, a)
    BY <1>3, <1>6, <1>7, NobodyRemoved
  <1>10. \A a \in Artists : K[a] \subseteq K'[a]
    BY <1>3 DEF ids
  <1>11. \A r : KeptBy(r, K, F) => KeptBy(r, K', F)
    BY <1>6, <1>10 DEF KeptBy
  <1>12. (\A r : ~Leaves(call, q, r, K)) /\ q.do # "readOutside"
    BY <1>1 DEF Leaves
  <1> DEFINE more == {}
  <1>13. Follows(call, calls'[c], q, more) /\ \A x : x \notin more
    BY <1>4
  <1> HIDE DEF more
  <1>14. QED
    BY <1>1, <1>3, <1>7, <1>8, <1>9, <1>11, <1>12, <1>13, WritesAlone

\* What is not rebuilt no longer matches the settings.
LEMMA ReplacesRebuiltAlone ==
    ASSUME NEW c, NEW q, Alone(c, q), ReplacesRebuilt(c, q)
    PROVE  StaysAlone(c)
  <1> DEFINE call == calls[c]
             K == knownReleases
             F == followingArtists
             N == newReleases
  <1>1. /\ q \in Piece /\ q.do = "replaceRebuilt" /\ q.artist \in Artists /\ Shaped(call) /\ PieceShaped(call, q)
        /\ PieceFits(call, q, K, F, N, old) /\ Continue(c, q, {}) /\ q \in call.pending
        /\ UNCHANGED <<followingArtists, newReleases, old>> /\ K' = [K EXCEPT ![q.artist] = q.ids]
        /\ K \in [Artists -> SUBSET Releases] /\ OfOne(K) /\ F \subseteq Artists
    BY AloneIs DEF ReplacesRebuilt, ArtistSteps, world, LibraryOK, Alone
  <1>2. K'[q.artist] = q.ids /\ (\A b \in Artists : b # q.artist => K'[b] = K[b]) /\ OfOne(K')
    BY <1>1, Replaced DEF PieceFits
  <1>3. Follows(call, calls'[c], q, {})
    BY <1>1, NoneFollows
  <1>4. call.op = "settings"
    BY <1>1 DEF Shaped, CallRecord, Ops, OneArtist, PieceShaped, Takes, UnfollowSteps, FollowSteps,
       Removal, RefreshSteps, DismissSteps, VerifySteps, SearchSteps, DetectReads
  <1>5. q.artist \in F /\ call.stage = "rebuild"
    BY <1>1, <1>4 DEF Alone, PieceFits
  <1>6. RemovesNone(call, q)
    BY <1>1, <1>4 DEF RemovesNone, Removal
  <1>7. OnlyOf(call, q, K, F, N, K', F, N)
    BY <1>2 DEF OnlyOf
  <1>8. \A a \in Artists : K'[a] # {} => a \in F \/ Following(call, a)
    BY <1>2, <1>5, <1>6, NobodyRemoved
  <1>9. Sifts(calls'[c]) /\ calls'[c].asked = call.asked
    BY <1>3, <1>4, <1>5 DEF Sifts, Follows
  <1>10. ASSUME NEW r \in N, KeptBy(r, K, F)
         PROVE  KeptBy(r, K', F) \/ WillLeave(calls'[c], r, K', old)
    <2>1. PICK b \in F : r \in K[b]
      BY <1>10 DEF KeptBy
    <2>2. CASE b # q.artist
      BY <1>1, <1>2, <2>1, <2>2 DEF KeptBy
    <2>3. CASE b = q.artist
      <3>1. r \in q.ids \/ \E s \in call.asked : r \in Outside(s, old)
        BY <1>1, <1>4, <2>1, <2>3 DEF PieceFits
      <3>2. QED
        BY <1>2, <1>5, <1>9, <3>1 DEF KeptBy, WillLeave
    <2>4. QED
      BY <2>2, <2>3
  <1>11. (\A r : ~Leaves(call, q, r, K)) /\ q.do # "readOutside"
    BY <1>1 DEF Leaves
  <1> DEFINE more == {}
  <1>12. Follows(call, calls'[c], q, more) /\ \A x : x \notin more
    BY <1>3
  <1> HIDE DEF more
  <1>13. QED
    BY <1>1, <1>2, <1>6, <1>7, <1>8, <1>10, <1>11, <1>12, WritesAlone

\* One update removes what is about to be taken off the list from all entries.
LEMMA RemovesKnownAlone ==
    ASSUME NEW c, NEW q, Alone(c, q), RemovesKnown(c, q)
    PROVE  StaysAlone(c)
  <1> DEFINE call == calls[c]
             K == knownReleases
             F == followingArtists
             N == newReleases
             p == Then(q, "readShownToVerify")
  <1>1. /\ q \in Piece /\ q.do = "removeKnown" /\ Shaped(call) /\ PieceShaped(call, q)
        /\ Continue(c, q, {p}) /\ UNCHANGED <<followingArtists, newReleases, old>>
        /\ K' = [a \in Artists |-> K[a] \ (call.known[a] \cap call.asked)]
        /\ OfOne(K) /\ F \subseteq Artists
    BY AloneIs DEF RemovesKnown, world, LibraryOK, Alone
  <1>2. p \in Piece /\ p.do = "readShownToVerify" /\ p.artist = q.artist
    BY <1>1, StepsAre DEF Piece, Then
  <1> HIDE DEF p
  <1>3. call.op = "verify"
    BY <1>1 DEF Shaped, CallRecord, Ops, OneArtist, PieceShaped, Takes, UnfollowSteps, FollowSteps,
       Removal, RefreshSteps, DismissSteps, SearchSteps, DetectReads, SettingsReads, SettingsSteps
  <1>4. call.pending = {q}
    BY <1>3, OneOf
  <1>5. Follows(call, calls'[c], q, {p})
    BY <1>1, <1>2, OneFollows
  <1>6. p \in calls'[c].pending /\ calls'[c].asked = call.asked
    BY <1>5 DEF Follows
  <1>7. /\ \A a \in Artists : K'[a] \subseteq K[a] /\ \A r \in K[a] : r \in K'[a] \/ r \in call.asked
        /\ OfOne(K')
    BY <1>1 DEF OfOne
  <1>8. RemovesNone(call, q)
    BY <1>1, <1>3 DEF RemovesNone, Removal
  <1>9. OnlyOf(call, q, K, F, N, K', F, N)
    BY <1>4 DEF OnlyOf
  <1>10. \A a \in Artists : K'[a] # {} => a \in F \/ Following(call, a)
    BY <1>7, <1>8, NobodyRemoved
  <1>11. ASSUME NEW r \in N, KeptBy(r, K, F)
         PROVE  KeptBy(r, K', F) \/ WillLeave(calls'[c], r, K', old)
    <2>1. PICK b \in F : r \in K[b]
      BY <1>11 DEF KeptBy
    <2>2. CASE r \in K'[b]
      BY <2>1, <2>2 DEF KeptBy
    <2>3. CASE r \notin K'[b]
      BY <1>1, <1>2, <1>6, <1>7, <2>1, <2>3 DEF WillLeave, Leaves
    <2>4. QED
      BY <2>2, <2>3
  <1>12. (\A r : ~Leaves(call, q, r, K)) /\ q.do # "readOutside"
    BY <1>1 DEF Leaves
  <1>13. PieceFits(call, p, K', F, N, old)
    BY <1>2 DEF PieceFits, Removal
  <1> DEFINE more == {p}
  <1>14. /\ Follows(call, calls'[c], q, more)
         /\ \A x \in more : x.do \notin Removal /\ PieceFits(call, x, K', F, N, old)
    BY <1>2, <1>5, <1>13 DEF Removal
  <1> HIDE DEF more
  <1>15. QED
    BY <1>1, <1>7, <1>8, <1>9, <1>10, <1>11, <1>12, <1>14, WritesAlone

\* What does not match the settings, and nobody keeps, is taken off the list.
LEMMA ReadsOutsideAlone ==
    ASSUME NEW c, NEW q, Alone(c, q), ReadsOutside(c, q)
    PROVE  StaysAlone(c)
  <1> DEFINE call == calls[c]
             K == knownReleases
             F == followingArtists
             N == newReleases
  <1>1. /\ q \in Piece /\ q.do = "readOutside" /\ Shaped(call) /\ PieceShaped(call, q)
        /\ UNCHANGED <<knownReleases, followingArtists, newReleases, old>>
        /\ OfOne(K) /\ N \subseteq Releases /\ old \subseteq Releases
    BY AloneIs DEF ReadsOutside, OnlyReads, library, world, LibraryOK, WorldOK, Alone
  <1>2. PICK s \in call.asked :
           Continue(c, q, IF N \subseteq Matches(s) THEN {}
                          ELSE {[Then(q, "writeShown") EXCEPT !.shown = N, !.ids = N \cap Matches(s)]})
    BY DEF ReadsOutside
  <1> DEFINE p == [Then(q, "writeShown") EXCEPT !.shown = N, !.ids = N \cap Matches(s)]
             more == IF N \subseteq Matches(s) THEN {} ELSE {p}
  <1>3. N \cap Matches(s) \subseteq Releases
    BY <1>1
  <1>4. p \in Piece /\ p.do = "writeShown" /\ p.artist = q.artist /\ p.ids = N \cap Matches(s)
    BY <1>1, <1>3, StepsAre DEF Piece, Then
  <1>5. Continue(c, q, more)
    BY <1>2
  <1> HIDE DEF p
  <1>6. /\ \A x \in more : x = p
        /\ N \subseteq Matches(s) \/ p \in more
    OBVIOUS
  <1> HIDE DEF more
  <1>7. Follows(call, calls'[c], q, more)
    BY <1>4, <1>5, <1>6, SomeFollow
  <1>8. call.op = "settings"
    BY <1>1 DEF Shaped, CallRecord, Ops, OneArtist, PieceShaped, Takes, UnfollowSteps, FollowSteps,
       Removal, RefreshSteps, DismissSteps, VerifySteps, SearchSteps, DetectReads
  <1>9. call.asked = {s}
    BY <1>1, <1>8 DEF Shaped
  <1>10. RemovesNone(call, q) /\ OnlyOf(call, q, K, F, N, K, F, N)
    BY <1>1, <1>8 DEF RemovesNone, OnlyOf, Removal
  <1>11. \A a \in Artists : K[a] # {} => a \in F \/ Following(call, a)
    BY <1>10, NobodyRemoved
  <1>12. \A x \in more : x.do \notin Removal /\ PieceFits(call, x, K, F, N, old)
    BY <1>4, <1>6 DEF PieceFits, Removal
  <1>13. ASSUME NEW r \in N, ~KeptBy(r, K, F)
         PROVE  WillLeave(calls'[c], r, K, old)
    <2>1. WillLeave(call, r, K, old) /\ ~Leaves(call, q, r, K)
      BY <1>1, <1>13 DEF Alone, Sole, Leaves
    <2>2. CASE \E x \in call.pending : Leaves(call, x, r, K)
      <3>1. PICK x \in call.pending \ {q} : Leaves(call, x, r, K)
        BY <2>1, <2>2
      <3>2. x \in calls'[c].pending
        BY <3>1, <1>7 DEF Follows
      <3>3. Leaves(calls'[c], x, r, K)
        BY <3>1, <1>7, SameCallFits DEF Follows
      <3>4. QED
        BY <3>2, <3>3 DEF WillLeave
    <2>3. CASE r \in Outside(s, old)
      <3>1. r \notin Matches(s)
        BY <2>3 DEF Outside, Matches
      <3>2. p \in calls'[c].pending
        BY <1>6, <1>7, <3>1 DEF Follows
      <3>3. Leaves(calls'[c], p, r, K)
        BY <1>4, <3>1 DEF Leaves
      <3>4. QED
        BY <3>2, <3>3 DEF WillLeave
    <2>4. QED
      BY <1>9, <2>1, <2>2, <2>3 DEF WillLeave
  <1>14. QED
    BY <1>1, <1>7, <1>10, <1>11, <1>12, <1>13, WritesAlone

-----------------------------------------------------------------------------
(* Artists that are removed, one or several beside each other.              *)

\* The artist is no longer on the list, its releases still are.
Unlisted(q, more, F) ==
    \A p \in more : p.do = "readShownToUnfollow" /\ p.artist = q.artist /\ p.read = F

LEMMA RemovalBegins ==
    ASSUME NEW call, Shaped(call), NEW next, next # Idle, NEW q \in call.pending, NEW more,
           Follows(call, next, q, more), more # {},
           q.do \in {"readToUnfollow", "writeUnfollow"}, q.artist \in Artists,
           NEW K, NEW F, NEW N, NEW O, NEW F2, F2 = F \ {q.artist},
           Unlisted(q, more, F), Sole(call, K, F, N, O), Apart(call)
    PROVE  Apart(next) /\ Sole(next, K, F2, N, O)
  <1>1. PICK p \in more :
           /\ p.do = "readShownToUnfollow" /\ p.artist = q.artist /\ p.read = F
           /\ \A x \in more : x = p
           /\ q.do \notin Removal /\ q.do # "readOutside" /\ \A r : ~Leaves(call, q, r, K)
    BY DEF Unlisted, Follows, Removal, Leaves
  <1>2. p.do \in Removal /\ F2 \subseteq F /\ p \in next.pending
    BY <1>1 DEF Removal, Follows
  <1>3. \A x, r : Leaves(next, x, r, K) <=> Leaves(call, x, r, K)
    BY SameCallFits DEF Follows
  <1>4. \A r \in K[q.artist] : Leaves(next, p, r, K)
    BY <1>1 DEF Leaves
  <1>5. ASSUME NEW x \in next.pending, x.do \in Removal, x # p
        PROVE  x \in call.pending /\ F \subseteq x.read \ {x.artist}
    BY <1>1, <1>5 DEF Follows, Sole, PieceFits
  <1>6. \A x \in call.pending : x.do \in Removal => x \in next.pending
    BY <1>1 DEF Follows
  <1>7. EntriesOf(next, K, F2)
    <2>1. ASSUME NEW a \in Artists, K[a] # {}, a \notin F2, ~Following(next, a)
          PROVE  Removing(next, a)
      <3>1. CASE a = q.artist
        BY <1>1, <1>2, <3>1 DEF Removing
      <3>2. CASE a # q.artist
        <4>1. Removing(call, a)
          BY <2>1, <3>2 DEF Sole, EntriesOf, Following, Follows
        <4>2. QED
          BY <1>6, <4>1 DEF Removing
      <3>3. QED
        BY <3>1, <3>2
    <2>2. QED
      BY <2>1 DEF EntriesOf
  <1>8. Nested(next)
    <2>1. ASSUME NEW x \in next.pending, NEW y \in next.pending, x # y,
                 x.do \in Removal, y.do \in Removal, x.artist \in y.read
          PROVE  x.read \subseteq y.read \ {y.artist}
      <3>1. CASE x = p
        BY <1>1, <1>5, <2>1, <3>1
      <3>2. CASE y = p
        BY <1>1, <1>5, <2>1, <3>2
      <3>3. CASE x # p /\ y # p
        BY <1>5, <2>1, <3>3 DEF Sole, Nested
      <3>4. QED
        BY <3>1, <3>2, <3>3
    <2>2. QED
      BY <2>1 DEF Nested
  <1>9. LaterOf(next, K, F2, N)
    <2>1. ASSUME NEW x \in next.pending, x.do \in Removal, NEW r \in N \cap K[x.artist],
                 ~KeptBy(r, K, F2)
          PROVE  \E y \in next.pending : /\ y.do \in Removal /\ Leaves(next, y, r, K)
                                         /\ y.artist \in {x.artist} \cup x.read
      <3>1. CASE x = p
        BY <1>1, <1>2, <1>4, <2>1, <3>1
      <3>2. CASE x # p /\ r \in K[q.artist] /\ q.artist \in F
        BY <1>1, <1>2, <1>4, <1>5, <2>1, <3>2
      <3>3. CASE x # p /\ ~(r \in K[q.artist] /\ q.artist \in F)
        <4>1. ~KeptBy(r, K, F)
          BY <2>1, <3>3 DEF KeptBy
        <4>2. PICK y \in call.pending : /\ y.do \in Removal /\ Leaves(call, y, r, K)
                                        /\ y.artist \in {x.artist} \cup x.read
          BY <1>5, <2>1, <3>3, <4>1 DEF Sole, LaterOf
        <4>3. QED
          BY <1>3, <1>6, <4>2
      <3>4. QED
        BY <3>1, <3>2, <3>3
    <2>2. QED
      BY <2>1 DEF LaterOf
  <1>10. \A x \in more : PieceFits(call, x, K, F2, N, O)
    BY <1>1 DEF PieceFits
  <1>11. ASSUME NEW r \in N, KeptBy(r, K, F)
         PROVE  KeptBy(r, K, F2) \/ WillLeave(next, r, K, O)
    BY <1>2, <1>4, <1>11 DEF KeptBy, WillLeave
  <1>12. OnlyOf(call, q, K, F, N, K, F2, N)
    BY <1>2 DEF OnlyOf
  <1>13. Sifts(call) => Sifts(next)
    BY <1>1 DEF Sifts, Follows
  <1>14. \A r \in N : \/ KeptBy(r, K, F2) \/ WillLeave(next, r, K, O)
                      \/ /\ r \in N /\ ~KeptBy(r, K, F) /\ ~Leaves(call, q, r, K)
                         /\ Sifts(call) => Sifts(next)
    BY <1>1, <1>11, <1>13
  <1>15. QED
    <2>1. Follows(call, next, q, more) /\ Shaped(call) /\ Sole(call, K, F, N, O) /\ Apart(call)
      OBVIOUS
    <2>2. QED
      BY ONLY <1>7, <1>8, <1>9, <1>10, <1>12, <1>14, <2>1, q \in call.pending, SoleStep

\* What the removal is followed by: its releases are forgotten or are going to be, and
\* what it was going to take off the list is kept or taken off by what follows it, or
\* by the removal of an artist that was on the list when it began.
RemovedOn(call, q, more, K, F, N, O, K2, N2) ==
    /\ \A a \in Artists : a # q.artist => K2[a] = K[a]
    /\ K2[q.artist] \subseteq K[q.artist] /\ N2 \subseteq N /\ F \subseteq Artists
    /\ K2[q.artist] = {} \/ \E p \in more : p.do \in Removal
    /\ \A p \in more : /\ p.do \in Removal => p.read = q.read
                       /\ PieceFits(call, p, K2, F, N2, O)
    /\ \A r \in N2 : Leaves(call, q, r, K) =>
          \/ KeptBy(r, K2, F)
          \/ \E p \in more : p.do \in Removal /\ Leaves(call, p, r, K2)
          \/ \E p \in call.pending \ {q} :
                p.do \in Removal /\ Leaves(call, p, r, K) /\ p.artist \in q.read

LEMMA RemovalGoesOn ==
    ASSUME NEW call, Shaped(call), NEW next, next # Idle, NEW q \in call.pending, NEW more,
           Follows(call, next, q, more), q.do \in Removal, q.artist \in Artists,
           NEW K, NEW F, NEW N, NEW O, NEW K2, NEW N2,
           RemovedOn(call, q, more, K, F, N, O, K2, N2),
           Sole(call, K, F, N, O), Apart(call)
    PROVE  Apart(next) /\ Sole(next, K2, F, N2, O)
  <1> USE DEF RemovedOn
  <1>1. F \subseteq q.read \ {q.artist} /\ \A a \in F : K2[a] = K[a]
    BY DEF Sole, PieceFits
  <1>2. \A r : KeptBy(r, K, F) => KeptBy(r, K2, F)
    BY <1>1 DEF KeptBy
  <1>3. OnlyOf(call, q, K, F, N, K2, F, N2)
    BY DEF OnlyOf
  <1>4. OthersFit(call, q, K, K2, F, N2, O)
    BY <1>3, OthersStillFit
  <1>5. \A x, r : Leaves(next, x, r, K2) <=> Leaves(call, x, r, K2)
    BY SameCallFits DEF Follows
  <1>6. \A x \in call.pending \ {q} : x \in next.pending /\ \A r : Leaves(call, x, r, K) => Leaves(next, x, r, K2)
    BY <1>4, <1>5 DEF Follows, OthersFit
  <1>7. \A x \in more : x \in next.pending /\ x.artist = q.artist /\ (x.do \in Removal => x.read = q.read)
                        /\ \A r : Leaves(call, x, r, K2) => Leaves(next, x, r, K2)
    BY <1>5 DEF Follows
  <1>8. \A x \in next.pending : x \in call.pending \ {q} \/ x \in more
    BY DEF Follows
  \* Where a removal piece of the call afterwards comes from.
  <1>9. ASSUME NEW x \in next.pending, x.do \in Removal
        PROVE  \E y \in call.pending : /\ y.do \in Removal /\ y.artist = x.artist /\ y.read = x.read
                                       /\ y = q \/ (y = x /\ y \in call.pending \ {q})
    BY <1>7, <1>8, <1>9
  <1>10. EntriesOf(next, K2, F)
    <2>1. ASSUME NEW a \in Artists, K2[a] # {}, a \notin F, ~Following(next, a)
          PROVE  Removing(next, a)
      <3>1. CASE a = q.artist
        BY <1>7, <2>1, <3>1 DEF Removing
      <3>2. CASE a # q.artist
        <4>1. Removing(call, a)
          BY <2>1, <3>2 DEF Sole, EntriesOf, Following, Follows
        <4>2. QED
          BY <1>6, <3>2, <4>1 DEF Removing
      <3>3. QED
        BY <3>1, <3>2
    <2>2. QED
      BY <2>1 DEF EntriesOf
  <1>11. Nested(next)
    <2>1. ASSUME NEW x \in next.pending, NEW y \in next.pending, x # y,
                 x.do \in Removal, y.do \in Removal, x.artist \in y.read
          PROVE  x.read \subseteq y.read \ {y.artist}
      <3>1. PICK x0 \in call.pending : /\ x0.do \in Removal /\ x0.artist = x.artist /\ x0.read = x.read
                                       /\ x0 = q \/ (x0 = x /\ x0 \in call.pending \ {q})
        BY <1>9, <2>1
      <3>2. PICK y0 \in call.pending : /\ y0.do \in Removal /\ y0.artist = y.artist /\ y0.read = y.read
                                       /\ y0 = q \/ (y0 = y /\ y0 \in call.pending \ {q})
        BY <1>9, <2>1
      <3>3. Apart(next)
        BY FollowsApart
      <3>4. x.artist # y.artist
        BY <2>1, <3>3 DEF Apart
      <3>5. x0 # y0
        BY <3>1, <3>2, <3>4
      <3>6. QED
        BY <2>1, <3>1, <3>2, <3>5 DEF Sole, Nested
    <2>2. QED
      BY <2>1 DEF Nested
  <1>12. LaterOf(next, K2, F, N2)
    <2>1. ASSUME NEW x \in next.pending, x.do \in Removal, NEW r \in N2 \cap K2[x.artist],
                 ~KeptBy(r, K2, F)
          PROVE  \E y \in next.pending : /\ y.do \in Removal /\ Leaves(next, y, r, K2)
                                         /\ y.artist \in {x.artist} \cup x.read
      <3>1. PICK x0 \in call.pending : /\ x0.do \in Removal /\ x0.artist = x.artist /\ x0.read = x.read
                                       /\ x0 = q \/ (x0 = x /\ x0 \in call.pending \ {q})
        BY <1>9, <2>1
      <3>2. r \in N \cap K[x0.artist] /\ ~KeptBy(r, K, F)
        <4>1. CASE x0 = q
          BY <1>2, <2>1, <3>1, <4>1
        <4>2. CASE x0 # q
          <5>1. PieceShaped(call, x0) /\ x0.artist # q.artist
            BY <3>1, <4>2 DEF Shaped, Apart
          <5>2. x0.artist \in Artists
            BY <3>1, <5>1 DEF PieceShaped, ArtistSteps, UnfollowSteps
          <5>3. QED
            BY <1>2, <2>1, <3>1, <5>1, <5>2
        <4>3. QED
          BY <4>1, <4>2
      <3>3. PICK w \in call.pending : /\ w.do \in Removal /\ Leaves(call, w, r, K)
                                      /\ w.artist \in {x0.artist} \cup x0.read
        BY <3>1, <3>2 DEF Sole, LaterOf
      <3>4. CASE w # q
        BY <1>6, <3>1, <3>3, <3>4
      <3>5. CASE w = q
        <4>1. CASE \E p \in more : p.do \in Removal /\ Leaves(call, p, r, K2)
          BY <1>7, <3>1, <3>3, <3>5, <4>1
        <4>2. CASE \E p \in call.pending \ {q} :
                      p.do \in Removal /\ Leaves(call, p, r, K) /\ p.artist \in q.read
          <5>1. PICK p \in call.pending \ {q} :
                      p.do \in Removal /\ Leaves(call, p, r, K) /\ p.artist \in q.read
            BY <4>2
          <5>2. x0 # q => q.read \subseteq x0.read
            <6>1. ASSUME x0 # q PROVE q.artist \in x0.read
              BY <3>3, <3>5, <6>1 DEF Apart
            <6>2. QED
              BY <3>1, <6>1 DEF Sole, Nested
          <5>3. p.artist \in x0.read
            BY <5>1, <5>2
          <5>4. QED
            BY <1>6, <3>1, <5>1, <5>3
        <4>3. QED
          BY <2>1, <3>3, <3>5, <4>1, <4>2
      <3>6. QED
        BY <3>4, <3>5
    <2>2. QED
      BY <2>1 DEF LaterOf
  <1>13. ASSUME NEW r \in N2
         PROVE  \/ KeptBy(r, K2, F) \/ WillLeave(next, r, K2, O)
                \/ /\ r \in N /\ ~KeptBy(r, K, F) /\ ~Leaves(call, q, r, K)
                   /\ Sifts(call) => Sifts(next)
    <2>1. Sifts(call) => Sifts(next)
      BY <1>6 DEF Sifts, Follows, Removal
    <2>2. CASE Leaves(call, q, r, K)
      BY <1>6, <1>7, <2>2 DEF WillLeave
    <2>3. CASE ~Leaves(call, q, r, K)
      BY <1>2, <2>1, <2>3
    <2>4. QED
      BY <2>2, <2>3
  <1>14. QED
    BY <1>3, <1>10, <1>11, <1>12, <1>13, SoleStep

\* The two lemmas for a caller.
LEMMA RemovalBeginsAlone ==
    ASSUME NEW c, NEW q, Alone(c, q), NEW p \in Piece, Continue(c, q, {p}),
           q.do \in {"readToUnfollow", "writeUnfollow"}, p.do = "readShownToUnfollow",
           p.artist = q.artist, p.read = followingArtists,
           UNCHANGED <<knownReleases, newReleases, old>>,
           followingArtists' = followingArtists \ {q.artist}
    PROVE  StaysAlone(c)
  <1> DEFINE K == knownReleases
             F == followingArtists
             N == newReleases
             O == old
             F2 == followingArtists'
             call == calls[c]
             next == calls'[c]
             more == {p}
  <1>1. /\ Shaped(call) /\ q \in call.pending /\ Sole(call, K, F, N, O) /\ Apart(call) /\ OfOne(K)
        /\ q.artist \in Artists
    BY AloneIs DEF Alone, ArtistSteps, UnfollowSteps
  <1>2. Follows(call, next, q, more) /\ next # Idle
    BY OneFollows
  <1>3. /\ K' = K /\ N' = N /\ O' = O /\ F2 = F \ {q.artist}
        /\ more # {} /\ \A x \in more : x = p
    OBVIOUS
  <1> HIDE DEF more
  <1>4. Unlisted(q, more, F)
    BY <1>3 DEF Unlisted
  <1>5. Apart(next) /\ Sole(next, K, F2, N, O)
    <2> HIDE DEF K, F, N, O, F2, call, next
    <2>1. QED
      BY <1>1, <1>2, <1>3, <1>4, RemovalBegins
  <1>6. QED
    BY <1>1, <1>3, <1>5 DEF StaysAlone

LEMMA RemovalGoesOnAlone ==
    ASSUME NEW c, NEW q, Alone(c, q), q.do \in Removal, NEW more \in SUBSET Piece,
           Continue(c, q, more),
           \A p \in more : p.artist = q.artist /\ p.do # "readFollowed", \A p, r \in more : p = r,
           \A a \in Artists : a # q.artist => knownReleases'[a] = knownReleases[a],
           knownReleases'[q.artist] \subseteq knownReleases[q.artist],
           newReleases' \subseteq newReleases, UNCHANGED <<followingArtists, old>>,
           knownReleases'[q.artist] = {} \/ \E p \in more : p.do \in Removal,
           \A p \in more :
              /\ p.do \in Removal => p.read = q.read
              /\ PieceFits(calls[c], p, knownReleases', followingArtists, newReleases', old),
           \A r \in newReleases' : Leaves(calls[c], q, r, knownReleases) =>
              \/ KeptBy(r, knownReleases', followingArtists)
              \/ \E p \in more : p.do \in Removal /\ Leaves(calls[c], p, r, knownReleases')
              \/ \E p \in calls[c].pending \ {q} :
                    p.do \in Removal /\ Leaves(calls[c], p, r, knownReleases) /\ p.artist \in q.read
    PROVE  StaysAlone(c)
  <1> DEFINE K == knownReleases
             F == followingArtists
             N == newReleases
             O == old
             K2 == knownReleases'
             N2 == newReleases'
             call == calls[c]
             next == calls'[c]
  <1>1. /\ Shaped(call) /\ q \in call.pending /\ Sole(call, K, F, N, O) /\ Apart(call) /\ OfOne(K)
        /\ q.artist \in Artists /\ F \subseteq Artists
    BY AloneIs DEF Alone, ArtistSteps, UnfollowSteps, LibraryOK
  <1>2. Follows(call, next, q, more) /\ next # Idle
    BY SomeFollow
  <1>3. RemovedOn(call, q, more, K, F, N, O, K2, N2)
    BY <1>1 DEF RemovedOn
  <1>4. Apart(next) /\ Sole(next, K2, F, N2, O)
    <2> HIDE DEF K, F, N, O, K2, N2, call, next
    <2>1. QED
      BY <1>1, <1>2, <1>3, RemovalGoesOn
  <1>5. OfOne(K2)
    <2>1. \A a \in Artists : K2[a] \subseteq K[a]
      BY <1>1
    <2> HIDE DEF K, K2
    <2>2. QED
      BY <1>1, <2>1 DEF OfOne
  <1>6. QED
    BY <1>3, <1>4, <1>5 DEF StaysAlone

LEMMA ReadsToUnfollowAlone ==
    ASSUME NEW c, NEW q, Alone(c, q), ReadsToUnfollow(c, q)
    PROVE  StaysAlone(c)
  <1>1. CASE q.artist \in followingArtists
    BY <1>1, ReadsToUnfollowListed
  <1>2. CASE q.artist \notin followingArtists
    <2> DEFINE p == [Then(q, "readShownToUnfollow") EXCEPT !.read = followingArtists]
    <2>1. q \in Piece /\ q.do = "readToUnfollow" /\ followingArtists \subseteq Artists
          /\ Continue(c, q, {p}) /\ OnlyReads
      BY <1>2, AloneIs DEF ReadsToUnfollow, LibraryOK
    <2>2. p \in Piece /\ p.do = "readShownToUnfollow" /\ p.artist = q.artist /\ p.read = followingArtists
      BY <2>1, StepsAre DEF Piece, Then
    <2> HIDE DEF p
    <2>3. followingArtists' = followingArtists \ {q.artist}
          /\ UNCHANGED <<knownReleases, newReleases, old>>
      BY <1>2, <2>1 DEF OnlyReads, library, world
    <2>4. QED
      BY <2>1, <2>2, <2>3, RemovalBeginsAlone
  <1>3. QED
    BY <1>1, <1>2

LEMMA WritesUnfollowAlone ==
    ASSUME NEW c, NEW q, Alone(c, q), WritesUnfollow(c, q), intact'
    PROVE  StaysAlone(c)
  <1> DEFINE p == Then(q, "readShownToUnfollow")
  <1>1. /\ q \in Piece /\ q.do = "writeUnfollow" /\ Continue(c, q, {p}) /\ q.read = followingArtists
        /\ UNCHANGED <<knownReleases, newReleases, old>>
        /\ followingArtists' = followingArtists \ {q.artist}
    BY AloneIs DEF WritesUnfollow, WriteFollowing, world
  <1>2. p \in Piece /\ p.do = "readShownToUnfollow" /\ p.artist = q.artist /\ p.read = q.read
    BY <1>1, StepsAre DEF Piece, Then
  <1> HIDE DEF p
  <1>3. QED
    BY <1>1, <1>2, RemovalBeginsAlone

LEMMA ReadsShownToUnfollowAlone ==
    ASSUME NEW c, NEW q, Alone(c, q), ReadsShownToUnfollow(c, q)
    PROVE  StaysAlone(c)
  <1> DEFINE p == [Then(q, "readKnownToUnfollow") EXCEPT !.shown = newReleases]
             more == {p}
  <1>1. /\ q \in Piece /\ q.do = "readShownToUnfollow" /\ newReleases \subseteq Releases
        /\ PieceFits(calls[c], q, knownReleases, followingArtists, newReleases, old)
        /\ Continue(c, q, more) /\ OnlyReads
    BY AloneIs DEF ReadsShownToUnfollow, LibraryOK
  <1>2. p \in Piece /\ p.do = "readKnownToUnfollow" /\ p.artist = q.artist /\ p.read = q.read
        /\ p.shown = newReleases
    BY <1>1, StepsAre DEF Piece, Then
  <1> HIDE DEF p
  <1>3. p \in more /\ \A x \in more : x = p
    OBVIOUS
  <1> HIDE DEF more
  <1>4. PieceFits(calls[c], p, knownReleases, followingArtists, newReleases, old)
    BY <1>1, <1>2 DEF PieceFits, Removal
  <1>5. \A r : Leaves(calls[c], q, r, knownReleases) => Leaves(calls[c], p, r, knownReleases)
    BY <1>1, <1>2 DEF Leaves
  <1>6. p.do \in Removal /\ q.do \in Removal
    BY <1>1, <1>2 DEF Removal
  <1>7. UNCHANGED <<knownReleases, followingArtists, newReleases, old>>
    BY <1>1 DEF OnlyReads, library, world
  <1>8. more \in SUBSET Piece /\ (\A x, y \in more : x = y)
        /\ \A x \in more : x.artist = q.artist /\ x.do # "readFollowed"
    BY <1>2, <1>3
  <1>9. QED
    BY <1>1, <1>2, <1>3, <1>4, <1>5, <1>6, <1>7, <1>8, RemovalGoesOnAlone

\* What stays on the list although the artist knows it is known to another one that was
\* followed, which is followed still or is removed too, after this one.
LEMMA KeptAfterUnfollowIsLater ==
    ASSUME NEW c, NEW q, Alone(c, q), q.do = "readKnownToUnfollow",
           NEW r \in newReleases \cap knownReleases[q.artist], r \in KeptAfterUnfollow(q)
    PROVE  \/ KeptBy(r, knownReleases, followingArtists)
           \/ \E p \in calls[c].pending \ {q} :
                 /\ p.do \in Removal /\ Leaves(calls[c], p, r, knownReleases)
                 /\ p.artist \in q.read
  <1> DEFINE call == calls[c]
             K == knownReleases
             F == followingArtists
  <1>1. /\ q \in Piece /\ Shaped(call) /\ PieceShaped(call, q) /\ q \in call.pending
        /\ Sole(call, K, F, newReleases, old) /\ q.do \in Removal
    BY AloneIs DEF Alone, Removal
  <1>2. PICK b \in q.read \ {q.artist} : r \in K[b]
    BY DEF KeptAfterUnfollow
  <1>3. b \in Artists
    BY <1>1, <1>2 DEF Piece
  <1>4. CASE b \in F
    BY <1>2, <1>4 DEF KeptBy
  <1>5. CASE b \notin F
    <2>1. ~Following(call, b)
      BY <1>1, <1>2 DEF Following, PieceShaped, OneArtist
    <2>2. Removing(call, b)
      BY <1>1, <1>2, <1>3, <1>5, <2>1 DEF Sole, EntriesOf
    <2>3. PICK x \in call.pending : x.do \in Removal /\ x.artist = b
      BY <2>2 DEF Removing
    <2>4. x # q /\ x.read \subseteq q.read \ {q.artist}
      BY <1>1, <1>2, <2>3 DEF Sole, Nested
    <2>5. \/ KeptBy(r, K, F)
          \/ \E p \in call.pending : /\ p.do \in Removal /\ Leaves(call, p, r, K)
                                     /\ p.artist \in {b} \cup x.read
      BY <1>1, <1>2, <2>3 DEF Sole, LaterOf
    <2>6. QED
      BY <1>2, <2>4, <2>5
  <1>6. QED
    BY <1>4, <1>5

LEMMA ReadsKnownToUnfollowAlone ==
    ASSUME NEW c, NEW q, Alone(c, q), ReadsKnownToUnfollow(c, q)
    PROVE  StaysAlone(c)
  <1> DEFINE next == IF KeptAfterUnfollow(q) = q.shown THEN "deleteKnown" ELSE "writeShownToUnfollow"
             p == [Then(q, next) EXCEPT !.ids = KeptAfterUnfollow(q)]
             more == {p}
  <1>1. /\ q \in Piece /\ q.do = "readKnownToUnfollow"
        /\ PieceFits(calls[c], q, knownReleases, followingArtists, newReleases, old)
        /\ Continue(c, q, more) /\ OnlyReads
    BY AloneIs DEF ReadsKnownToUnfollow
  <1>2. KeptAfterUnfollow(q) \subseteq Releases
    BY <1>1 DEF KeptAfterUnfollow, Piece
  <1>3. next \in Steps
    BY StepsAre
  <1>4. p \in Piece /\ p.do = next /\ p.artist = q.artist /\ p.read = q.read
        /\ p.ids = KeptAfterUnfollow(q)
    BY <1>1, <1>2, <1>3 DEF Piece, Then
  <1> HIDE DEF p
  <1>5. p \in more /\ \A x \in more : x = p
    OBVIOUS
  <1> HIDE DEF more
  <1>6. /\ q.do \in Removal /\ p.do \in {"deleteKnown", "writeShownToUnfollow"} /\ p.do \in Removal
        /\ KeptAfterUnfollow(q) # q.shown => p.do = "writeShownToUnfollow"
    BY <1>1, <1>4 DEF Removal
  <1>7. PieceFits(calls[c], p, knownReleases, followingArtists, newReleases, old)
    BY <1>1, <1>4, <1>6 DEF PieceFits
  <1>8. ASSUME NEW r \in newReleases, Leaves(calls[c], q, r, knownReleases)
        PROVE  \/ KeptBy(r, knownReleases, followingArtists)
               \/ Leaves(calls[c], p, r, knownReleases)
               \/ \E x \in calls[c].pending \ {q} :
                     /\ x.do \in Removal /\ Leaves(calls[c], x, r, knownReleases)
                     /\ x.artist \in q.read
    <2>1. r \in knownReleases[q.artist] /\ r \in q.shown
      BY <1>1, <1>8 DEF Leaves, PieceFits
    <2>2. CASE r \in KeptAfterUnfollow(q)
      BY <1>1, <2>1, <2>2, KeptAfterUnfollowIsLater
    <2>3. CASE r \notin KeptAfterUnfollow(q)
      BY <1>4, <1>6, <2>1, <2>3 DEF Leaves
    <2>4. QED
      BY <2>2, <2>3
  <1>9. UNCHANGED <<knownReleases, followingArtists, newReleases, old>>
    BY <1>1 DEF OnlyReads, library, world
  <1>10. more \in SUBSET Piece /\ (\A x, y \in more : x = y)
         /\ \A x \in more : x.artist = q.artist /\ x.do # "readFollowed"
    BY <1>4, <1>5, <1>6
  <1>11. QED
    BY <1>1, <1>4, <1>5, <1>6, <1>7, <1>8, <1>9, <1>10, RemovalGoesOnAlone

LEMMA WritesShownToUnfollowAlone ==
    ASSUME NEW c, NEW q, Alone(c, q), WritesShown(c, q), intact', q.do = "writeShownToUnfollow"
    PROVE  StaysAlone(c)
  <1> DEFINE p == Then(q, "deleteKnown")
             more == {p}
  <1>1. /\ q \in Piece /\ PieceShaped(calls[c], q) /\ Continue(c, q, more)
        /\ PieceFits(calls[c], q, knownReleases, followingArtists, newReleases, old)
        /\ UNCHANGED <<knownReleases, followingArtists, old>>
        /\ newReleases' = q.ids /\ q.shown = newReleases
    BY AloneIs DEF WritesShown, WriteNewReleases, world
  <1>2. p \in Piece /\ p.do = "deleteKnown" /\ p.artist = q.artist /\ p.read = q.read
    BY <1>1, StepsAre DEF Piece, Then
  <1> HIDE DEF p
  <1>3. p \in more /\ \A x \in more : x = p
    OBVIOUS
  <1> HIDE DEF more
  <1>4. newReleases' \subseteq newReleases
    BY <1>1 DEF PieceShaped
  <1>5. p.do \in Removal /\ q.do \in Removal
    BY <1>2 DEF Removal
  <1>6. PieceFits(calls[c], p, knownReleases, followingArtists, newReleases', old)
    BY <1>1, <1>2, <1>5 DEF PieceFits
  <1>7. \A r \in newReleases' : ~Leaves(calls[c], q, r, knownReleases)
    BY <1>1 DEF Leaves
  <1>8. more \in SUBSET Piece /\ (\A x, y \in more : x = y)
        /\ \A x \in more : x.artist = q.artist /\ x.do # "readFollowed"
    BY <1>2, <1>3
  <1>9. QED
    BY <1>1, <1>2, <1>3, <1>4, <1>5, <1>6, <1>7, <1>8, RemovalGoesOnAlone

LEMMA DeletesKnownAlone ==
    ASSUME NEW c, NEW q, Alone(c, q), DeletesKnown(c, q)
    PROVE  StaysAlone(c)
  <1> DEFINE p == Work("listReleases", q.artist)
             more == IF calls[c].op = "follow" THEN {p} ELSE {}
             K == knownReleases
  <1>1. /\ q \in Piece /\ q.do = "deleteKnown" /\ q.artist \in Artists /\ Continue(c, q, more)
        /\ UNCHANGED <<newReleases, followingArtists, old>> /\ K' = [K EXCEPT ![q.artist] = {}]
        /\ K \in [Artists -> SUBSET Releases]
    BY AloneIs DEF DeletesKnown, world, ArtistSteps, UnfollowSteps, Removal, LibraryOK
  <1>2. p \in Piece /\ p.do = "listReleases" /\ p.artist = q.artist
    BY <1>1, StepsAre, WorkIs
  <1> HIDE DEF p
  <1>3. \A x \in more : x = p
    OBVIOUS
  <1> HIDE DEF more
  <1>4. K'[q.artist] = {} /\ \A b \in Artists : b # q.artist => K'[b] = K[b]
    BY <1>1
  <1>5. q.do \in Removal /\ p.do \notin Removal
    BY <1>1, <1>2 DEF Removal
  <1>6. PieceFits(calls[c], p, K', followingArtists, newReleases, old)
    BY <1>2 DEF PieceFits, Removal
  <1>7. \A r : ~Leaves(calls[c], q, r, K)
    BY <1>1 DEF Leaves
  <1>8. more \in SUBSET Piece /\ (\A x, y \in more : x = y)
        /\ \A x \in more : x.artist = q.artist /\ x.do # "readFollowed"
    BY <1>2, <1>3
  <1>9. QED
    BY <1>1, <1>2, <1>3, <1>4, <1>5, <1>6, <1>7, <1>8, RemovalGoesOnAlone

\* Whatever it was answered, if no other call spoiled it and nothing failed.
LEMMA AnsweredStaysAlone ==
    ASSUME NEW c, NEW q, Alone(c, q), Answered(c, q), intact', listed', failures' = 0
    PROVE  StaysAlone(c)
  <1>1. ~Fails(c, q)
    <2>1. failures \in Nat
      BY BoundsAssumption DEF Alone, At, TypesInv, CountersOK
    <2>2. Fails(c, q) => failures' = failures + 1
      BY DEF Fails
    <2>3. QED
      BY <2>1, <2>2
  <1>2. CASE WritesShown(c, q)
    BY <1>2, WritesShownAlone, WritesShownToUnfollowAlone DEF WritesShown
  <1>3. CASE \/ ReplacesKnown(c, q) \/ ReadsToFollow(c, q) \/ WritesFollow(c, q) \/ StoresNews(c, q)
             \/ ReadsToUnfollow(c, q) \/ WritesUnfollow(c, q) \/ ReadsShownToUnfollow(c, q)
             \/ ReadsKnownToUnfollow(c, q) \/ DeletesKnown(c, q)
             \/ ReadsShown(c, q) \/ ReadsKnown(c, q) \/ ReadsShownToRemove(c, q)
    BY <1>3, ReplacesKnownAlone, ReadsToFollowAlone, WritesFollowAlone, StoresNewsAlone,
       ReadsToUnfollowAlone, WritesUnfollowAlone, ReadsShownToUnfollowAlone,
       ReadsKnownToUnfollowAlone, DeletesKnownAlone,
       ReadsShownAlone, ReadsKnownAlone, ReadsShownToRemoveAlone
  <1>4. CASE \/ ReadsFollowed(c, q) \/ ReadsDetectSettings(c, q) \/ ReadsAllKnown(c, q)
             \/ Searches(c, q) \/ MergesKnown(c, q)
             \/ ReadsSummary(c, q) \/ ListsReleases(c, q) \/ ReadsToRefresh(c, q) \/ WritesRefresh(c, q)
    BY <1>4, ReadsFollowedAlone, ReadsDetectSettingsAlone, ReadsAllKnownAlone,
       SearchesAlone, MergesKnownAlone,
       ReadsSummaryAlone, ListsReleasesAlone, ReadsToRefreshAlone, WritesRefreshAlone
  <1>5. CASE \/ ChecksRelease(c, q) \/ ReadsAllEntries(c, q) \/ RemovesKnown(c, q)
             \/ ReadsShownToVerify(c, q) \/ ReadsSettings(c, q) \/ SavesSettings(c, q)
             \/ ListsToRebuild(c, q) \/ ReplacesRebuilt(c, q) \/ ReadsOutside(c, q) \/ RollsBack(c, q)
    BY <1>5, ChecksReleaseAlone, ReadsAllEntriesAlone, RemovesKnownAlone,
       ReadsShownToVerifyAlone, ReadsSettingsAlone, SavesSettingsAlone,
       ListsToRebuildAlone, ReplacesRebuiltAlone, ReadsOutsideAlone, RollsBackAlone
  <1>6. QED
    BY <1>1, <1>2, <1>3, <1>4, <1>5 DEF Answered

-----------------------------------------------------------------------------
(* The other calls.                                                         *)

\* What is shown gets less, or more releases get old.
LEMMA SoleShrinks ==
    ASSUME NEW call, NEW K, NEW F, NEW N, NEW O, NEW N2, NEW O2, N2 \subseteq N, O \subseteq O2,
           Sole(call, K, F, N, O)
    PROVE  Sole(call, K, F, N2, O2)
  <1>1. \A s, r : r \in Outside(s, O) => r \in Outside(s, O2)
    BY DEF Outside
  <1>2. \A q \in call.pending : PieceFits(call, q, K, F, N2, O2)
    <2>1. ASSUME NEW q \in call.pending PROVE PieceFits(call, q, K, F, N2, O2)
      <3>1. PieceFits(call, q, K, F, N, O)
        BY DEF Sole
      <3>2. call.op = "settings" /\ q.do = "replaceRebuilt" =>
               \A r \in K[q.artist] \cap N2 : r \in q.ids \/ \E s \in call.asked : r \in Outside(s, O2)
        BY <1>1, <3>1 DEF PieceFits
      <3>3. QED
        BY <3>1, <3>2 DEF PieceFits
    <2>2. QED
      BY <2>1
  <1>3. LaterOf(call, K, F, N2)
    BY DEF Sole, LaterOf
  <1>4. \A r : WillLeave(call, r, K, O) => WillLeave(call, r, K, O2)
    BY <1>1 DEF WillLeave
  <1>5. \A r \in N2 : KeptBy(r, K, F) \/ WillLeave(call, r, K, O2)
    BY <1>4 DEF Sole
  <1>6. QED
    BY <1>2, <1>3, <1>5 DEF Sole

LEMMA QuietIsSole ==
    ASSUME NEW K, NEW F, NEW N, NEW O, Quiet(K, F, N), NEW call,
           \A q \in call.pending : q.do \notin Removal /\ PieceFits(call, q, K, F, N, O)
    PROVE  Sole(call, K, F, N, O)
  BY NothingLater DEF Quiet, Sole, EntriesOf

\* Pieces of work that need to know nothing.
NeedsNothing(call, q) ==
    /\ q.do \notin Removal \cup {"replaceKnown", "replaceRebuilt", "mergeKnown"}
    /\ call.op = "detect" => q.do \notin {"search", "readToFollow", "writeFollow", "storeNews"}
    /\ call.op = "settings" => q.do \notin {"readFollowed", "rebuild"}

LEMMA NothingNeeded ==
    ASSUME NEW call, NEW q, NeedsNothing(call, q)
    PROVE  q.do \notin Removal /\ \A K, F, N, O : PieceFits(call, q, K, F, N, O)
  BY DEF NeedsNothing, PieceFits, Removal

\* A call that does not rewrite may take releases off the list of new ones; else it looks
\* on, until it finds an artist that is gone.
LookingOn(c, q) ==
    \/ ReadsSummary(c, q) \/ ReadsFollowed(c, q) \/ ReadsToRefresh(c, q) \/ WritesRefresh(c, q)
    \/ ReadsShownToRemove(c, q) \/ WritesShown(c, q)

LEMMA LookerIs ==
    ASSUME NEW c, NEW q, At(c, q), ~calls[c].rewrites
    PROVE  /\ calls[c].op \in {"details", "refresh", "dismiss"}
           /\ \A p \in calls[c].pending : NeedsNothing(calls[c], p)
           /\ q.do \in {"readSummary", "readFollowed", "readToRefresh", "writeRefresh",
                        "readShownToRemove", "writeShown"}
  <1>1. calls[c] \in CallRecord /\ Shaped(calls[c]) /\ q \in calls[c].pending
    BY AtIs DEF At
  <1>2. calls[c].op \in {"details", "refresh", "dismiss"}
    BY <1>1 DEF Shaped, CallRecord, Ops, OneArtist, Rewrites
  <1>3. ASSUME NEW p \in calls[c].pending
        PROVE  p.do \in {"readSummary", "readFollowed", "readToRefresh", "writeRefresh",
                         "readShownToRemove", "writeShown"}
    <2>1. PieceShaped(calls[c], p)
      BY <1>1 DEF Shaped
    <2>2. QED
      BY <1>2, <2>1 DEF PieceShaped, Takes, RefreshSteps, DismissSteps
  <1>4. ASSUME NEW p \in calls[c].pending
        PROVE  NeedsNothing(calls[c], p)
    BY <1>2, <1>3 DEF NeedsNothing, Removal
  <1>5. QED
    BY <1>1, <1>2, <1>3, <1>4

LEMMA LookerLooks ==
    ASSUME NEW c, NEW q, Answered(c, q), ~Fails(c, q),
           q.do \in {"readSummary", "readFollowed", "readToRefresh", "writeRefresh",
                     "readShownToRemove", "writeShown"}
    PROVE  LookingOn(c, q)
  BY DEF LookingOn, Answered, ReplacesKnown, ReadsToFollow, WritesFollow, StoresNews, ReadsToUnfollow,
     WritesUnfollow, ReadsShownToUnfollow, ReadsKnownToUnfollow, DeletesKnown,
     ReadsShown, ReadsKnown, ReadsDetectSettings,
     ReadsAllKnown, Searches, MergesKnown, ListsReleases,
     ChecksRelease, ReadsAllEntries, RemovesKnown, ReadsShownToVerify,
     ReadsSettings, SavesSettings, ListsToRebuild, ReplacesRebuilt, ReadsOutside, RollsBack

\* Beside the only call that rewrites nothing changes but that new releases are removed.
LEMMA LooksOnBeside ==
    ASSUME NEW c, NEW q, At(c, q), ~calls[c].rewrites, LookingOn(c, q), intact'
    PROVE  /\ UNCHANGED <<knownReleases, followingArtists, old>>
           /\ newReleases' \subseteq newReleases
  <1>1. CASE ReadsSummary(c, q) \/ ReadsFollowed(c, q) \/ ReadsToRefresh(c, q) \/ ReadsShownToRemove(c, q)
    BY <1>1 DEF ReadsSummary, ReadsFollowed, ReadsToRefresh, ReadsShownToRemove, OnlyReads, library, world
  <1>2. CASE WritesRefresh(c, q)
    BY <1>2 DEF WritesRefresh, WriteFollowing, Refreshed, world
  <1>3. CASE WritesShown(c, q)
    <2>1. q.ids \subseteq q.shown
      BY <1>3, AtIs DEF PieceShaped, WritesShown
    <2>2. QED
      BY <1>3, <2>1 DEF WritesShown, WriteNewReleases, world
  <1>4. QED
    BY <1>1, <1>2, <1>3 DEF LookingOn

\* Its pieces stay apart.
LEMMA LookerStaysApart ==
    ASSUME NEW c, NEW q, At(c, q), ~calls[c].rewrites, LookingOn(c, q), Apart(calls[c])
    PROVE  Apart(calls'[c])
  <1> DEFINE call == calls[c]
             next == calls'[c]
  <1>1. q \in Piece /\ q \in call.pending /\ followingArtists \subseteq Artists
        /\ newReleases \subseteq Releases /\ call.op \in {"details", "refresh", "dismiss"}
        /\ q.do \notin Removal
    BY AtIs, LookerIs DEF At, TypesInv, LibraryOK, Removal
  <1>2. CASE ReadsSummary(c, q)
    BY <1>1, <1>2, ReadsSummaryFollows, FollowsApart
  <1>3. CASE ReadsFollowed(c, q)
    <2>1. call.pending = {q}
      BY <1>1, <1>3 DEF Apart, ReadsFollowed
    <2>2. PICK S \in SUBSET followingArtists : Continue(c, q, {Work("readSummary", a) : a \in S})
      BY <1>1, <1>3 DEF ReadsFollowed
    <2> DEFINE more == {Work("readSummary", a) : a \in S}
    <2>3. more \in SUBSET Piece
      BY <1>1, StepsAre DEF Work, Piece
    <2>4. Apart(next) \/ next.pending # more
      BY WorkApart
    <2>5. Continue(c, q, more)
      BY <2>2
    <2> HIDE DEF more
    <2>6. next.pending = more
      <3>1. next.pending = (call.pending \ {q}) \cup more
        BY <2>3, <2>5, ContinuedCall
      <3>2. QED
        BY <2>1, <3>1
    <2>7. QED
      BY <2>4, <2>6
  <1>4. ASSUME NEW p \in Piece, NEW more \in SUBSET {p}, Continue(c, q, more),
               p.artist = q.artist, p.do # "readFollowed"
        PROVE  Apart(next)
    <2>1. more \in SUBSET Piece
      OBVIOUS
    <2>2. /\ next.op = call.op /\ next.asked = call.asked
          /\ next.pending = (call.pending \ {q}) \cup more /\ KnowsTheSame(c)
      BY <1>4, <2>1, ContinuedCall
    <2>3. Follows(call, next, q, more)
      BY <1>4, <2>2 DEF Follows, KnowsTheSame
    <2>4. QED
      BY <1>1, <2>3, FollowsApart
  <1>5. CASE ReadsToRefresh(c, q)
    <2> DEFINE p == [Then(q, "writeRefresh") EXCEPT !.read = followingArtists]
               more == IF followingArtists \cap call.fetched = {} THEN {} ELSE {p}
    <2>1. p \in Piece /\ p.do = "writeRefresh" /\ p.artist = q.artist
      BY <1>1, StepsAre DEF Piece, Then
    <2>2. Continue(c, q, more)
      BY <1>5 DEF ReadsToRefresh
    <2> HIDE DEF p
    <2>3. more \in SUBSET {p}
      OBVIOUS
    <2> HIDE DEF more
    <2>4. QED
      BY <1>4, <2>1, <2>2, <2>3
  <1>6. CASE ReadsShownToRemove(c, q)
    <2> DEFINE p == [Then(q, "writeShown") EXCEPT !.shown = newReleases, !.ids = newReleases \ q.pruned]
               more == {p}
    <2>1. p \in Piece /\ p.do = "writeShown" /\ p.artist = q.artist
      BY <1>1, StepsAre DEF Piece, Then
    <2>2. Continue(c, q, more)
      BY <1>6 DEF ReadsShownToRemove
    <2> HIDE DEF p
    <2>3. more \in SUBSET {p}
      OBVIOUS
    <2> HIDE DEF more
    <2>4. QED
      BY <1>4, <2>1, <2>2, <2>3
  <1>7. CASE WritesRefresh(c, q) \/ WritesShown(c, q)
    <2>1. Continue(c, q, {})
      BY <1>1, <1>7 DEF WritesRefresh, WritesShown, Removal
    <2> DEFINE p == Then(q, "writeShown")
    <2>2. p \in Piece /\ p.do = "writeShown" /\ p.artist = q.artist
      BY <1>1, StepsAre DEF Piece, Then
    <2> HIDE DEF p
    <2>3. QED
      BY <1>4, <2>1, <2>2
  <1>8. QED
    BY <1>2, <1>3, <1>5, <1>6, <1>7 DEF LookingOn

-----------------------------------------------------------------------------
(* The invariant holds after every step.                                    *)

\* What the call that moves has to leave: what it rewrote, if it rewrites, or else what
\* another one, or none, rewrites.
LEMMA ShownKept ==
    ASSUME CallsOK, NEW c \in Callers, calls' = [calls EXCEPT ![c] = calls'[c]],
           OneRewriter(calls'), Shown, calls'[c] # Idle => Apart(calls'[c]),
           OfOne(knownReleases'),
           \/ /\ Rewriting(calls'[c])
              /\ Sole(calls'[c], knownReleases', followingArtists', newReleases', old')
           \/ /\ ~Rewriting(calls'[c]) /\ ~Rewriting(calls[c]) /\ old' = old
              /\ UNCHANGED <<knownReleases, followingArtists>> /\ newReleases' \subseteq newReleases
           \/ /\ ~Rewriting(calls'[c]) /\ Rewriting(calls[c]) /\ OneRewriter(calls)
              /\ Quiet(knownReleases', followingArtists', newReleases')
    PROVE  Shown'
  <1> DEFINE K == knownReleases
             F == followingArtists
             N == newReleases
             O == old
  <1>1. \A x \in Callers : x # c => calls'[x] = calls[x]
    BY DEF CallsOK
  <1>2. \A x \in Callers : calls'[x] # Idle => Apart(calls'[x])
    BY <1>1 DEF Shown, ShownInv
  <1>3. CASE /\ Rewriting(calls'[c])
             /\ Sole(calls'[c], K', F', N', O')
    <2>1. \A x \in Callers : Rewriting(calls'[x]) => x = c
      BY <1>3 DEF OneRewriter
    <2>2. QED
      BY <1>2, <1>3, <2>1 DEF Shown, ShownInv
  <1>4. CASE /\ ~Rewriting(calls'[c]) /\ ~Rewriting(calls[c]) /\ O' = O
             /\ K' = K /\ F' = F /\ N' \subseteq N
    <2>1. \A x \in Callers : Rewriting(calls'[x]) => Sole(calls'[x], K, F, N', O)
      <3>1. ASSUME NEW x \in Callers, Rewriting(calls'[x]) PROVE Sole(calls'[x], K, F, N', O)
        <4>1. x # c /\ calls'[x] = calls[x]
          BY <1>1, <1>4, <3>1
        <4>2. Sole(calls[x], K, F, N, O)
          BY <3>1, <4>1 DEF Shown, ShownInv
        <4>3. QED
          BY <1>4, <4>1, <4>2, SoleShrinks
      <3>2. QED
        BY <3>1
    <2>2. (\A x \in Callers : ~Rewriting(calls'[x])) => Quiet(K, F, N')
      <3>1. (\A x \in Callers : ~Rewriting(calls'[x])) => Quiet(K, F, N)
        BY <1>1, <1>4 DEF Shown, ShownInv
      <3>2. QED
        BY <1>4, <3>1 DEF Quiet
    <2>3. QED
      BY <1>2, <1>4, <2>1, <2>2 DEF Shown, ShownInv
  <1>5. CASE /\ ~Rewriting(calls'[c]) /\ Rewriting(calls[c]) /\ OneRewriter(calls)
             /\ Quiet(K', F', N')
    <2>1. \A x \in Callers : ~Rewriting(calls'[x])
      BY <1>1, <1>5 DEF OneRewriter
    <2>2. QED
      BY <1>2, <1>5, <2>1 DEF Shown, ShownInv
  <1>6. QED
    BY <1>3, <1>4, <1>5

LEMMA AnsweredKeepsShown ==
    ASSUME NEW c, NEW q, LibraryInv, At(c, q), Answered(c, q), Shown, intact', listed', failures' = 0
    PROVE  Shown'
  <1>1. /\ intact /\ failures = 0 /\ ~Fails(c, q)
    BY AnsweredLeaves, NoFailureBefore
  <1>2. /\ OneRewriter(calls) /\ FollowInv(followingArtists, wanted, calls)
        /\ dismissed \cap newReleases = {} /\ c \in Callers /\ calls[c] # Idle /\ CallsOK
    BY <1>1 DEF LibraryInv, At, TypesInv
  <1>3. OneRewriter(calls')
    BY <1>2, AnsweredKeepsApart
  <1>4. calls' = [calls EXCEPT ![c] = calls'[c]] /\ calls'[c] # Idle
    BY AnsweredMoves, IdleIsNoCall DEF Shaped
  <1>5. Apart(calls[c]) /\ OfOne(knownReleases)
    BY <1>2 DEF Shown, ShownInv
  <1>6. \/ calls'[c].rewrites = calls[c].rewrites
        \/ ReadsSummary(c, q) /\ ~OthersRewrite(c)
    BY AnsweredMoves
  <1>7. CASE calls[c].rewrites
    <2>1. Sole(calls[c], knownReleases, followingArtists, newReleases, old)
      BY <1>2, <1>7 DEF Shown, ShownInv, Rewriting
    <2>2. Alone(c, q)
      BY <1>2, <1>5, <2>1 DEF Alone, FollowInv
    <2>3. StaysAlone(c)
      BY <2>2, AnsweredStaysAlone
    <2>4. calls'[c].rewrites
      BY <1>6, <1>7, ReadsSummaryFollows
    <2>5. QED
      BY <1>2, <1>3, <1>4, <2>3, <2>4, ShownKept DEF StaysAlone, Rewriting
  <1>8. CASE ~calls[c].rewrites
    <2>1. LookingOn(c, q)
      BY <1>1, <1>8, LookerIs, LookerLooks
    <2>2. /\ UNCHANGED <<knownReleases, followingArtists, old>> /\ newReleases' \subseteq newReleases
          /\ Apart(calls'[c])
      BY <1>5, <1>8, <2>1, LooksOnBeside, LookerStaysApart
    <2>3. OfOne(knownReleases')
      BY <1>5, <2>2
    <2>4. CASE ~calls'[c].rewrites
      BY <1>2, <1>3, <1>4, <1>8, <2>2, <2>3, <2>4, ShownKept DEF Rewriting
    <2>5. CASE calls'[c].rewrites
      <3>1. ReadsSummary(c, q) /\ ~OthersRewrite(c)
        BY <1>6, <1>8, <2>5
      <3>2. \A x \in Callers : ~Rewriting(calls[x])
        BY <1>8, <3>1 DEF OthersRewrite, Rewriting
      <3>3. Quiet(knownReleases, followingArtists, newReleases)
        BY <3>2 DEF Shown, ShownInv
      <3>4. PICK more : /\ Follows(calls[c], calls'[c], q, more)
                        /\ \A p \in more : p.do \in {"listReleases", "readToUnfollow"}
                        /\ UNCHANGED <<knownReleases, followingArtists, newReleases, old>>
        BY <3>1, ReadsSummaryFollows
      <3>5. ASSUME NEW p \in calls'[c].pending
            PROVE  NeedsNothing(calls'[c], p)
        <4>1. p \in calls[c].pending \/ p \in more
          BY <3>4 DEF Follows
        <4>2. calls'[c].op = calls[c].op /\ calls[c].op \in {"details", "refresh", "dismiss"}
          BY <1>8, <3>4, LookerIs DEF Follows
        <4>3. CASE p \in calls[c].pending
          BY <1>8, <4>2, <4>3, LookerIs DEF NeedsNothing
        <4>4. CASE p \in more
          BY <3>4, <4>2, <4>4 DEF NeedsNothing, Removal
        <4>5. QED
          BY <4>1, <4>3, <4>4
      <3>6. Sole(calls'[c], knownReleases, followingArtists, newReleases, old)
        BY <3>3, <3>5, NothingNeeded, QuietIsSole
      <3>7. Rewriting(calls'[c])
        BY <1>4, <2>5 DEF Rewriting
      <3>8. QED
        BY <1>2, <1>3, <1>4, <2>2, <2>3, <3>4, <3>6, <3>7, ShownKept
    <2>6. QED
      BY <2>4, <2>5
  <1>9. QED
    BY <1>7, <1>8

LEMMA StartsKeepsShown ==
    ASSUME LibraryInv, NEW c \in Callers, Starts(c), Shown, intact', failures' = 0
    PROVE  Shown'
  <1>1. StartsWith(c) /\ UNCHANGED <<library, world, listed, failures>> /\ CallsOK
    BY StartsIs DEF LibraryInv, TypesInv
  <1>2. /\ calls[c] = Idle /\ calls' = [calls EXCEPT ![c] = calls'[c]] /\ calls'[c] # Idle
        /\ calls'[c].rewrites => ~OthersRewrite(c)
        /\ intact /\ OneRewriter(calls) /\ OneRewriter(calls')
    BY <1>1, StartsKeeps, IdleIsNoCall DEF StartsWith, LibraryInv, Shaped
  <1>3. PICK w : /\ calls'[c].pending = {w} /\ w.do \in FirstReads
                 /\ calls'[c].op = "settings" => w.do \in SettingsReads
    BY <1>1 DEF StartsWith
  <1>4. UNCHANGED <<knownReleases, followingArtists, newReleases, old>>
    BY <1>1 DEF library, world
  <1>5. Apart(calls'[c]) /\ OfOne(knownReleases')
    BY <1>3, <1>4, OneApart DEF Shown, ShownInv
  <1>6. ~Rewriting(calls[c])
    BY <1>2 DEF Rewriting
  <1>7. CASE ~calls'[c].rewrites
    BY <1>1, <1>2, <1>4, <1>5, <1>6, <1>7, ShownKept DEF Rewriting
  <1>8. CASE calls'[c].rewrites
    <2>1. \A x \in Callers : ~Rewriting(calls[x])
      BY <1>2, <1>6, <1>8 DEF OthersRewrite, Rewriting
    <2>2. Quiet(knownReleases, followingArtists, newReleases)
      BY <2>1 DEF Shown, ShownInv
    <2>3. NeedsNothing(calls'[c], w)
      BY <1>3 DEF NeedsNothing, FirstReads, SettingsReads, Removal
    <2>4. \A p \in calls'[c].pending : NeedsNothing(calls'[c], p)
      BY <1>3, <2>3
    <2>5. Sole(calls'[c], knownReleases, followingArtists, newReleases, old)
      BY <2>2, <2>4, NothingNeeded, QuietIsSole
    <2>6. Rewriting(calls'[c])
      BY <1>2, <1>8 DEF Rewriting
    <2>7. QED
      BY <1>1, <1>2, <1>4, <1>5, <2>5, <2>6, ShownKept
  <1>9. QED
    BY <1>7, <1>8

LEMMA NextStageIs ==
    ASSUME CallsOK, NEW c \in Callers, calls[c] # Idle, NEW stage, NEW work, NextStage(c, stage, work)
    PROVE  /\ calls'[c].op = calls[c].op /\ calls'[c].asked = calls[c].asked
           /\ calls'[c].stage = stage /\ calls'[c].pending = work /\ calls'[c].settings = calls[c].settings
  <1>1. calls[c] \in CallRecord
    BY DEF CallsOK
  <1> DEFINE new == [calls[c] EXCEPT !.stage = stage, !.pending = work]
  <1>2. calls' = [calls EXCEPT ![c] = new]
    BY DEF NextStage
  <1>3. calls'[c] = new
    BY <1>2, MovedCall
  <1>4. /\ new.op = calls[c].op /\ new.asked = calls[c].asked /\ new.stage = stage /\ new.pending = work
        /\ new.settings = calls[c].settings
    BY <1>1 DEF CallRecord
  <1>5. QED
    BY <1>3, <1>4

\* What a search merges is by the artists it is merged for.
LEMMA MergesAre ==
    ASSUME NEW c, NEW call, call.op = "detect", call.pending = Merges(c)
    PROVE  /\ Apart(call)
           /\ \A q \in call.pending : /\ q.do \notin Removal
                                      /\ \A K, F, N, O : PieceFits(call, q, K, F, N, O)
  <1> DEFINE M(a) == [Work("mergeKnown", a) EXCEPT !.ids = calls[c].news \cap ReleasesBy(a)]
  <1>1. \A a : M(a).do = "mergeKnown" /\ M(a).artist = a /\ M(a).ids \subseteq ReleasesBy(a)
    BY DEF Work
  <1>2. ASSUME NEW q \in call.pending
        PROVE  \E a : q = M(a)
    BY DEF Merges
  <1> HIDE DEF M
  <1>3. Apart(call)
    BY <1>1, <1>2 DEF Apart
  <1>4. QED
    BY <1>1, <1>2, <1>3 DEF PieceFits, Removal

\* A call goes on when its pieces are done: all that is shown is kept, unless it is going
\* to look at all that is shown.
LEMMA GoesOnKeepsShown ==
    ASSUME LibraryInv, NEW c \in Callers, GoesOn(c), Shown, intact', failures' = 0
    PROVE  Shown'
  <1> DEFINE call == calls[c]
             next == calls'[c]
             K == knownReleases
             F == followingArtists
             N == newReleases
  <1>1. /\ call # Idle /\ call.pending = {} /\ calls' = [calls EXCEPT ![c] = next] /\ Shaped(next)
        /\ next.op = call.op /\ next.rewrites = call.rewrites /\ OnlyReads /\ CallsOK
        /\ \A q \in next.pending : q.do \notin Removal
    BY GoesOnIs DEF LibraryInv, TypesInv
  <1>2. UNCHANGED <<knownReleases, followingArtists, newReleases, old>> /\ intact /\ next # Idle
    BY <1>1, IdleIsNoCall DEF OnlyReads, library, world, history, Shaped
  <1>3. OneRewriter(calls')
    BY GoesOnKeeps DEF LibraryInv
  <1>4. /\ next.asked = call.asked /\ Apart(next)
        /\ \A q \in next.pending : PieceFits(next, q, K, F, N, old)
        /\ Sifts(call) => Sifts(next)
    <2>1. CASE HasNews(c) /\ NextStage(c, "merge", Merges(c))
      <3>1. next.pending = Merges(c) /\ next.asked = call.asked /\ next.op = "detect" /\ call.op = "detect"
        BY <1>1, <2>1, NextStageIs DEF HasNews, IsDone
      <3>2. Apart(next) /\ \A q \in next.pending : PieceFits(next, q, K, F, N, old)
        BY <3>1, MergesAre
      <3>3. QED
        BY <3>1, <3>2 DEF Sifts
    <2>2. ASSUME NEW stage, NEW w, NextStage(c, stage, {w}), w.do \in {"readToRefresh", "readOutside"},
                 Sifts(call) => w.do = "readOutside"
          PROVE  /\ next.asked = call.asked /\ Apart(next)
                 /\ \A q \in next.pending : PieceFits(next, q, K, F, N, old)
                 /\ Sifts(call) => Sifts(next)
      <3>1. next.pending = {w} /\ next.asked = call.asked /\ next.op = call.op
        BY <1>1, <2>2, NextStageIs
      <3>2. NeedsNothing(next, w)
        BY <2>2 DEF NeedsNothing, Removal
      <3>3. \A q \in next.pending : PieceFits(next, q, K, F, N, old)
        BY <3>1, <3>2, NothingNeeded
      <3>4. Apart(next)
        BY <3>1, OneApart
      <3>5. QED
        BY <2>2, <3>1, <3>3, <3>4 DEF Sifts
    <2>3. CASE HasLookedUp(c) /\ NextStage(c, "save", {Work("readToRefresh", None)})
      <3> DEFINE w == Work("readToRefresh", None)
      <3>1. w.do = "readToRefresh"
        BY DEF Work
      <3>2. ~Sifts(call)
        BY <2>3 DEF HasLookedUp, IsDone, Sifts
      <3>3. NextStage(c, "save", {w})
        BY <2>3
      <3> HIDE DEF w
      <3>4. QED
        BY <2>2, <3>1, <3>2, <3>3
    <2>4. CASE HasRebuilt(c) /\ NextStage(c, "remove", {Work("readOutside", None)})
      <3> DEFINE w == Work("readOutside", None)
      <3>1. w.do = "readOutside"
        BY DEF Work
      <3>2. NextStage(c, "remove", {w})
        BY <2>4
      <3> HIDE DEF w
      <3>3. QED
        BY <2>2, <3>1, <3>2
    <2>5. QED
      BY <2>1, <2>3, <2>4 DEF GoesOn
  <1>5. OfOne(K')
    BY <1>2 DEF Shown, ShownInv
  <1>6. CASE ~call.rewrites
    BY <1>1, <1>2, <1>3, <1>4, <1>5, <1>6, ShownKept DEF Rewriting
  <1>7. CASE call.rewrites
    <2>1. Sole(call, K, F, N, old)
      BY <1>1, <1>7 DEF Shown, ShownInv, Rewriting
    <2>2. EntriesOf(next, K, F)
      BY <1>1, <1>4, <2>1 DEF Sole, EntriesOf, Following, Removing
    <2>3. \A r \in N : KeptBy(r, K, F) \/ WillLeave(next, r, K, old)
      BY <1>1, <1>4, <2>1 DEF Sole, WillLeave
    <2>4. Sole(next, K, F, N, old)
      BY <1>1, <1>4, <2>2, <2>3, NothingLater DEF Sole
    <2>5. Rewriting(next)
      BY <1>1, <1>2, <1>7 DEF Rewriting
    <2>6. QED
      BY <1>1, <1>2, <1>3, <1>4, <1>5, <2>4, <2>5, ShownKept
  <1>8. QED
    BY <1>6, <1>7

\* A call that returns leaves all that is shown kept: a change of settings that returns
\* has looked at it.
LEMMA ReturnsKeepsShown ==
    ASSUME LibraryInv, NEW c \in Callers, Returns(c) \/ Tells(c), Shown, intact', failures' = 0
    PROVE  Shown'
  <1> DEFINE call == calls[c]
             K == knownReleases
             F == followingArtists
             N == newReleases
  <1>1. CallsOK
    BY DEF LibraryInv, TypesInv
  <1>2. /\ call.pending = {} /\ calls' = [calls EXCEPT ![c] = Idle]
        /\ UNCHANGED <<library, world, counters, intact>>
    BY DEF Returns, Tells, Return, IsDone
  <1>3. call # Idle
    BY IdleIsNoCall DEF Returns, Tells, IsDone
  <1>4. calls'[c] = Idle /\ calls' = [calls EXCEPT ![c] = calls'[c]]
    BY <1>1, <1>2, MovedCall
  <1>5. OneRewriter(calls) /\ FollowInv(F, wanted, calls) /\ ~call.failed
    BY <1>2, <1>3 DEF LibraryInv, counters
  <1>6. OneRewriter(calls')
    BY ReturnsKeeps DEF LibraryInv
  <1>7. UNCHANGED <<knownReleases, followingArtists, newReleases, old>>
    BY <1>2 DEF library, world
  <1>8. OfOne(knownReleases') /\ ~Rewriting(calls'[c])
    BY <1>4, <1>7 DEF Shown, ShownInv, Rewriting
  <1>9. CASE ~Rewriting(call)
    BY <1>1, <1>4, <1>6, <1>7, <1>8, <1>9, ShownKept
  <1>10. CASE Rewriting(call)
    <2>1. Sole(call, K, F, N, old)
      BY <1>10 DEF Shown, ShownInv
    <2>2. ~Sifts(call)
      BY <1>2, <1>5, IdleIsNoCall DEF Sifts, Returns, Tells, HasRebuilt, IsDone
    <2>3. \A r : ~WillLeave(call, r, K, old)
      BY <1>2, <2>2 DEF WillLeave
    <2>4. \A a \in Artists : K[a] # {} => a \in F
      <3>1. ASSUME NEW a \in Artists, K[a] # {} PROVE a \in F
        <4>1. a \in F \/ Removing(call, a) \/ Following(call, a)
          BY <2>1, <3>1 DEF Sole, EntriesOf
        <4>2. ~Removing(call, a)
          BY <1>2 DEF Removing
        <4>3. Following(call, a) => Adding(call, a)
          BY <1>2 DEF Following, Adding
        <4>4. QED
          BY <1>5, <4>1, <4>2, <4>3 DEF FollowInv
      <3>2. QED
        BY <3>1
    <2>5. \A r \in N : KeptBy(r, K, F)
      BY <2>1, <2>3 DEF Sole
    <2>6. Quiet(K', F', N')
      BY <1>7, <2>4, <2>5 DEF Quiet
    <2>7. QED
      BY <1>1, <1>4, <1>5, <1>6, <1>8, <1>10, <2>6, ShownKept
  <1>11. QED
    BY <1>9, <1>10

\* A release gets old: more of what is shown is left out by the settings.
LEMMA CatalogChangesKeepsShown ==
    ASSUME CatalogChanges, Shown
    PROVE  Shown'
  <1>1. UNCHANGED <<knownReleases, followingArtists, newReleases, calls>> /\ old \subseteq old'
    BY DEF CatalogChanges, library
  <1>2. ASSUME NEW c \in Callers, Rewriting(calls[c])
        PROVE  Sole(calls[c], knownReleases, followingArtists, newReleases, old')
    <2>1. Sole(calls[c], knownReleases, followingArtists, newReleases, old)
      BY <1>2 DEF Shown, ShownInv
    <2>2. QED
      BY <1>1, <2>1, SoleShrinks
  <1>3. QED
    BY <1>1, <1>2 DEF Shown, ShownInv

LEMMA ShownStarts == Init => ShownLibrary
  <1> SUFFICES ASSUME Init PROVE Shown
    BY LibraryStarts DEF ShownLibrary
  <1>1. \A c \in Callers : calls[c] = Idle
    BY DEF Init
  <1>2. OfOne(knownReleases) /\ Quiet(knownReleases, followingArtists, newReleases)
    BY DEF Init, OfOne, Quiet
  <1>3. QED
    BY <1>1, <1>2 DEF Shown, ShownInv, Rewriting

LEMMA ShownStep == ShownLibrary /\ [Next]_vars => ShownLibrary'
  <1> SUFFICES ASSUME ShownLibrary, [Next]_vars, intact', listed', failures' = 0 PROVE Shown'
    BY LibraryStep DEF ShownLibrary
  <1>1. LibraryInv /\ (intact /\ listed /\ failures = 0 => Shown)
    BY DEF ShownLibrary
  <1>2. CASE CatalogChanges
    <2>1. UNCHANGED <<intact, listed, failures>>
      BY <1>2 DEF CatalogChanges, history
    <2>2. QED
      BY <1>1, <1>2, <2>1, CatalogChangesKeepsShown
  <1>3. ASSUME NEW c \in Callers, Starts(c) PROVE Shown'
    <2>1. UNCHANGED <<listed, failures>> /\ intact
      BY <1>1, <1>3, StartsIs DEF LibraryInv, TypesInv, StartsWith
    <2>2. QED
      BY <1>1, <1>3, <2>1, StartsKeepsShown
  <1>4. ASSUME NEW c \in Callers, calls[c] # Idle, NEW q \in calls[c].pending, Answered(c, q)
        PROVE  Shown'
    <2>1. At(c, q)
      BY <1>1, <1>4 DEF At, LibraryInv
    <2>2. intact /\ listed /\ failures = 0
      BY <1>4, <2>1, AnsweredLeaves, NoFailureBefore
    <2>3. QED
      BY <1>1, <1>4, <2>1, <2>2, AnsweredKeepsShown
  <1>5. ASSUME NEW c \in Callers, GoesOn(c) PROVE Shown'
    <2>1. UNCHANGED <<intact, listed, failures>>
      BY <1>5 DEF GoesOn, NextStage, OnlyReads, history, counters
    <2>2. QED
      BY <1>1, <1>5, <2>1, GoesOnKeepsShown
  <1>6. ASSUME NEW c \in Callers, Tells(c) \/ Returns(c) PROVE Shown'
    <2>1. UNCHANGED <<intact, listed, failures>>
      BY <1>6 DEF Tells, Returns, counters
    <2>2. QED
      BY <1>1, <1>6, <2>1, ReturnsKeepsShown
  <1>7. CASE UNCHANGED vars
    BY <1>1, <1>7 DEF vars, library, world, history, counters, Shown
  <1>8. QED
    BY <1>2, <1>3, <1>4, <1>5, <1>6, <1>7 DEF Next

\* A shown release is known to an artist the user follows, so that the next search, or
\* unfollowing, can remove it: whenever no call is under way, no call spoiled another
\* one's work, every list was complete and no request failed, none is left behind
\* (removeUnfollowedArtistNewReleases, removePrunedNewReleases).
THEOREM ShownAlwaysKnown == Spec => []ShownIsKnown
  <1>1. Spec => []ShownLibrary
    BY ShownStarts, ShownStep, PTL DEF Spec
  <1>2. ShownLibrary => ShownIsKnown
    <2> SUFFICES ASSUME ShownLibrary, intact, listed, failures = 0, AtRest
                 PROVE  \A r \in newReleases : \E a \in followingArtists : r \in knownReleases[a]
      BY DEF ShownIsKnown
    <2>1. \A c \in Callers : ~Rewriting(calls[c])
      BY DEF AtRest, Rewriting
    <2>2. Quiet(knownReleases, followingArtists, newReleases)
      BY <2>1 DEF ShownLibrary, Shown, ShownInv
    <2>3. QED
      BY <2>2 DEF Quiet, KeptBy
  <1>3. QED
    BY <1>1, <1>2, PTL

-----------------------------------------------------------------------------
(* One artist's search goes on.                                             *)

\* The piece q is followed by more of the same artist; but for its entry nothing known
\* changes, and what was about to be stored still is.
SearchStep(call, next, q, more, K, N, D, K2, N2, D2) ==
    /\ next.stage = call.stage /\ next.known = call.known /\ call.news \subseteq next.news
    /\ next.pending = (call.pending \ {q}) \cup more
    /\ \A p \in more : /\ p.artist = q.artist /\ (p.do \in Searching => q.do \in Searching)
                       /\ PieceSearches(next, p, K2)
    /\ \A p, r \in more : p = r
    /\ \A r : IsAboutToBeStored(call, r) => IsAboutToBeStored(next, r)
    /\ \A r \in next.news \ call.news : IsAboutToBeStored(next, r)
    /\ \A a \in Artists : a # q.artist => K2[a] = K[a]
    /\ \A r \in K2[q.artist] : r \in K[q.artist] \/ IsAboutToBeStored(next, r) \/ call.stage = "merge"
    /\ q.do # "replaceKnown" => K[q.artist] \subseteq K2[q.artist]
    /\ \A r \in call.news \cap (N \cup D) : r \in N2 \cup D2 \/ IsAboutToBeStored(call, r)

LEMMA SearchGoesOn ==
    ASSUME NEW call, NEW next, NEW q \in call.pending, NEW more,
           NEW K, NEW N, NEW D, NEW K2, NEW N2, NEW D2,
           SearchKeeps(call, K, N, D), SearchStep(call, next, q, more, K, N, D, K2, N2, D2),
           call.stage # "begin", \A p \in call.pending : p.artist \in Artists
    PROVE  SearchKeeps(next, K2, N2, D2)
  <1>1. /\ next.stage = call.stage /\ next.known = call.known /\ call.news \subseteq next.news
        /\ next.pending = (call.pending \ {q}) \cup more
        /\ \A r : IsAboutToBeStored(call, r) => IsAboutToBeStored(next, r)
        /\ \A r \in next.news \ call.news : IsAboutToBeStored(next, r)
        /\ \A a \in Artists : a # q.artist => K2[a] = K[a]
        /\ q.artist \in Artists
    BY DEF SearchStep
  <1>2. /\ \A p \in more : /\ p.artist = q.artist /\ (p.do \in Searching => q.do \in Searching)
                           /\ PieceSearches(next, p, K2)
        /\ \A p, r \in more : p = r
    BY DEF SearchStep
  <1>3. \A p, x \in call.pending : p.artist = x.artist => p = x
    BY DEF SearchKeeps
  <1>4. \A p, x \in next.pending : p.artist = x.artist => p = x
    BY <1>1, <1>2, <1>3
  <1>5. ASSUME NEW x \in call.pending \ {q}
        PROVE  PieceSearches(next, x, K2)
    <2>1. PieceSearches(call, x, K)
      BY DEF SearchKeeps
    <2>2. x.artist # q.artist /\ x.artist \in Artists
      BY <1>3
    <2>3. K2[x.artist] = K[x.artist]
      BY <1>1, <2>2
    <2>4. ASSUME NEW r \in Taken(x), ~IsAboutToBeStored(next, r)
          PROVE  r \notin next.news /\ NoneKnows(K2, r)
      <3>1. ~IsAboutToBeStored(call, r)
        BY <1>1, <2>4
      <3>2. r \notin call.news /\ NoneKnows(K, r)
        BY <2>1, <3>1 DEF PieceSearches
      <3>3. r \notin next.news
        BY <1>1, <2>4, <3>2
      <3>4. call.stage # "merge"
        BY <2>1, <2>4 DEF PieceSearches, Taken
      <3>5. r \notin K2[q.artist]
        BY <1>1, <2>4, <3>2, <3>4 DEF SearchStep, NoneKnows
      <3>6. NoneKnows(K2, r)
        BY <1>1, <3>2, <3>5 DEF NoneKnows
      <3>7. QED
        BY <3>3, <3>6
    <2>5. QED
      BY <1>1, <2>1, <2>3, <2>4 DEF PieceSearches
  <1>6. \A x \in next.pending : PieceSearches(next, x, K2)
    BY <1>1, <1>2, <1>5
  <1>7. ASSUME NEW r \in next.news, ~IsAboutToBeStored(next, r)
        PROVE  r \in N2 \cup D2 /\ Settled(next, K2, r)
    <2>1. r \in call.news /\ ~IsAboutToBeStored(call, r)
      BY <1>1, <1>7
    <2>2. r \in N \cup D /\ Settled(call, K, r)
      BY <2>1 DEF SearchKeeps
    <2>3. r \in N2 \cup D2
      BY <2>1, <2>2 DEF SearchStep
    <2>4. PICK a \in Artists : /\ r \in K[a]
                               /\ \A x \in call.pending : x.artist = a => x.do \notin Searching
      BY <2>2 DEF Settled
    <2>5. r \in K2[a]
      <3>1. CASE a # q.artist
        BY <1>1, <2>4, <3>1
      <3>2. CASE a = q.artist
        <4>1. q.do # "replaceKnown"
          BY <2>4, <3>2 DEF Searching
        <4>2. QED
          BY <2>4, <3>2, <4>1 DEF SearchStep
      <3>3. QED
        BY <3>1, <3>2
    <2>6. \A x \in next.pending : x.artist = a => x.do \notin Searching
      BY <1>1, <1>2, <2>4
    <2>7. QED
      BY <2>3, <2>5, <2>6 DEF Settled
  <1>8. next.stage # "begin"
    BY <1>1
  <1>9. QED
    BY <1>4, <1>6, <1>7, <1>8 DEF SearchKeeps

\* Whatever else happens to the list: what leaves it was dismissed.
LEMMA SearchLooksOn ==
    ASSUME NEW call, NEW K, NEW N, NEW D, NEW N2, NEW D2, SearchKeeps(call, K, N, D),
           N \cup D \subseteq N2 \cup D2
    PROVE  SearchKeeps(call, K, N2, D2)
  BY DEF SearchKeeps

-----------------------------------------------------------------------------
(* A search's own steps.                                                    *)

SearchAt(c, q) ==
    /\ At(c, q) /\ calls[c].op = "detect" /\ ~calls[c].failed
    /\ SearchKeeps(calls[c], knownReleases, newReleases, dismissed)

StaysSearch(c) == SearchKeeps(calls'[c], knownReleases', newReleases', dismissed')

LEMMA SearchAtIs ==
    ASSUME NEW c, NEW q, SearchAt(c, q)
    PROVE  /\ calls[c] \in CallRecord /\ Shaped(calls[c]) /\ q \in calls[c].pending
           /\ q \in Piece /\ PieceShaped(calls[c], q) /\ LibraryOK
           /\ PieceSearches(calls[c], q, knownReleases)
           /\ q.do \notin DetectReads => /\ calls[c].stage # "begin"
                                         /\ \A p \in calls[c].pending : p.artist \in Artists
  <1>1. /\ calls[c] \in CallRecord /\ Shaped(calls[c]) /\ q \in calls[c].pending
        /\ q \in Piece /\ PieceShaped(calls[c], q) /\ LibraryOK /\ calls[c].op = "detect"
    BY AtIs DEF SearchAt, At, TypesInv
  <1>2. PieceSearches(calls[c], q, knownReleases)
    BY <1>1 DEF SearchAt, SearchKeeps
  <1>3. ASSUME q.do \notin DetectReads
        PROVE  /\ calls[c].stage # "begin"
               /\ \A p \in calls[c].pending : p.artist \in Artists
    <2>1. calls[c].stage # "begin"
      BY <1>1, <1>3 DEF PieceShaped
    <2>2. ASSUME NEW p \in calls[c].pending PROVE p.artist \in Artists
      <3>1. PieceShaped(calls[c], p) /\ p.artist \in calls[c].followed
        BY <1>1, <2>1 DEF Shaped, PieceShaped
      <3>2. QED
        BY <1>1, <3>1 DEF CallRecord
    <2>3. QED
      BY <2>1, <2>2
  <1>4. QED
    BY <1>1, <1>2, <1>3

Stores == {"replaceKnown", "readToFollow", "writeFollow", "storeNews"}

\* Only the search's own entry changes: it loses nothing unless it is replaced, and gains
\* what is about to be stored.
EntryOnly(call, next, q, K, K2) ==
    /\ \A a \in Artists : a # q.artist => K2[a] = K[a]
    /\ \A r \in K2[q.artist] : r \in K[q.artist] \/ IsAboutToBeStored(next, r) \/ call.stage = "merge"
    /\ q.do # "replaceKnown" => K[q.artist] \subseteq K2[q.artist]

\* What follows a piece of a search: it goes on to store what the piece had to, and is of
\* the same artist.
FollowsOne(q, more) ==
    /\ \A p \in more : p.artist = q.artist /\ p.do \notin Searching
    /\ \A p, r \in more : p = r
    /\ q.do \in Stores /\ q.news # {} => \E p \in more : p.do \in Stores /\ q.news \subseteq p.news

LEMMA SearchContinues ==
    ASSUME NEW c, NEW q, SearchAt(c, q), q.do \notin DetectReads,
           NEW more \in SUBSET Piece, Continue(c, q, more), FollowsOne(q, more),
           EntryOnly(calls[c], calls'[c], q, knownReleases, knownReleases'),
           \A p \in more : PieceSearches(calls'[c], p, knownReleases'),
           \A r \in calls[c].news \cap (newReleases \cup dismissed) :
              r \in newReleases' \cup dismissed' \/ IsAboutToBeStored(calls[c], r)
    PROVE  StaysSearch(c)
  <1> DEFINE call == calls[c]
             next == calls'[c]
             K == knownReleases
             N == newReleases
             D == dismissed
  <1>1. /\ At(c, q) /\ call.stage # "begin" /\ (\A p \in call.pending : p.artist \in Artists)
        /\ q \in call.pending /\ SearchKeeps(call, K, N, D)
    BY SearchAtIs DEF SearchAt
  <1>2. /\ next.pending = (call.pending \ {q}) \cup more
        /\ next.stage = call.stage /\ next.known = call.known /\ next.news = call.news
    BY <1>1, ContinuedCall DEF KnowsTheSame
  <1>3. /\ FollowsOne(q, more) /\ EntryOnly(call, next, q, K, K')
        /\ \A p \in more : PieceSearches(next, p, K')
        /\ \A r \in call.news \cap (N \cup D) : r \in N' \cup D' \/ IsAboutToBeStored(call, r)
    OBVIOUS
  <1> HIDE DEF call, next, K, N, D
  <1>4. ASSUME NEW r, IsAboutToBeStored(call, r)
        PROVE  IsAboutToBeStored(next, r)
    <2>1. PICK x \in call.pending : x.do \in Stores /\ r \in x.news
      BY <1>4 DEF IsAboutToBeStored, Stores
    <2>2. CASE x # q
      BY <1>2, <2>1, <2>2 DEF IsAboutToBeStored, Stores
    <2>3. CASE x = q
      BY <1>2, <1>3, <2>1, <2>3 DEF IsAboutToBeStored, Stores, FollowsOne
    <2>4. QED
      BY <2>2, <2>3
  <1>5. SearchStep(call, next, q, more, K, N, D, K', N', D')
    BY <1>2, <1>3, <1>4 DEF SearchStep, FollowsOne, EntryOnly
  <1>6. SearchKeeps(next, K', N', D')
    BY <1>1, <1>5, SearchGoesOn
  <1>7. QED
    BY <1>6 DEF StaysSearch, next, K, N, D

\* A piece of a search that only looks.
LEMMA SearchLooks ==
    ASSUME NEW c, NEW q, SearchAt(c, q), q.do \notin DetectReads,
           NEW more \in SUBSET Piece, Continue(c, q, more), FollowsOne(q, more),
           \A p \in more : PieceSearches(calls'[c], p, knownReleases),
           UNCHANGED <<knownReleases, newReleases, dismissed>>
    PROVE  StaysSearch(c)
  <1> DEFINE K == knownReleases
             next == calls'[c]
  <1>1. K' = K /\ newReleases' = newReleases /\ dismissed' = dismissed
    OBVIOUS
  <1>2. \A p \in more : PieceSearches(next, p, K)
    OBVIOUS
  <1> HIDE DEF K, next
  <1>3. EntryOnly(calls[c], next, q, K, K')
    BY <1>1 DEF EntryOnly
  <1>4. \A p \in more : PieceSearches(next, p, K')
    BY <1>1, <1>2
  <1>5. QED
    BY <1>1, <1>3, <1>4, SearchContinues DEF K, next

ContinuedSearch(c) ==
    /\ calls'[c].stage = calls[c].stage /\ calls'[c].known = calls[c].known
    /\ calls'[c].news = calls[c].news /\ calls'[c].op = "detect"

LEMMA SearchContinued ==
    ASSUME NEW c, NEW q, SearchAt(c, q), NEW more \in SUBSET Piece, Continue(c, q, more)
    PROVE  ContinuedSearch(c) /\ calls'[c].pending = (calls[c].pending \ {q}) \cup more
  BY ContinuedCall DEF KnowsTheSame, SearchAt, ContinuedSearch

LEMMA ReplacesKnownSearches ==
    ASSUME NEW c, NEW q, SearchAt(c, q), ReplacesKnown(c, q)
    PROVE  StaysSearch(c)
  <1> DEFINE p == Then(q, "readToFollow")
             K == knownReleases
             next == calls'[c]
             more == {p}
  <1>1. /\ q \in Piece /\ q.do = "replaceKnown" /\ q.artist \in Artists /\ PieceShaped(calls[c], q)
        /\ PieceSearches(calls[c], q, K) /\ Continue(c, q, more)
        /\ UNCHANGED <<newReleases, dismissed>> /\ K' = [K EXCEPT ![q.artist] = q.ids]
        /\ K \in [Artists -> SUBSET Releases]
    BY SearchAtIs DEF ReplacesKnown, LibraryOK, DetectReads
  <1>2. p \in Piece /\ p.do = "readToFollow" /\ p.artist = q.artist /\ p.news = q.news
    BY <1>1, StepsAre DEF Piece, Then
  <1> HIDE DEF p
  <1>3. more \in SUBSET Piece /\ \A x \in more : x = p
    BY <1>2
  <1>4. ContinuedSearch(c) /\ next.pending = (calls[c].pending \ {q}) \cup more
    BY <1>1, <1>3, SearchContinued
  <1>5. p \in next.pending
    BY <1>4
  <1>6. FollowsOne(q, more)
    BY <1>2, <1>3 DEF FollowsOne, Searching, Stores
  <1> HIDE DEF more
  <1>7. K'[q.artist] = q.ids /\ \A a \in Artists : a # q.artist => K'[a] = K[a]
    BY <1>1
  <1>8. q.news \subseteq q.ids /\ q.ids \subseteq K[q.artist] \cup q.news
    BY <1>1 DEF PieceShaped, PieceSearches
  <1>9. \A r \in q.news : IsAboutToBeStored(next, r)
    BY <1>2, <1>5 DEF IsAboutToBeStored
  <1>10. EntryOnly(calls[c], next, q, K, K')
    BY <1>1, <1>7, <1>8, <1>9 DEF EntryOnly
  <1>11. next.stage # "merge"
    BY <1>1, <1>4 DEF PieceSearches, ContinuedSearch
  <1>12. PieceSearches(next, p, K')
    BY <1>2, <1>7, <1>8, <1>11 DEF PieceSearches, Taken
  <1>13. \A x \in more : PieceSearches(next, x, K')
    BY <1>3, <1>12
  <1>14. q.do \notin DetectReads
    BY <1>1 DEF DetectReads
  <1>15. QED
    BY <1>1, <1>3, <1>6, <1>10, <1>13, <1>14, SearchContinues

LEMMA ReadsToFollowSearches ==
    ASSUME NEW c, NEW q, SearchAt(c, q), ReadsToFollow(c, q)
    PROVE  StaysSearch(c)
  <1> DEFINE p == [Then(q, "writeFollow") EXCEPT !.read = followingArtists]
             more == {p}
             next == calls'[c]
  <1>1. /\ q \in Piece /\ q.do = "readToFollow" /\ followingArtists \subseteq Artists
        /\ PieceSearches(calls[c], q, knownReleases) /\ Continue(c, q, more)
        /\ UNCHANGED <<knownReleases, newReleases, dismissed>>
    BY SearchAtIs DEF ReadsToFollow, LibraryOK, OnlyReads, library, history
  <1>2. p \in Piece /\ p.do = "writeFollow" /\ p.artist = q.artist /\ p.news = q.news
    BY <1>1, StepsAre DEF Piece, Then
  <1> HIDE DEF p
  <1>3. more \in SUBSET Piece /\ \A x \in more : x = p
    BY <1>2
  <1>4. FollowsOne(q, more)
    BY <1>2, <1>3 DEF FollowsOne, Searching, Stores
  <1> HIDE DEF more
  <1>5. ContinuedSearch(c)
    BY <1>1, <1>3, SearchContinued
  <1>6. PieceSearches(next, p, knownReleases)
    BY <1>1, <1>2, <1>5 DEF PieceSearches, Taken, ContinuedSearch
  <1>7. \A x \in more : PieceSearches(next, x, knownReleases)
    BY <1>3, <1>6
  <1>8. q.do \notin DetectReads
    BY <1>1 DEF DetectReads
  <1>9. QED
    BY <1>1, <1>3, <1>4, <1>7, <1>8, SearchLooks

LEMMA WritesFollowSearches ==
    ASSUME NEW c, NEW q, SearchAt(c, q), WritesFollow(c, q)
    PROVE  StaysSearch(c)
  <1> DEFINE p == Then(q, "storeNews")
             more == IF q.news = {} THEN AfterSave(q) ELSE {p}
             next == calls'[c]
  <1>1. /\ q \in Piece /\ q.do = "writeFollow"
        /\ PieceSearches(calls[c], q, knownReleases) /\ Continue(c, q, more)
        /\ UNCHANGED <<knownReleases, newReleases, dismissed>>
    BY SearchAtIs DEF WritesFollow
  <1>2. p \in Piece /\ p.do = "storeNews" /\ p.artist = q.artist /\ p.news = q.news
    BY <1>1, StepsAre DEF Piece, Then
  <1> HIDE DEF p
  <1>3. /\ \A x \in more : x \in Piece /\ x.artist = q.artist /\ (x = p \/ x.do = "readShown")
        /\ \A x, y \in more : x = y
        /\ q.news # {} => p \in more
    BY <1>1, <1>2, AfterSaveIs
  <1> HIDE DEF more
  <1>4. FollowsOne(q, more) /\ more \in SUBSET Piece
    BY <1>2, <1>3 DEF FollowsOne, Searching, Stores
  <1>5. ContinuedSearch(c)
    BY <1>1, <1>4, SearchContinued
  <1>6. \A x \in more : PieceSearches(next, x, knownReleases)
    BY <1>1, <1>2, <1>3, <1>5 DEF PieceSearches, Taken, ContinuedSearch
  <1>7. q.do \notin DetectReads
    BY <1>1 DEF DetectReads
  <1>8. QED
    BY <1>1, <1>4, <1>6, <1>7, SearchLooks

LEMMA ReadsShownSearches ==
    ASSUME NEW c, NEW q, SearchAt(c, q), ReadsShown(c, q)
    PROVE  StaysSearch(c)
  <1> DEFINE p == [Then(q, "readKnown") EXCEPT !.shown = newReleases]
             more == {p}
             next == calls'[c]
  <1>1. /\ q \in Piece /\ q.do = "readShown" /\ newReleases \subseteq Releases
        /\ PieceSearches(calls[c], q, knownReleases) /\ Continue(c, q, more)
        /\ UNCHANGED <<knownReleases, newReleases, dismissed>>
    BY SearchAtIs DEF ReadsShown, LibraryOK, OnlyReads, library, history
  <1>2. p \in Piece /\ p.do = "readKnown" /\ p.artist = q.artist
    BY <1>1, StepsAre DEF Piece, Then
  <1> HIDE DEF p
  <1>3. more \in SUBSET Piece /\ \A x \in more : x = p
    BY <1>2
  <1>4. FollowsOne(q, more)
    BY <1>1, <1>2, <1>3 DEF FollowsOne, Searching, Stores
  <1> HIDE DEF more
  <1>5. ContinuedSearch(c)
    BY <1>1, <1>3, SearchContinued
  <1>6. PieceSearches(next, p, knownReleases)
    BY <1>1, <1>2, <1>5 DEF PieceSearches, Taken, ContinuedSearch
  <1>7. \A x \in more : PieceSearches(next, x, knownReleases)
    BY <1>3, <1>6
  <1>8. q.do \notin DetectReads
    BY <1>1 DEF DetectReads
  <1>9. QED
    BY <1>1, <1>3, <1>4, <1>7, <1>8, SearchLooks

\* What it prunes is known to nobody: it is no news of the search, or is about to be
\* stored.
LEMMA ReadsKnownSearches ==
    ASSUME NEW c, NEW q, SearchAt(c, q), ReadsKnown(c, q)
    PROVE  StaysSearch(c)
  <1> DEFINE p == [Then(q, "readShownToRemove") EXCEPT !.pruned = PrunedForGood(q)]
             more == IF PrunedForGood(q) = {} THEN {} ELSE {p}
             next == calls'[c]
             call == calls[c]
             K == knownReleases
  <1>1. /\ q \in Piece /\ q.do = "readKnown" /\ q \in call.pending
        /\ PieceSearches(call, q, K) /\ Continue(c, q, more)
        /\ UNCHANGED <<knownReleases, newReleases, dismissed>>
    BY SearchAtIs DEF ReadsKnown, OnlyReads, library, history
  <1>2. p \in Piece /\ p.do = "readShownToRemove" /\ p.artist = q.artist /\ p.pruned = PrunedForGood(q)
    BY <1>1, StepsAre DEF Piece, Then, PrunedForGood
  <1> HIDE DEF p
  <1>3. more \in SUBSET Piece /\ \A x \in more : x = p
    BY <1>2
  <1>4. FollowsOne(q, more)
    BY <1>1, <1>2, <1>3 DEF FollowsOne, Searching, Stores
  <1> HIDE DEF more
  <1>5. ContinuedSearch(c) /\ next.pending = (call.pending \ {q}) \cup more
    BY <1>1, <1>3, SearchContinued
  <1>6. ASSUME NEW r \in PrunedForGood(q)
        PROVE  IsAboutToBeStored(next, r) \/ (r \notin next.news /\ NoneKnows(K, r))
    <2>1. NoneKnows(K, r)
      BY <1>6 DEF PrunedForGood, NoneKnows
    <2>2. ~Settled(call, K, r)
      BY <2>1 DEF Settled, NoneKnows
    <2>3. r \in call.news => IsAboutToBeStored(call, r)
      BY <2>2 DEF SearchAt, SearchKeeps
    <2>4. IsAboutToBeStored(call, r) => IsAboutToBeStored(next, r)
      BY <1>1, <1>5 DEF IsAboutToBeStored
    <2>5. QED
      BY <1>5, <2>1, <2>3, <2>4 DEF ContinuedSearch
  <1>7. PieceSearches(next, p, K)
    BY <1>1, <1>2, <1>5, <1>6 DEF PieceSearches, Taken, ContinuedSearch
  <1>8. \A x \in more : PieceSearches(next, x, K)
    BY <1>3, <1>7
  <1>9. q.do \notin DetectReads
    BY <1>1 DEF DetectReads
  <1>10. QED
    BY <1>1, <1>3, <1>4, <1>8, <1>9, SearchLooks

LEMMA ReadsShownToRemoveSearches ==
    ASSUME NEW c, NEW q, SearchAt(c, q), ReadsShownToRemove(c, q)
    PROVE  StaysSearch(c)
  <1> DEFINE p == [Then(q, "writeShown") EXCEPT !.shown = newReleases, !.ids = newReleases \ q.pruned]
             more == {p}
             next == calls'[c]
             call == calls[c]
             K == knownReleases
  <1>1. /\ q \in Piece /\ q.do = "readShownToRemove" /\ q \in call.pending
        /\ newReleases \subseteq Releases
        /\ PieceSearches(call, q, K) /\ Continue(c, q, more)
        /\ UNCHANGED <<knownReleases, newReleases, dismissed>>
    BY SearchAtIs DEF ReadsShownToRemove, LibraryOK, OnlyReads, library, history
  <1>2. p \in Piece /\ p.do = "writeShown" /\ p.artist = q.artist /\ p.shown = newReleases
        /\ p.ids = newReleases \ q.pruned
    BY <1>1, StepsAre DEF Piece, Then
  <1> HIDE DEF p
  <1>3. more \in SUBSET Piece /\ \A x \in more : x = p
    BY <1>2
  <1>4. FollowsOne(q, more)
    BY <1>1, <1>2, <1>3 DEF FollowsOne, Searching, Stores
  <1> HIDE DEF more
  <1>5. ContinuedSearch(c) /\ next.pending = (call.pending \ {q}) \cup more
    BY <1>1, <1>3, SearchContinued
  <1>6. Taken(p) \subseteq Taken(q)
    BY <1>1, <1>2 DEF Taken
  <1>7. \A r : IsAboutToBeStored(call, r) => IsAboutToBeStored(next, r)
    BY <1>1, <1>5 DEF IsAboutToBeStored
  <1>8. PieceSearches(next, p, K)
    BY <1>1, <1>2, <1>5, <1>6, <1>7 DEF PieceSearches, ContinuedSearch
  <1>9. \A x \in more : PieceSearches(next, x, K)
    BY <1>3, <1>8
  <1>10. q.do \notin DetectReads
    BY <1>1 DEF DetectReads
  <1>11. QED
    BY <1>1, <1>3, <1>4, <1>9, <1>10, SearchLooks

\* What it takes off the list is no news of the search, or is about to be stored.
LEMMA WritesShownSearches ==
    ASSUME NEW c, NEW q, SearchAt(c, q), WritesShown(c, q), intact'
    PROVE  StaysSearch(c)
  <1> DEFINE more == {}
             next == calls'[c]
             call == calls[c]
             K == knownReleases
  <1>1. /\ q \in Piece /\ q.do = "writeShown" /\ PieceSearches(call, q, K) /\ Continue(c, q, more)
        /\ K' = K /\ newReleases = q.shown /\ newReleases' = q.ids /\ dismissed \subseteq dismissed'
    <2>1. q \in Piece /\ PieceShaped(call, q) /\ PieceSearches(call, q, K) /\ call.op = "detect"
      BY SearchAtIs DEF SearchAt
    <2>2. q.do = "writeShown"
      BY <2>1 DEF WritesShown, PieceShaped, Takes, DetectReads, SearchSteps
    <2>3. QED
      BY <2>1, <2>2 DEF WritesShown, WriteNewReleases
  <1>2. more \in SUBSET Piece /\ FollowsOne(q, more) /\ \A x : x \notin more
    BY <1>1 DEF FollowsOne, Stores
  <1> HIDE DEF more
  <1>3. EntryOnly(call, next, q, K, K')
    BY <1>1 DEF EntryOnly
  <1>4. \A r \in call.news \cap (newReleases \cup dismissed) :
           r \in newReleases' \cup dismissed' \/ IsAboutToBeStored(call, r)
    BY <1>1 DEF PieceSearches, Taken
  <1>5. q.do \notin DetectReads
    BY <1>1 DEF DetectReads
  <1>6. QED
    BY <1>1, <1>2, <1>3, <1>4, <1>5, SearchContinues

\* In the end every followed artist of a new release gets to know it.
LEMMA MergesKnownSearches ==
    ASSUME NEW c, NEW q, SearchAt(c, q), MergesKnown(c, q)
    PROVE  StaysSearch(c)
  <1> DEFINE more == {}
             next == calls'[c]
             call == calls[c]
             K == knownReleases
  <1>1. /\ q \in Piece /\ q.do = "mergeKnown" /\ PieceSearches(call, q, K) /\ Continue(c, q, more)
        /\ q.artist \in Artists /\ K \in [Artists -> SUBSET Releases]
        /\ K' = [K EXCEPT ![q.artist] = @ \cup q.ids]
        /\ UNCHANGED <<newReleases, dismissed>>
    BY SearchAtIs DEF MergesKnown, LibraryOK, DetectReads, history
  <1>2. more \in SUBSET Piece /\ FollowsOne(q, more) /\ \A x : x \notin more
    BY <1>1 DEF FollowsOne, Stores
  <1> HIDE DEF more
  <1>3. call.stage = "merge"
    BY <1>1 DEF PieceSearches
  <1>4. EntryOnly(call, next, q, K, K')
    BY <1>1, <1>3 DEF EntryOnly
  <1>5. q.do \notin DetectReads
    BY <1>1 DEF DetectReads
  <1>6. QED
    BY <1>1, <1>2, <1>4, <1>5, SearchContinues

\* News is stored while nobody is about to take anything off the list; the artist it was
\* found for knows it by then.
LEMMA StoresNewsSearches ==
    ASSUME NEW c, NEW q, SearchAt(c, q), StoresNews(c, q), intact'
    PROVE  StaysSearch(c)
  <1> DEFINE more == AfterSave(q)
             next == calls'[c]
             call == calls[c]
             K == knownReleases
             N == newReleases
             D == dismissed
  <1>1. /\ q \in Piece /\ q.do = "storeNews" /\ q \in call.pending /\ PieceSearches(call, q, K)
        /\ Continue(c, q, more) /\ K' = K /\ N' = N \cup q.news /\ D' = D \ q.news
        /\ ~IsRewritten /\ c \in Callers /\ call # Idle
        /\ SearchKeeps(call, K, N, D) /\ call.stage # "begin" /\ q.artist \in Artists
    BY SearchAtIs DEF StoresNews, SearchAt, At, DetectReads
  <1>2. more \in SUBSET Piece /\ \A p \in more : p.do = "readShown" /\ p.artist = q.artist
    BY <1>1, AfterSaveIs
  <1>3. \A p, r \in more : p = r
    BY <1>1, AfterSaveIs
  <1> HIDE DEF more
  <1>4. ContinuedSearch(c) /\ next.pending = (call.pending \ {q}) \cup more
    BY <1>1, <1>2, SearchContinued
  <1>5. \A x \in call.pending : Taken(x) = {}
    BY <1>1 DEF IsRewritten, Taken
  <1> HIDE DEF K, N, D
  <1>6. \A x, y \in next.pending : x.artist = y.artist => x = y
    BY <1>1, <1>2, <1>3, <1>4 DEF SearchKeeps
  <1>7. \A x \in next.pending : PieceSearches(next, x, K')
    <2>1. ASSUME NEW x \in call.pending \ {q} PROVE PieceSearches(next, x, K')
      <3>1. PieceSearches(call, x, K)
        BY <1>1 DEF SearchKeeps
      <3>2. QED
        BY <1>1, <1>4, <1>5, <3>1 DEF PieceSearches, ContinuedSearch
    <2>2. ASSUME NEW x \in more PROVE PieceSearches(next, x, K')
      BY <1>1, <1>2, <1>4, <2>2 DEF PieceSearches, ContinuedSearch, Taken
    <2>3. QED
      BY <1>4, <2>1, <2>2
  <1>8. ASSUME NEW r \in next.news, ~IsAboutToBeStored(next, r)
        PROVE  r \in N' \cup D' /\ Settled(next, K', r)
    <2>1. r \in call.news
      BY <1>4 DEF ContinuedSearch
    <2>2. CASE r \in q.news
      <3>1. r \in K'[q.artist]
        BY <1>1, <2>2 DEF PieceSearches
      <3>2. \A x \in next.pending : x.artist = q.artist => x.do \notin Searching
        BY <1>1, <1>2, <1>4 DEF SearchKeeps, Searching
      <3>3. QED
        BY <1>1, <2>2, <3>1, <3>2 DEF Settled
    <2>3. CASE r \notin q.news
      <3>1. ~IsAboutToBeStored(call, r)
        BY <1>4, <1>8, <2>3 DEF IsAboutToBeStored
      <3>2. r \in N \cup D /\ Settled(call, K, r)
        BY <1>1, <2>1, <3>1 DEF SearchKeeps
      <3>3. r \in N' \cup D'
        BY <1>1, <2>3, <3>2
      <3>4. Settled(next, K', r)
        BY <1>1, <1>2, <1>4, <3>2 DEF Settled, Searching
      <3>5. QED
        BY <3>3, <3>4
    <2>4. QED
      BY <2>2, <2>3
  <1>9. next.stage # "begin"
    BY <1>1, <1>4 DEF ContinuedSearch
  <1>10. SearchKeeps(next, K', N', D')
    BY <1>6, <1>7, <1>8, <1>9 DEF SearchKeeps
  <1>11. QED
    BY <1>10 DEF StaysSearch, K, N, D

\* What an artist's search finds was known at the beginning, or is news that is about to
\* be stored.
LEMMA SearchesSearches ==
    ASSUME NEW c, NEW q, SearchAt(c, q), Searches(c, q)
    PROVE  StaysSearch(c)
  <1> DEFINE call == calls[c]
             K == knownReleases
             known == call.known[q.artist]
             candidates == Candidates(Found(q.artist), known, call.settings)
             news == NewAmong(candidates, known)
             pruned == Pruned(candidates, known)
             p == [Then(q, "replaceKnown") EXCEPT !.ids = candidates, !.news = news, !.pruned = pruned]
             more == IF news = {} /\ pruned = {} THEN {} ELSE {p}
             pending == (call.pending \ {q}) \cup more
             new == [call EXCEPT !.news = @ \cup news, !.pending = pending]
             next == calls'[c]
  <1>1. /\ q \in Piece /\ q.do = "search" /\ q \in call.pending /\ PieceSearches(call, q, K)
        /\ call \in CallRecord /\ c \in Callers /\ CallsOK /\ WorldOK
        /\ SearchKeeps(call, K, newReleases, dismissed)
        /\ UNCHANGED <<knownReleases, newReleases, dismissed>>
    BY SearchAtIs DEF Searches, library, SearchAt, At, TypesInv
  <1>2. call.stage # "begin" /\ \A x \in call.pending : x.artist \in Artists
    BY <1>1, SearchAtIs DEF DetectReads
  <1>3. known = K[q.artist]
    BY <1>1 DEF PieceSearches
  <1>4. candidates \subseteq Found(q.artist) /\ Found(q.artist) \subseteq Releases
    BY <1>1, CandidatesAre, FoundIsOfReleases
  <1>5. known \subseteq Releases
    BY <1>1, <1>2 DEF CallRecord
  <1>6. candidates \subseteq Releases /\ candidates \subseteq known \cup news
        /\ news \subseteq Releases /\ pruned \subseteq Releases
    BY <1>4, <1>5 DEF NewAmong, Pruned
  <1>7. calls' = [calls EXCEPT ![c] = new]
    BY DEF Searches
  <1> HIDE DEF candidates, news, pruned
  <1>8. p \in Piece /\ p.do = "replaceKnown" /\ p.artist = q.artist /\ p.ids = candidates
        /\ p.news = news
    BY <1>1, <1>6, StepsAre DEF Piece, Then
  <1> HIDE DEF p
  <1>9. (\A x \in more : x = p) /\ (news # {} => p \in more)
    OBVIOUS
  <1> HIDE DEF more
  <1> HIDE DEF pending
  <1>10. /\ new.stage = call.stage /\ new.news = call.news \cup news
         /\ new.known = call.known /\ new.pending = pending
    BY <1>1 DEF CallRecord
  <1>11. calls'[c] = new
    BY <1>1, <1>7, MovedCall
  <1>12. /\ next.stage = call.stage /\ next.news = call.news \cup news
         /\ next.known = call.known /\ next.pending = (call.pending \ {q}) \cup more
    BY <1>10, <1>11 DEF pending
  <1> HIDE DEF new, next, call, K, known
  <1>13. \A r : IsAboutToBeStored(call, r) => IsAboutToBeStored(next, r)
    BY <1>1, <1>12 DEF IsAboutToBeStored
  <1>14. \A r \in next.news \ call.news : IsAboutToBeStored(next, r)
    BY <1>8, <1>9, <1>12 DEF IsAboutToBeStored
  <1>15. next.stage # "merge"
    BY <1>1, <1>12 DEF PieceSearches
  <1>16. PieceSearches(next, p, K)
    BY <1>3, <1>6, <1>8, <1>15 DEF PieceSearches, Taken
  <1>17. \A x \in more : /\ x.artist = q.artist /\ (x.do \in Searching => q.do \in Searching)
                         /\ PieceSearches(next, x, K)
    BY <1>1, <1>8, <1>9, <1>16 DEF Searching
  <1>18. SearchStep(call, next, q, more, K, newReleases, dismissed, K, newReleases, dismissed)
    BY <1>9, <1>12, <1>13, <1>14, <1>17 DEF SearchStep
  <1>19. SearchKeeps(next, K, newReleases, dismissed)
    BY <1>1, <1>2, <1>18, SearchGoesOn
  <1>20. QED
    BY <1>1, <1>19 DEF StaysSearch, next, K

\* A search begins with nothing found, and looks at all it knows.
LEMMA ReadsBeginSearch ==
    ASSUME NEW c, NEW q, SearchAt(c, q),
           ReadsFollowed(c, q) \/ ReadsDetectSettings(c, q) \/ ReadsAllKnown(c, q)
    PROVE  StaysSearch(c)
  <1> DEFINE call == calls[c]
             next == calls'[c]
             K == knownReleases
  <1>1. /\ At(c, q) /\ call.op = "detect" /\ call \in CallRecord
        /\ SearchKeeps(call, K, newReleases, dismissed)
        /\ PieceShaped(call, q) /\ q.do \in DetectReads
    BY SearchAtIs DEF SearchAt, ReadsFollowed, ReadsDetectSettings, ReadsAllKnown, DetectReads
  <1>2. call.stage = "begin" /\ call.news = {}
    BY <1>1 DEF PieceShaped, SearchKeeps
  <1>3. call.pending = {q}
    BY <1>1, <1>2, OnlyPiece DEF InOnePiece
  <1>4. UNCHANGED <<knownReleases, newReleases, dismissed>>
    BY DEF ReadsFollowed, ReadsDetectSettings, ReadsAllKnown, OnlyReads, library, history
  <1>5. CASE ReadsFollowed(c, q) \/ ReadsDetectSettings(c, q)
    <2>1. PICK p : Goes(c, q, {p}) /\ p.do \in {"readDetectSettings", "readAllKnown"} /\ next.news = call.news
      BY <1>1, <1>5, ReadsFollowedToDetect, ReadsDetectSettingsGoes DEF KnowsTheSame
    <2>2. next.pending = {p} /\ Shaped(next) /\ next.op = "detect"
      BY <1>1, <1>3, <2>1 DEF Goes
    <2>3. PieceShaped(next, p)
      BY <2>2 DEF Shaped
    <2>4. next.stage = "begin"
      BY <2>1, <2>2, <2>3 DEF PieceShaped, DetectReads
    <2>5. PieceSearches(next, p, K)
      BY <2>1, <2>4 DEF PieceSearches, Taken
    <2>6. QED
      BY <1>2, <1>4, <2>1, <2>2, <2>5 DEF StaysSearch, SearchKeeps
  <1>6. CASE ReadsAllKnown(c, q)
    <2> DEFINE more == {Work("search", a) : a \in call.followed}
               new == [call EXCEPT !.known = K, !.stage = "search", !.pending = more]
    <2>1. calls' = [calls EXCEPT ![c] = new]
      BY <1>6 DEF ReadsAllKnown
    <2>2. calls'[c] = new
      BY <1>1, <2>1, MovedCall DEF At, TypesInv
    <2>3. \A a : Work("search", a).do = "search" /\ Work("search", a).artist = a
      BY DEF Work
    <2>4. /\ \A p \in more : p.do = "search"
          /\ \A x, y \in more : x.artist = y.artist => x = y
      BY <2>3
    <2> HIDE DEF more
    <2>5. next.known = K /\ next.stage = "search" /\ next.pending = more /\ next.news = {}
      BY <1>1, <1>2, <2>2 DEF CallRecord
    <2> HIDE DEF new, next, K
    <2>6. \A p \in more : PieceSearches(next, p, K)
      BY <2>4, <2>5 DEF PieceSearches, Taken
    <2>7. SearchKeeps(next, K, newReleases, dismissed)
      BY <2>4, <2>5, <2>6 DEF SearchKeeps
    <2>8. QED
      BY <1>4, <2>7 DEF StaysSearch, next, K
  <1>7. QED
    BY <1>5, <1>6

LEMMA DetectAnswers ==
    ASSUME NEW c, NEW q, Answered(c, q), PieceShaped(calls[c], q), calls[c].op = "detect"
    PROVE  \/ ReplacesKnown(c, q) \/ ReadsToFollow(c, q) \/ WritesFollow(c, q) \/ StoresNews(c, q)
           \/ ReadsShown(c, q) \/ ReadsKnown(c, q) \/ ReadsShownToRemove(c, q) \/ WritesShown(c, q)
           \/ Searches(c, q) \/ MergesKnown(c, q) \/ Fails(c, q)
           \/ ReadsFollowed(c, q) \/ ReadsDetectSettings(c, q) \/ ReadsAllKnown(c, q)
  <1>1. q.do \in DetectReads \cup SearchSteps \cup {"mergeKnown"}
    BY DEF PieceShaped, Takes
  <1>2. QED
    BY <1>1 DEF Answered, DetectReads, SearchSteps, ReadsToUnfollow, WritesUnfollow,
       ReadsShownToUnfollow, ReadsKnownToUnfollow, DeletesKnown, ReadsSummary, ListsReleases,
       ReadsToRefresh, WritesRefresh, ChecksRelease, ReadsAllEntries, RemovesKnown, ReadsShownToVerify,
       ReadsSettings, SavesSettings, ListsToRebuild, ReplacesRebuilt, ReadsOutside, RollsBack

\* Whatever a search was answered.
LEMMA AnsweredKeepsSearch ==
    ASSUME NEW c, NEW q, SearchAt(c, q), Answered(c, q), ~Fails(c, q), intact'
    PROVE  StaysSearch(c)
  <1>1. PieceShaped(calls[c], q) /\ calls[c].op = "detect"
    BY SearchAtIs DEF SearchAt
  <1>2. QED
    BY <1>1, DetectAnswers, ReplacesKnownSearches, ReadsToFollowSearches, WritesFollowSearches, StoresNewsSearches,
       ReadsShownSearches, ReadsKnownSearches, ReadsShownToRemoveSearches, WritesShownSearches,
       SearchesSearches, MergesKnownSearches, ReadsBeginSearch

-----------------------------------------------------------------------------
(* What was asked for, and what an unfollowed artist takes off the list.    *)

LEMMA FailedCall ==
    ASSUME NEW c, NEW q, At(c, q), Fails(c, q)
    PROVE  /\ calls'[c].op = calls[c].op /\ calls'[c].asked = calls[c].asked /\ calls'[c].failed
           /\ \A p \in calls'[c].pending : p \in calls[c].pending \/ p.do = "rollBack"
  <1> DEFINE call == calls[c]
             r == Work("rollBack", q.artist)
             back == IF call.op = "settings" /\ ~call.failed /\ q.do \notin {"readSettings", "saveSettings"}
                     THEN {r} ELSE {}
             pending == (call.pending \ {q}) \cup back
             new == [call EXCEPT !.failed = TRUE, !.pending = pending]
  <1>1. call \in CallRecord /\ c \in Callers /\ CallsOK
    BY AtIs DEF At, TypesInv
  <1>2. calls' = [calls EXCEPT ![c] = new]
    BY DEF Fails
  <1> HIDE DEF new
  <1>3. calls'[c] = new
    BY <1>1, <1>2, MovedCall
  <1>4. r.do = "rollBack"
    BY DEF Work
  <1> HIDE DEF r
  <1>5. \A p \in pending : p \in call.pending \/ p.do = "rollBack"
    BY <1>4
  <1> HIDE DEF pending
  <1>6. new.op = call.op /\ new.asked = call.asked /\ new.failed /\ new.pending = pending
    BY <1>1 DEF CallRecord, new
  <1>7. QED
    BY <1>3, <1>5, <1>6

\* An answer changes neither what is done nor what it is done for.
LEMMA AnsweredIsSame ==
    ASSUME NEW c, NEW q, At(c, q), Answered(c, q)
    PROVE  calls'[c].op = calls[c].op /\ calls'[c].asked = calls[c].asked
  <1>1. CASE PlainAnswer(c, q)
    BY <1>1, PlainAnswerIs DEF Plain, Goes
  <1>2. CASE WritesFollow(c, q) \/ ReadsToUnfollow(c, q) \/ WritesUnfollow(c, q) \/ DeletesKnown(c, q)
    BY <1>2, WritesFollowGoes, ReadsToUnfollowGoes, WritesUnfollowGoes, DeletesKnownGoes DEF Goes
  <1>3. CASE ListsReleases(c, q) \/ ListsToRebuild(c, q)
    BY <1>3, ListsReleasesGoes, ListsToRebuildGoes DEF Goes
  <1>4. CASE ReadsFollowed(c, q)
    BY <1>4, ReadsFollowedGoes, ReadsFollowedToDetect DEF Goes
  <1>5. CASE ReadsDetectSettings(c, q) \/ ReadsAllKnown(c, q) \/ Searches(c, q)
    BY <1>5, ReadsDetectSettingsGoes, ReadsAllKnownGoes, SearchesGoes DEF Goes
  <1>6. CASE ReadsSummary(c, q) \/ ReadsAllEntries(c, q) \/ ReadsSettings(c, q) \/ SavesSettings(c, q)
    BY <1>6, ReadsSummaryGoes, ReadsAllEntriesGoes, ReadsSettingsGoes, SavesSettingsGoes DEF Goes
  <1>7. CASE Fails(c, q)
    BY <1>7, FailedCall
  <1>8. QED
    BY <1>1, <1>2, <1>3, <1>4, <1>5, <1>6, <1>7, AnsweredIs

LEMMA AnsweredIsAskedFor ==
    ASSUME NEW c, NEW q, At(c, q), Answered(c, q), AskedFor(calls[c])
    PROVE  AskedFor(calls'[c])
  <1> DEFINE call == calls[c]
             next == calls'[c]
  <1> SUFFICES ASSUME call.op \in {"dismiss", "verify"}
               PROVE  \A p \in next.pending :
                         Taken(p) \subseteq call.asked /\ (call.op = "dismiss" => Taken(p) \subseteq p.pruned)
    BY AnsweredIsSame DEF AskedFor
  <1>1. /\ q \in Piece /\ PieceShaped(call, q) /\ q \in call.pending /\ newReleases \subseteq Releases
        /\ call.pending = {q}
    BY AtIs, OnlyPiece DEF InOnePiece, At, TypesInv, LibraryOK
  <1>2. Taken(q) \subseteq call.asked /\ (call.op = "dismiss" => Taken(q) \subseteq q.pruned)
    BY <1>1 DEF AskedFor
  <1>3. ASSUME NEW p \in Piece, NEW more \in SUBSET {p}, Continue(c, q, more),
               Taken(p) \subseteq call.asked, call.op = "dismiss" => Taken(p) \subseteq p.pruned
        PROVE  \A x \in next.pending :
                  Taken(x) \subseteq call.asked /\ (call.op = "dismiss" => Taken(x) \subseteq x.pruned)
    <2>1. more \in SUBSET Piece
      OBVIOUS
    <2>2. next.pending = (call.pending \ {q}) \cup more
      BY <1>3, <2>1, ContinuedCall
    <2>3. \A x \in next.pending : x = p
      BY <1>1, <2>2
    <2>4. QED
      BY <1>3, <2>3
  <1>4. q.do \in DismissSteps \cup VerifySteps
    BY <1>1 DEF PieceShaped, Takes
  <1>5. CASE ReadsShownToRemove(c, q)
    <2> DEFINE p == [Then(q, "writeShown") EXCEPT !.shown = newReleases, !.ids = newReleases \ q.pruned]
               more == {p}
    <2>1. Continue(c, q, more) /\ q.do = "readShownToRemove"
      BY <1>5 DEF ReadsShownToRemove
    <2>2. p \in Piece /\ p.do = "writeShown" /\ p.shown = newReleases /\ p.ids = newReleases \ q.pruned
          /\ p.pruned = q.pruned
      BY <1>1, StepsAre DEF Piece, Then
    <2> HIDE DEF p
    <2>3. more \in SUBSET {p}
      OBVIOUS
    <2> HIDE DEF more
    <2>4. Taken(p) \subseteq Taken(q) /\ Taken(p) \subseteq p.pruned
      BY <2>1, <2>2 DEF Taken
    <2>5. QED
      BY <1>2, <1>3, <2>1, <2>2, <2>3, <2>4
  <1>6. CASE ReadsShownToVerify(c, q)
    <2> DEFINE p == [Then(q, "writeShown") EXCEPT !.shown = newReleases, !.ids = newReleases \ call.asked]
               more == IF call.asked \cap newReleases = {} THEN {} ELSE {p}
    <2>1. Continue(c, q, more) /\ q.do = "readShownToVerify"
      BY <1>6 DEF ReadsShownToVerify
    <2>2. p \in Piece /\ p.do = "writeShown" /\ p.shown = newReleases /\ p.ids = newReleases \ call.asked
      BY <1>1, StepsAre DEF Piece, Then
    <2> HIDE DEF p
    <2>3. more \in SUBSET {p}
      OBVIOUS
    <2> HIDE DEF more
    <2>4. Taken(p) \subseteq call.asked
      BY <2>2 DEF Taken
    <2>5. call.op # "dismiss"
      BY <1>1, <2>1 DEF PieceShaped, Takes, DismissSteps
    <2>6. QED
      BY <1>3, <2>1, <2>2, <2>3, <2>4, <2>5
  <1>7. ASSUME NEW do \in {"readAllEntries", "readShownToVerify"}, NEW more \in SUBSET {Then(q, do)},
               Continue(c, q, more)
        PROVE  \A x \in next.pending :
                  Taken(x) \subseteq call.asked /\ (call.op = "dismiss" => Taken(x) \subseteq x.pruned)
    <2> DEFINE p == Then(q, do)
    <2>1. p \in Piece /\ Taken(p) = {}
      BY <1>1, StepsAre DEF Piece, Then, Taken
    <2> HIDE DEF p
    <2>2. QED
      BY <1>3, <1>7, <2>1 DEF p
  <1>8. CASE ChecksRelease(c, q) \/ RemovesKnown(c, q) \/ WritesShown(c, q)
    <2> DEFINE none == {}
    <2>1. CASE ChecksRelease(c, q)
      <3> DEFINE p == Then(q, "readAllEntries")
                 more == IF call.asked \subseteq catalog THEN {} ELSE {p}
      <3>1. Continue(c, q, more) /\ more \in SUBSET {p}
        BY <2>1 DEF ChecksRelease
      <3> HIDE DEF more
      <3>2. QED
        BY <1>7, <3>1
    <2>2. CASE RemovesKnown(c, q)
      <3> DEFINE p == Then(q, "readShownToVerify")
                 more == {p}
      <3>1. Continue(c, q, more) /\ more \in SUBSET {p}
        BY <2>2 DEF RemovesKnown
      <3> HIDE DEF more
      <3>2. QED
        BY <1>7, <3>1
    <2>3. CASE WritesShown(c, q)
      <3>1. q.do = "writeShown"
        BY <1>4, <2>3 DEF WritesShown, DismissSteps, VerifySteps
      <3>2. Continue(c, q, none) /\ none \in SUBSET {Then(q, "readShownToVerify")}
        BY <2>3, <3>1 DEF WritesShown
      <3> HIDE DEF none
      <3>3. QED
        BY <1>7, <3>2
    <2>4. QED
      BY <1>8, <2>1, <2>2, <2>3
  <1>9. CASE ReadsAllEntries(c, q)
    <2>1. PICK p : Goes(c, q, {p}) /\ p.do = "removeKnown" /\ call.op = "verify"
      BY <1>9, ReadsAllEntriesGoes
    <2>2. next.pending = {p} /\ Taken(p) = {}
      BY <1>1, <2>1 DEF Goes, Taken
    <2>3. QED
      BY <2>1, <2>2
  <1>10. CASE Fails(c, q)
    <2>1. \A p \in next.pending : p = q \/ p.do = "rollBack"
      BY <1>1, <1>10, FailedCall
    <2>2. \A p : p.do = "rollBack" => Taken(p) = {}
      BY DEF Taken
    <2>3. QED
      BY <1>2, <2>1, <2>2
  <1>11. QED
    BY <1>4, <1>5, <1>6, <1>8, <1>9, <1>10 DEF Answered, DismissSteps, VerifySteps,
       ReplacesKnown, ReadsToFollow, WritesFollow, StoresNews, ReadsToUnfollow, WritesUnfollow,
       ReadsShownToUnfollow, ReadsKnownToUnfollow, DeletesKnown, ReadsShown, ReadsKnown,
       ReadsFollowed, ReadsDetectSettings, ReadsAllKnown, Searches, MergesKnown,
       ReadsSummary, ListsReleases, ReadsToRefresh, WritesRefresh, ReadsSettings, SavesSettings,
       ListsToRebuild, ReplacesRebuilt, ReadsOutside, RollsBack

\* The caller's piece is done, and those that follow it forget what they have to.
Forgetful(c, q, more) ==
    /\ calls'[c].pending = (calls[c].pending \ {q}) \cup more
    /\ \A p \in more : Forgets(p, knownReleases', followingArtists')

\* Nobody is followed who was not, and nothing becomes known of those who are.
Shrinks(K, F, K2, F2) == F2 \subseteq F /\ \A b \in F2 : K2[b] \subseteq K[b]

LEMMA NothingForgotten ==
    ASSUME NEW q, q.do \notin Removal
    PROVE  \A K, F : Forgets(q, K, F)
  BY DEF Forgets, Removal

LEMMA StillForgets ==
    ASSUME NEW q, NEW K, NEW F, NEW K2, NEW F2, Forgets(q, K, F), Shrinks(K, F, K2, F2)
    PROVE  Forgets(q, K2, F2)
  BY DEF Forgets, Shrinks

LEMMA ForgetsOn ==
    ASSUME NEW c, NEW q, ForgetsAll(calls[c], knownReleases, followingArtists),
           Shrinks(knownReleases, followingArtists, knownReleases', followingArtists'),
           NEW more, Forgetful(c, q, more)
    PROVE  ForgetsAll(calls'[c], knownReleases', followingArtists')
  <1> DEFINE K == knownReleases
             F == followingArtists
             P == calls[c].pending
             P2 == calls'[c].pending
  <1>1. \A p \in P : Forgets(p, K, F)
    BY DEF ForgetsAll
  <1>2. Shrinks(K, F, K', F')
    OBVIOUS
  <1>3. P2 = (P \ {q}) \cup more /\ \A p \in more : Forgets(p, K', F')
    BY DEF Forgetful
  <1> HIDE DEF K, F, P, P2
  <1>4. \A p \in P : Forgets(p, K', F')
    BY <1>1, <1>2, StillForgets
  <1>5. \A p \in P2 : Forgets(p, K', F')
    BY <1>3, <1>4
  <1>6. QED
    BY <1>5 DEF ForgetsAll, K, F, P2

\* What an artist's removal reads and writes.
LEMMA RemovalForgets ==
    ASSUME NEW c, NEW q, At(c, q), ForgetsAll(calls[c], knownReleases, followingArtists), intact',
           \/ ReadsToUnfollow(c, q) \/ WritesUnfollow(c, q) \/ ReadsShownToUnfollow(c, q)
           \/ ReadsKnownToUnfollow(c, q) \/ DeletesKnown(c, q)
           \/ WritesShown(c, q) /\ q.do = "writeShownToUnfollow"
    PROVE  ForgetsAll(calls'[c], knownReleases', followingArtists')
  <1> DEFINE K == knownReleases
             F == followingArtists
  <1>1. /\ q \in Piece /\ F \subseteq Artists /\ K \in [Artists -> SUBSET Releases]
        /\ newReleases \subseteq Releases /\ Forgets(q, K, F) /\ q.artist \in Artists
    <2>1. q.do \in UnfollowSteps
      BY DEF ReadsToUnfollow, WritesUnfollow, ReadsShownToUnfollow, ReadsKnownToUnfollow,
         DeletesKnown, UnfollowSteps, Removal
    <2>2. q.artist \in Artists
      BY <2>1, UnfollowIsNoSearch
    <2>3. QED
      BY <2>2, AtIs DEF At, TypesInv, LibraryOK, ForgetsAll
  <1>2. ASSUME NEW p \in Piece, NEW more \in SUBSET {p}, Continue(c, q, more), Forgets(p, K', F'),
               Shrinks(K, F, K', F')
        PROVE  ForgetsAll(calls'[c], K', F')
    <2>1. more \in SUBSET Piece
      OBVIOUS
    <2>2. calls'[c].pending = (calls[c].pending \ {q}) \cup more
      BY <1>2, <2>1, ContinuedCall
    <2>3. \A x \in more : Forgets(x, K', F')
      BY <1>2
    <2>4. Forgetful(c, q, more)
      BY <2>2, <2>3 DEF Forgetful
    <2>5. QED
      BY <1>2, <2>4, ForgetsOn
  <1>3. CASE ReadsToUnfollow(c, q)
    <2> DEFINE next == IF q.artist \in F THEN "writeUnfollow" ELSE "readShownToUnfollow"
               p == [Then(q, next) EXCEPT !.read = F]
               more == {p}
    <2>1. Continue(c, q, more) /\ K' = K /\ F' = F
      BY <1>3 DEF ReadsToUnfollow, OnlyReads, library
    <2>2. p \in Piece /\ p.do = next /\ p.read = F /\ p.artist = q.artist
      BY <1>1, StepsAre DEF Piece, Then
    <2> HIDE DEF p
    <2>3. Forgets(p, K', F')
      BY <2>1, <2>2 DEF Forgets, Removal
    <2>4. Shrinks(K, F, K', F')
      BY <2>1 DEF Shrinks
    <2>5. more \in SUBSET {p}
      OBVIOUS
    <2> HIDE DEF more, next
    <2>6. QED
      BY <1>2, <2>1, <2>2, <2>3, <2>4, <2>5
  <1>4. CASE WritesUnfollow(c, q)
    <2> DEFINE p == Then(q, "readShownToUnfollow")
               more == {p}
    <2>1. Continue(c, q, more) /\ K' = K /\ F' = q.read \ {q.artist} /\ q.read = F
      BY <1>4 DEF WritesUnfollow, WriteFollowing
    <2>2. p \in Piece /\ p.do = "readShownToUnfollow" /\ p.read = q.read /\ p.artist = q.artist
      BY <1>1, StepsAre DEF Piece, Then
    <2> HIDE DEF p
    <2>3. Forgets(p, K', F')
      BY <2>1, <2>2 DEF Forgets
    <2>4. Shrinks(K, F, K', F')
      BY <2>1 DEF Shrinks
    <2>5. more \in SUBSET {p}
      OBVIOUS
    <2> HIDE DEF more
    <2>6. QED
      BY <1>2, <2>1, <2>2, <2>3, <2>4, <2>5
  <1>5. CASE ReadsShownToUnfollow(c, q)
    <2> DEFINE p == [Then(q, "readKnownToUnfollow") EXCEPT !.shown = newReleases]
               more == {p}
    <2>1. Continue(c, q, more) /\ K' = K /\ F' = F /\ q.do = "readShownToUnfollow"
      BY <1>5 DEF ReadsShownToUnfollow, OnlyReads, library
    <2>2. p \in Piece /\ p.do = "readKnownToUnfollow" /\ p.read = q.read /\ p.artist = q.artist
      BY <1>1, StepsAre DEF Piece, Then
    <2> HIDE DEF p
    <2>3. Forgets(p, K', F')
      BY <1>1, <2>1, <2>2 DEF Forgets, Removal
    <2>4. Shrinks(K, F, K', F')
      BY <2>1 DEF Shrinks
    <2>5. more \in SUBSET {p}
      OBVIOUS
    <2> HIDE DEF more
    <2>6. QED
      BY <1>2, <2>1, <2>2, <2>3, <2>4, <2>5
  <1>6. CASE ReadsKnownToUnfollow(c, q)
    <2> DEFINE next == IF KeptAfterUnfollow(q) = q.shown THEN "deleteKnown" ELSE "writeShownToUnfollow"
               p == [Then(q, next) EXCEPT !.ids = KeptAfterUnfollow(q)]
               more == {p}
    <2>1. Continue(c, q, more) /\ K' = K /\ F' = F /\ q.do = "readKnownToUnfollow"
      BY <1>6 DEF ReadsKnownToUnfollow, OnlyReads, library
    <2>2. KeptAfterUnfollow(q) \subseteq Releases
      BY <1>1 DEF KeptAfterUnfollow, Piece
    <2>3. p \in Piece /\ p.do = next /\ p.read = q.read /\ p.artist = q.artist
          /\ p.shown = q.shown /\ p.ids = KeptAfterUnfollow(q)
      BY <1>1, <2>2, StepsAre DEF Piece, Then
    <2> HIDE DEF p
    <2>4. \A r \in q.shown \ KeptAfterUnfollow(q) : \A b \in q.read \ {q.artist} : r \notin K[b]
      BY DEF KeptAfterUnfollow
    <2>5. F \subseteq q.read \ {q.artist}
      BY <1>1, <2>1 DEF Forgets, Removal
    <2>6. Forgets(p, K, F)
      BY <2>3, <2>4, <2>5 DEF Forgets
    <2>7. Forgets(p, K', F') /\ Shrinks(K, F, K', F')
      BY <2>1, <2>6 DEF Shrinks
    <2>8. more \in SUBSET {p}
      OBVIOUS
    <2> HIDE DEF more, next
    <2>9. QED
      BY <1>2, <2>1, <2>3, <2>7, <2>8
  <1>7. CASE DeletesKnown(c, q)
    <2> DEFINE p == Work("listReleases", q.artist)
               more == IF calls[c].op = "follow" THEN {p} ELSE {}
    <2>1. Continue(c, q, more) /\ K' = [K EXCEPT ![q.artist] = {}] /\ F' = F
      BY <1>7 DEF DeletesKnown
    <2>2. p \in Piece /\ p.do = "listReleases"
      BY <1>1, StepsAre, WorkIs
    <2> HIDE DEF p
    <2>3. Forgets(p, K', F')
      BY <2>2, NothingForgotten DEF Removal
    <2>4. Shrinks(K, F, K', F')
      BY <1>1, <2>1 DEF Shrinks
    <2>5. more \in SUBSET {p}
      OBVIOUS
    <2> HIDE DEF more
    <2>6. QED
      BY <1>2, <2>1, <2>2, <2>3, <2>4, <2>5
  <1>8. CASE WritesShown(c, q) /\ q.do = "writeShownToUnfollow"
    <2> DEFINE p == Then(q, "deleteKnown")
               more == {p}
    <2>1. Continue(c, q, more) /\ K' = K /\ F' = F
      BY <1>8 DEF WritesShown
    <2>2. p \in Piece /\ p.do = "deleteKnown" /\ p.read = q.read /\ p.artist = q.artist
      BY <1>1, StepsAre DEF Piece, Then
    <2> HIDE DEF p
    <2>3. Forgets(p, K', F')
      BY <1>1, <1>8, <2>1, <2>2 DEF Forgets, Removal
    <2>4. Shrinks(K, F, K', F')
      BY <2>1 DEF Shrinks
    <2>5. more \in SUBSET {p}
      OBVIOUS
    <2> HIDE DEF more
    <2>6. QED
      BY <1>2, <2>1, <2>2, <2>3, <2>4, <2>5
  <1>9. QED
    BY <1>3, <1>4, <1>5, <1>6, <1>7, <1>8

\* A follow's own steps have no removal beside them, a refresh's take nobody off the list.
LEMMA AnsweredForgets ==
    ASSUME NEW c, NEW q, At(c, q), ForgetsAll(calls[c], knownReleases, followingArtists),
           Answered(c, q), intact'
    PROVE  ForgetsAll(calls'[c], knownReleases', followingArtists')
  <1> DEFINE call == calls[c]
             next == calls'[c]
             K == knownReleases
             F == followingArtists
  <1>1. /\ next.op = call.op /\ Shaped(next) /\ PieceShaped(call, q) /\ call \in CallRecord
        /\ (InOnePiece(call) => call.pending = {q})
    BY AnsweredIsSame, AnsweredMoves, AtIs, OnlyPiece
  <1>2. ASSUME \A p \in next.pending : p.do \notin Removal
        PROVE  ForgetsAll(next, K', F')
    BY <1>2, NothingForgotten DEF ForgetsAll
  <1>3. CASE call.op \in {"detect", "dismiss", "verify", "settings"}
    <2>1. \A p \in next.pending : p.do \notin Removal
      BY <1>1, <1>3 DEF Shaped, PieceShaped, Takes, Removal, DetectReads, SearchSteps, DismissSteps,
         VerifySteps, SettingsReads, SettingsSteps
    <2>2. QED
      BY <1>2, <2>1
  <1>4. ASSUME NEW more, Goes(c, q, more), \A p \in more : p.do \notin Removal,
               K' = K, F' \subseteq F
        PROVE  ForgetsAll(next, K', F')
    <2>1. \A p \in more : Forgets(p, K', F')
      BY <1>4, NothingForgotten
    <2>2. Forgetful(c, q, more)
      BY <1>4, <2>1 DEF Forgetful, Goes
    <2>3. Shrinks(K, F, K', F')
      BY <1>4 DEF Shrinks
    <2>4. QED
      BY <2>2, <2>3, ForgetsOn
  <1>5. CASE call.op \in OneArtist \cup {"refresh"}
    <2>1. q.do \in {"readSummary"} \cup FollowSteps \cup UnfollowSteps \cup RefreshSteps
      BY <1>1, <1>5 DEF PieceShaped, Takes, OneArtist
    <2>2. q.do \in FollowSteps => call.op = "follow"
      BY <1>1, <1>5 DEF PieceShaped, Takes, OneArtist, FollowSteps, UnfollowSteps, Removal, RefreshSteps
    <2>3. CASE ReplacesKnown(c, q)
      <3>1. call.pending = {q} /\ q.do = "replaceKnown"
        BY <1>1, <2>2, <2>3 DEF ReplacesKnown, FollowSteps, InOnePiece, OneArtist
      <3>2. PICK more : Plain(c, q, more)
        BY <2>3, PlainAnswerIs DEF PlainAnswer
      <3>3. \A p \in more : p.do \notin Removal
        BY <3>1, <3>2 DEF Plain, Removal
      <3>4. next.pending = more
        BY <3>1, <3>2 DEF Plain, Goes
      <3>5. QED
        BY <1>2, <3>3, <3>4
    <2>4. CASE WritesFollow(c, q)
      <3>1. call.pending = {q} /\ call.op = "follow"
        BY <1>1, <2>2, <2>4 DEF WritesFollow, FollowSteps, InOnePiece, OneArtist
      <3>2. PICK more : Goes(c, q, more) /\ more = {}
        BY <2>4, <3>1, WritesFollowGoes
      <3>3. next.pending = {}
        BY <3>1, <3>2 DEF Goes
      <3>4. QED
        BY <1>2, <3>3
    <2>5. CASE ReadsToFollow(c, q) \/ ReadsToRefresh(c, q) \/ WritesRefresh(c, q)
      <3>1. q.do \notin Removal /\ K' = K /\ F' = F
        BY <2>5 DEF ReadsToFollow, ReadsToRefresh, WritesRefresh, OnlyReads, library, WriteFollowing,
           Refreshed, Removal
      <3>2. PICK more : Plain(c, q, more)
        BY <2>5, PlainAnswerIs DEF PlainAnswer
      <3>3. \A p \in more : p.do \notin Removal
        BY <3>1, <3>2 DEF Plain
      <3>4. QED
        BY <1>4, <3>1, <3>2, <3>3 DEF Plain
    <2>6. CASE ReadsSummary(c, q)
      <3>1. PICK more : Goes(c, q, more) /\ \A p \in more : p.do \in {"listReleases", "readToUnfollow"}
        BY <2>6, ReadsSummaryGoes
      <3>2. K' = K /\ F' = F
        BY <2>6 DEF ReadsSummary, library
      <3>3. QED
        BY <1>4, <3>1, <3>2 DEF Removal
    <2>7. CASE ReadsFollowed(c, q)
      <3>1. PICK more : Goes(c, q, more) /\ \A p \in more : p.do \in {"rebuild", "readSummary"}
        BY <1>5, <2>7, ReadsFollowedGoes DEF OneArtist
      <3>2. K' = K /\ F' = F
        BY <2>7 DEF ReadsFollowed, OnlyReads, library
      <3>3. QED
        BY <1>4, <3>1, <3>2 DEF Removal
    <2>8. CASE ListsReleases(c, q)
      <3>1. PICK p : Goes(c, q, {p}) /\ p.do = "replaceKnown"
        BY <2>8, ListsReleasesGoes
      <3>2. K' = K /\ F' = F
        BY <2>8 DEF ListsReleases, library
      <3>3. QED
        BY <1>4, <3>1, <3>2 DEF Removal
    <2>9. CASE Fails(c, q)
      <3>1. K' = K /\ F' = F
        BY <2>9 DEF Fails, library
      <3>2. \A p \in next.pending : p \in call.pending \/ p.do \notin Removal
        BY <2>9, FailedCall DEF Removal
      <3>3. \A p \in call.pending : Forgets(p, K, F)
        BY DEF ForgetsAll
      <3>4. \A p \in next.pending : Forgets(p, K, F)
        BY <3>2, <3>3, NothingForgotten
      <3>5. QED
        BY <3>1, <3>4 DEF ForgetsAll
    <2>10. CASE \/ ReadsToUnfollow(c, q) \/ WritesUnfollow(c, q) \/ ReadsShownToUnfollow(c, q)
                \/ ReadsKnownToUnfollow(c, q) \/ DeletesKnown(c, q)
                \/ WritesShown(c, q) /\ q.do = "writeShownToUnfollow"
      BY <2>10, RemovalForgets
    <2>11. QED
      BY <2>1, <2>3, <2>4, <2>5, <2>6, <2>7, <2>8, <2>9, <2>10 DEF Answered, FollowSteps, UnfollowSteps,
         Removal, RefreshSteps, StoresNews, WritesShown, ReadsShown, ReadsKnown, ReadsShownToRemove,
         ReadsDetectSettings, ReadsAllKnown, Searches, MergesKnown, ChecksRelease, ReadsAllEntries,
         RemovesKnown, ReadsShownToVerify, ReadsSettings, SavesSettings, ListsToRebuild,
         ReplacesRebuilt, ReadsOutside, RollsBack
  <1>6. QED
    BY <1>1, <1>3, <1>5 DEF CallRecord, Ops

-----------------------------------------------------------------------------
(* The invariant holds after every step.                                    *)

\* What a call that does not rewrite takes off the list, the user dismissed.
LEMMA LookerKeepsList ==
    ASSUME NEW c, NEW q, At(c, q), ~calls[c].rewrites, Answered(c, q), intact', AskedFor(calls[c])
    PROVE  /\ UNCHANGED <<knownReleases, followingArtists>>
           /\ newReleases \cup dismissed \subseteq newReleases' \cup dismissed'
  <1>1. CASE Fails(c, q)
    BY <1>1 DEF Fails, library
  <1>2. CASE WritesShown(c, q)
    <2>1. q.do = "writeShown" /\ calls[c].op = "dismiss"
      BY <1>2, LookerIs, AtIs DEF WritesShown, PieceShaped, Takes, RefreshSteps, UnfollowSteps,
         FollowSteps, Removal
    <2>2. Taken(q) \subseteq q.pruned
      BY <2>1 DEF AskedFor, At
    <2>3. newReleases' = q.ids /\ newReleases = q.shown /\ dismissed' = dismissed \cup q.pruned
      BY <1>2, <2>1 DEF WritesShown, WriteNewReleases
    <2>4. q.shown \ q.ids \subseteq q.pruned
      BY <2>1, <2>2 DEF Taken
    <2>5. UNCHANGED <<knownReleases, followingArtists>>
      BY <1>2 DEF WritesShown
    <2>6. QED
      BY <2>3, <2>4, <2>5
  <1>3. CASE ~Fails(c, q) /\ ~WritesShown(c, q)
    <2>1. LookingOn(c, q)
      BY <1>3, LookerIs, LookerLooks
    <2>2. UNCHANGED <<newReleases, dismissed>>
      BY <1>3, <2>1 DEF LookingOn, ReadsSummary, ReadsFollowed, ReadsToRefresh, ReadsShownToRemove,
         WritesRefresh, OnlyReads, library, history
    <2>3. UNCHANGED <<knownReleases, followingArtists>>
      BY <2>1, LooksOnBeside
    <2>4. QED
      BY <2>2, <2>3
  <1>4. QED
    BY <1>1, <1>2, <1>3

\* A call that rewrites nothing needs the tables not.
LEMMA NoNewsAtRest ==
    ASSUME CallsOK, NEW x \in Callers, ~Rewriting(calls[x]), calls[x] # Idle, AskedFor(calls[x])
    PROVE  \A K, F, N, D : CallNews(calls[x], K, F, N, D)
  <1>1. \A p \in calls[x].pending : p.do \notin Removal
    BY RestIsQuiet DEF Removing
  <1>2. calls[x].op # "detect"
    BY RestIsQuiet
  <1>3. \A K, F : ForgetsAll(calls[x], K, F)
    BY <1>1, NothingForgotten DEF ForgetsAll
  <1>4. QED
    BY <1>2, <1>3 DEF CallNews

\* What the caller did leaves its news right, and that of the others.
LEMMA NewsKept ==
    ASSUME CallsOK, NEW c \in Callers, calls' = [calls EXCEPT ![c] = calls'[c]], News,
           calls'[c] # Idle =>
              CallNews(calls'[c], knownReleases', followingArtists', newReleases', dismissed'),
           \/ \A x \in Callers \ {c} : ~Rewriting(calls[x])
           \/ /\ UNCHANGED <<knownReleases, followingArtists>>
              /\ newReleases \cup dismissed \subseteq newReleases' \cup dismissed'
    PROVE  News'
  <1> DEFINE K == knownReleases
             F == followingArtists
             N == newReleases
             D == dismissed
  <1>1. \A x \in Callers : x # c => calls'[x] = calls[x]
    BY DEF CallsOK
  <1>2. ASSUME NEW x \in Callers \ {c}, calls[x] # Idle
        PROVE  CallNews(calls[x], K', F', N', D')
    <2>1. CallNews(calls[x], K, F, N, D)
      BY <1>2 DEF News, NewsInv
    <2>2. CASE ~Rewriting(calls[x])
      BY <1>2, <2>1, <2>2, NoNewsAtRest DEF CallNews
    <2>3. CASE K' = K /\ F' = F /\ N \cup D \subseteq N' \cup D'
      <3> HIDE DEF K, F, N, D
      <3>1. calls[x].op = "detect" /\ ~calls[x].failed => SearchKeeps(calls[x], K, N', D')
        BY <2>1, <2>3, SearchLooksOn DEF CallNews
      <3>2. QED
        BY <2>1, <2>3, <3>1 DEF CallNews
    <2>4. QED
      BY <2>2, <2>3
  <1>3. QED
    BY <1>1, <1>2 DEF News, NewsInv

LEMMA AnsweredKeepsNews ==
    ASSUME NEW c, NEW q, LibraryInv, At(c, q), Answered(c, q), News, intact'
    PROVE  News'
  <1> DEFINE call == calls[c]
             next == calls'[c]
  <1>1. /\ c \in Callers /\ call # Idle /\ CallsOK /\ OneRewriter(calls)
    BY AnsweredLeaves DEF LibraryInv, At, TypesInv
  <1>2. CallNews(call, knownReleases, followingArtists, newReleases, dismissed)
    BY <1>1 DEF News, NewsInv
  <1>3. calls' = [calls EXCEPT ![c] = next]
    BY AnsweredMoves
  <1>4. AskedFor(next) /\ ForgetsAll(next, knownReleases', followingArtists')
    BY <1>2, AnsweredIsAskedFor, AnsweredForgets DEF CallNews
  <1>5. ASSUME next.op = "detect", ~next.failed
        PROVE  SearchKeeps(next, knownReleases', newReleases', dismissed')
    <2>1. ~Fails(c, q)
      BY <1>5, FailedCall
    <2>2. call.op = "detect" /\ ~call.failed
      BY <1>5, <2>1, AnsweredIsSame, AnsweredMoves
    <2>3. SearchAt(c, q)
      BY <1>2, <2>2 DEF SearchAt, CallNews
    <2>4. QED
      BY <2>1, <2>3, AnsweredKeepsSearch DEF StaysSearch
  <1>6. CallNews(next, knownReleases', followingArtists', newReleases', dismissed')
    BY <1>4, <1>5 DEF CallNews
  <1>7. CASE call.rewrites
    <2>1. \A x \in Callers \ {c} : ~Rewriting(calls[x])
      BY <1>1, <1>7 DEF OneRewriter, Rewriting
    <2>2. QED
      BY <1>1, <1>3, <1>6, <2>1, NewsKept
  <1>8. CASE ~call.rewrites
    <2>1. /\ UNCHANGED <<knownReleases, followingArtists>>
          /\ newReleases \cup dismissed \subseteq newReleases' \cup dismissed'
      BY <1>2, <1>8, LookerKeepsList DEF CallNews
    <2>2. QED
      BY <1>1, <1>3, <1>6, <2>1, NewsKept
  <1>9. QED
    BY <1>7, <1>8

\* What a call does first: it is going to take off the list only what it was asked to.
AsksFirst(op, work, asked) ==
    /\ work.do \in FirstReads /\ (op = "detect" => work.do = "readFollowed")
    /\ work.do = "readShownToRemove" => work.pruned \subseteq asked

LEMMA StartedNow ==
    ASSUME CallsOK, NEW c \in Callers, NEW op, NEW work, NEW asked, Start(c, op, work, asked)
    PROVE  /\ calls'[c].op = op /\ calls'[c].asked = asked /\ calls'[c].stage = "begin"
           /\ calls'[c].news = {} /\ calls'[c].pending = {work}
  <1> DEFINE new == [op |-> op, asked |-> asked, pending |-> {work}, stage |-> "begin",
                     failed |-> FALSE, followed |-> {}, settings |-> "all",
                     known |-> [a \in Artists |-> {}], news |-> {}, fetched |-> {},
                     rewrites |-> op \in Rewrites]
  <1>1. calls' = [calls EXCEPT ![c] = new]
    BY DEF Start
  <1> HIDE DEF new
  <1>2. calls'[c] = new
    BY <1>1, MovedCall
  <1>3. QED
    BY <1>2 DEF new

LEMMA StartAsks ==
    ASSUME CallsOK, NEW c \in Callers, NEW op, NEW work, NEW asked, Start(c, op, work, asked),
           AsksFirst(op, work, asked)
    PROVE  \A K, F, N, D : CallNews(calls'[c], K, F, N, D)
  <1> DEFINE next == calls'[c]
  <1>1. /\ next.op = op /\ next.asked = asked /\ next.stage = "begin" /\ next.news = {}
        /\ next.pending = {work} /\ \A q \in next.pending : q = work
    BY StartedNow
  <1> HIDE DEF next
  <1>2. Taken(work) \subseteq asked /\ Taken(work) \subseteq work.pruned
    BY DEF AsksFirst, FirstReads, Taken
  <1>3. AskedFor(next)
    BY <1>1, <1>2 DEF AskedFor
  <1>4. \A K, F : ForgetsAll(next, K, F)
    BY <1>1, NothingForgotten DEF AsksFirst, FirstReads, Removal, ForgetsAll
  <1>5. ASSUME NEW K, NEW N, NEW D, next.op = "detect"
        PROVE  SearchKeeps(next, K, N, D)
    <2>1. PieceSearches(next, work, K)
      BY <1>1, <1>5 DEF AsksFirst, PieceSearches, Taken
    <2>2. QED
      BY <1>1, <2>1 DEF SearchKeeps
  <1>6. QED
    BY <1>3, <1>4, <1>5 DEF CallNews, next

LEMMA FirstAsked ==
    ASSUME NEW c \in Callers, Starts(c)
    PROVE  \E op, work, asked : Start(c, op, work, asked) /\ AsksFirst(op, work, asked)
  <1>1. \A do, a : Work(do, a).do = do
    BY DEF Work
  <1>2. ASSUME NEW op \in Ops \ {"detect"}, NEW do \in FirstReads \ {"readShownToRemove"}, NEW a, NEW asked
        PROVE  AsksFirst(op, Work(do, a), asked)
    BY <1>1 DEF AsksFirst
  <1>3. \A asked : AsksFirst("detect", Work("readFollowed", None), asked)
    BY <1>1 DEF AsksFirst, FirstReads
  <1>4. ASSUME NEW ids
        PROVE  AsksFirst("dismiss", [Work("readShownToRemove", None) EXCEPT !.pruned = ids], ids)
    <2> DEFINE w == [Work("readShownToRemove", None) EXCEPT !.pruned = ids]
    <2>1. w.do = "readShownToRemove" /\ w.pruned = ids
      BY DEF Work
    <2> HIDE DEF w
    <2>2. AsksFirst("dismiss", w, ids)
      BY <2>1 DEF AsksFirst, FirstReads
    <2>3. QED
      BY <2>2 DEF w
  <1>5. /\ \A a : /\ AsksFirst("follow", Work("readSummary", a), {a})
                  /\ AsksFirst("unfollow", Work("readToUnfollow", a), {a})
                  /\ AsksFirst("details", Work("readSummary", a), {a})
        /\ AsksFirst("refresh", Work("readFollowed", None), {})
        /\ \A r : AsksFirst("verify", Work("checkRelease", None), {r})
        /\ \A s : AsksFirst("settings", Work("readSettings", None), {s})
    BY <1>2 DEF Ops, OneArtist, FirstReads
  <1>6. \/ \E a \in Artists : \/ Start(c, "follow", Work("readSummary", a), {a})
                              \/ Start(c, "unfollow", Work("readToUnfollow", a), {a})
                              \/ Start(c, "details", Work("readSummary", a), {a})
        \/ Start(c, "detect", Work("readFollowed", None), {})
        \/ Start(c, "refresh", Work("readFollowed", None), {})
        \/ \E ids : Start(c, "dismiss", [Work("readShownToRemove", None) EXCEPT !.pruned = ids], ids)
        \/ \E r \in Releases : Start(c, "verify", Work("checkRelease", None), {r})
        \/ \E s \in Settings : Start(c, "settings", Work("readSettings", None), {s})
    BY DEF Starts
  <1>7. QED
    BY <1>3, <1>4, <1>5, <1>6

LEMMA StartsKeepsNews ==
    ASSUME LibraryInv, NEW c \in Callers, Starts(c), News
    PROVE  News'
  <1>1. /\ CallsOK /\ calls' = [calls EXCEPT ![c] = calls'[c]]
        /\ UNCHANGED <<knownReleases, followingArtists, newReleases, dismissed>>
    BY StartsIs DEF LibraryInv, TypesInv, StartsWith, library
  <1>2. PICK op, work, asked : Start(c, op, work, asked) /\ AsksFirst(op, work, asked)
    BY FirstAsked
  <1>3. \A K, F, N, D : CallNews(calls'[c], K, F, N, D)
    BY <1>1, <1>2, StartAsks
  <1>4. QED
    BY <1>1, <1>3, NewsKept

\* What a search merges is what it found, of artists each of which is done with.
LEMMA MergesKeepNews ==
    ASSUME NEW call, NEW next, NEW K, NEW N, NEW D, call.pending = {}, SearchKeeps(call, K, N, D),
           next.stage = "merge", next.news = call.news,
           \A q \in next.pending : q.do = "mergeKnown",
           \A p, q \in next.pending : p.artist = q.artist => p = q
    PROVE  SearchKeeps(next, K, N, D)
  <1>1. \A r \in call.news : r \in N \cup D /\ \E a \in Artists : r \in K[a]
    BY DEF SearchKeeps, IsAboutToBeStored, Settled
  <1>2. \A r \in next.news : r \in N \cup D /\ Settled(next, K, r)
    BY <1>1 DEF Settled, Searching
  <1>3. \A q \in next.pending : PieceSearches(next, q, K)
    BY DEF PieceSearches, Taken
  <1>4. QED
    BY <1>2, <1>3 DEF SearchKeeps

LEMMA GoesOnKeepsNews ==
    ASSUME LibraryInv, NEW c \in Callers, GoesOn(c), News
    PROVE  News'
  <1> DEFINE call == calls[c]
             next == calls'[c]
             K == knownReleases
             F == followingArtists
             N == newReleases
             D == dismissed
  <1>1. /\ call # Idle /\ call.pending = {} /\ calls' = [calls EXCEPT ![c] = next] /\ Shaped(next)
        /\ next.op = call.op /\ next.failed = call.failed /\ next.news = call.news /\ OnlyReads
        /\ CallsOK /\ \A q \in next.pending : q.do \notin Removal
    BY GoesOnIs DEF LibraryInv, TypesInv
  <1>2. K' = K /\ F' = F /\ N' = N /\ D' = D
    BY <1>1 DEF OnlyReads, library, history
  <1>3. CallNews(call, K, F, N, D)
    BY <1>1 DEF News, NewsInv
  <1>4. ForgetsAll(next, K, F)
    BY <1>1, NothingForgotten DEF ForgetsAll
  <1>5. CASE HasNews(c) /\ NextStage(c, "merge", Merges(c))
    <2> DEFINE M(a) == [Work("mergeKnown", a) EXCEPT !.ids = call.news \cap ReleasesBy(a)]
    <2>1. next.pending = Merges(c) /\ next.stage = "merge" /\ next.op = "detect" /\ ~call.failed
      BY <1>1, <1>5, NextStageIs DEF HasNews, IsDone
    <2>2. \A a : M(a).do = "mergeKnown" /\ M(a).artist = a
      BY DEF Work
    <2>3. \A q \in next.pending : \E a : q = M(a)
      BY <2>1 DEF Merges
    <2> HIDE DEF M
    <2>4. /\ \A q \in next.pending : q.do = "mergeKnown"
          /\ \A p, q \in next.pending : p.artist = q.artist => p = q
      BY <2>2, <2>3
    <2> HIDE DEF call, next, K, F, N, D
    <2>5. SearchKeeps(next, K, N, D)
      BY <1>1, <1>3, <2>1, <2>4, MergesKeepNews DEF CallNews
    <2>6. CallNews(next, K, F, N, D)
      BY <1>4, <2>1, <2>5 DEF CallNews, AskedFor
    <2>7. QED
      BY <1>1, <1>2, <2>6, NewsKept DEF call, next, K, F, N, D
  <1>6. CASE HasLookedUp(c) \/ HasRebuilt(c)
    <2>1. call.op \in {"refresh", "settings"}
      BY <1>6 DEF HasLookedUp, HasRebuilt, IsDone
    <2>2. CallNews(next, K, F, N, D)
      BY <1>1, <1>4, <2>1 DEF CallNews, AskedFor
    <2>3. QED
      BY <1>1, <1>2, <2>2, NewsKept
  <1>7. QED
    BY <1>5, <1>6 DEF GoesOn

LEMMA ReturnsKeepsNews ==
    ASSUME LibraryInv, NEW c \in Callers, Returns(c) \/ Tells(c), News
    PROVE  News'
  <1>1. CallsOK
    BY DEF LibraryInv, TypesInv
  <1>2. calls' = [calls EXCEPT ![c] = Idle]
        /\ UNCHANGED <<knownReleases, followingArtists, newReleases, dismissed>>
    BY DEF Returns, Tells, Return, library
  <1>3. calls'[c] = Idle /\ calls' = [calls EXCEPT ![c] = calls'[c]]
    BY <1>1, <1>2, MovedCall
  <1>4. QED
    BY <1>1, <1>2, <1>3, NewsKept

LEMMA NewsStarts == Init => NewsLibrary
  BY LibraryStarts DEF NewsLibrary, News, NewsInv, Init

LEMMA NewsStep == NewsLibrary /\ [Next]_vars => NewsLibrary'
  <1> SUFFICES ASSUME NewsLibrary, [Next]_vars, intact' PROVE News'
    BY LibraryStep DEF NewsLibrary
  <1>1. LibraryInv /\ (intact => News)
    BY DEF NewsLibrary
  <1>2. CASE CatalogChanges
    <2>1. UNCHANGED <<knownReleases, followingArtists, newReleases, dismissed, calls, intact>>
      BY <1>2 DEF CatalogChanges, history, library
    <2>2. QED
      BY <1>1, <2>1 DEF News
  <1>3. ASSUME NEW c \in Callers, Starts(c) PROVE News'
    <2>1. intact
      BY <1>1, <1>3, StartsIs DEF LibraryInv, StartsWith
    <2>2. QED
      BY <1>1, <1>3, <2>1, StartsKeepsNews
  <1>4. ASSUME NEW c \in Callers, calls[c] # Idle, NEW q \in calls[c].pending, Answered(c, q)
        PROVE  News'
    <2>1. At(c, q) /\ intact
      BY <1>1, <1>4, AnsweredLeaves DEF At, LibraryInv
    <2>2. QED
      BY <1>1, <1>4, <2>1, AnsweredKeepsNews
  <1>5. ASSUME NEW c \in Callers, GoesOn(c) PROVE News'
    <2>1. intact
      BY <1>5 DEF GoesOn, NextStage, OnlyReads, history
    <2>2. QED
      BY <1>1, <1>5, <2>1, GoesOnKeepsNews
  <1>6. ASSUME NEW c \in Callers, Tells(c) \/ Returns(c) PROVE News'
    <2>1. intact
      BY <1>6 DEF Tells, Returns
    <2>2. QED
      BY <1>1, <1>6, <2>1, ReturnsKeepsNews
  <1>7. CASE UNCHANGED vars
    BY <1>1, <1>7 DEF vars, library, history, News
  <1>8. QED
    BY <1>2, <1>3, <1>4, <1>5, <1>6, <1>7 DEF Next

\* What the user is told of is on the list of new releases, unless the user removed it
\* meanwhile, as long as no call spoiled another one's work, whatever failed: the
\* removals of what other artists' searches prune leave it there
\* (saveArtistAndKnownReleasesToDb, removePrunedNewReleases).
THEOREM NewsAlwaysStored == Spec => NewsIsStored
  <1>1. ASSUME NewsLibrary, NEW c \in Callers, intact, Tells(c)
        PROVE  calls[c].news \ dismissed \subseteq newReleases
    <2>1. calls[c].op = "detect" /\ calls[c].pending = {} /\ ~calls[c].failed /\ calls[c] # Idle
      BY <1>1, IdleIsNoCall DEF Tells, IsDone
    <2>2. SearchKeeps(calls[c], knownReleases, newReleases, dismissed)
      BY <1>1, <2>1 DEF NewsLibrary, News, NewsInv, CallNews
    <2>3. \A r \in calls[c].news : r \in newReleases \cup dismissed
      BY <2>1, <2>2 DEF SearchKeeps, IsAboutToBeStored
    <2>4. QED
      BY <2>3
  <1>2. NewsLibrary => [\A c \in Callers : intact /\ Tells(c)
                          => calls[c].news \ dismissed \subseteq newReleases]_vars
    BY <1>1
  <1>3. Spec => []NewsLibrary
    BY NewsStarts, NewsStep, PTL DEF Spec
  <1>4. QED
    BY <1>2, <1>3, PTL DEF NewsIsStored

\* A release disappears from the list of new ones because it was asked for, because it is
\* put there at once, or because no artist the user follows has it any more, as long as
\* no call spoiled another one's work and no request failed
\* (removeUnfollowedArtistNewReleases, removePrunedNewReleases).
THEOREM RemovedAlwaysForAReason == Spec => RemovedForAReason
  <1> DEFINE Reason(r) == \/ \E c \in Callers : calls[c] # Idle /\ IsAskedToRemove(calls[c], r)
                          \/ \E c \in Callers : calls[c] # Idle /\ IsAboutToBeStored(calls[c], r)
                          \/ \A a \in followingArtists : r \notin knownReleases[a]
  <1>1. ASSUME NewsLibrary, NEW c \in Callers, calls[c] # Idle, NEW q \in calls[c].pending,
               Answered(c, q), intact', failures' = 0, NEW r \in newReleases \ newReleases'
        PROVE  Reason(r)
    <2>1. /\ At(c, q) /\ LibraryInv
      BY <1>1 DEF NewsLibrary, LibraryInv, At
    <2>2. intact /\ failures = 0
      BY <1>1, <2>1, AnsweredLeaves, NoFailureBefore
    <2>3. WritesShown(c, q)
      BY <1>1, AnsweredLeaves
    <2>4. /\ q.shown = newReleases /\ newReleases' = q.ids
          /\ q.do \in {"writeShown", "writeShownToUnfollow"}
      BY <1>1, <2>3 DEF WritesShown, WriteNewReleases
    <2>5. r \in Taken(q) /\ r \in q.shown \ q.ids
      BY <1>1, <2>4 DEF Taken
    <2>6. /\ AskedFor(calls[c]) /\ Forgets(q, knownReleases, followingArtists)
          /\ calls[c].op = "detect" /\ ~calls[c].failed
               => SearchKeeps(calls[c], knownReleases, newReleases, dismissed)
      BY <1>1, <2>2 DEF NewsLibrary, News, NewsInv, CallNews, ForgetsAll
    <2>7. ~calls[c].failed /\ followingArtists \subseteq Artists
      BY <1>1, <2>1, <2>2 DEF LibraryInv, TypesInv, LibraryOK
    <2>8. CASE q.do = "writeShownToUnfollow"
      BY <2>5, <2>6, <2>8 DEF Forgets
    <2>9. CASE q.do = "writeShown"
      <3>1. calls[c].op \in {"detect", "dismiss", "verify", "settings"}
        BY <2>1, <2>9, AtIs DEF PieceShaped, Takes, CallRecord, Ops, OneArtist, UnfollowSteps, Removal,
           FollowSteps, RefreshSteps
      <3>2. CASE calls[c].op \in {"dismiss", "verify"}
        <4>1. r \in calls[c].asked
          BY <1>1, <2>5, <2>6, <3>2 DEF AskedFor
        <4>2. QED
          BY <1>1, <3>2, <4>1 DEF IsAskedToRemove
      <3>3. CASE calls[c].op = "settings"
        BY <1>1, <3>3 DEF IsAskedToRemove
      <3>4. CASE calls[c].op = "detect"
        <4>1. PieceSearches(calls[c], q, knownReleases)
          BY <1>1, <2>6, <2>7, <3>4 DEF SearchKeeps
        <4>2. IsAboutToBeStored(calls[c], r) \/ NoneKnows(knownReleases, r)
          BY <2>5, <4>1 DEF PieceSearches
        <4>3. QED
          BY <1>1, <2>7, <4>2 DEF NoneKnows
      <3>5. QED
        BY <3>1, <3>2, <3>3, <3>4
    <2>10. QED
      BY <2>4, <2>8, <2>9
  <1>2. ASSUME NewsLibrary, Next, intact', failures' = 0, NEW r \in newReleases \ newReleases'
        PROVE  Reason(r)
    <2>1. CASE CatalogChanges
      BY <1>2, <2>1 DEF CatalogChanges, library
    <2>2. ASSUME NEW c \in Callers, Starts(c) PROVE Reason(r)
      <3>1. newReleases' = newReleases
        BY <1>2, <2>2, StartsIs DEF NewsLibrary, LibraryInv, library
      <3>2. QED
        BY <1>2, <3>1
    <2>3. ASSUME NEW c \in Callers, GoesOn(c) \/ Tells(c) \/ Returns(c) PROVE Reason(r)
      <3>1. newReleases' = newReleases
        BY <2>3 DEF GoesOn, NextStage, OnlyReads, Tells, Returns, library
      <3>2. QED
        BY <1>2, <3>1
    <2>4. ASSUME NEW c \in Callers, calls[c] # Idle, NEW q \in calls[c].pending, Answered(c, q)
          PROVE  Reason(r)
      BY <1>1, <1>2, <2>4
    <2> HIDE DEF Reason
    <2>5. QED
      BY <1>2, <2>1, <2>2, <2>3, <2>4 DEF Next
  <1>3. NewsLibrary /\ [Next]_vars =>
           [intact' /\ failures' = 0 => \A r \in newReleases \ newReleases' : Reason(r)]_vars
    <2> HIDE DEF Reason
    <2>1. QED
      BY <1>2
  <1>4. Spec => []NewsLibrary
    BY NewsStarts, NewsStep, PTL DEF Spec
  <1>5. QED
    BY <1>3, <1>4, PTL DEF RemovedForAReason, Spec

-----------------------------------------------------------------------------
(* Who needs what.                                                          *)

\* A call that does not rewrite needs nothing of it and rebuilds nobody.
LEMMA RestIsUnfamiliar ==
    ASSUME CallsOK, NEW x \in Callers, calls[x] # Idle, ~calls[x].rewrites
    PROVE  /\ \A K, F, U, S, O : CallFamiliar(calls[x], K, F, U, S, O)
           /\ \A a : ~IsRebuilding(calls[x], a)
  <1>1. calls[x].op \notin {"follow", "detect", "settings"}
    BY DEF CallsOK, Shaped, Rewrites
  <1>2. QED
    BY <1>1 DEF CallFamiliar, FamiliarPiece, IsRebuilding

LEMMA IdleRebuildsNone == \A a : ~IsRebuilding(Idle, a)
  BY IdleIsNoCall DEF IsRebuilding

\* The only call that rewrites, or none does.
AloneRewrites(c) == \A x \in Callers \ {c} : ~Rewriting(calls[x])

LEMMA AloneRebuilds ==
    ASSUME CallsOK, NEW c \in Callers, AloneRewrites(c), Fam
    PROVE  KnownOrRebuilt(calls[c], knownReleases, followingArtists, familiar, settings, old)
  <1>1. \A x \in Callers \ {c} : \A a : ~IsRebuilding(calls[x], a)
    <2>1. ASSUME NEW x \in Callers \ {c} PROVE \A a : ~IsRebuilding(calls[x], a)
      <3>1. CASE calls[x] = Idle
        BY <3>1, IdleRebuildsNone
      <3>2. CASE calls[x] # Idle
        BY <3>2, RestIsUnfamiliar DEF AloneRewrites, Rewriting
      <3>3. QED
        BY <3>1, <3>2
    <2>2. QED
      BY <2>1
  <1>2. QED
    BY <1>1 DEF Fam, FamiliarInv, KnownOrRebuilt

LEMMA FamiliarKept ==
    ASSUME CallsOK, NEW c \in Callers, calls' = [calls EXCEPT ![c] = calls'[c]], Fam,
           calls'[c] # Idle => CallFamiliar(calls'[c], knownReleases', followingArtists', familiar',
                                            settings', old'),
           \/ /\ AloneRewrites(c)
              /\ KnownOrRebuilt(calls'[c], knownReleases', followingArtists', familiar', settings', old')
           \/ /\ UNCHANGED <<knownReleases, followingArtists, familiar, settings, old>>
              /\ \A a : ~IsRebuilding(calls[c], a)
    PROVE  Fam'
  <1> DEFINE K == knownReleases
             F == followingArtists
             U == familiar
             S == settings
             O == old
  <1>1. \A x \in Callers : x # c => calls'[x] = calls[x]
    BY DEF CallsOK
  <1>2. CASE /\ AloneRewrites(c)
             /\ KnownOrRebuilt(calls'[c], K', F', U', S', O')
    <2>1. ASSUME NEW x \in Callers \ {c}, calls[x] # Idle
          PROVE  CallFamiliar(calls[x], K', F', U', S', O')
      BY <1>2, <2>1, RestIsUnfamiliar DEF AloneRewrites, Rewriting
    <2>2. QED
      BY <1>1, <1>2, <2>1 DEF Fam, FamiliarInv, KnownOrRebuilt
  <1>3. CASE /\ K' = K /\ F' = F /\ U' = U /\ S' = S /\ O' = O
             /\ \A a : ~IsRebuilding(calls[c], a)
    <2>1. \A a \in F : KnowsFamiliar(a, K, U, S, O) \/ \E x \in Callers \ {c} : IsRebuilding(calls[x], a)
      BY <1>3 DEF Fam, FamiliarInv
    <2>2. \A a \in F : KnowsFamiliar(a, K, U, S, O) \/ \E x \in Callers : IsRebuilding(calls'[x], a)
      BY <1>1, <2>1
    <2>3. \A x \in Callers : calls'[x] # Idle => CallFamiliar(calls'[x], K, F, U, S, O)
      BY <1>1, <1>3 DEF Fam, FamiliarInv
    <2>4. QED
      BY <1>3, <2>2, <2>3 DEF Fam, FamiliarInv
  <1>4. QED
    BY <1>2, <1>3

-----------------------------------------------------------------------------
(* The call that rewrites: who knows what the user is familiar with.        *)

FamiliarAt(c, q) ==
    /\ At(c, q) /\ intact'
    /\ CallFamiliar(calls[c], knownReleases, followingArtists, familiar, settings, old)
    /\ KnownOrRebuilt(calls[c], knownReleases, followingArtists, familiar, settings, old)
    /\ Forgets(q, knownReleases, followingArtists)

StaysKnown(c) ==
    KnownOrRebuilt(calls'[c], knownReleases', followingArtists', familiar', settings', old')

LEMMA FamiliarAtIs ==
    ASSUME NEW c, NEW q, FamiliarAt(c, q)
    PROVE  /\ calls[c] \in CallRecord /\ Shaped(calls[c]) /\ q \in calls[c].pending
           /\ q \in Piece /\ PieceShaped(calls[c], q) /\ LibraryOK /\ WorldOK /\ familiar \subseteq Releases
           /\ FamiliarPiece(calls[c], q, knownReleases, familiar, settings, old)
           /\ c \in Callers /\ CallsOK
           /\ calls[c].op = "detect" =>
                 FamiliarSearch(calls[c], knownReleases, followingArtists, familiar, settings)
           /\ calls[c].op # "settings" =>
                 \A a \in followingArtists : KnowsFamiliar(a, knownReleases, familiar, settings, old)
  <1>1. At(c, q) /\ TypesInv /\ q \in calls[c].pending /\ c \in Callers
    BY DEF FamiliarAt, At
  <1>2. /\ calls[c] \in CallRecord /\ Shaped(calls[c]) /\ q \in Piece /\ PieceShaped(calls[c], q)
        /\ LibraryOK /\ WorldOK /\ familiar \subseteq Releases /\ CallsOK
    BY <1>1, AtIs DEF TypesInv, HistoryOK
  <1>3. FamiliarPiece(calls[c], q, knownReleases, familiar, settings, old)
    BY <1>1 DEF FamiliarAt, CallFamiliar
  <1>4. calls[c].op = "detect" =>
           FamiliarSearch(calls[c], knownReleases, followingArtists, familiar, settings)
    BY DEF FamiliarAt, CallFamiliar
  <1>5. calls[c].op # "settings" =>
           \A a \in followingArtists : KnowsFamiliar(a, knownReleases, familiar, settings, old)
    BY DEF FamiliarAt, KnownOrRebuilt, IsRebuilding
  <1>6. QED
    BY <1>1, <1>2, <1>3, <1>4, <1>5

\* Nobody is followed who was not, the user is familiar with nothing more, and nothing is
\* forgotten that the user is still familiar with.
Remembers(K, F, U, K2, F2, U2) ==
    /\ F2 \subseteq F /\ U2 \subseteq U
    /\ \A a \in F2 : \A r \in K[a] \cap U2 : r \in K2[a]

LEMMA StillKnown ==
    ASSUME NEW K, NEW F, NEW U, NEW K2, NEW F2, NEW U2, NEW S, NEW O, Remembers(K, F, U, K2, F2, U2),
           \A a \in F : KnowsFamiliar(a, K, U, S, O)
    PROVE  \A a \in F2 : KnowsFamiliar(a, K2, U2, S, O)
  BY DEF Remembers, KnowsFamiliar

\* An artist's entry becomes what its list holds, and the user is familiar with that.
LEMMA AcquaintedKnown ==
    ASSUME NEW q, q.artist \in Artists, LibraryOK, familiar \subseteq Releases, q.found \subseteq Releases,
           NEW K2, K2 = [knownReleases EXCEPT ![q.artist] = q.found], NEW S, NEW O
    PROVE  /\ KnowsFamiliar(q.artist, K2, Acquainted(q), S, O)
           /\ \A a \in followingArtists :
                 KnowsFamiliar(a, knownReleases, familiar, S, O) => KnowsFamiliar(a, K2, Acquainted(q), S, O)
  <1>1. K2[q.artist] = q.found /\ \A a \in Artists : a # q.artist => K2[a] = knownReleases[a]
    BY DEF LibraryOK
  <1>2. KnowsFamiliar(q.artist, K2, Acquainted(q), S, O)
    BY <1>1 DEF KnowsFamiliar, Acquainted, ReleasesBy
  <1>3. ASSUME NEW a \in followingArtists, a # q.artist, KnowsFamiliar(a, knownReleases, familiar, S, O)
        PROVE  KnowsFamiliar(a, K2, Acquainted(q), S, O)
    <2>1. K2[a] = knownReleases[a]
      BY <1>1, <1>3 DEF LibraryOK
    <2>2. ASSUME NEW r \in Acquainted(q) \cap ReleasesBy(a)
          PROVE  r \in knownReleases[a] \/ r \in Outside(S, O)
      <3>1. CASE r \in familiar
        BY <1>3, <2>2, <3>1 DEF KnowsFamiliar
      <3>2. CASE r \notin familiar
        BY <1>3, <2>2, <3>2 DEF Acquainted, ReleasesBy
      <3>3. QED
        BY <3>1, <3>2
    <2>3. QED
      BY <2>1, <2>2 DEF KnowsFamiliar
  <1>4. QED
    BY <1>2, <1>3

LEMMA AnsweredStaysKnown ==
    ASSUME NEW c, NEW q, FamiliarAt(c, q), calls[c].op # "settings", Answered(c, q)
    PROVE  /\ \A a \in followingArtists' : KnowsFamiliar(a, knownReleases', familiar', settings', old')
           /\ settings' = settings /\ old' = old
  <1> DEFINE K == knownReleases
             F == followingArtists
             U == familiar
             S == settings
             O == old
  <1>1. /\ q \in Piece /\ PieceShaped(calls[c], q) /\ LibraryOK /\ U \subseteq Releases
        /\ FamiliarPiece(calls[c], q, K, U, S, O) /\ Forgets(q, K, F)
        /\ \A a \in F : KnowsFamiliar(a, K, U, S, O)
    BY FamiliarAtIs DEF FamiliarAt
  <1>2. K \in [Artists -> SUBSET Releases] /\ F \subseteq Artists
    BY <1>1 DEF LibraryOK
  <1>3. q.do \notin SettingsReads \cup {"rebuild", "replaceRebuilt", "readOutside", "rollBack"}
    BY <1>1, AtIs DEF FamiliarAt, PieceShaped, Takes, CallRecord, Ops, OneArtist, FollowSteps, UnfollowSteps,
       Removal, RefreshSteps, DetectReads, SearchSteps, DismissSteps, VerifySteps, SettingsReads
  <1>4. S' = S /\ O' = O
    BY <1>3, AnsweredLeaves DEF SettingsReads
  <1>5. ASSUME Remembers(K, F, U, K', F', U')
        PROVE  \A a \in F' : KnowsFamiliar(a, K', U', S, O)
    <2> HIDE DEF K, F, U, S, O
    <2>1. QED
      BY <1>1, <1>5, StillKnown
  <1>6. CASE ReplacesKnown(c, q)
    <2>1. /\ K' = [K EXCEPT ![q.artist] = q.ids] /\ F' = F /\ q.do = "replaceKnown"
          /\ U' = IF calls[c].op = "detect" THEN U ELSE Acquainted(q)
      BY <1>6 DEF ReplacesKnown
    <2>2. q.artist \in Artists /\ calls[c].op \in {"follow", "detect"}
      BY <1>1, <2>1, AtIs DEF FamiliarAt, PieceShaped, ArtistSteps, FollowSteps, Takes, CallRecord, Ops,
         OneArtist, UnfollowSteps, Removal, RefreshSteps, DismissSteps, VerifySteps
    <2>3. CASE calls[c].op = "follow"
      <3>1. q.found = q.ids /\ q.found \subseteq Releases
        BY <1>1, <2>1, <2>3 DEF FamiliarPiece, Piece
      <3>2. K' = [K EXCEPT ![q.artist] = q.found] /\ U' = Acquainted(q)
        BY <2>1, <2>3, <3>1
      <3>3. \A a \in F : KnowsFamiliar(a, K', U', S, O)
        BY <1>1, <2>2, <3>1, <3>2, AcquaintedKnown
      <3>4. QED
        BY <1>4, <2>1, <3>3
    <2>4. CASE calls[c].op = "detect"
      <3>1. \A r \in U \cap ReleasesBy(q.artist) : r \in q.ids \/ r \in Outside(S, O)
        BY <1>1, <2>1, <2>4 DEF FamiliarPiece
      <3>2. K'[q.artist] = q.ids /\ \A a \in Artists : a # q.artist => K'[a] = K[a]
        BY <1>2, <2>1, <2>2
      <3>3. \A a \in F : KnowsFamiliar(a, K', U, S, O)
        BY <1>1, <1>2, <3>1, <3>2 DEF KnowsFamiliar
      <3>4. QED
        BY <1>4, <2>1, <2>4, <3>3
    <2>5. QED
      BY <2>2, <2>3, <2>4
  <1>7. CASE WritesFollow(c, q)
    <2>1. F' = F \cup {q.artist} /\ K' = K /\ U' = U /\ q.do = "writeFollow"
      BY <1>7 DEF WritesFollow, WriteFollowing, FamiliarAt
    <2>2. calls[c].op \in {"follow", "detect"}
      BY <1>1, <2>1, AtIs DEF FamiliarAt, PieceShaped, FollowSteps, Takes, CallRecord, Ops,
         OneArtist, UnfollowSteps, Removal, RefreshSteps, DismissSteps, VerifySteps
    <2>3. KnowsFamiliar(q.artist, K, U, S, O)
      <3>1. CASE calls[c].op = "follow"
        BY <1>1, <2>1, <3>1 DEF FamiliarPiece
      <3>2. CASE calls[c].op = "detect"
        <4>1. calls[c].stage # "begin" /\ q.artist \in calls[c].followed
          BY <1>1, <2>1, <3>2 DEF PieceShaped, DetectReads
        <4>2. q.artist \in F
          BY <3>2, <4>1, FamiliarAtIs DEF FamiliarSearch
        <4>3. QED
          BY <1>1, <4>2
      <3>3. QED
        BY <2>2, <3>1, <3>2
    <2>4. QED
      BY <1>1, <1>4, <2>1, <2>3
  <1>8. CASE WritesUnfollow(c, q)
    <2>1. F' = F \ {q.artist} /\ K' = K /\ U' = U
      BY <1>8 DEF WritesUnfollow, WriteFollowing, FamiliarAt
    <2>2. QED
      BY <1>4, <1>5, <2>1 DEF Remembers
  <1>9. CASE DeletesKnown(c, q)
    <2>1. F' = F /\ K' = [K EXCEPT ![q.artist] = {}] /\ U' = U /\ q.do = "deleteKnown"
      BY <1>9 DEF DeletesKnown
    <2>2. q.artist \notin F
      BY <1>1, <2>1 DEF Forgets, Removal
    <2>3. QED
      BY <1>2, <1>4, <1>5, <2>1, <2>2 DEF Remembers
  <1>10. CASE Searches(c, q)
    <2>1. F' = F /\ K' = K /\ U' \subseteq U
      BY <1>10 DEF Searches, StillFamiliar, library
    <2>2. QED
      BY <1>4, <1>5, <2>1 DEF Remembers
  <1>11. CASE MergesKnown(c, q)
    <2>1. F' = F /\ K' = [K EXCEPT ![q.artist] = @ \cup q.ids] /\ U' = U
      BY <1>11 DEF MergesKnown, history
    <2>2. QED
      BY <1>2, <1>4, <1>5, <2>1 DEF Remembers
  <1>12. CASE RemovesKnown(c, q)
    <2>1. /\ F' = F /\ U' = U \ calls[c].asked
          /\ K' = [a \in Artists |-> K[a] \ (calls[c].known[a] \cap calls[c].asked)]
      BY <1>12 DEF RemovesKnown
    <2>2. QED
      BY <1>2, <1>4, <1>5, <2>1 DEF Remembers
  <1>13. CASE \/ ReadsToFollow(c, q) \/ StoresNews(c, q) \/ ReadsToUnfollow(c, q)
              \/ ReadsShownToUnfollow(c, q) \/ ReadsKnownToUnfollow(c, q) \/ WritesShown(c, q)
              \/ ReadsShown(c, q) \/ ReadsKnown(c, q) \/ ReadsShownToRemove(c, q)
              \/ ReadsFollowed(c, q) \/ ReadsDetectSettings(c, q) \/ ReadsAllKnown(c, q)
              \/ ReadsSummary(c, q) \/ ListsReleases(c, q) \/ ReadsToRefresh(c, q) \/ WritesRefresh(c, q)
              \/ ChecksRelease(c, q) \/ ReadsAllEntries(c, q) \/ ReadsShownToVerify(c, q) \/ Fails(c, q)
    <2>1. K' = K /\ F' = F /\ U' = U
      BY <1>13 DEF FamiliarAt, ReadsToFollow, StoresNews, ReadsToUnfollow, ReadsShownToUnfollow,
         ReadsKnownToUnfollow, WritesShown, ReadsShown, ReadsKnown, ReadsShownToRemove, ReadsFollowed,
         ReadsDetectSettings, ReadsAllKnown, ReadsSummary, ListsReleases, ReadsToRefresh, WritesRefresh,
         ChecksRelease, ReadsAllEntries, ReadsShownToVerify, Fails, OnlyReads, library, history,
         WriteFollowing, Refreshed
    <2>2. QED
      BY <1>1, <1>4, <2>1
  <1>14. QED
    BY <1>3, <1>4, <1>6, <1>7, <1>8, <1>9, <1>10, <1>11, <1>12, <1>13 DEF Answered, SettingsReads,
       ReadsSettings, SavesSettings, ListsToRebuild, ReplacesRebuilt, ReadsOutside, RollsBack

-----------------------------------------------------------------------------
(* A change of settings.                                                    *)

StaysFamiliar(c) ==
    /\ CallFamiliar(calls'[c], knownReleases', followingArtists', familiar', settings', old')
    /\ StaysKnown(c)

\* Pieces of a change of settings.
RebuildFits(q) == (q.do = "replaceRebuilt" => q.found = q.ids) /\ q.do # "rollBack"

LEMMA SettingsStay ==
    ASSUME NEW c, NEW q, FamiliarAt(c, q), calls[c].op = "settings", NEW more, Goes(c, q, more),
           \A p \in more : RebuildFits(p), StaysKnown(c)
    PROVE  StaysFamiliar(c)
  <1> DEFINE call == calls[c]
             next == calls'[c]
  <1>1. next.op = "settings" /\ next.pending = (call.pending \ {q}) \cup more
    BY DEF Goes
  <1>2. \A p \in call.pending : RebuildFits(p)
    BY DEF FamiliarAt, CallFamiliar, FamiliarPiece, RebuildFits
  <1>3. \A p \in next.pending : RebuildFits(p)
    BY <1>1, <1>2
  <1>4. QED
    BY <1>1, <1>3 DEF StaysFamiliar, CallFamiliar, FamiliarPiece, RebuildFits

\* As long as no other piece is done, and what is known stays.
LEMMA RebuildsOn ==
    ASSUME NEW c, NEW q, FamiliarAt(c, q), calls[c].op = "settings", NEW more, Goes(c, q, more),
           UNCHANGED <<knownReleases, followingArtists, familiar, settings, old>>,
           \A a \in followingArtists : q.do = "readFollowed" \/
               (q.do \in {"rebuild", "replaceRebuilt"} /\ q.artist = a) => IsRebuilding(calls'[c], a)
    PROVE  StaysKnown(c)
  <1> DEFINE call == calls[c]
             next == calls'[c]
  <1>1. next.op = "settings" /\ next.pending = (call.pending \ {q}) \cup more
    BY DEF Goes
  <1>2. ASSUME NEW a \in followingArtists, IsRebuilding(call, a)
        PROVE  IsRebuilding(next, a)
    <2>1. PICK x \in call.pending :
             x.do = "readFollowed" \/ (x.do \in {"rebuild", "replaceRebuilt"} /\ x.artist = a)
      BY <1>2 DEF IsRebuilding
    <2>2. CASE x = q
      BY <2>1, <2>2
    <2>3. CASE x # q
      BY <1>1, <2>1, <2>3 DEF IsRebuilding
    <2>4. QED
      BY <2>2, <2>3
  <1>3. QED
    BY <1>2 DEF FamiliarAt, StaysKnown, KnownOrRebuilt

LEMMA ReplacesRebuiltFamiliar ==
    ASSUME NEW c, NEW q, FamiliarAt(c, q), calls[c].op = "settings", ReplacesRebuilt(c, q)
    PROVE  StaysFamiliar(c)
  <1> DEFINE call == calls[c]
             next == calls'[c]
             K == knownReleases
             F == followingArtists
             U == familiar
             S == settings
             O == old
             none == {}
  <1>1. /\ q \in Piece /\ PieceShaped(call, q) /\ LibraryOK /\ U \subseteq Releases /\ q.do = "replaceRebuilt"
        /\ FamiliarPiece(call, q, K, U, S, O) /\ At(c, q)
    BY FamiliarAtIs DEF FamiliarAt, ReplacesRebuilt
  <1>2. q.found = q.ids /\ q.found \subseteq Releases /\ q.artist \in Artists
    BY <1>1 DEF FamiliarPiece, Piece, PieceShaped, ArtistSteps
  <1>3. /\ K' = [K EXCEPT ![q.artist] = q.found] /\ U' = Acquainted(q) /\ Continue(c, q, none)
        /\ F' = F /\ S' = S /\ O' = O
    BY <1>2 DEF ReplacesRebuilt, world
  <1>4. /\ KnowsFamiliar(q.artist, K', U', S, O)
        /\ \A a \in F : KnowsFamiliar(a, K, U, S, O) => KnowsFamiliar(a, K', U', S, O)
    BY <1>1, <1>2, <1>3, AcquaintedKnown
  <1>5. Goes(c, q, none)
    BY <1>1, <1>3, ContinuesInShape
  <1>6. next.op = "settings" /\ next.pending = call.pending \ {q}
    BY <1>5 DEF Goes
  <1>7. ASSUME NEW a \in F PROVE KnowsFamiliar(a, K', U', S, O) \/ IsRebuilding(next, a)
    <2>1. CASE KnowsFamiliar(a, K, U, S, O) \/ a = q.artist
      BY <1>4, <2>1
    <2>2. CASE IsRebuilding(call, a) /\ a # q.artist
      <3>1. PICK x \in call.pending :
               x.do = "readFollowed" \/ (x.do \in {"rebuild", "replaceRebuilt"} /\ x.artist = a)
        BY <2>2 DEF IsRebuilding
      <3>2. x # q
        BY <1>1, <2>2, <3>1
      <3>3. QED
        BY <1>6, <3>1, <3>2 DEF IsRebuilding
    <2>3. QED
      BY <2>1, <2>2 DEF FamiliarAt, KnownOrRebuilt
  <1>8. StaysKnown(c)
    BY <1>3, <1>7 DEF StaysKnown, KnownOrRebuilt
  <1>9. QED
    BY <1>5, <1>8, SettingsStay

LEMMA ListsToRebuildFamiliar ==
    ASSUME NEW c, NEW q, FamiliarAt(c, q), calls[c].op = "settings", ListsToRebuild(c, q)
    PROVE  StaysFamiliar(c)
  <1> DEFINE call == calls[c]
             next == calls'[c]
  <1>1. /\ q \in Piece /\ PieceShaped(call, q) /\ q.do = "rebuild" /\ Shaped(call) /\ At(c, q)
        /\ Found(q.artist) \subseteq Releases
    BY FamiliarAtIs, FoundIsOfReleases DEF FamiliarAt, ListsToRebuild
  <1>2. PICK t \in Settings : call.asked = {t}
    BY <1>1 DEF Shaped
  <1> DEFINE found == Found(q.artist) \cap Matches(t)
             ids == Rebuilt(call, Found(q.artist))
             p == [Then(q, "replaceRebuilt") EXCEPT !.found = found, !.ids = ids]
             more == {p}
  <1>3. Continue(c, q, more)
    BY <1>2 DEF ListsToRebuild
  <1>4. found = ids /\ ids \subseteq Releases
    BY <1>1, <1>2 DEF Rebuilt
  <1> HIDE DEF found, ids
  <1>5. p \in Piece /\ p.do = "replaceRebuilt" /\ p.artist = q.artist /\ p.found = p.ids
    BY <1>1, <1>4, StepsAre DEF Piece, Then
  <1> HIDE DEF p
  <1>6. more \in SUBSET Piece /\ p \in more /\ \A x \in more : x = p
    BY <1>5
  <1> HIDE DEF more
  <1>7. PICK p2 : Goes(c, q, {p2})
    BY <1>1, ListsToRebuildGoes
  <1>8. next.pending = (call.pending \ {q}) \cup more
    BY <1>1, <1>3, <1>6, ContinuedCall
  <1>9. Goes(c, q, more)
    BY <1>7, <1>8 DEF Goes
  <1>10. IsRebuilding(next, q.artist)
    BY <1>5, <1>6, <1>9 DEF IsRebuilding, Goes
  <1>11. UNCHANGED <<knownReleases, followingArtists, familiar, settings, old>>
    BY DEF ListsToRebuild, library, world
  <1>12. StaysKnown(c)
    BY <1>1, <1>9, <1>10, <1>11, RebuildsOn
  <1>13. \A x \in more : RebuildFits(x)
    BY <1>5, <1>6 DEF RebuildFits
  <1>14. QED
    BY <1>9, <1>12, <1>13, SettingsStay

LEMMA SettingsFamiliar ==
    ASSUME NEW c, NEW q, FamiliarAt(c, q), calls[c].op = "settings", Answered(c, q)
    PROVE  StaysFamiliar(c)
  <1> DEFINE call == calls[c]
             next == calls'[c]
  <1>1. /\ PieceShaped(call, q) /\ At(c, q) /\ q.do # "rollBack" /\ Shaped(call) /\ q \in call.pending
        /\ followingArtists \subseteq Artists /\ q \in Piece
    BY FamiliarAtIs DEF FamiliarAt, FamiliarPiece, LibraryOK
  <1>2. q.do \in SettingsReads \cup SettingsSteps
    BY <1>1 DEF PieceShaped, Takes
  <1>3. ~Fails(c, q)
    BY DEF Fails, FamiliarAt
  <1>4. CASE ReplacesRebuilt(c, q)
    BY <1>4, ReplacesRebuiltFamiliar
  <1>5. CASE ListsToRebuild(c, q)
    BY <1>5, ListsToRebuildFamiliar
  <1>6. CASE ReadsFollowed(c, q)
    <2> DEFINE W(a) == Work("rebuild", a)
               more == {W(a) : a \in followingArtists}
    <2>1. Continue(c, q, more) /\ UNCHANGED <<knownReleases, followingArtists, familiar, settings, old>>
      BY <1>6 DEF ReadsFollowed, OnlyReads, library, world, history
    <2>2. \A a \in followingArtists : W(a) \in Piece /\ W(a).do = "rebuild" /\ W(a).artist = a
      BY <1>1, StepsAre, WorkIs
    <2> HIDE DEF W
    <2>3. more \in SUBSET Piece /\ (\A p \in more : p.do = "rebuild") /\ \A a \in followingArtists : W(a) \in more
      BY <2>2
    <2> HIDE DEF more
    <2>4. PICK m2 : Goes(c, q, m2)
      BY <1>1, <1>6, ReadsFollowedGoes
    <2>5. next.pending = (call.pending \ {q}) \cup more
      BY <1>1, <2>1, <2>3, ContinuedCall
    <2>6. Goes(c, q, more)
      BY <2>4, <2>5 DEF Goes
    <2>7. \A a \in followingArtists : IsRebuilding(next, a)
      BY <2>2, <2>3, <2>6 DEF IsRebuilding, Goes
    <2>8. StaysKnown(c)
      BY <2>1, <2>6, <2>7, RebuildsOn
    <2>9. QED
      BY <2>3, <2>6, <2>8, SettingsStay DEF RebuildFits
  <1>7. CASE ReadsSettings(c, q)
    <2>1. PICK p : Goes(c, q, {p}) /\ p.do = "saveSettings"
      BY <1>1, <1>7, ReadsSettingsGoes
    <2>2. UNCHANGED <<knownReleases, followingArtists, familiar, settings, old>> /\ q.do = "readSettings"
      BY <1>7 DEF ReadsSettings, OnlyReads, library, world, history
    <2>3. StaysKnown(c)
      BY <2>1, <2>2, RebuildsOn
    <2>4. QED
      BY <2>1, <2>3, SettingsStay DEF RebuildFits
  <1>8. CASE SavesSettings(c, q)
    <2>1. PICK p : Goes(c, q, {p}) /\ p.do = "readFollowed"
      BY <1>1, <1>8, SavesSettingsGoes
    <2>2. \A a : IsRebuilding(next, a)
      BY <2>1 DEF Goes, IsRebuilding
    <2>3. StaysKnown(c)
      BY <2>2 DEF StaysKnown, KnownOrRebuilt
    <2>4. QED
      BY <2>1, <2>3, SettingsStay DEF RebuildFits
  <1>9. CASE ReadsOutside(c, q) \/ WritesShown(c, q)
    <2> DEFINE X(ids) == [Then(q, "writeShown") EXCEPT !.shown = newReleases, !.ids = ids]
    <2>1. PICK more : Plain(c, q, more)
      BY <1>1, <1>9, PlainAnswerIs DEF PlainAnswer
    <2>2. UNCHANGED <<knownReleases, followingArtists, familiar, settings, old>>
      BY <1>9 DEF ReadsOutside, WritesShown, OnlyReads, library, world, history
    <2>3. q.do \in {"readOutside", "writeShown"}
      BY <1>2, <1>9 DEF ReadsOutside, WritesShown, SettingsReads, SettingsSteps
    <2>4. PICK m2 \in SUBSET Piece : Continue(c, q, m2) /\ \A p \in m2 : p.do = "writeShown"
      <3>1. CASE WritesShown(c, q)
        <4>1. Continue(c, q, {})
          BY <2>3, <3>1 DEF WritesShown
        <4>2. QED
          BY <4>1
      <3>2. CASE ReadsOutside(c, q)
        <4>1. PICK s \in calls[c].asked :
                 \/ Continue(c, q, {})
                 \/ Continue(c, q, {X(newReleases \cap Matches(s))})
          BY <3>2 DEF ReadsOutside
        <4>2. newReleases \subseteq Releases
          BY <1>1 DEF At, TypesInv, LibraryOK
        <4>3. \A ids \in SUBSET newReleases : X(ids) \in Piece /\ X(ids).do = "writeShown"
          BY <1>1, <4>2, StepsAre DEF Piece, Then
        <4> HIDE DEF X
        <4>4. QED
          BY <4>1, <4>3
      <3>3. QED
        BY <1>9, <3>1, <3>2
    <2>5. Goes(c, q, m2)
      <3>1. next.pending = (call.pending \ {q}) \cup m2
        BY <1>1, <2>4, ContinuedCall
      <3>2. QED
        BY <2>1, <3>1 DEF Plain, Goes
    <2>6. StaysKnown(c)
      BY <2>2, <2>3, <2>5, RebuildsOn
    <2>7. QED
      BY <2>4, <2>5, <2>6, SettingsStay DEF RebuildFits
  <1>10. QED
    BY <1>1, <1>2, <1>3, <1>4, <1>5, <1>6, <1>7, <1>8, <1>9 DEF Answered, SettingsReads, SettingsSteps,
       ReplacesKnown, ReadsToFollow, WritesFollow, StoresNews, ReadsToUnfollow, WritesUnfollow,
       ReadsShownToUnfollow, ReadsKnownToUnfollow, DeletesKnown, ReadsShown, ReadsKnown,
       ReadsShownToRemove, ReadsDetectSettings, ReadsAllKnown, Searches, MergesKnown,
       ReadsSummary, ListsReleases, ReadsToRefresh, WritesRefresh, ChecksRelease, ReadsAllEntries,
       RemovesKnown, ReadsShownToVerify, RollsBack

-----------------------------------------------------------------------------
(* A search.                                                                *)

\* The piece q is followed by more of the same artist, and but for its entry nothing known
\* changes.
DetectStep(call, next, q, more, K, U, S, O, K2, U2) ==
    /\ next.op = call.op /\ next.stage = call.stage /\ next.followed = call.followed
    /\ next.settings = call.settings /\ next.known = call.known
    /\ next.pending = (call.pending \ {q}) \cup more
    /\ \A p, r \in more : p = r
    /\ \A p \in more : p.artist = q.artist /\ FamiliarPiece(next, p, K2, U2, S, O)
    /\ U2 \subseteq U /\ next.news \cap U2 = {}
    /\ \A a \in Artists : a # q.artist => K2[a] = K[a]
    /\ call.stage = "merge" => next.news = call.news
    /\ call.stage = "merge" /\ ~next.failed =>
          ~call.failed /\ K[q.artist] \cup q.ids \subseteq K2[q.artist]

LEMMA DetectGoesOn ==
    ASSUME NEW call, NEW next, NEW q \in call.pending, NEW more, NEW F,
           NEW K, NEW U, NEW S, NEW O, NEW K2, NEW U2, CallFamiliar(call, K, F, U, S, O),
           call.op = "detect", call.stage # "begin", \A p \in call.pending : p.artist \in Artists,
           DetectStep(call, next, q, more, K, U, S, O, K2, U2), call.followed \subseteq Artists
    PROVE  CallFamiliar(next, K2, F, U2, S, O)
  <1>1. /\ next.op = call.op /\ next.stage = call.stage /\ next.followed = call.followed
        /\ next.settings = call.settings /\ next.known = call.known
        /\ next.pending = (call.pending \ {q}) \cup more
        /\ \A p, r \in more : p = r
        /\ \A p \in more : p.artist = q.artist /\ FamiliarPiece(next, p, K2, U2, S, O)
    BY DEF DetectStep
  <1>2. /\ U2 \subseteq U /\ next.news \cap U2 = {}
        /\ \A a \in Artists : a # q.artist => K2[a] = K[a]
        /\ call.stage = "merge" => next.news = call.news
        /\ call.stage = "merge" /\ ~next.failed =>
              ~call.failed /\ K[q.artist] \cup q.ids \subseteq K2[q.artist]
    BY DEF DetectStep
  <1>3. /\ \A p, x \in call.pending : p.artist = x.artist => p = x
        /\ F = call.followed /\ call.settings = S
        /\ \A x \in call.pending : FamiliarPiece(call, x, K, U, S, O)
    BY DEF CallFamiliar, FamiliarSearch
  <1>4. \A p, x \in next.pending : p.artist = x.artist => p = x
    BY <1>1, <1>3
  <1>5. ASSUME NEW x \in call.pending \ {q} PROVE FamiliarPiece(next, x, K2, U2, S, O)
    <2>1. K2[x.artist] = K[x.artist]
      BY <1>2, <1>3
    <2>2. FamiliarPiece(call, x, K, U, S, O)
      BY <1>3
    <2>3. x.do = "search" => next.known[x.artist] = K2[x.artist]
      BY <1>1, <2>1, <2>2 DEF FamiliarPiece
    <2>4. x.do = "replaceKnown" => \A r \in U2 \cap ReleasesBy(x.artist) : r \in x.ids \/ r \in Outside(S, O)
      BY <1>2, <2>2 DEF FamiliarPiece
    <2>5. /\ x.do = "mergeKnown" => x.ids = next.news \cap ReleasesBy(x.artist)
          /\ x.do = "mergeKnown" <=> next.stage = "merge"
      BY <1>1, <1>2, <2>2 DEF FamiliarPiece
    <2>6. QED
      BY <1>1, <2>3, <2>4, <2>5 DEF FamiliarPiece
  <1>6. ASSUME call.stage = "merge", ~next.failed, NEW a \in call.followed
        PROVE  \/ next.news \cap ReleasesBy(a) \subseteq K2[a]
               \/ \E x \in next.pending : x.artist = a /\ x.do = "mergeKnown"
    <2>1. \/ call.news \cap ReleasesBy(a) \subseteq K[a]
          \/ \E x \in call.pending : x.artist = a /\ x.do = "mergeKnown"
      BY <1>2, <1>6 DEF CallFamiliar, FamiliarSearch
    <2>2. K[a] \subseteq K2[a]
      BY <1>2, <1>6
    <2>3. CASE call.news \cap ReleasesBy(a) \subseteq K[a]
      BY <1>2, <1>6, <2>2, <2>3
    <2>4. CASE \E x \in call.pending : x.artist = a /\ x.do = "mergeKnown"
      <3>1. PICK x \in call.pending : x.artist = a /\ x.do = "mergeKnown"
        BY <2>4
      <3>2. CASE x = q
        <4>1. q.ids = call.news \cap ReleasesBy(a)
          BY <1>3, <3>1, <3>2 DEF FamiliarPiece
        <4>2. QED
          BY <1>2, <1>6, <3>1, <3>2, <4>1
      <3>3. CASE x # q
        BY <1>1, <3>1, <3>3
      <3>4. QED
        BY <3>2, <3>3
    <2>5. QED
      BY <2>1, <2>3, <2>4
  <1>7. FamiliarSearch(next, K2, F, U2, S)
    BY <1>1, <1>2, <1>3, <1>4, <1>6 DEF FamiliarSearch
  <1>8. \A x \in next.pending : FamiliarPiece(next, x, K2, U2, S, O)
    BY <1>1, <1>5
  <1>9. QED
    BY <1>7, <1>8 DEF CallFamiliar

\* A search past its reads.
LEMMA DetectAtIs ==
    ASSUME NEW c, NEW q, FamiliarAt(c, q), calls[c].op = "detect", q.do \notin DetectReads
    PROVE  /\ calls[c].stage # "begin" /\ \A p \in calls[c].pending : p.artist \in Artists
           /\ calls[c].followed = followingArtists /\ calls[c].settings = settings
           /\ followingArtists \subseteq Artists /\ q.artist \in followingArtists
           /\ FamiliarPiece(calls[c], q, knownReleases, familiar, settings, old)
  <1>1. /\ calls[c] \in CallRecord /\ Shaped(calls[c]) /\ PieceShaped(calls[c], q) /\ LibraryOK
        /\ FamiliarSearch(calls[c], knownReleases, followingArtists, familiar, settings)
        /\ FamiliarPiece(calls[c], q, knownReleases, familiar, settings, old)
    BY FamiliarAtIs
  <1>2. calls[c].stage # "begin"
    BY <1>1 DEF PieceShaped
  <1>3. \A p \in calls[c].pending : p.artist \in calls[c].followed
    BY <1>1, <1>2 DEF Shaped, PieceShaped
  <1>4. calls[c].followed = followingArtists /\ calls[c].settings = settings
    BY <1>1, <1>2 DEF FamiliarSearch
  <1>5. QED
    BY <1>1, <1>2, <1>3, <1>4 DEF LibraryOK, FamiliarAt, At

\* Steps that go on with another one of the artist's.
ThenOnly(p, q) ==
    p.artist = q.artist /\ p.do \notin {"search", "replaceKnown", "mergeKnown"}

DetectGoesOnWith(c, q) ==
    \E more \in SUBSET Piece : /\ Continue(c, q, more)
                               /\ \A p, r \in more : p = r
                               /\ \A p \in more : ThenOnly(p, q) /\ q.do # "mergeKnown"

LEMMA DetectContinues ==
    ASSUME NEW c, NEW q, FamiliarAt(c, q), calls[c].op = "detect",
           \/ ReplacesKnown(c, q) \/ ReadsToFollow(c, q) \/ WritesFollow(c, q) \/ StoresNews(c, q)
           \/ ReadsShown(c, q) \/ ReadsKnown(c, q) \/ ReadsShownToRemove(c, q) \/ WritesShown(c, q)
           \/ MergesKnown(c, q)
    PROVE  DetectGoesOnWith(c, q)
  <1>1. /\ q \in Piece /\ newReleases \subseteq Releases /\ followingArtists \subseteq Artists
        /\ PieceShaped(calls[c], q)
    BY FamiliarAtIs DEF LibraryOK
  <1>2. ASSUME NEW p \in Piece, Continue(c, q, {p}), ThenOnly(p, q), q.do # "mergeKnown"
        PROVE  DetectGoesOnWith(c, q)
    BY <1>2 DEF DetectGoesOnWith
  <1>3. ASSUME Continue(c, q, {}) PROVE DetectGoesOnWith(c, q)
    BY <1>3 DEF DetectGoesOnWith
  <1> DEFINE T(do) == Then(q, do)
             R == [T("writeFollow") EXCEPT !.read = followingArtists]
             N == [T("readKnown") EXCEPT !.shown = newReleases]
             P == [T("readShownToRemove") EXCEPT !.pruned = PrunedForGood(q)]
             W == [T("writeShown") EXCEPT !.shown = newReleases, !.ids = newReleases \ q.pruned]
  <1>4. \A do \in {"readToFollow", "storeNews", "readShown"} : T(do) \in Piece /\ ThenOnly(T(do), q)
    BY <1>1, StepsAre DEF Piece, Then, ThenOnly
  <1>5. R \in Piece /\ ThenOnly(R, q)
    BY <1>1, StepsAre DEF Piece, Then, ThenOnly
  <1>6. N \in Piece /\ ThenOnly(N, q)
    BY <1>1, StepsAre DEF Piece, Then, ThenOnly
  <1>7. P \in Piece /\ ThenOnly(P, q)
    BY <1>1, StepsAre DEF Piece, Then, ThenOnly, PrunedForGood
  <1>8. W \in Piece /\ ThenOnly(W, q)
    BY <1>1, StepsAre DEF Piece, Then, ThenOnly
  <1>9. CASE ReplacesKnown(c, q) \/ ReadsToFollow(c, q)
    BY <1>2, <1>4, <1>5, <1>9 DEF ReplacesKnown, ReadsToFollow
  <1>10. CASE WritesFollow(c, q) \/ StoresNews(c, q)
    BY <1>2, <1>3, <1>4, <1>10 DEF WritesFollow, StoresNews, AfterSave
  <1>11. CASE ReadsShown(c, q) \/ ReadsKnown(c, q) \/ ReadsShownToRemove(c, q)
    BY <1>2, <1>3, <1>6, <1>7, <1>8, <1>11 DEF ReadsShown, ReadsKnown, ReadsShownToRemove
  <1>12. CASE WritesShown(c, q)
    <2>1. q.do = "writeShown"
      BY <1>1, <1>12 DEF WritesShown, PieceShaped, Takes, DetectReads, SearchSteps
    <2>2. QED
      BY <1>3, <1>12, <2>1 DEF WritesShown
  <1>13. CASE MergesKnown(c, q)
    BY <1>3, <1>13 DEF MergesKnown
  <1>14. QED
    BY <1>9, <1>10, <1>11, <1>12, <1>13

LEMMA DetectContinued ==
    ASSUME NEW c, NEW q, FamiliarAt(c, q), calls[c].op = "detect", DetectGoesOnWith(c, q),
           q.do \notin DetectReads, familiar' = familiar, old' = old, settings' = settings,
           followingArtists' = followingArtists,
           \A a \in Artists : a # q.artist => knownReleases'[a] = knownReleases[a],
           q.do = "mergeKnown" =>
               knownReleases[q.artist] \cup q.ids \subseteq knownReleases'[q.artist]
    PROVE  CallFamiliar(calls'[c], knownReleases', followingArtists', familiar', settings', old')
  <1> DEFINE call == calls[c]
             next == calls'[c]
             K == knownReleases
             F == followingArtists
             U == familiar
             S == settings
             O == old
  <1>1. PICK more \in SUBSET Piece : /\ Continue(c, q, more)
                                     /\ \A p, r \in more : p = r
                                     /\ \A p \in more : ThenOnly(p, q) /\ q.do # "mergeKnown"
    BY DEF DetectGoesOnWith
  <1>2. At(c, q) /\ q \in call.pending /\ CallFamiliar(call, K, F, U, S, O) /\ call \in CallRecord
        /\ CallsOK /\ c \in Callers
    BY FamiliarAtIs DEF FamiliarAt
  <1>3. /\ call.stage # "begin" /\ \A p \in call.pending : p.artist \in Artists
        /\ call.followed \subseteq Artists /\ FamiliarPiece(call, q, K, U, S, O)
    BY DetectAtIs
  <1>4. /\ next.op = call.op /\ next.stage = call.stage /\ next.followed = call.followed
        /\ next.known = call.known /\ next.news = call.news /\ next.failed = call.failed
        /\ next.pending = (call.pending \ {q}) \cup more
    BY <1>1, <1>2, ContinuedCall DEF KnowsTheSame
  <1>5. next.settings = call.settings
    <2> DEFINE pending == (call.pending \ {q}) \cup more
               new == [call EXCEPT !.pending = pending]
    <2>1. calls' = [calls EXCEPT ![c] = new]
      BY <1>1 DEF Continue
    <2> HIDE DEF pending
    <2>2. new.settings = call.settings
      BY <1>2 DEF CallRecord
    <2> HIDE DEF new
    <2>3. next = new
      BY <1>2, <2>1, MovedCall
    <2>4. QED
      BY <2>2, <2>3
  <1>6. call.news \cap U = {}
    BY <1>2 DEF CallFamiliar, FamiliarSearch
  <1>7. call.stage = "merge" => q.do = "mergeKnown"
    BY <1>3 DEF FamiliarPiece
  <1>8. ASSUME NEW p \in more PROVE FamiliarPiece(next, p, K', U, S, O) /\ p.artist = q.artist
    <2>1. /\ p.do \notin {"search", "replaceKnown", "mergeKnown"} /\ p.artist = q.artist
          /\ q.do # "mergeKnown"
      BY <1>1 DEF ThenOnly
    <2>2. next.op = "detect" /\ next.stage # "merge"
      BY <1>4, <1>7, <2>1
    <2>3. QED
      BY <2>1, <2>2 DEF FamiliarPiece
  <1> HIDE DEF call, next, K, F, U, S, O
  <1>9. DetectStep(call, next, q, more, K, U, S, O, K', U)
    BY <1>1, <1>4, <1>5, <1>6, <1>7, <1>8 DEF DetectStep, K, call
  <1>10. CallFamiliar(next, K', F, U, S, O)
    BY <1>2, <1>3, <1>9, DetectGoesOn DEF call
  <1>11. QED
    BY <1>10 DEF next, K, F, U, S, O

\* What the user is familiar with, a search keeps, and what it finds is nothing of the kind.
LEMMA SearchesFamiliar ==
    ASSUME NEW c, NEW q, FamiliarAt(c, q), calls[c].op = "detect", Searches(c, q)
    PROVE  CallFamiliar(calls'[c], knownReleases', followingArtists', familiar', settings', old')
  <1> DEFINE call == calls[c]
             next == calls'[c]
             K == knownReleases
             F == followingArtists
             U == familiar
             S == settings
             O == old
             known == call.known[q.artist]
             candidates == Candidates(Found(q.artist), known, call.settings)
             news == NewAmong(candidates, known)
             pruned == Pruned(candidates, known)
             duplicates == (pruned \cap Found(q.artist)) \cap Matches(call.settings)
             p == [Then(q, "replaceKnown") EXCEPT !.ids = candidates, !.news = news, !.pruned = pruned]
             more == IF news = {} /\ pruned = {} THEN {} ELSE {p}
             pending == (call.pending \ {q}) \cup more
             new == [call EXCEPT !.news = @ \cup news, !.pending = pending]
  <1>1. /\ q.do = "search" /\ q \in call.pending /\ q \in Piece /\ call \in CallRecord /\ CallsOK
        /\ c \in Callers /\ CallFamiliar(call, K, F, U, S, O) /\ LibraryOK /\ U \subseteq Releases
        /\ \A a \in F : KnowsFamiliar(a, K, U, S, O)
        /\ K' = K /\ F' = F /\ S' = S /\ O' = O
    BY FamiliarAtIs DEF FamiliarAt, Searches, library, world
  <1>2. /\ call.stage # "begin" /\ (\A x \in call.pending : x.artist \in Artists)
        /\ call.followed = F /\ call.settings = S /\ F \subseteq Artists /\ q.artist \in F
        /\ FamiliarPiece(call, q, K, U, S, O)
    BY <1>1, DetectAtIs DEF DetectReads
  <1>3. known = K[q.artist] /\ call.stage # "merge"
    BY <1>1, <1>2 DEF FamiliarPiece
  <1>4. calls' = [calls EXCEPT ![c] = new] /\ U' = StillFamiliar(q.artist) \ duplicates
    BY DEF Searches
  <1>5. \A r \in candidates : r \in Found(q.artist) /\ r \in Matches(S)
    BY <1>2 DEF Candidates
  <1>6. Found(q.artist) \subseteq ReleasesBy(q.artist)
    BY DEF Found
  <1>7. \A r \in U \cap ReleasesBy(q.artist) : r \in known \/ r \in Outside(S, O)
    BY <1>1, <1>2, <1>3 DEF KnowsFamiliar
  <1>8. \A r \in Releases : r \in Matches(S) <=> r \notin Outside(S, O)
    BY DEF Matches, Outside
  <1> HIDE DEF candidates
  <1>9. news \cap U = {}
    BY <1>1, <1>5, <1>6, <1>7, <1>8 DEF NewAmong
  <1>10. U' \subseteq U
    BY <1>4 DEF StillFamiliar
  <1>11. \A r \in U' \cap ReleasesBy(q.artist) : r \in candidates \/ r \in Outside(S, O)
    BY <1>1, <1>2, <1>4, <1>7, <1>8 DEF StillFamiliar, Pruned
  <1> HIDE DEF known, news, pruned, duplicates
  <1>12. p.do = "replaceKnown" /\ p.artist = q.artist /\ p.ids = candidates
    BY <1>1 DEF Piece, Then
  <1> HIDE DEF p
  <1>13. (\A x \in more : x = p)
    OBVIOUS
  <1> HIDE DEF more, pending
  <1>14. /\ new.op = call.op /\ new.stage = call.stage /\ new.followed = call.followed
         /\ new.settings = call.settings /\ new.known = call.known
         /\ new.news = call.news \cup news /\ new.pending = pending
    BY <1>1 DEF CallRecord
  <1> HIDE DEF new
  <1>15. next = new
    BY <1>1, <1>4, MovedCall
  <1>16. FamiliarPiece(next, p, K, U', S, O)
    BY <1>3, <1>11, <1>12, <1>14, <1>15 DEF FamiliarPiece
  <1>17. next.news \cap U' = {}
    BY <1>1, <1>9, <1>10, <1>14, <1>15 DEF CallFamiliar, FamiliarSearch
  <1> HIDE DEF call, next, K, F, U, S, O
  <1>18. DetectStep(call, next, q, more, K, U, S, O, K, U')
    BY <1>3, <1>10, <1>12, <1>13, <1>14, <1>15, <1>16, <1>17 DEF DetectStep, pending
  <1>19. CallFamiliar(next, K, F, U', S, O)
    BY <1>1, <1>2, <1>18, DetectGoesOn DEF call
  <1>20. QED
    BY <1>1, <1>19 DEF next, K, F, U, S, O

LEMMA DetectReadsFamiliar ==
    ASSUME NEW c, NEW q, FamiliarAt(c, q), calls[c].op = "detect",
           ReadsFollowed(c, q) \/ ReadsDetectSettings(c, q) \/ ReadsAllKnown(c, q)
    PROVE  CallFamiliar(calls'[c], knownReleases', followingArtists', familiar', settings', old')
  <1> DEFINE call == calls[c]
             next == calls'[c]
             K == knownReleases
             F == followingArtists
             U == familiar
             S == settings
             O == old
  <1>1. /\ At(c, q) /\ call \in CallRecord /\ q \in call.pending /\ PieceShaped(call, q)
        /\ CallsOK /\ c \in Callers /\ FamiliarSearch(call, K, F, U, S) /\ q.do \in DetectReads
        /\ F \subseteq Artists /\ K' = K /\ F' = F /\ U' = U /\ S' = S /\ O' = O
    BY FamiliarAtIs DEF FamiliarAt, ReadsFollowed, ReadsDetectSettings, ReadsAllKnown, DetectReads,
       LibraryOK, OnlyReads, library, world, history
  <1>2. call.stage = "begin" /\ call.pending = {q}
    BY <1>1, OnlyPiece DEF PieceShaped, InOnePiece
  <1>3. call.news \cap U = {}
    BY <1>1 DEF FamiliarSearch
  <1>4. CASE ReadsFollowed(c, q) \/ ReadsDetectSettings(c, q)
    <2> DEFINE p == Then(q, IF ReadsFollowed(c, q) THEN "readDetectSettings" ELSE "readAllKnown")
               new1 == [call EXCEPT !.followed = F, !.pending = {p}]
               new2 == [call EXCEPT !.settings = S, !.pending = {p}]
    <2>1. \/ ReadsFollowed(c, q) /\ calls' = [calls EXCEPT ![c] = new1]
          \/ ~ReadsFollowed(c, q) /\ ReadsDetectSettings(c, q) /\ calls' = [calls EXCEPT ![c] = new2]
      BY <1>4 DEF ReadsFollowed, ReadsDetectSettings
    <2>2. /\ p.do \in {"readDetectSettings", "readAllKnown"}
          /\ p.do = "readAllKnown" => ReadsDetectSettings(c, q) /\ ~ReadsFollowed(c, q)
      BY <1>1, <1>4, AtIs DEF Then, Piece
    <2>3. ReadsDetectSettings(c, q) => call.followed = F
      BY <1>1 DEF ReadsDetectSettings, FamiliarSearch
    <2> HIDE DEF p
    <2>4. /\ next.op = call.op /\ next.stage = "begin" /\ next.news = call.news /\ next.pending = {p}
          /\ next.followed = F /\ (p.do = "readAllKnown" => next.settings = S)
      <3>1. CASE ReadsFollowed(c, q) /\ calls' = [calls EXCEPT ![c] = new1]
        <4>1. /\ new1.op = call.op /\ new1.stage = "begin" /\ new1.news = call.news
              /\ new1.pending = {p} /\ new1.followed = F
          BY <1>1, <1>2 DEF CallRecord
        <4> HIDE DEF new1
        <4>2. next = new1
          BY <1>1, <3>1, MovedCall
        <4>3. QED
          BY <2>2, <3>1, <4>1, <4>2
      <3>2. CASE ~ReadsFollowed(c, q) /\ ReadsDetectSettings(c, q) /\ calls' = [calls EXCEPT ![c] = new2]
        <4>1. /\ new2.op = call.op /\ new2.stage = "begin" /\ new2.news = call.news
              /\ new2.pending = {p} /\ new2.followed = call.followed /\ new2.settings = S
          BY <1>1, <1>2 DEF CallRecord
        <4> HIDE DEF new2
        <4>2. next = new2
          BY <1>1, <3>2, MovedCall
        <4>3. QED
          BY <2>3, <3>2, <4>1, <4>2
      <3>3. QED
        BY <2>1, <3>1, <3>2
    <2>5. FamiliarPiece(next, p, K, U, S, O)
      BY <2>2, <2>4 DEF FamiliarPiece
    <2>6. FamiliarSearch(next, K, F, U, S)
      BY <1>3, <2>2, <2>4 DEF FamiliarSearch
    <2>7. QED
      BY <1>1, <2>4, <2>5, <2>6 DEF CallFamiliar
  <1>5. CASE ReadsAllKnown(c, q)
    <2> DEFINE more == {Work("search", a) : a \in call.followed}
               new == [call EXCEPT !.known = K, !.stage = "search", !.pending = more]
    <2>1. calls' = [calls EXCEPT ![c] = new] /\ call.followed = F /\ call.settings = S
      <3>1. calls' = [calls EXCEPT ![c] = new] /\ q.do = "readAllKnown"
        BY <1>5 DEF ReadsAllKnown
      <3>2. \E x \in call.pending : x.do = "readAllKnown"
        BY <1>1, <3>1
      <3>3. FamiliarSearch(call, K, F, U, S)
        BY <1>1
      <3> HIDE DEF call, new, K, F, U, S
      <3>4. QED
        BY ONLY <3>1, <3>2, <3>3 DEF FamiliarSearch
    <2>2. \A a : Work("search", a).do = "search" /\ Work("search", a).artist = a
      BY DEF Work
    <2>3. /\ \A p \in more : p.do = "search"
          /\ \A x, y \in more : x.artist = y.artist => x = y
      BY <2>2
    <2> HIDE DEF more
    <2>4. /\ new.op = call.op /\ new.known = K /\ new.stage = "search" /\ new.pending = more
          /\ new.news = call.news /\ new.followed = F /\ new.settings = S
      BY <1>1, <2>1 DEF CallRecord
    <2> HIDE DEF new
    <2>5. next = new
      BY <1>1, <2>1, MovedCall
    <2>6. \A p \in more : FamiliarPiece(next, p, K, U, S, O)
      BY <2>3, <2>4, <2>5 DEF FamiliarPiece
    <2>7. FamiliarSearch(next, K, F, U, S)
      BY <1>3, <2>3, <2>4, <2>5 DEF FamiliarSearch
    <2>8. QED
      BY <1>1, <2>4, <2>5, <2>6, <2>7 DEF CallFamiliar
  <1>6. QED
    BY <1>4, <1>5

LEMMA FailsFamiliar ==
    ASSUME NEW c, NEW q, FamiliarAt(c, q), Fails(c, q)
    PROVE  CallFamiliar(calls'[c], knownReleases', followingArtists', familiar', settings', old')
  <1> DEFINE call == calls[c]
             next == calls'[c]
             none == {}
             pending == (call.pending \ {q}) \cup none
             new == [call EXCEPT !.failed = TRUE, !.pending = pending]
             K == knownReleases
             F == followingArtists
             U == familiar
             S == settings
             O == old
  <1>1. /\ K' = K /\ F' = F /\ U' = U /\ S' = S /\ O' = O /\ call.op # "settings"
        /\ call \in CallRecord /\ CallsOK /\ c \in Callers /\ CallFamiliar(call, K, F, U, S, O)
    BY FamiliarAtIs DEF FamiliarAt, Fails, library, world
  <1>2. calls' = [calls EXCEPT ![c] = new]
    BY <1>1 DEF Fails
  <1> HIDE DEF pending
  <1>3. /\ new.op = call.op /\ new.stage = call.stage /\ new.news = call.news /\ new.failed
        /\ new.followed = call.followed /\ new.settings = call.settings /\ new.known = call.known
        /\ new.pending = pending
    BY <1>1 DEF CallRecord
  <1> HIDE DEF new
  <1>4. next = new /\ pending \subseteq call.pending
    BY <1>1, <1>2, MovedCall DEF pending
  <1>5. \A x \in call.pending : FamiliarPiece(next, x, K, U, S, O)
    BY <1>1, <1>3, <1>4 DEF CallFamiliar, FamiliarPiece
  <1>6. call.op = "detect" => FamiliarSearch(next, K, F, U, S)
    BY <1>1, <1>3, <1>4 DEF CallFamiliar, FamiliarSearch
  <1>7. QED
    BY <1>1, <1>3, <1>4, <1>5, <1>6 DEF CallFamiliar

LEMMA DetectFamiliar ==
    ASSUME NEW c, NEW q, FamiliarAt(c, q), calls[c].op = "detect", Answered(c, q)
    PROVE  CallFamiliar(calls'[c], knownReleases', followingArtists', familiar', settings', old')
  <1>1. /\ PieceShaped(calls[c], q) /\ LibraryOK /\ At(c, q)
        /\ FamiliarPiece(calls[c], q, knownReleases, familiar, settings, old)
    BY FamiliarAtIs DEF FamiliarAt
  <1>3. settings' = settings /\ old' = old
    BY AnsweredStaysKnown
  <1>4. CASE ReadsFollowed(c, q) \/ ReadsDetectSettings(c, q) \/ ReadsAllKnown(c, q)
    BY <1>4, DetectReadsFamiliar
  <1>5. CASE Searches(c, q)
    BY <1>5, SearchesFamiliar
  <1>6. CASE Fails(c, q)
    BY <1>6, FailsFamiliar
  <1>7. CASE \/ ReplacesKnown(c, q) \/ ReadsToFollow(c, q) \/ WritesFollow(c, q) \/ StoresNews(c, q)
             \/ ReadsShown(c, q) \/ ReadsKnown(c, q) \/ ReadsShownToRemove(c, q) \/ WritesShown(c, q)
             \/ MergesKnown(c, q)
    <2>1. DetectGoesOnWith(c, q)
      BY <1>7, DetectContinues
    <2>2. q.do \notin DetectReads
      BY <1>7 DEF DetectReads, ReplacesKnown, ReadsToFollow, WritesFollow, StoresNews, ReadsShown,
         ReadsKnown, ReadsShownToRemove, WritesShown, MergesKnown
    <2>3. familiar' = familiar
      BY <1>7 DEF ReplacesKnown, ReadsToFollow, WritesFollow, StoresNews, ReadsShown,
         ReadsKnown, ReadsShownToRemove, WritesShown, MergesKnown, OnlyReads, history
    <2>4. q.artist \in followingArtists /\ followingArtists \subseteq Artists
      BY <2>2, DetectAtIs
    <2>5. followingArtists' = followingArtists
      BY <1>7, <2>4 DEF ReplacesKnown, ReadsToFollow, WritesFollow, StoresNews, ReadsShown,
         ReadsKnown, ReadsShownToRemove, WritesShown, MergesKnown, OnlyReads, library, WriteFollowing, FamiliarAt
    <2>6. CASE ReplacesKnown(c, q)
      <3>1. knownReleases' = [knownReleases EXCEPT ![q.artist] = q.ids] /\ q.do # "mergeKnown"
        BY <2>6 DEF ReplacesKnown
      <3>2. \A a \in Artists : a # q.artist => knownReleases'[a] = knownReleases[a]
        BY <1>1, <3>1 DEF LibraryOK
      <3>3. QED
        BY <1>3, <2>1, <2>2, <2>3, <2>5, <3>1, <3>2, DetectContinued
    <2>7. CASE MergesKnown(c, q)
      <3>1. knownReleases' = [knownReleases EXCEPT ![q.artist] = @ \cup q.ids]
        BY <2>7 DEF MergesKnown
      <3>2. /\ \A a \in Artists : a # q.artist => knownReleases'[a] = knownReleases[a]
            /\ knownReleases[q.artist] \cup q.ids \subseteq knownReleases'[q.artist]
        BY <1>1, <2>4, <3>1 DEF LibraryOK
      <3>3. QED
        BY <1>3, <2>1, <2>2, <2>3, <2>5, <3>2, DetectContinued
    <2>8. CASE ~ReplacesKnown(c, q) /\ ~MergesKnown(c, q)
      <3>1. knownReleases' = knownReleases /\ q.do # "mergeKnown"
        BY <1>7, <2>8 DEF ReadsToFollow, WritesFollow, StoresNews, ReadsShown,
           ReadsKnown, ReadsShownToRemove, WritesShown, OnlyReads, library
      <3>2. QED
        BY <1>3, <2>1, <2>2, <2>3, <2>5, <3>1, DetectContinued
    <2>9. QED
      BY <2>6, <2>7, <2>8
  <1>8. QED
    BY <1>1, <1>4, <1>5, <1>6, <1>7, DetectAnswers

-----------------------------------------------------------------------------
(* Whoever follows an artist.                                               *)

FollowFits(call, K, U, S, O) == \A p \in call.pending :
    /\ p.do = "replaceKnown" => p.found = p.ids
    /\ p.do \in {"readToFollow", "writeFollow"} => KnowsFamiliar(p.artist, K, U, S, O)

LEMMA FollowFamiliar ==
    ASSUME NEW c, NEW q, FamiliarAt(c, q), calls[c].op = "follow", Answered(c, q), listed'
    PROVE  CallFamiliar(calls'[c], knownReleases', followingArtists', familiar', settings', old')
  <1> DEFINE call == calls[c]
             next == calls'[c]
             K == knownReleases
             F == followingArtists
             U == familiar
             S == settings
             O == old
  <1>1. /\ q \in Piece /\ PieceShaped(call, q) /\ LibraryOK /\ U \subseteq Releases /\ At(c, q)
        /\ FamiliarPiece(call, q, K, U, S, O) /\ call \in CallRecord /\ WorldOK
    BY FamiliarAtIs DEF FamiliarAt
  <1>2. call.pending = {q} /\ next.op = "follow"
    BY <1>1, OnlyPiece, AnsweredIsSame DEF InOnePiece, OneArtist
  <1> SUFFICES FollowFits(next, K', U', S', O')
    BY <1>2 DEF CallFamiliar, FamiliarPiece, FollowFits
  <1>3. ASSUME NEW more, next.pending = (call.pending \ {q}) \cup more,
               \A p \in more : p.do \notin {"replaceKnown", "readToFollow", "writeFollow"}
        PROVE  FollowFits(next, K', U', S', O')
    BY <1>2, <1>3 DEF FollowFits
  <1>4. q.do \in {"readSummary"} \cup FollowSteps \cup UnfollowSteps
    BY <1>1 DEF PieceShaped, Takes
  <1>5. CASE Fails(c, q)
    BY <1>2, <1>5, FailsFamiliar DEF CallFamiliar, FamiliarPiece, FollowFits
  <1>6. CASE ReadsSummary(c, q)
    <2>1. PICK more : Goes(c, q, more) /\ \A p \in more : p.do \in {"listReleases", "readToUnfollow"}
      BY <1>1, <1>6, ReadsSummaryGoes
    <2>2. QED
      BY <1>3, <2>1 DEF Goes
  <1>7. CASE ReadsToUnfollow(c, q)
    <2>1. PICK p : Goes(c, q, {p}) /\ p.do \in {"writeUnfollow", "readShownToUnfollow"}
      BY <1>1, <1>7, ReadsToUnfollowGoes
    <2>2. QED
      BY <1>3, <2>1 DEF Goes
  <1>8. CASE WritesUnfollow(c, q)
    <2>1. PICK p : Goes(c, q, {p}) /\ p.do = "readShownToUnfollow"
      BY <1>1, <1>8, WritesUnfollowGoes
    <2>2. QED
      BY <1>3, <2>1 DEF Goes
  <1>9. CASE DeletesKnown(c, q)
    <2>1. PICK more : Goes(c, q, more) /\ \A p \in more : p.do = "listReleases"
      BY <1>1, <1>9, DeletesKnownGoes
    <2>2. QED
      BY <1>3, <2>1 DEF Goes
  <1>10. CASE WritesFollow(c, q)
    <2>1. PICK more : Goes(c, q, more) /\ \A p \in more : p.do \in {"storeNews", "readShown"}
      BY <1>1, <1>10, WritesFollowGoes
    <2>2. QED
      BY <1>3, <2>1 DEF Goes
  <1> DEFINE T(do) == Then(q, do)
             R == [T("writeFollow") EXCEPT !.read = F]
             X == [T("readKnownToUnfollow") EXCEPT !.shown = newReleases]
             Y(do) == [T(do) EXCEPT !.ids = KeptAfterUnfollow(q)]
             L(ids) == [T("replaceKnown") EXCEPT !.ids = ids, !.found = ids]
  <1>11. ASSUME NEW p \in Piece, Continue(c, q, {p}), p.do # "replaceKnown" \/ p.found = p.ids,
                p.do \in {"readToFollow", "writeFollow"} => KnowsFamiliar(p.artist, K', U', S', O')
         PROVE  FollowFits(next, K', U', S', O')
    <2>1. next.pending = (call.pending \ {q}) \cup {p}
      BY <1>1, <1>11, ContinuedCall
    <2>2. QED
      BY <1>2, <1>11, <2>1 DEF FollowFits
  <1>12. CASE ReadsShownToUnfollow(c, q)
    <2>1. X \in Piece /\ X.do = "readKnownToUnfollow"
      BY <1>1, StepsAre DEF Piece, Then, LibraryOK
    <2>2. QED
      BY <1>11, <1>12, <2>1 DEF ReadsShownToUnfollow
  <1>13. CASE ReadsKnownToUnfollow(c, q)
    <2>1. \A do \in {"deleteKnown", "writeShownToUnfollow"} : Y(do) \in Piece /\ Y(do).do = do
      BY <1>1, StepsAre DEF Piece, Then, KeptAfterUnfollow
    <2>2. QED
      BY <1>11, <1>13, <2>1 DEF ReadsKnownToUnfollow
  <1>14. CASE WritesShown(c, q)
    <2>1. T("deleteKnown") \in Piece /\ T("deleteKnown").do = "deleteKnown"
      BY <1>1, StepsAre DEF Piece, Then
    <2>2. q.do # "writeShown"
      BY <1>4 DEF FollowSteps, UnfollowSteps, Removal
    <2>3. QED
      BY <1>11, <1>14, <2>1, <2>2 DEF WritesShown
  <1>15. CASE ReadsToFollow(c, q)
    <2>1. R \in Piece /\ R.do = "writeFollow" /\ R.artist = q.artist
      BY <1>1, StepsAre DEF Piece, Then, LibraryOK
    <2>2. K' = K /\ U' = U /\ S' = S /\ O' = O /\ KnowsFamiliar(q.artist, K, U, S, O) /\ Continue(c, q, {R})
      BY <1>1, <1>15 DEF ReadsToFollow, OnlyReads, library, world, history, FamiliarPiece
    <2> HIDE DEF R, K, U, S, O
    <2>3. QED
      BY <1>11, <2>1, <2>2
  <1>16. CASE ListsReleases(c, q)
    <2>1. PICK ids \in SUBSET Found(q.artist) : Continue(c, q, {L(ids)})
      BY <1>16 DEF ListsReleases
    <2>2. L(ids) \in Piece /\ L(ids).do = "replaceKnown" /\ L(ids).found = L(ids).ids
      BY <1>1, FoundIsOfReleases, StepsAre DEF Piece, Then
    <2> HIDE DEF L
    <2>3. QED
      BY <1>11, <2>1, <2>2
  <1>17. CASE ReplacesKnown(c, q)
    <2>1. T("readToFollow") \in Piece /\ T("readToFollow").do = "readToFollow" /\ T("readToFollow").artist = q.artist
      BY <1>1, StepsAre DEF Piece, Then
    <2>2. q.do = "replaceKnown" /\ q.artist \in Artists /\ q.found = q.ids /\ q.found \subseteq Releases
      BY <1>1, <1>17 DEF ReplacesKnown, PieceShaped, ArtistSteps, FollowSteps, FamiliarPiece, Piece
    <2>3. K' = [K EXCEPT ![q.artist] = q.found] /\ U' = Acquainted(q)
      BY <1>17, <2>2 DEF ReplacesKnown
    <2>4. \A s, o : KnowsFamiliar(q.artist, K', U', s, o)
      BY <1>1, <2>2, <2>3, AcquaintedKnown
    <2>5. Continue(c, q, {T("readToFollow")})
      BY <1>17 DEF ReplacesKnown
    <2> HIDE DEF T, K, U, S, O
    <2>6. QED
      BY <1>11, <2>1, <2>4, <2>5
  <1>18. QED
    BY <1>4, <1>5, <1>6, <1>7, <1>8, <1>9, <1>10, <1>12, <1>13, <1>14, <1>15, <1>16, <1>17 DEF Answered,
       FollowSteps, UnfollowSteps, Removal, StoresNews, ReadsShown, ReadsKnown, ReadsShownToRemove,
       ReadsFollowed, ReadsDetectSettings, ReadsAllKnown, Searches, MergesKnown, ReadsToRefresh,
       WritesRefresh, ChecksRelease, ReadsAllEntries, RemovesKnown, ReadsShownToVerify, ReadsSettings,
       SavesSettings, ListsToRebuild, ReplacesRebuilt, ReadsOutside, RollsBack

-----------------------------------------------------------------------------
(* The invariant holds after every step.                                    *)

LEMMA AnsweredKeepsFamiliar ==
    ASSUME NEW c, NEW q, LibraryInv, News, Fam, At(c, q), Answered(c, q), intact', listed'
    PROVE  Fam'
  <1> DEFINE call == calls[c]
             next == calls'[c]
  <1>1. /\ c \in Callers /\ call # Idle /\ CallsOK /\ OneRewriter(calls) /\ q \in call.pending
        /\ Shaped(call) /\ call.op \in Ops
    BY AnsweredLeaves, AtIs DEF LibraryInv, At, TypesInv, CallRecord
  <1>2. calls' = [calls EXCEPT ![c] = next] /\ next.op = call.op
    BY AnsweredMoves, AnsweredIsSame
  <1>3. AskedFor(call) /\ ForgetsAll(call, knownReleases, followingArtists)
    BY <1>1 DEF News, NewsInv, CallNews
  <1>4. ASSUME call.op \notin {"follow", "detect", "settings"}
        PROVE  CallFamiliar(next, knownReleases', followingArtists', familiar', settings', old')
    BY <1>2, <1>4 DEF CallFamiliar, FamiliarPiece
  <1>5. CASE call.rewrites
    <2>1. AloneRewrites(c)
      BY <1>1, <1>5 DEF AloneRewrites, OneRewriter, Rewriting
    <2>2. FamiliarAt(c, q)
      BY <1>1, <1>3, <2>1, AloneRebuilds DEF FamiliarAt, ForgetsAll, Fam, FamiliarInv
    <2>3. CallFamiliar(next, knownReleases', followingArtists', familiar', settings', old')
      BY <1>4, <2>2, DetectFamiliar, FollowFamiliar, SettingsFamiliar DEF StaysFamiliar
    <2>4. KnownOrRebuilt(next, knownReleases', followingArtists', familiar', settings', old')
      BY <2>2, AnsweredStaysKnown, SettingsFamiliar DEF StaysFamiliar, StaysKnown, KnownOrRebuilt
    <2>5. QED
      BY <1>1, <1>2, <2>1, <2>3, <2>4, FamiliarKept
  <1>6. CASE ~call.rewrites
    <2>1. call.op \in {"details", "refresh", "dismiss"}
      BY <1>6, LookerIs
    <2>2. UNCHANGED <<knownReleases, followingArtists>>
      BY <1>3, <1>6, LookerKeepsList
    <2>3. Fails(c, q) \/ LookingOn(c, q)
      BY <1>6, LookerIs, LookerLooks
    <2>4. UNCHANGED <<familiar, settings, old>>
      BY <2>3 DEF LookingOn, ReadsSummary, ReadsFollowed, ReadsToRefresh, ReadsShownToRemove,
         WritesRefresh, WritesShown, Fails, OnlyReads, library, world, history
    <2>5. \A a : ~IsRebuilding(call, a)
      BY <2>1 DEF IsRebuilding
    <2>6. QED
      BY <1>1, <1>2, <1>4, <2>1, <2>2, <2>4, <2>5, FamiliarKept
  <1>7. QED
    BY <1>5, <1>6

LEMMA StartsKeepsFamiliar ==
    ASSUME LibraryInv, NEW c \in Callers, Starts(c), Fam
    PROVE  Fam'
  <1> DEFINE next == calls'[c]
  <1>1. /\ CallsOK /\ calls' = [calls EXCEPT ![c] = next] /\ calls[c] = Idle
        /\ UNCHANGED <<knownReleases, followingArtists, familiar, settings, old>>
    BY StartsIs DEF LibraryInv, TypesInv, StartsWith, library, world
  <1>2. PICK op, work, asked : Start(c, op, work, asked) /\ AsksFirst(op, work, asked)
    BY FirstAsked
  <1>3. /\ next.op = op /\ next.stage = "begin" /\ next.news = {} /\ next.pending = {work}
        /\ \A q \in next.pending : q = work
    BY <1>1, <1>2, StartedNow
  <1> HIDE DEF next
  <1>4. ASSUME NEW K, NEW F, NEW U, NEW S, NEW O
        PROVE  CallFamiliar(next, K, F, U, S, O)
    <2>1. work.do \in FirstReads /\ (op = "detect" => work.do = "readFollowed")
      BY <1>2 DEF AsksFirst
    <2>2. FamiliarPiece(next, work, K, U, S, O)
      BY <1>3, <2>1 DEF FamiliarPiece, FirstReads
    <2>3. op = "detect" => FamiliarSearch(next, K, F, U, S)
      BY <1>3, <2>1 DEF FamiliarSearch
    <2>4. QED
      BY <1>3, <2>2, <2>3 DEF CallFamiliar
  <1>5. QED
    BY <1>1, <1>4, IdleRebuildsNone, FamiliarKept DEF next

LEMMA GoesOnKeepsFamiliar ==
    ASSUME LibraryInv, NEW c \in Callers, GoesOn(c), Fam
    PROVE  Fam'
  <1> DEFINE call == calls[c]
             next == calls'[c]
             K == knownReleases
             F == followingArtists
             U == familiar
             S == settings
             O == old
  <1>1. /\ call # Idle /\ call.pending = {} /\ calls' = [calls EXCEPT ![c] = next]
        /\ next.op = call.op /\ next.failed = call.failed /\ next.news = call.news
        /\ next.followed = call.followed /\ CallsOK
        /\ UNCHANGED <<knownReleases, followingArtists, familiar, settings, old>>
    BY GoesOnIs DEF LibraryInv, TypesInv, OnlyReads, library, world, history
  <1>2. \A a : ~IsRebuilding(call, a)
    BY <1>1 DEF IsRebuilding
  <1>3. CallFamiliar(call, K, F, U, S, O)
    BY <1>1 DEF Fam, FamiliarInv
  <1>4. CASE HasNews(c) /\ NextStage(c, "merge", Merges(c))
    <2> DEFINE M(a) == [Work("mergeKnown", a) EXCEPT !.ids = call.news \cap ReleasesBy(a)]
    <2>1. /\ next.pending = Merges(c) /\ next.stage = "merge" /\ next.settings = call.settings
          /\ call.op = "detect" /\ call.stage = "search"
      BY <1>1, <1>4, NextStageIs DEF HasNews, IsDone
    <2>2. \A a : M(a).do = "mergeKnown" /\ M(a).artist = a /\ M(a).ids = call.news \cap ReleasesBy(a)
      BY DEF Work
    <2>3. /\ \A q \in next.pending : \E a : q = M(a)
          /\ \A a \in call.followed : call.news \cap ReleasesBy(a) # {} => M(a) \in next.pending
      BY <2>1 DEF Merges
    <2> HIDE DEF M
    <2>4. \A q \in next.pending : q.do = "mergeKnown" /\ q.ids = call.news \cap ReleasesBy(q.artist)
      BY <2>2, <2>3
    <2>5. \A p, q \in next.pending : p.artist = q.artist => p = q
      BY <2>2, <2>3
    <2>6. \A a \in call.followed : call.news \cap ReleasesBy(a) # {} =>
             \E q \in next.pending : q.artist = a /\ q.do = "mergeKnown"
      BY <2>2, <2>3
    <2>7. \A q \in next.pending : FamiliarPiece(next, q, K, U, S, O)
      BY <1>1, <2>1, <2>4 DEF FamiliarPiece
    <2>8. FamiliarSearch(next, K, F, U, S)
      BY <1>1, <1>3, <2>1, <2>5, <2>6 DEF CallFamiliar, FamiliarSearch
    <2>9. CallFamiliar(next, K, F, U, S, O)
      BY <1>1, <2>1, <2>7, <2>8 DEF CallFamiliar
    <2>10. QED
      BY <1>1, <1>2, <2>9, FamiliarKept
  <1>5. CASE \/ HasLookedUp(c)
             \/ HasRebuilt(c) /\ NextStage(c, "remove", {Work("readOutside", None)})
    <2>1. call.op = "refresh" \/ (call.op = "settings" /\ next.pending = {Work("readOutside", None)})
      BY <1>1, <1>5, NextStageIs DEF HasLookedUp, HasRebuilt, IsDone
    <2>2. Work("readOutside", None).do = "readOutside"
      BY DEF Work
    <2>3. CallFamiliar(next, K, F, U, S, O)
      BY <1>1, <2>1, <2>2 DEF CallFamiliar, FamiliarPiece
    <2>4. QED
      BY <1>1, <1>2, <2>3, FamiliarKept
  <1>6. QED
    BY <1>4, <1>5 DEF GoesOn

\* What the user was told of is familiar from then on, and known to all its artists.
LEMMA ReturnsKeepsFamiliar ==
    ASSUME LibraryInv, NEW c \in Callers, Returns(c) \/ Tells(c), intact, Fam
    PROVE  Fam'
  <1> DEFINE call == calls[c]
             K == knownReleases
             F == followingArtists
             U == familiar
  <1>1. /\ CallsOK /\ OneRewriter(calls) /\ call.pending = {} /\ call # Idle
        /\ calls' = [calls EXCEPT ![c] = Idle]
        /\ UNCHANGED <<knownReleases, followingArtists, settings, old>>
    BY IdleIsNoCall DEF LibraryInv, TypesInv, Returns, Tells, Return, IsDone, library, world
  <1>2. calls'[c] = Idle /\ calls' = [calls EXCEPT ![c] = calls'[c]]
    BY <1>1, MovedCall
  <1>3. CASE Returns(c)
    <2>1. familiar' = familiar /\ \A a : ~IsRebuilding(call, a)
      BY <1>1, <1>3 DEF Returns, IsRebuilding
    <2>2. QED
      BY <1>1, <1>2, <2>1, FamiliarKept
  <1>4. CASE Tells(c)
    <2>1. call.op = "detect" /\ call.stage = "merge" /\ ~call.failed /\ U' = U \cup call.news
      BY <1>4 DEF Tells, IsDone
    <2>2. AloneRewrites(c)
      BY <1>1, <2>1 DEF AloneRewrites, OneRewriter, Rewriting, CallsOK, Shaped, Rewrites
    <2>3. FamiliarSearch(call, K, F, U, settings)
      BY <1>1, <2>1 DEF Fam, FamiliarInv, CallFamiliar
    <2>4. \A a \in F : KnowsFamiliar(a, K, U, settings, old)
      BY <1>1, <2>1, <2>2, AloneRebuilds DEF KnownOrRebuilt, IsRebuilding
    <2>5. \A a \in F : call.news \cap ReleasesBy(a) \subseteq K[a]
      BY <1>1, <2>1, <2>3 DEF FamiliarSearch
    <2>6. \A a \in F : KnowsFamiliar(a, K, U', settings, old)
      BY <2>1, <2>4, <2>5 DEF KnowsFamiliar
    <2>7. KnownOrRebuilt(Idle, K', F', U', settings', old')
      BY <1>1, <2>6 DEF KnownOrRebuilt
    <2>8. QED
      BY <1>1, <1>2, <2>2, <2>7, FamiliarKept
  <1>5. QED
    BY <1>3, <1>4

\* A release that grows old is one less to know under the settings "recent".
LEMMA CatalogChangesKeepsFamiliar ==
    ASSUME CatalogChanges, Fam
    PROVE  Fam'
  <1> DEFINE K == knownReleases
             F == followingArtists
             U == familiar
             S == settings
             O == old
  <1>1. UNCHANGED <<knownReleases, followingArtists, familiar, settings, calls>> /\ O \subseteq O'
    BY DEF CatalogChanges, library, history
  <1>2. \A r : r \in Outside(S, O) => r \in Outside(S, O')
    BY <1>1 DEF Outside
  <1>3. \A a : KnowsFamiliar(a, K, U, S, O) => KnowsFamiliar(a, K, U, S, O')
    BY <1>2 DEF KnowsFamiliar
  <1>4. ASSUME NEW call, CallFamiliar(call, K, F, U, S, O)
        PROVE  CallFamiliar(call, K, F, U, S, O')
    BY <1>2, <1>3, <1>4 DEF CallFamiliar, FamiliarPiece
  <1>5. QED
    BY <1>1, <1>3, <1>4 DEF Fam, FamiliarInv

LEMMA FamiliarStarts == Init => FamiliarLibrary
  BY NewsStarts DEF FamiliarLibrary, Fam, FamiliarInv, KnowsFamiliar, Init

LEMMA FamiliarStep == FamiliarLibrary /\ [Next]_vars => FamiliarLibrary'
  <1> SUFFICES ASSUME FamiliarLibrary, [Next]_vars, intact', listed' PROVE Fam'
    BY NewsStep DEF FamiliarLibrary
  <1>1. LibraryInv /\ (intact => News) /\ (intact /\ listed => Fam)
    BY DEF FamiliarLibrary, NewsLibrary
  <1>2. CASE CatalogChanges
    <2>1. intact /\ listed
      BY <1>2 DEF CatalogChanges, history
    <2>2. QED
      BY <1>1, <1>2, <2>1, CatalogChangesKeepsFamiliar
  <1>3. ASSUME NEW c \in Callers, Starts(c) PROVE Fam'
    <2>1. intact /\ listed
      BY <1>1, <1>3, StartsIs DEF LibraryInv, StartsWith
    <2>2. QED
      BY <1>1, <1>3, <2>1, StartsKeepsFamiliar
  <1>4. ASSUME NEW c \in Callers, calls[c] # Idle, NEW q \in calls[c].pending, Answered(c, q)
        PROVE  Fam'
    <2>1. At(c, q) /\ intact /\ listed
      BY <1>1, <1>4, AnsweredLeaves DEF At, LibraryInv
    <2>2. QED
      BY <1>1, <1>4, <2>1, AnsweredKeepsFamiliar
  <1>5. ASSUME NEW c \in Callers, GoesOn(c) PROVE Fam'
    <2>1. intact /\ listed
      BY <1>5 DEF GoesOn, NextStage, OnlyReads, history
    <2>2. QED
      BY <1>1, <1>5, <2>1, GoesOnKeepsFamiliar
  <1>6. ASSUME NEW c \in Callers, Tells(c) \/ Returns(c) PROVE Fam'
    <2>1. intact /\ listed
      BY <1>6 DEF Tells, Returns
    <2>2. QED
      BY <1>1, <1>6, <2>1, ReturnsKeepsFamiliar
  <1>7. CASE UNCHANGED vars
    BY <1>1, <1>7 DEF vars, library, world, history, Fam
  <1>8. QED
    BY <1>2, <1>3, <1>4, <1>5, <1>6, <1>7 DEF Next

\* The user is told of a release once, as long as no call spoiled another one's work and
\* every list was complete: never of one that was there when the artist was followed or
\* the settings were changed, nor of one it was told of before, through another of its
\* artists or by a search that got further than the last one (analyzeReleaseChanges,
\* mergeKnownReleasesForFollowedReleaseArtists, rebuildKnownReleasesForSettings).
THEOREM NewsAlwaysNews == Spec => NewsIsNews
  <1>1. ASSUME FamiliarLibrary, NEW c \in Callers, intact, listed, Tells(c)
        PROVE  calls[c].news \cap familiar = {}
    <2>1. calls[c].op = "detect" /\ calls[c] # Idle
      BY <1>1, IdleIsNoCall DEF Tells, IsDone
    <2>2. FamiliarSearch(calls[c], knownReleases, followingArtists, familiar, settings)
      BY <1>1, <2>1 DEF FamiliarLibrary, Fam, FamiliarInv, CallFamiliar
    <2>3. QED
      BY <2>2 DEF FamiliarSearch
  <1>2. FamiliarLibrary => [\A c \in Callers : intact /\ listed /\ Tells(c)
                              => calls[c].news \cap familiar = {}]_vars
    BY <1>1
  <1>3. Spec => []FamiliarLibrary
    BY FamiliarStarts, FamiliarStep, PTL DEF Spec
  <1>4. QED
    BY <1>2, <1>3, PTL DEF NewsIsNews
=============================================================================
