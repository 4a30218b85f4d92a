---------------------- MODULE LibraryInvariants ----------------------
(***************************************************************************)
(* What holds in every state of the library, in four parts that build on   *)
(* each other, for the proofs.  LibraryInv: calls are shaped by their      *)
(* operations, and as long as none spoiled another one's work one call at  *)
(* a time rewrites the library.  ShownLibrary: whatever is shown is kept   *)
(* by a followed artist, or the call that rewrites takes it off.           *)
(* NewsLibrary: what a search found is stored, or is about to be, and what *)
(* is taken off the list has a reason to go.  FamiliarLibrary: whoever is  *)
(* followed knows what the user is familiar with.                          *)
(***************************************************************************)
EXTENDS ArtistLibrary

-----------------------------------------------------------------------------
(* Shapes.                                                                 *)

Removal == {"readShownToUnfollow", "readKnownToUnfollow", "writeShownToUnfollow", "deleteKnown"}
UnfollowSteps == {"readToUnfollow", "writeUnfollow"} \cup Removal
FollowSteps == {"listReleases", "replaceKnown", "readToFollow", "writeFollow"}
SearchSteps == {"search", "replaceKnown", "readToFollow", "writeFollow", "storeNews", "readShown",
                "readKnown", "readShownToRemove", "writeShown"}
DetectReads == {"readFollowed", "readDetectSettings", "readAllKnown"}
RefreshSteps == {"readFollowed", "readSummary", "readToRefresh", "writeRefresh"}
DismissSteps == {"readShownToRemove", "writeShown"}
VerifySteps == {"checkRelease", "readAllEntries", "removeKnown", "readShownToVerify", "writeShown"}
SettingsReads == {"readSettings", "saveSettings"}
SettingsSteps == {"readFollowed", "rebuild", "replaceRebuilt", "readOutside", "writeShown", "rollBack"}

Steps == UnfollowSteps \cup FollowSteps \cup SearchSteps \cup DetectReads \cup RefreshSteps
            \cup DismissSteps \cup VerifySteps \cup SettingsReads \cup SettingsSteps \cup {"mergeKnown"}

\* Steps of one artist's releases, or of its place on the list.
ArtistSteps == UnfollowSteps \cup FollowSteps
                  \cup {"search", "mergeKnown", "readSummary", "rebuild", "replaceRebuilt"}

OneArtist == {"follow", "unfollow", "details"}
Ops == OneArtist \cup {"refresh", "detect", "dismiss", "verify", "settings"}

Piece == [do : Steps, artist : Artists \cup {None}, read : SUBSET Artists,
          shown : SUBSET Releases, found : SUBSET Releases, ids : SUBSET Releases,
          news : SUBSET Releases, pruned : SUBSET Releases]

CallRecord ==
    [op : Ops, asked : SUBSET (Artists \cup Releases \cup Settings), pending : SUBSET Piece,
     stage : {"begin", "search", "merge", "save", "rebuild", "remove"}, failed : BOOLEAN,
     followed : SUBSET Artists, settings : Settings, known : [Artists -> SUBSET Releases],
     news : SUBSET Releases, fetched : SUBSET Artists, rewrites : BOOLEAN]

\* The operation takes such a step.
Takes(op, do) ==
    /\ op = "follow" => do \in {"readSummary"} \cup FollowSteps \cup UnfollowSteps
    /\ op = "unfollow" => do \in UnfollowSteps
    /\ op = "details" => do \in {"readSummary"} \cup UnfollowSteps
    /\ op = "refresh" => do \in RefreshSteps \cup UnfollowSteps
    /\ op = "detect" => do \in DetectReads \cup SearchSteps \cup {"mergeKnown"}
    /\ op = "dismiss" => do \in DismissSteps
    /\ op = "verify" => do \in VerifySteps
    /\ op = "settings" => do \in SettingsReads \cup SettingsSteps

\* What a piece of a call's work may be.
PieceShaped(call, q) ==
    /\ Takes(call.op, q.do)
    /\ q.do \in ArtistSteps => q.artist \in Artists
    /\ q.do \in UnfollowSteps => call.rewrites
    /\ q.do \in {"writeShown", "writeShownToUnfollow"} => q.ids \subseteq q.shown
    /\ q.do = "replaceKnown" => q.news \subseteq q.ids /\ q.pruned \cap q.ids = {}
    /\ q.do = "mergeKnown" => q.ids \subseteq call.news
    /\ call.op \in OneArtist => call.asked = {q.artist} /\ q.news = {} /\ q.pruned = {}
    /\ call.op = "detect" =>
          IF q.do \in DetectReads THEN call.stage = "begin"
          ELSE call.stage # "begin" /\ q.artist \in call.followed
    /\ call.op = "dismiss" /\ q.do = "writeShown" => q.ids \cap q.pruned = {}
    /\ call.op = "settings" => (q.do \in SettingsReads <=> call.stage = "begin")

\* Its work is in one piece.
InOnePiece(call) ==
    \/ call.op \in OneArtist \cup {"dismiss", "verify"}
    \/ call.op \in {"detect", "settings"} /\ call.stage = "begin"

Shaped(call) ==
    /\ call \in CallRecord
    /\ \A q \in call.pending : PieceShaped(call, q)
    /\ call.op \in Rewrites => call.rewrites
    /\ InOnePiece(call) => \A p, q \in call.pending : p = q
    /\ call.op \in OneArtist => \E a \in Artists : call.asked = {a}
    /\ call.op = "settings" => \E s \in Settings : call.asked = {s}
    /\ call.op = "detect" => /\ call.stage \in {"begin", "search", "merge"}
                             /\ call.stage = "begin" /\ ~call.failed => call.pending # {}

LibraryOK ==
    /\ followingArtists \subseteq Artists /\ knownReleases \in [Artists -> SUBSET Releases]
    /\ newReleases \subseteq Releases /\ settings \in Settings

WorldOK == catalog \subseteq Releases /\ old \subseteq Releases /\ missing \subseteq Artists

HistoryOK ==
    /\ familiar \subseteq Releases /\ heard \subseteq Releases
    /\ dismissed \subseteq Releases /\ wanted \subseteq Artists
    /\ intact \in BOOLEAN /\ listed \in BOOLEAN

CountersOK == overlaps \in 0..MaxOverlaps /\ failures \in 0..MaxFailures /\ changes \in 0..MaxChanges

CallsOK ==
    /\ calls \in [Callers -> CallRecord \cup {Idle}]
    /\ \A c \in Callers : calls[c] # Idle => Shaped(calls[c])

TypesInv == LibraryOK /\ WorldOK /\ HistoryOK /\ CountersOK /\ CallsOK

-----------------------------------------------------------------------------
(* The invariant.                                                          *)

\* A call rewrites what the user follows or what is known.
Rewriting(call) == call # Idle /\ call.rewrites

OneRewriter(C) == \A c, x \in Callers : Rewriting(C[c]) /\ Rewriting(C[x]) => c = x

\* A call has taken the artist off the list, or found it is not there, and still has
\* to forget its releases; or it has put the artist on the list and is about to return.
Removing(call, a) == call # Idle /\ \E q \in call.pending : q.do \in Removal /\ q.artist = a
Adding(call, a) == call.op = "follow" /\ call.pending = {} /\ a \in call.asked

\* The list is what was asked for, but for what is being added or removed; what a
\* search and a change of settings work on is on it.
FollowInv(F, W, C) ==
    /\ \A a \in Artists : a \in F <=> \/ a \in W /\ \A c \in Callers : ~Removing(C[c], a)
                                      \/ \E c \in Callers : Adding(C[c], a)
    /\ \A c \in Callers : C[c].op = "detect" => C[c].followed \subseteq F
    /\ \A c \in Callers : C[c].op = "settings" => \A q \in C[c].pending :
          q.do \in {"rebuild", "replaceRebuilt"} => q.artist \in F

\* What a search is going to tell the user.
ToTell(call) == IF call.op = "detect" THEN call.news ELSE {}

\* A call makes known what the user has heard of or is going to be told by it.
HearsOf(call, H) ==
    call # Idle =>
        /\ call.op = "detect" => \A a \in Artists : call.known[a] \subseteq H \cup call.news
        /\ \A q \in call.pending : q.do \in {"replaceKnown", "replaceRebuilt"} =>
              q.ids \subseteq H \cup ToTell(call)

HeardInv(K, H, C) ==
    /\ \A a \in Artists : \A r \in K[a] : r \in H \/ \E c \in Callers : r \in ToTell(C[c])
    /\ \A c \in Callers : HearsOf(C[c], H)

LibraryInv ==
    /\ TypesInv
    /\ intact => OneRewriter(calls) /\ dismissed \cap newReleases = {}
    /\ intact /\ failures = 0 =>
          /\ \A c \in Callers : calls[c] # Idle => ~calls[c].failed
          /\ FollowInv(followingArtists, wanted, calls)
          /\ HeardInv(knownReleases, heard, calls)

-----------------------------------------------------------------------------
(* What is shown: tables K (what is known), F (who is followed), N (what is *)
(* shown) and O (what is old).                                              *)

KeptBy(r, K, F) == \E a \in F : r \in K[a]

\* What the settings leave out.
Outside(s, O) == IF s = "all" THEN {} ELSE O

\* The piece of work is going to take the release off the list.
Leaves(call, q, r, K) ==
    \/ q.do \in {"readShownToUnfollow", "readKnownToUnfollow"} /\ r \in K[q.artist]
    \/ q.do \in {"writeShownToUnfollow", "writeShown"} /\ r \notin q.ids
    \/ q.do \in {"readToFollow", "writeFollow", "storeNews", "readShown", "readShownToRemove"} /\ r \in q.pruned
    \/ q.do = "readKnown" /\ r \in q.pruned \cap q.shown
    \/ q.do = "readShownToVerify" /\ r \in call.asked

\* A change of settings is going to look at all that is shown.
Sifts(call) == call.op = "settings" /\ (call.stage = "rebuild" \/ \E q \in call.pending : q.do = "readOutside")

WillLeave(call, r, K, O) ==
    \/ \E q \in call.pending : Leaves(call, q, r, K)
    \/ Sifts(call) /\ \E s \in call.asked : r \in Outside(s, O)

Following(call, a) == call.op = "follow" /\ a \in call.asked

EntriesOf(call, K, F) ==
    \A a \in Artists : K[a] # {} => a \in F \/ Removing(call, a) \/ Following(call, a)

\* Pieces of work are about different artists, and nothing runs beside a look at all
\* of them.
Apart(call) == \A p, q \in call.pending : p.artist = q.artist \/ q.do = "readFollowed" => p = q

\* What a piece of work knows is so.
PieceFits(call, q, K, F, N, O) ==
    /\ call.op = "detect" =>
          /\ q.do = "search" => K[q.artist] \subseteq call.known[q.artist]
          /\ q.do = "replaceKnown" => K[q.artist] \subseteq q.ids \cup q.pruned
          /\ q.do \in {"readToFollow", "writeFollow", "storeNews"} => q.news \subseteq K[q.artist]
    /\ call.op = "follow" /\ q.do = "replaceKnown" => K[q.artist] \cap N \subseteq q.ids
    /\ call.op = "settings" =>
          /\ q.do \in {"readFollowed", "rebuild", "replaceRebuilt"} => call.stage = "rebuild"
          /\ q.do = "replaceRebuilt" =>
                \A r \in K[q.artist] \cap N : r \in q.ids \/ \E s \in call.asked : r \in Outside(s, O)
    /\ q.do \in {"replaceKnown", "replaceRebuilt", "mergeKnown"} => q.ids \subseteq ReleasesBy(q.artist)
    /\ q.do = "readKnownToUnfollow" => N \subseteq q.shown
    /\ q.do \in Removal => F \subseteq q.read \ {q.artist}

\* Of two artists that are removed beside each other one was taken off the list first.
Nested(call) == \A p, q \in call.pending :
    p # q /\ p.do \in Removal /\ q.do \in Removal /\ p.artist \in q.read => p.read \subseteq q.read \ {q.artist}

\* What an artist to be removed knows and is shown is kept by another one, or is taken
\* off the list with the artist or with one that was on it when the artist was removed.
LaterOf(call, K, F, N) == \A p \in call.pending : p.do \in Removal =>
    \A r \in N \cap K[p.artist] :
       \/ KeptBy(r, K, F)
       \/ \E q \in call.pending :
             q.do \in Removal /\ Leaves(call, q, r, K) /\ q.artist \in {p.artist} \cup p.read

\* The library as the only call that rewrites it leaves it.
Sole(call, K, F, N, O) ==
    /\ EntriesOf(call, K, F)
    /\ \A q \in call.pending : PieceFits(call, q, K, F, N, O)
    /\ Nested(call) /\ LaterOf(call, K, F, N)
    /\ \A r \in N : KeptBy(r, K, F) \/ WillLeave(call, r, K, O)

Quiet(K, F, N) ==
    /\ \A a \in Artists : K[a] # {} => a \in F
    /\ \A r \in N : KeptBy(r, K, F)

OfOne(K) == \A a \in Artists : K[a] \subseteq ReleasesBy(a)

ShownInv(K, F, N, O, C) ==
    /\ OfOne(K)
    /\ \A c \in Callers : C[c] # Idle => Apart(C[c])
    /\ \A c \in Callers : Rewriting(C[c]) => Sole(C[c], K, F, N, O)
    /\ (\A c \in Callers : ~Rewriting(C[c])) => Quiet(K, F, N)

Shown == ShownInv(knownReleases, followingArtists, newReleases, old, calls)

ShownLibrary == LibraryInv /\ (intact /\ listed /\ failures = 0 => Shown)

-----------------------------------------------------------------------------
(* What is taken off the list of new releases, and what a search found:    *)
(* tables K (what is known), F (who is followed), N (what is shown) and D   *)
(* (what was dismissed).                                                    *)

\* The piece of work is going to take it off the list it has read, or that it read.
Taken(q) == IF q.do = "readShownToRemove" THEN q.pruned
            ELSE IF q.do \in {"writeShown", "writeShownToUnfollow"} THEN q.shown \ q.ids ELSE {}

\* What is dismissed or gone was asked for.
AskedFor(call) == call.op \in {"dismiss", "verify"} => \A q \in call.pending :
    Taken(q) \subseteq call.asked /\ (call.op = "dismiss" => Taken(q) \subseteq q.pruned)

\* What an unfollowed artist takes off the list is known to none that is followed.
Forgets(q, K, F) ==
    /\ q.do \in Removal => F \subseteq q.read \ {q.artist}
    /\ q.do = "writeShownToUnfollow" => \A r \in q.shown \ q.ids : \A b \in F : r \notin K[b]

ForgetsAll(call, K, F) == \A q \in call.pending : Forgets(q, K, F)

NoneKnows(K, r) == \A a \in Artists : r \notin K[a]

Searching == {"search", "replaceKnown"}

\* An artist that the search is done with knows the release.
Settled(call, K, r) ==
    \E a \in Artists : r \in K[a] /\ \A q \in call.pending : q.artist = a => q.do \notin Searching

\* What a piece of a search knows is so, and what it takes off the list is no news and
\* known to nobody, or goes back on the list.
PieceSearches(call, q, K) ==
    /\ q.do = "mergeKnown" <=> call.stage = "merge"
    /\ q.do = "search" => call.known[q.artist] = K[q.artist]
    /\ q.do = "replaceKnown" => q.ids \subseteq K[q.artist] \cup q.news
    /\ q.do \in {"readToFollow", "writeFollow", "storeNews"} => q.news \subseteq K[q.artist]
    /\ \A r \in Taken(q) : IsAboutToBeStored(call, r) \/ (r \notin call.news /\ NoneKnows(K, r))

\* What a search found is about to be stored, or it is on the list, or was dismissed,
\* and is known.
SearchKeeps(call, K, N, D) ==
    /\ \A p, q \in call.pending : p.artist = q.artist => p = q
    /\ call.stage = "begin" => call.news = {}
    /\ \A q \in call.pending : PieceSearches(call, q, K)
    /\ \A r \in call.news : IsAboutToBeStored(call, r) \/ (r \in N \cup D /\ Settled(call, K, r))

CallNews(call, K, F, N, D) ==
    /\ AskedFor(call) /\ ForgetsAll(call, K, F)
    /\ call.op = "detect" /\ ~call.failed => SearchKeeps(call, K, N, D)

NewsInv(K, F, N, D, C) == \A c \in Callers : C[c] # Idle => CallNews(C[c], K, F, N, D)

News == NewsInv(knownReleases, followingArtists, newReleases, dismissed, calls)

NewsLibrary == LibraryInv /\ (intact => News)

-----------------------------------------------------------------------------
(* What the user is familiar with: tables K (what is known), F (who is      *)
(* followed), U (what the user is familiar with), S (the settings) and O    *)
(* (what is old).                                                           *)

\* What the user is familiar with of the artist's releases is known, if the settings
\* do not leave it out.
KnowsFamiliar(a, K, U, S, O) == \A r \in U \cap ReleasesBy(a) : r \in K[a] \/ r \in Outside(S, O)

\* A change of settings is going to replace what is known of the artist.
IsRebuilding(call, a) == call.op = "settings" /\ \E q \in call.pending :
     q.do = "readFollowed" \/ (q.do \in {"rebuild", "replaceRebuilt"} /\ q.artist = a)

\* What a list makes known, the user gets familiar with; what a search keeps of the
\* known releases leaves out nothing the user is familiar with.
FamiliarPiece(call, q, K, U, S, O) ==
    /\ call.op = "follow" =>
          /\ q.do = "replaceKnown" => q.found = q.ids
          /\ q.do \in {"readToFollow", "writeFollow"} => KnowsFamiliar(q.artist, K, U, S, O)
    /\ call.op = "settings" => (q.do = "replaceRebuilt" => q.found = q.ids) /\ q.do # "rollBack"
    /\ call.op = "detect" =>
          /\ q.do = "search" => call.known[q.artist] = K[q.artist]
          /\ q.do = "replaceKnown" =>
                \A r \in U \cap ReleasesBy(q.artist) : r \in q.ids \/ r \in Outside(S, O)
          /\ q.do = "mergeKnown" => q.ids = call.news \cap ReleasesBy(q.artist)
          /\ q.do = "mergeKnown" <=> call.stage = "merge"

\* A search is about those who are followed, under the settings that are stored; what it
\* found is nothing the user is familiar with, and is known to all its artists at last.
FamiliarSearch(call, K, F, U, S) ==
    /\ \A p, q \in call.pending : p.artist = q.artist => p = q
    /\ call.stage # "begin" \/ (\E q \in call.pending : q.do \in {"readDetectSettings", "readAllKnown"})
          => F = call.followed
    /\ call.stage # "begin" \/ (\E q \in call.pending : q.do = "readAllKnown") => call.settings = S
    /\ call.news \cap U = {}
    /\ call.stage = "merge" /\ ~call.failed => \A a \in call.followed :
          \/ call.news \cap ReleasesBy(a) \subseteq K[a]
          \/ \E q \in call.pending : q.artist = a /\ q.do = "mergeKnown"

CallFamiliar(call, K, F, U, S, O) ==
    /\ \A q \in call.pending : FamiliarPiece(call, q, K, U, S, O)
    /\ call.op = "detect" => FamiliarSearch(call, K, F, U, S)

\* An artist that is followed knows what the user is familiar with of its releases, or
\* the call is rebuilding it.
KnownOrRebuilt(call, K, F, U, S, O) ==
    \A a \in F : KnowsFamiliar(a, K, U, S, O) \/ IsRebuilding(call, a)

FamiliarInv(K, F, U, S, O, C) ==
    /\ \A a \in F : KnowsFamiliar(a, K, U, S, O) \/ \E c \in Callers : IsRebuilding(C[c], a)
    /\ \A c \in Callers : C[c] # Idle => CallFamiliar(C[c], K, F, U, S, O)

Fam == FamiliarInv(knownReleases, followingArtists, familiar, settings, old, calls)

FamiliarLibrary == NewsLibrary /\ (intact /\ listed => Fam)

=============================================================================
