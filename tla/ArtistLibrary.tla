---------------------------- MODULE ArtistLibrary ----------------------------
(***************************************************************************)
(* One user's library (src/src/services/firebase): the artists the user    *)
(* follows, per artist the releases that are already known, and the new    *)
(* releases shown to the user.  Following, unfollowing, the search for new *)
(* releases, dismissing them, removing a release that is gone, refreshing  *)
(* the list and changing the notification settings all read one document   *)
(* and write another as separate requests, without a transaction.          *)
(*                                                                         *)
(* Following and new releases are documents that are read and written      *)
(* whole; the known releases are paths of the realtime database, one per   *)
(* artist and release.  Names, dates and covers are left out: a release is *)
(* a number, in the order in which the code compares identifiers.          *)
(***************************************************************************)
EXTENDS Naturals, FiniteSets, TLC

CONSTANTS
    Artists, Releases,
    By,        \* release |-> the artists it is by
    Edition,   \* release |-> what it is an edition of; two editions of the same are duplicates
    Callers,   \* requests and runs at work at the same time
    Operations,   \* the operations that are called, see Starts
    MaxOverlaps, MaxFailures,   \* bounds: calls that start beside another one, failed requests
    MaxChanges,  \* bound: changes of the catalogue
    None         \* no artist: work that is for all of them

ASSUME ReleasesAssumption == Releases \subseteq Nat /\ By \in [Releases -> SUBSET Artists]
ASSUME BoundsAssumption ==
    MaxOverlaps \in Nat /\ MaxFailures \in Nat /\ MaxChanges \in Nat

VARIABLES
    followingArtists, knownReleases, newReleases,   \* the library
    settings,    \* releases of which age the user wants to hear of
    catalog,     \* the releases that MusicBrainz has
    old,         \* the releases too old for the settings "recent"
    missing,     \* the artists that MusicBrainz no longer has
    calls,       \* what each caller is doing
    familiar,    \* history: releases that are no news to the user
    heard,       \* history: releases the user was told of, or that were there already
    dismissed,   \* history: new releases that the user removed
    wanted,      \* history: the artists the user asked to follow
    intact,      \* history: no call spoiled another one's work so far
    listed,      \* history: every list of a followed artist's releases was complete
    overlaps, failures, changes   \* bounded counters

library == <<followingArtists, knownReleases, newReleases, settings>>
world == <<catalog, old, missing>>
history == <<familiar, heard, dismissed, wanted, intact, listed>>
counters == <<overlaps, failures, changes>>
vars == <<library, world, calls, history, counters>>

Settings == {"all", "recent"}
Idle == [op |-> "idle"]

\* A piece of a call's work: what it does next and what it found so far.  The
\* pieces of a call run in parallel.
Work(do, a) == [do |-> do, artist |-> a, read |-> {}, shown |-> {},
                found |-> {}, ids |-> {}, news |-> {}, pruned |-> {}]

Init ==
    /\ followingArtists = {} /\ knownReleases = [a \in Artists |-> {}] /\ newReleases = {}
    /\ settings = "all"
    /\ catalog \in SUBSET Releases /\ old \in SUBSET Releases /\ missing = {}
    /\ calls = [c \in Callers |-> Idle]
    /\ familiar = {} /\ heard = {} /\ dismissed = {} /\ wanted = {}
    /\ intact = TRUE /\ listed = TRUE
    /\ overlaps = 0 /\ failures = 0 /\ changes = 0

-----------------------------------------------------------------------------
(* MusicBrainz.                                                            *)

ReleasesBy(a) == {r \in Releases : a \in By[r]}
Found(a) == catalog \cap ReleasesBy(a)
Matches(s) == IF s = "all" THEN Releases ELSE Releases \ old

\* getNotificationCandidateReleases: of several editions that match the settings
\* a known one, otherwise the first.
Candidates(releases, known, s) ==
    LET tracked == releases \cap Matches(s)
        GoesBefore(e, r) == IF (e \in known) # (r \in known) THEN e \in known ELSE e < r
    IN {r \in tracked : \A e \in tracked : Edition[e] = Edition[r] => ~GoesBefore(e, r)}

CatalogChanges ==
    /\ changes < MaxChanges /\ changes' = changes + 1
    /\ \/ \E r \in Releases \ catalog : catalog' = catalog \cup {r} /\ UNCHANGED <<old, missing>>
       \/ \E r \in catalog : catalog' = catalog \ {r} /\ UNCHANGED <<old, missing>>
       \/ \E r \in Releases \ old : old' = old \cup {r} /\ UNCHANGED <<catalog, missing>>
       \/ \E a \in Artists \ missing : missing' = missing \cup {a} /\ UNCHANGED <<catalog, old>>
    /\ UNCHANGED <<library, calls, history, overlaps, failures>>

-----------------------------------------------------------------------------
(* Calls and their requests.                                               *)

Then(q, do) == [q EXCEPT !.do = do]

\* One piece of the caller's work is done and followed by others.
Continue(c, q, more) == calls' = [calls EXCEPT ![c].pending = (@ \ {q}) \cup more]

\* Calls that rewrite what the user follows or what is known, for one artist or
\* for all of them, on the strength of what they read before.
Rewrites == {"follow", "unfollow", "detect", "settings", "verify"}

OthersRewrite(c) == \E x \in Callers \ {c} : calls[x] # Idle /\ calls[x].rewrites

\* A call starts; two calls that rewrite the same spoil each other's work.  It
\* asks for something, goes through stages and remembers what it read.
Start(c, op, work, asked) ==
    /\ op \in Operations
    /\ calls[c] = Idle
    /\ calls' = [calls EXCEPT ![c] =
          [op |-> op, asked |-> asked, pending |-> {work}, stage |-> "begin", failed |-> FALSE,
           followed |-> {}, settings |-> "all", known |-> [a \in Artists |-> {}], news |-> {},
           fetched |-> {}, rewrites |-> op \in Rewrites]]
    /\ intact' = (intact /\ (op \in Rewrites => ~OthersRewrite(c)))
    /\ overlaps' = overlaps + (IF \E x \in Callers : calls[x] # Idle THEN 1 ELSE 0)
    /\ overlaps' <= MaxOverlaps
    /\ UNCHANGED <<library, world, familiar, heard, dismissed, wanted, listed, failures, changes>>

Return(c) == calls' = [calls EXCEPT ![c] = Idle]

\* The request is a read: nothing else than what the call knows changes.
OnlyReads == UNCHANGED <<library, world, history, counters>>

\* A document is written whole, over what was read before.  If it changed in
\* between, that change is lost.
WriteFollowing(read, artists) ==
    /\ followingArtists' = artists
    /\ intact' = (intact /\ read = followingArtists)

\* FAULTY: as the search does, the removals merge instead of writing the whole document.
MergeNewReleases(read, releases) ==
    /\ newReleases' = newReleases \cup releases
    /\ intact' = (intact /\ read = newReleases)

WriteNewReleases(read, releases) ==
    /\ newReleases' = releases
    /\ intact' = (intact /\ read = newReleases)

\* Any request may fail.  What would have followed it does not happen, what runs
\* beside it goes on.  A change of settings is taken back, unless it was not made,
\* but what was rebuilt for it is not.
Fails(c, q) ==
    /\ failures < MaxFailures /\ failures' = failures + 1
    /\ calls' = [calls EXCEPT ![c].failed = TRUE, ![c].pending = (@ \ {q}) \cup
          IF calls[c].op = "settings" /\ ~calls[c].failed /\ q.do \notin {"readSettings", "saveSettings"}
          THEN {Work("rollBack", q.artist)} ELSE {}]
    /\ intact' = (intact /\ calls[c].op # "settings")
    /\ UNCHANGED <<library, world, familiar, heard, dismissed, wanted, listed, overlaps, changes>>

-----------------------------------------------------------------------------
(* saveArtistAndKnownReleasesToDb: known releases, following, new releases. *)

\* What an artist's list that is now known makes of what the user is familiar
\* with: what is on it, unless another artist it is by is followed and does not
\* know it yet, and nothing of that artist that is not on it.
Acquainted(q) ==
    {r \in familiar : q.artist \in By[r] => r \in q.found}
      \cup {r \in q.found : \A b \in (By[r] \cap followingArtists) \ {q.artist} :
                                r \in knownReleases[b]}

\* After it, a search looks at what it pruned.
AfterSave(q) == IF q.pruned = {} THEN {} ELSE {Then(q, "readShown")}

ReplacesKnown(c, q) ==
    /\ q.do = "replaceKnown"
    /\ knownReleases' = [knownReleases EXCEPT ![q.artist] = q.ids]
    /\ familiar' = IF calls[c].op = "detect" THEN familiar ELSE Acquainted(q)
    /\ Continue(c, q, {Then(q, "readToFollow")})
    /\ UNCHANGED <<followingArtists, newReleases, settings, world, counters,
                   heard, dismissed, wanted, intact, listed>>

ReadsToFollow(c, q) ==
    /\ q.do = "readToFollow"
    /\ Continue(c, q, {[Then(q, "writeFollow") EXCEPT !.read = followingArtists]})
    /\ OnlyReads

WritesFollow(c, q) ==
    /\ q.do = "writeFollow"
    /\ WriteFollowing(q.read, q.read \cup {q.artist})
    /\ Continue(c, q, IF q.news = {} THEN AfterSave(q) ELSE {Then(q, "storeNews")})
    /\ UNCHANGED <<knownReleases, newReleases, settings, world, counters,
                   familiar, heard, dismissed, wanted, listed>>

\* Somebody read the new releases or chose what to remove, and has not written yet.
IsRewritten ==
    \E x \in Callers : calls[x] # Idle /\ \E q \in calls[x].pending :
        q.do \in {"readShownToRemove", "writeShown", "readKnownToUnfollow", "writeShownToUnfollow"}

\* mergeNewReleasesIntoState merges into what is stored by then.
StoresNews(c, q) ==
    /\ q.do = "storeNews"
    /\ newReleases' = newReleases \cup q.news
    /\ dismissed' = dismissed \ q.news
    /\ intact' = (intact /\ ~IsRewritten)
    /\ Continue(c, q, AfterSave(q))
    /\ UNCHANGED <<followingArtists, knownReleases, settings, world, counters,
                   familiar, heard, wanted, listed>>

-----------------------------------------------------------------------------
(* deleteArtistFromDb: following, then the new releases of that artist only *)
(* (removeUnfollowedArtistNewReleases), then its known releases.            *)

ReadsToUnfollow(c, q) ==
    /\ q.do = "readToUnfollow"
    /\ LET next == IF q.artist \in followingArtists THEN "writeUnfollow" ELSE "readShownToUnfollow"
       IN Continue(c, q, {[Then(q, next) EXCEPT !.read = followingArtists]})
    /\ OnlyReads

WritesUnfollow(c, q) ==
    /\ q.do = "writeUnfollow"
    /\ WriteFollowing(q.read, q.read \ {q.artist})
    /\ Continue(c, q, {Then(q, "readShownToUnfollow")})
    /\ UNCHANGED <<knownReleases, newReleases, settings, world, counters,
                   familiar, heard, dismissed, wanted, listed>>

ReadsShownToUnfollow(c, q) ==
    /\ q.do = "readShownToUnfollow"
    /\ Continue(c, q, {[Then(q, "readKnownToUnfollow") EXCEPT !.shown = newReleases]})
    /\ OnlyReads

\* FAULTY: releases that are by another followed artist too are removed.
KeptAfterUnfollowOfOwn(q) == q.shown \ knownReleases[q.artist]

\* What stays of the new releases: those of other artists that are followed.
KeptAfterUnfollow(q) ==
    {r \in q.shown : \/ r \notin knownReleases[q.artist]
                     \/ \E b \in q.read \ {q.artist} : r \in knownReleases[b]}

ReadsKnownToUnfollow(c, q) ==
    /\ q.do = "readKnownToUnfollow"
    /\ LET next == IF KeptAfterUnfollow(q) = q.shown THEN "deleteKnown" ELSE "writeShownToUnfollow"
       IN Continue(c, q, {[Then(q, next) EXCEPT !.ids = KeptAfterUnfollow(q)]})
    /\ OnlyReads

\* followArtist goes on, with an artist that is missing too.
DeletesKnown(c, q) ==
    /\ q.do = "deleteKnown"
    /\ knownReleases' = [knownReleases EXCEPT ![q.artist] = {}]
    /\ wanted' = wanted \ {q.artist}
    /\ Continue(c, q, IF calls[c].op = "follow" THEN {Work("listReleases", q.artist)} ELSE {})
    /\ UNCHANGED <<followingArtists, newReleases, settings, world, counters,
                   familiar, heard, dismissed, intact, listed>>

WritesShown(c, q) ==
    /\ q.do \in {"writeShown", "writeShownToUnfollow"}
    /\ WriteNewReleases(q.shown, q.ids)
    /\ dismissed' = dismissed \cup (IF calls[c].op = "dismiss" THEN q.pruned ELSE {})
    /\ Continue(c, q, IF q.do = "writeShown" THEN {} ELSE {Then(q, "deleteKnown")})
    /\ UNCHANGED <<followingArtists, knownReleases, settings, world, counters,
                   familiar, heard, wanted, listed>>

-----------------------------------------------------------------------------
(* removePrunedNewReleases, and removeNewReleasesFromDb, which is also what *)
(* the user's dismissal is.                                                 *)

ReadsShown(c, q) ==
    /\ q.do = "readShown"
    /\ Continue(c, q, {[Then(q, "readKnown") EXCEPT !.shown = newReleases]})
    /\ OnlyReads

\* FAULTY: a release that another artist's entry still knows is removed.
PrunedAtOnce(q) == q.pruned \cap q.shown

\* Of the pruned releases those that are shown and no longer known to any artist.
PrunedForGood(q) == {r \in q.pruned \cap q.shown : \A a \in Artists : r \notin knownReleases[a]}

ReadsKnown(c, q) ==
    /\ q.do = "readKnown"
    /\ Continue(c, q, IF PrunedForGood(q) = {} THEN {}
                      ELSE {[Then(q, "readShownToRemove") EXCEPT !.pruned = PrunedForGood(q)]})
    /\ OnlyReads

ReadsShownToRemove(c, q) ==
    /\ q.do = "readShownToRemove"
    /\ Continue(c, q, {[Then(q, "writeShown") EXCEPT !.shown = newReleases,
                                                     !.ids = newReleases \ q.pruned]})
    /\ OnlyReads

-----------------------------------------------------------------------------
(* getNewReleases: all artists at once, each against what was known at the  *)
(* beginning; at last every followed artist of a new release knows it.      *)

\* What the user is familiar with of an artist's releases, when they are listed.
StillFamiliar(a) == familiar \ (ReleasesBy(a) \ Found(a))

\* Every release of the artist that is shown is on the list of its releases still.
NothingVanished(a, ids) == knownReleases[a] \cap newReleases \subseteq ids

ReadsFollowed(c, q) ==
    /\ q.do = "readFollowed"
    /\ \/ /\ calls[c].op = "detect"
          /\ calls' = [calls EXCEPT ![c].followed = followingArtists,
                                    ![c].pending = {Then(q, "readDetectSettings")}]
       \/ /\ calls[c].op = "settings"
          /\ Continue(c, q, {Work("rebuild", a) : a \in followingArtists})
       \/ /\ calls[c].op = "refresh"
          /\ \E stale \in SUBSET followingArtists :
                Continue(c, q, {Work("readSummary", a) : a \in stale})
    /\ OnlyReads

ReadsDetectSettings(c, q) ==
    /\ q.do = "readDetectSettings"
    /\ calls' = [calls EXCEPT ![c].settings = settings, ![c].pending = {Then(q, "readAllKnown")}]
    /\ OnlyReads

ReadsAllKnown(c, q) ==
    /\ q.do = "readAllKnown"
    /\ calls' = [calls EXCEPT ![c].known = knownReleases, ![c].stage = "search",
                              ![c].pending = {Work("search", a) : a \in calls[c].followed}]
    /\ OnlyReads

\* FAULTY: what takes the place of a pruned release is no news.
NewUnlessReplaced(candidates, known) == IF known \subseteq candidates THEN candidates \ known ELSE {}

NewAmong(candidates, known) == candidates \ known

Pruned(candidates, known) == known \ candidates

\* processArtistReleases, analyzeReleaseChanges.
Searches(c, q) ==
    LET known == calls[c].known[q.artist]
        candidates == Candidates(Found(q.artist), known, calls[c].settings)
        news == NewAmong(candidates, known)
        pruned == Pruned(candidates, known)
        duplicates == (pruned \cap Found(q.artist)) \cap Matches(calls[c].settings)
        work == [Then(q, "replaceKnown") EXCEPT !.ids = candidates, !.news = news, !.pruned = pruned]
    IN /\ q.do = "search"
       /\ calls' = [calls EXCEPT ![c].news = @ \cup news,
             ![c].pending = (@ \ {q}) \cup IF news = {} /\ pruned = {} THEN {} ELSE {work}]
       /\ familiar' = StillFamiliar(q.artist) \ duplicates
       /\ UNCHANGED <<library, world, counters, heard, dismissed, wanted, intact, listed>>

\* FAULTY: only the entries of the artists that were searched know a new release.
NothingToMerge(c) == {}

\* mergeKnownReleasesForFollowedReleaseArtists.
Merges(c) == {[Work("mergeKnown", a) EXCEPT !.ids = calls[c].news \cap ReleasesBy(a)] :
                  a \in {b \in calls[c].followed : calls[c].news \cap ReleasesBy(b) # {}}}

IsDone(c, op, stage) ==
    /\ calls[c].op = op /\ calls[c].stage = stage
    /\ calls[c].pending = {} /\ ~calls[c].failed

MergesKnown(c, q) ==
    /\ q.do = "mergeKnown"
    /\ knownReleases' = [knownReleases EXCEPT ![q.artist] = @ \cup q.ids]
    /\ Continue(c, q, {})
    /\ UNCHANGED <<followingArtists, newReleases, settings, world, history, counters>>

\* notifyUserAboutNewReleases: the search has returned, the user is told.
Tells(c) ==
    /\ IsDone(c, "detect", "merge")
    /\ familiar' = familiar \cup calls[c].news /\ heard' = heard \cup calls[c].news
    /\ Return(c)
    /\ UNCHANGED <<library, world, counters, dismissed, wanted, intact, listed>>

-----------------------------------------------------------------------------
(* followArtist, unfollowArtists, getFollowing and getArtistDetails.        *)

\* The artist's record; an artist that MusicBrainz no longer has is removed.
ReadsSummary(c, q) ==
    /\ q.do = "readSummary"
    /\ \/ /\ q.artist \notin missing
          /\ calls' = [calls EXCEPT ![c].fetched = @ \cup {q.artist}, ![c].pending = (@ \ {q}) \cup
                IF calls[c].op = "follow" THEN {Work("listReleases", q.artist)} ELSE {}]
          /\ UNCHANGED intact
       \/ /\ q.artist \in missing
          /\ calls' = [calls EXCEPT ![c].rewrites = TRUE,
                ![c].pending = (@ \ {q}) \cup {Work("readToUnfollow", q.artist)}]
          /\ intact' = (intact /\ ~OthersRewrite(c))
    /\ UNCHANGED <<library, world, counters, familiar, heard, dismissed, wanted, listed>>

\* getArtistKnownReleaseIds: a list from the cache may be older than the catalogue,
\* and one that is asked for ends at the first page that fails.
ListsReleases(c, q) ==
    /\ q.do = "listReleases"
    /\ \E ids \in SUBSET Found(q.artist) :
          \/ /\ Continue(c, q, {[Then(q, "replaceKnown") EXCEPT !.ids = ids, !.found = ids]})
             /\ listed' = (listed /\ NothingVanished(q.artist, ids))
             /\ UNCHANGED failures
          \/ /\ Continue(c, q, {[Then(q, "replaceKnown") EXCEPT !.ids = ids,
                                                                !.found = Found(q.artist)]})
             /\ listed' = FALSE
             /\ failures < MaxFailures /\ failures' = failures + 1
    /\ heard' = heard \cup Found(q.artist)
    /\ UNCHANGED <<library, world, familiar, dismissed, wanted, intact, overlaps, changes>>

\* saveFollowingArtistSummariesToDb writes back the list it read, with the names
\* of the artists on it that were looked up.
\* FAULTY: an artist that is no longer on the list is put back.
RefreshedWithAll(artists, fetched) == artists \cup fetched

Refreshed(artists, fetched) == artists

ReadsToRefresh(c, q) ==
    /\ q.do = "readToRefresh"
    /\ Continue(c, q, IF followingArtists \cap calls[c].fetched = {} THEN {}
                      ELSE {[Then(q, "writeRefresh") EXCEPT !.read = followingArtists]})
    /\ OnlyReads

WritesRefresh(c, q) ==
    /\ q.do = "writeRefresh"
    /\ WriteFollowing(q.read, Refreshed(q.read, calls[c].fetched))
    /\ Continue(c, q, {})
    /\ UNCHANGED <<knownReleases, newReleases, settings, world, counters,
                   familiar, heard, dismissed, wanted, listed>>

-----------------------------------------------------------------------------
(* verifyReleaseExistence: removeReleaseFromAllUserDocuments for a release  *)
(* that MusicBrainz no longer has.                                          *)

ChecksRelease(c, q) ==
    /\ q.do = "checkRelease"
    /\ Continue(c, q, IF calls[c].asked \subseteq catalog THEN {} ELSE {Then(q, "readAllEntries")})
    /\ OnlyReads

ReadsAllEntries(c, q) ==
    /\ q.do = "readAllEntries"
    /\ calls' = [calls EXCEPT ![c].known = knownReleases,
                              ![c].pending = {Then(q, "removeKnown")}]
    /\ OnlyReads

\* One update removes the entries that were found.
RemovesKnown(c, q) ==
    /\ q.do = "removeKnown"
    /\ knownReleases' = [a \in Artists |-> knownReleases[a] \ (calls[c].known[a] \cap calls[c].asked)]
    /\ familiar' = familiar \ calls[c].asked
    /\ Continue(c, q, {Then(q, "readShownToVerify")})
    /\ UNCHANGED <<followingArtists, newReleases, settings, world, counters,
                   heard, dismissed, wanted, intact, listed>>

ReadsShownToVerify(c, q) ==
    /\ q.do = "readShownToVerify"
    /\ Continue(c, q, IF calls[c].asked \cap newReleases = {} THEN {}
                      ELSE {[Then(q, "writeShown") EXCEPT !.shown = newReleases,
                                                          !.ids = newReleases \ calls[c].asked]})
    /\ OnlyReads

-----------------------------------------------------------------------------
(* updateReleaseNotificationSettings: the settings are saved, the known     *)
(* releases of every followed artist rebuilt to match them, and the new     *)
(* releases that no longer match removed.  If that fails, the settings are  *)
(* taken back.                                                              *)

ReadsSettings(c, q) ==
    /\ q.do = "readSettings"
    /\ calls' = [calls EXCEPT ![c].settings = settings, ![c].pending = {Then(q, "saveSettings")}]
    /\ OnlyReads

SavesSettings(c, q) ==
    /\ q.do = "saveSettings"
    /\ settings' \in calls[c].asked
    /\ calls' = [calls EXCEPT ![c].stage = "rebuild", ![c].pending = {Then(q, "readFollowed")}]
    /\ UNCHANGED <<followingArtists, knownReleases, newReleases, world, history, counters>>

\* FAULTY: the settings that were read before are used.
RebuiltForPrevious(call, releases) == releases \cap Matches(call.settings)

Rebuilt(call, releases) == {r \in releases : \A s \in call.asked : r \in Matches(s)}

\* Without the recordings no release is a duplicate of another one.
ListsToRebuild(c, q) ==
    /\ q.do = "rebuild"
    /\ \E s \in calls[c].asked : LET found == Found(q.artist) \cap Matches(s) IN
          /\ Continue(c, q, {[Then(q, "replaceRebuilt") EXCEPT !.found = found,
                                   !.ids = Rebuilt(calls[c], Found(q.artist))]})
          /\ heard' = heard \cup found
    /\ listed' = (listed /\ NothingVanished(q.artist, catalog))
    /\ UNCHANGED <<library, world, counters, familiar, dismissed, wanted, intact>>

ReplacesRebuilt(c, q) ==
    /\ q.do = "replaceRebuilt"
    /\ knownReleases' = [knownReleases EXCEPT ![q.artist] = q.ids]
    /\ familiar' = Acquainted(q)
    /\ Continue(c, q, {})
    /\ UNCHANGED <<followingArtists, newReleases, settings, world, counters,
                   heard, dismissed, wanted, intact, listed>>

ReadsOutside(c, q) ==
    /\ q.do = "readOutside"
    /\ \E s \in calls[c].asked :
          Continue(c, q, IF newReleases \subseteq Matches(s) THEN {}
                         ELSE {[Then(q, "writeShown") EXCEPT !.shown = newReleases,
                                                             !.ids = newReleases \cap Matches(s)]})
    /\ OnlyReads

RollsBack(c, q) ==
    /\ q.do = "rollBack"
    /\ settings' = calls[c].settings
    /\ Continue(c, q, {})
    /\ UNCHANGED <<followingArtists, knownReleases, newReleases, world, history, counters>>


-----------------------------------------------------------------------------
\* What a call goes on with when a stage's work is done: a search that found
\* something merges it, a refresh saves what it looked up, a change of settings
\* removes what no longer matches.
HasNews(c) == IsDone(c, "detect", "search") /\ calls[c].news # {}
HasLookedUp(c) == IsDone(c, "refresh", "begin") /\ calls[c].fetched # {}
HasRebuilt(c) == IsDone(c, "settings", "rebuild")

NextStage(c, stage, work) ==
    /\ calls' = [calls EXCEPT ![c].stage = stage, ![c].pending = work]
    /\ OnlyReads

GoesOn(c) ==
    \/ HasNews(c) /\ NextStage(c, "merge", Merges(c))
    \/ HasLookedUp(c) /\ NextStage(c, "save", {Work("readToRefresh", None)})
    \/ HasRebuilt(c) /\ NextStage(c, "remove", {Work("readOutside", None)})

\* From then on the user follows an artist that was asked for, if nothing failed.
Returns(c) ==
    /\ calls[c] # Idle /\ calls[c].pending = {}
    /\ ~(HasNews(c) \/ HasLookedUp(c) \/ HasRebuilt(c) \/ IsDone(c, "detect", "merge"))
    /\ wanted' = wanted \cup (IF calls[c].op = "follow" /\ ~calls[c].failed
                              THEN calls[c].asked ELSE {})
    /\ Return(c)
    /\ UNCHANGED <<library, world, counters, familiar, heard, dismissed, intact, listed>>

Starts(c) ==
    \/ \E a \in Artists :
          \/ Start(c, "follow", Work("readSummary", a), {a})
          \/ Start(c, "unfollow", Work("readToUnfollow", a), {a})
          \/ Start(c, "details", Work("readSummary", a), {a})
    \/ Start(c, "detect", Work("readFollowed", None), {})
    \/ Start(c, "refresh", Work("readFollowed", None), {})
    \/ \E ids \in SUBSET newReleases \ {{}} :
          Start(c, "dismiss", [Work("readShownToRemove", None) EXCEPT !.pruned = ids], ids)
    \/ \E r \in Releases : Start(c, "verify", Work("checkRelease", None), {r})
    \/ \E s \in Settings : Start(c, "settings", Work("readSettings", None), {s})

Answered(c, q) ==
    \/ ReplacesKnown(c, q) \/ ReadsToFollow(c, q) \/ WritesFollow(c, q) \/ StoresNews(c, q)
    \/ ReadsToUnfollow(c, q) \/ WritesUnfollow(c, q) \/ ReadsShownToUnfollow(c, q)
    \/ ReadsKnownToUnfollow(c, q) \/ DeletesKnown(c, q) \/ WritesShown(c, q)
    \/ ReadsShown(c, q) \/ ReadsKnown(c, q) \/ ReadsShownToRemove(c, q)
    \/ ReadsFollowed(c, q) \/ ReadsDetectSettings(c, q) \/ ReadsAllKnown(c, q)
    \/ Searches(c, q) \/ MergesKnown(c, q)
    \/ ReadsSummary(c, q) \/ ListsReleases(c, q) \/ ReadsToRefresh(c, q) \/ WritesRefresh(c, q)
    \/ ChecksRelease(c, q) \/ ReadsAllEntries(c, q) \/ RemovesKnown(c, q) \/ ReadsShownToVerify(c, q)
    \/ ReadsSettings(c, q) \/ SavesSettings(c, q) \/ ListsToRebuild(c, q) \/ ReplacesRebuilt(c, q)
    \/ ReadsOutside(c, q) \/ RollsBack(c, q)
    \/ Fails(c, q)

Next ==
    \/ CatalogChanges
    \/ \E c \in Callers :
          \/ Starts(c)
          \/ calls[c] # Idle /\ \E q \in calls[c].pending : Answered(c, q)
          \/ GoesOn(c) \/ Tells(c) \/ Returns(c)

Spec == Init /\ [][Next]_vars

-----------------------------------------------------------------------------
(* Properties.                                                             *)

AtRest == \A c \in Callers : calls[c] = Idle

\* The library holds artists and releases, and what a search stores and keeps is
\* not what it prunes.
TypeOK ==
    /\ followingArtists \subseteq Artists /\ knownReleases \in [Artists -> SUBSET Releases]
    /\ newReleases \subseteq Releases /\ settings \in Settings
    /\ catalog \subseteq Releases /\ old \subseteq Releases /\ missing \subseteq Artists
    /\ familiar \subseteq Releases /\ heard \subseteq Releases
    /\ dismissed \subseteq Releases /\ wanted \subseteq Artists
    /\ intact \in BOOLEAN /\ listed \in BOOLEAN
    /\ overlaps \in 0..MaxOverlaps /\ failures \in 0..MaxFailures /\ changes \in 0..MaxChanges
    /\ \A c \in Callers : calls[c] # Idle => \A q \in calls[c].pending :
          /\ q.artist \in Artists \cup {None}
          /\ q.do = "replaceKnown" => q.news \subseteq q.ids /\ q.pruned \cap q.ids = {}

\* The user is told of a release once: never of one that was there when the artist
\* was followed or the settings were changed, nor of one it was told of before,
\* through another of its artists or by a search that got further than the last
\* one, as long as no search saw it gone (analyzeReleaseChanges,
\* mergeKnownReleasesForFollowedReleaseArtists, rebuildKnownReleasesForSettings).
NewsIsNews ==
    [][\A c \in Callers : intact /\ listed /\ Tells(c) => calls[c].news \cap familiar = {}]_vars

\* What the user is told of is on the list of new releases, unless the user removed
\* it meanwhile: the removals of what other artists' searches prune leave it there
\* (saveArtistAndKnownReleasesToDb, removePrunedNewReleases).
NewsIsStored ==
    [][\A c \in Callers : intact /\ Tells(c) => calls[c].news \ dismissed \subseteq newReleases]_vars

\* Releases become known because they were there, or the user is told of them:
\* none is swallowed (getNewReleases), and none is both stored and pruned.
KnownWasHeard ==
    TypeOK /\ (intact /\ failures = 0 /\ AtRest => \A a \in Artists : knownReleases[a] \subseteq heard)

\* A shown release is known to an artist the user follows, so that the next search,
\* or unfollowing, can remove it: none is left behind
\* (removeUnfollowedArtistNewReleases, removePrunedNewReleases).
ShownIsKnown ==
    intact /\ listed /\ failures = 0 /\ AtRest =>
        \A r \in newReleases : \E a \in followingArtists : r \in knownReleases[a]

\* A call that somebody made for the release itself.
IsAskedToRemove(call, r) ==
    \/ call.op \in {"dismiss", "verify"} /\ r \in call.asked
    \/ call.op = "settings"

\* It was found anew and goes on the list.
IsAboutToBeStored(call, r) ==
    \E q \in call.pending : /\ q.do \in {"replaceKnown", "readToFollow", "writeFollow", "storeNews"}
                            /\ r \in q.news

\* A release disappears from the new releases because it was asked for, or because
\* no artist the user follows has it any more, unless it is put there at once: not
\* when one of two artists is unfollowed or prunes it
\* (removeUnfollowedArtistNewReleases, removePrunedNewReleases).
RemovedForAReason ==
    [][intact' /\ failures' = 0 => \A r \in newReleases \ newReleases' :
          \/ \E c \in Callers : calls[c] # Idle /\ IsAskedToRemove(calls[c], r)
          \/ \E c \in Callers : calls[c] # Idle /\ IsAboutToBeStored(calls[c], r)
          \/ \A a \in followingArtists : r \notin knownReleases[a]]_vars

\* A new release the user removed does not come back unless it is found anew,
\* whatever is searched meanwhile (removeNewReleasesFromDb, mergeNewReleasesIntoState).
DismissedStaysAway == intact /\ failures = 0 /\ AtRest => dismissed \cap newReleases = {}

\* The user follows what was asked for and no other artist: searches and refreshes,
\* which write the whole list, do not bring back one that was unfollowed
\* (saveArtistAndKnownReleasesToDb, deleteArtistFromDb, saveFollowingArtistSummariesToDb).
FollowingAsWanted == intact /\ failures = 0 /\ AtRest => followingArtists = wanted

\* README.md:5, of "new releases": the user is not told of what was there before.
ToldIsNew ==
    [][\A c \in Callers : intact /\ Tells(c) => calls[c].news \cap familiar = {}]_vars
=============================================================================
