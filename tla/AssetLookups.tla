---------------------------- MODULE AssetLookups ----------------------------
(***************************************************************************)
(* The pages of background work: the workers that look covers, lyrics and  *)
(* artist images up at the providers and write what they learn back to the *)
(* cache (coverArtService.ts, services/coverArt, services/tasks/workers).  *)
(*                                                                         *)
(* A cache key holds a whole record of items.  It is read, changed in      *)
(* memory and written as a whole, and a write deletes the key before it    *)
(* saves it (cacheService.ts setCachedData).  Each request to the cache or *)
(* to a provider is a step, and the lookups of a page run in parallel.  A  *)
(* page that times out is over for its task; its lookups find out when     *)
(* they next ask a provider.  BackgroundAssets queues the pages.           *)
(***************************************************************************)
EXTENDS AssetStates

CONSTANT MaxFailures    \* bound: cache requests that fail and pages that time out

ASSUME FailuresAssumption == MaxFailures \in Nat

VARIABLES
    now,        \* Date.now()
    exists,     \* the items the providers have something for, whatever they answer
    stored,     \* the cached states
    links,      \* artist |-> the Discogs links in the cached artist details
    pages,      \* the pages of all tasks, as they were queued
    failures,   \* bounded counter
    intact      \* history: no record was written over, and no write failed

lookupVars == <<now, exists, stored, links, pages, failures, intact>>

LinkStates == {"absent", "none", "old", "current"}

\* What the tasks of each kind look up.
Kinds == {"groupCovers", "releaseCovers", "newReleaseCovers", "lyrics", "artistImages"}
ItemsOf == [groupCovers |-> Groups, releaseCovers |-> Releases, newReleaseCovers |-> Releases,
            lyrics |-> Tracks, artistImages |-> Artists]

\* A lookup: the record it read and when, the first miss and all the misses it
\* collected, the releases it has yet to try, whether it changed its copy, the state it
\* came to, and for an artist the links to follow and those of the cached details.
NewLookup == [at |-> "start", copy |-> <<>>, asOf |-> 0, primary |-> Nothing, misses |-> {},
              left |-> {}, changed |-> FALSE, result |-> Absent, links |-> "unread", base |-> "absent"]

Done(state) == [NewLookup EXCEPT !.at = "done", !.result = state]
Failed == [NewLookup EXCEPT !.at = "failed"]

IsOver(lookup) == lookup.at \in {"done", "failed"}

\* One page of a task, which shares a copy of the record among its lookups if it is
\* one of covers of groups or of lyrics.
NewPage(t, kind, items, given) ==
    [task |-> t, kind |-> kind, at |-> "queued", outcome |-> "none", aborted |-> FALSE,
     copy |-> <<>>, dirty |-> FALSE,
     lookups |-> [i \in items |-> [NewLookup EXCEPT !.links = given]]]

SharesCopy(page) == page.kind \in {"groupCovers", "lyrics"}

InitLookups ==
    /\ now = 0
    /\ exists \in SUBSET Items
    /\ stored = [i \in Items |-> Absent]
    /\ links \in [Artists -> LinkStates]
    /\ pages = <<>>
    /\ failures = 0
    /\ intact = TRUE

-----------------------------------------------------------------------------
(* The cache and the providers.                                            *)

\* The record a lookup writes.  One for a group writes what it learned of its releases.
Written(i) == IF i \in Groups THEN ReleasesOf(i) ELSE Record(i)

PageRecord(p) == UNION {Record(i) : i \in DOMAIN pages[p].lookups}

CopyOf(record) == [i \in record |-> stored[i]]

\* A writer has deleted the record and not saved it yet.
IsBeingWritten(record) ==
    \E p \in DOMAIN pages :
        \/ pages[p].at = "save" /\ PageRecord(p) \cap record # {}
        \/ \E i \in DOMAIN pages[p].lookups :
              pages[p].lookups[i].at = "save" /\ Written(i) \cap record # {}

\* A page or a lookup other than i of page p holds a copy of some of the record.
IsHeldBeside(p, i, record) ==
    \E q \in DOMAIN pages :
        \/ <<q, Nothing>> # <<p, i>> /\ DOMAIN pages[q].copy \cap record # {}
        \/ \E j \in DOMAIN pages[q].lookups :
              <<q, j>> # <<p, i>> /\ DOMAIN pages[q].lookups[j].copy \cap record # {}

\* getCachedData by one who will write the record back.
ReadsToWrite(record) ==
    /\ intact' = (intact /\ ~IsBeingWritten(record))
    /\ UNCHANGED <<now, exists, stored, links, failures>>

\* deleteCachedData, and saveStateValues, in setCachedData.
DeletesRecord(p, i, record) ==
    /\ stored' = [x \in Items |-> IF x \in record THEN Absent ELSE stored[x]]
    /\ intact' = (intact /\ ~IsHeldBeside(p, i, record))
    /\ UNCHANGED <<now, exists, links, failures>>

SavesRecord(copy) ==
    /\ stored' = [x \in Items |-> IF x \in DOMAIN copy THEN copy[x] ELSE stored[x]]
    /\ UNCHANGED <<now, exists, links, failures, intact>>

OnlyPages == UNCHANGED <<now, exists, stored, links, failures, intact>>

\* What comes of the replies to several requests for a picture: any that has it will do,
\* and it is missing only if none was in doubt.
Answered(i, replies) ==
    IF "found" \in replies THEN i ELSE IF "transient" \in replies THEN Unknown ELSE Miss

\* Replies may be of no use, but they do not lie.
ReplySets(i) ==
    {replies \in SUBSET {"found", "missing", "transient"} :
        IF i \in exists THEN replies \cap {"found", "transient"} # {} ELSE "found" \notin replies}

\* fetchCoverArt: the thumbnail and the original are tried.
Covers(i) == {Answered(i, replies) : replies \in {R \in ReplySets(i) : Cardinality(R) \in {1, 2}}}

\* fetchGeniusLyrics
Lyrics(t) == {IF t \in exists THEN t ELSE Miss, Unknown}

\* getDiscogsData: the links of the artist are tried; there may be none.
Images(a) == {Answered(a, replies) : replies \in ReplySets(a)}

At(p, i, at) ==
    /\ pages[p].at = "work" /\ i \in DOMAIN pages[p].lookups
    /\ pages[p].lookups[i].at = at

\* A provider is asked only while the page's signal is not aborted.
Asks(p, i, at) == At(p, i, at) /\ ~pages[p].aborted

Moves(p, i, lookup) == pages' = [pages EXCEPT ![p].lookups[i] = lookup]

\* The lookup goes on to write its record, with this state for the item.
Settles(p, i, state) ==
    LET lookup == pages[p].lookups[i]
    IN  Moves(p, i, [lookup EXCEPT !.at = "delete", !.result = state, !.left = {},
                                   !.copy = [x \in DOMAIN @ \cup {i} |->
                                                IF x = i THEN state ELSE @[x]]])

-----------------------------------------------------------------------------
(* A page begins.  Those of covers of groups and of lyrics read the record *)
(* that their lookups share; without it they fail.                         *)

BeginsPage(p) ==
    /\ pages[p].at = "queued"
    /\ IF SharesCopy(pages[p])
       THEN /\ pages' = [pages EXCEPT ![p].at = "work", ![p].copy = CopyOf(PageRecord(p))]
            /\ ReadsToWrite(PageRecord(p))
       ELSE pages' = [pages EXCEPT ![p].at = "work"] /\ OnlyPages

PageCannotRead(p) ==
    /\ pages[p].at = "queued" /\ SharesCopy(pages[p])
    /\ failures < MaxFailures /\ failures' = failures + 1
    /\ pages' = [pages EXCEPT ![p].at = "done", ![p].outcome = "failed"]
    /\ UNCHANGED <<now, exists, stored, links, intact>>

\* The page's time is up: the task counts it as failed, and its signal is aborted.
TimesOut(p) ==
    /\ pages[p].at \in {"work", "delete", "save"} /\ pages[p].outcome = "none"
    /\ failures < MaxFailures /\ failures' = failures + 1
    /\ pages' = [pages EXCEPT ![p].outcome = "failed", ![p].aborted = TRUE]
    /\ UNCHANGED <<now, exists, stored, links, intact>>

\* An error of one lookup is the error of its page: at once, while the others go on,
\* or, for covers of groups, when all are over.
AfterFailure(page, i) ==
    [page EXCEPT !.lookups[i] = Failed,
                 !.outcome = IF @ = "none" /\ page.kind # "groupCovers" THEN "failed" ELSE @]

FailsLookup(p, i) == pages' = [pages EXCEPT ![p] = AfterFailure(@, i)]

\* A provider is asked for an aborted page.
IsStopped(p, i) ==
    /\ pages[p].at = "work" /\ pages[p].aborted /\ i \in DOMAIN pages[p].lookups
    /\ \/ pages[p].lookups[i].at \in {"fetch", "fetchGroup", "bypass", "musicbrainz", "discogs"}
       \/ /\ pages[p].lookups[i].at = "sibling"
          /\ \E r \in pages[p].lookups[i].left :
                ~IsUsable(pages[p].lookups[i].copy[r], pages[p].lookups[i].asOf)
       \/ i \in Tracks /\ At(p, i, "start") /\ ~IsUsable(pages[p].copy[i], now)
    /\ FailsLookup(p, i) /\ OnlyPages

\* A request to the cache fails.
CacheSteps(i) ==
    {"siblings", "fallback", "details", "sync", "syncDelete", "syncSave", "delete", "save"}
        \cup (IF i \in Releases \cup Artists THEN {"start"} ELSE {})

LookupCannotReach(p, i) ==
    /\ \E at \in CacheSteps(i) :
          At(p, i, at) /\ intact' = (intact /\ at \notin {"delete", "save"})
    /\ failures < MaxFailures /\ failures' = failures + 1
    /\ FailsLookup(p, i)
    /\ UNCHANGED <<now, exists, stored, links>>

\* A lookup writes the record it read.  One for a group then uses what it found.
Deletes(p, i) ==
    /\ At(p, i, "delete")
    /\ Moves(p, i, [pages[p].lookups[i] EXCEPT !.at = "save"])
    /\ DeletesRecord(p, i, Written(i))

-----------------------------------------------------------------------------
(* getReleaseCover, of a release of a group.                               *)

ReadsRelease(p, r) ==
    /\ At(p, r, "start") /\ r \in Releases
    /\ IF IsUsable(stored[r], now)
       THEN Moves(p, r, Done(stored[r])) /\ OnlyPages
       ELSE /\ Moves(p, r, [NewLookup EXCEPT !.at = "fetch", !.copy = CopyOf(Record(r)),
                                             !.asOf = now])
            /\ ReadsToWrite(Record(r))

\* Its own cover, or else one of a release beside it, or else that of the group.
FetchesRelease(p, r) ==
    LET lookup == pages[p].lookups[r]
        peers == {x \in DOMAIN lookup.copy \ {r} : IsUsableUrl(lookup.copy[x], lookup.asOf)}
    IN  /\ Asks(p, r, "fetch") /\ r \in Releases
        /\ \E value \in Covers(r) :
              \/ HasUrl(value) /\ Settles(p, r, MapState(value, now))
              \/ /\ ~HasUrl(value)
                 /\ \E x \in peers :
                       Settles(p, r, MapFallback(lookup.copy[x].value, {value}, now))
              \/ /\ ~HasUrl(value) /\ peers = {}
                 /\ Moves(p, r, [lookup EXCEPT !.at = "fetchGroup", !.misses = {value}])
        /\ OnlyPages

FetchesGroupOfRelease(p, r) ==
    LET misses == pages[p].lookups[r].misses
    IN  /\ Asks(p, r, "fetchGroup")
        /\ \E value \in Covers(GroupOf(r)) :
              Settles(p, r, IF HasUrl(value) THEN MapFallback(value, misses, now)
                            ELSE MapState(ResolveMiss(misses \cup {value}), now))
        /\ OnlyPages

\* A release or an artist is done once its record is saved.
Saves(p, i) ==
    /\ At(p, i, "save") /\ i \notin Groups
    /\ Moves(p, i, Done(pages[p].lookups[i].result))
    /\ SavesRecord(pages[p].lookups[i].copy)

-----------------------------------------------------------------------------
(* getReleaseGroupCover, with the record that the page holds.              *)

\* upsertArtistReleaseGroupCoverState: the record is written when all lookups are over.
Concluded(page, g, state) ==
    [page EXCEPT !.copy[g] = state, !.dirty = @ \/ state # page.copy[g],
                 !.lookups[g] = Done(state)]

Concludes(p, g, state) == pages' = [pages EXCEPT ![p] = Concluded(@, g, state)]

BeginsGroup(p, g) ==
    LET current == pages[p].copy[g]
    IN  /\ At(p, g, "start") /\ g \in Groups
        /\ Moves(p, g,
              IF IsUsableUrl(current, now) THEN Done(current)
              ELSE IF IsUsable(current, now)
              THEN [NewLookup EXCEPT !.at = "siblings", !.primary = current.value, !.asOf = now]
              ELSE [NewLookup EXCEPT !.at = "fetch"])
        /\ OnlyPages

\* A group known to have no cover may have got one with a release since.
ReadsSiblings(p, g) ==
    LET lookup == pages[p].lookups[g]
        urls == {stored[r].value : r \in {x \in ReleasesOf(g) : IsUsableUrl(stored[x], lookup.asOf)}}
    IN  /\ At(p, g, "siblings")
        /\ \/ \E value \in urls : Concludes(p, g, MapFallback(value, {lookup.primary}, now))
           \/ /\ urls = {} /\ \E r \in ReleasesOf(g) : stored[r] = Absent
              /\ Moves(p, g, [lookup EXCEPT !.at = "fallback"])
           \/ /\ urls = {} /\ \A r \in ReleasesOf(g) : stored[r] # Absent
              /\ Moves(p, g, Done(pages[p].copy[g]))
        /\ OnlyPages

FetchesGroup(p, g) ==
    /\ Asks(p, g, "fetch") /\ g \in Groups
    /\ \E value \in Covers(g) :
          IF HasUrl(value) THEN Concludes(p, g, MapState(value, now))
          ELSE Moves(p, g, [NewLookup EXCEPT !.at = "fallback", !.primary = value])
    /\ OnlyPages

\* getFallbackReleaseCover
ReadsFallback(p, g) ==
    LET lookup == pages[p].lookups[g]
    IN  /\ At(p, g, "fallback")
        /\ Moves(p, g, [lookup EXCEPT !.at = "sibling", !.copy = CopyOf(ReleasesOf(g)),
                                      !.asOf = now, !.left = ReleasesOf(g),
                                      !.misses = {lookup.primary}])
        /\ ReadsToWrite(ReleasesOf(g))

\* The search for a cover of a release ends with this value.
FallsBack(p, g, lookup, value) ==
    IF lookup.changed
    THEN Moves(p, g, [lookup EXCEPT !.at = "delete", !.left = {}, !.result = MapState(value, now)])
    ELSE Concludes(p, g, MapFallback(value, {lookup.primary}, now))

\* The next release: as cached, or from the provider.
TriesSibling(p, g, r) ==
    LET lookup == pages[p].lookups[g]
        cached == lookup.copy[r]
        Tried(state) == [lookup EXCEPT !.left = @ \ {r}, !.copy[r] = state, !.misses = @ \cup {state.value},
                                       !.changed = @ \/ ~IsUsable(cached, lookup.asOf)]
    IN  /\ At(p, g, "sibling") /\ r \in lookup.left
        /\ pages[p].aborted => IsUsable(cached, lookup.asOf)
        /\ \E state \in IF IsUsable(cached, lookup.asOf) THEN {cached}
                        ELSE {MapState(value, now) : value \in Covers(r)} :
              IF HasUrl(state.value) THEN FallsBack(p, g, Tried(state), state.value)
              ELSE Moves(p, g, Tried(state))
        /\ OnlyPages

HasNoSibling(p, g) ==
    LET lookup == pages[p].lookups[g]
    IN  /\ At(p, g, "sibling") /\ lookup.left = {}
        /\ FallsBack(p, g, lookup, ResolveMiss(lookup.misses))
        /\ OnlyPages

SavesSiblings(p, g) ==
    LET lookup == pages[p].lookups[g]
    IN  /\ At(p, g, "save") /\ g \in Groups
        /\ Concludes(p, g, MapFallback(lookup.result.value, {lookup.primary}, now))
        /\ SavesRecord(lookup.copy)

-----------------------------------------------------------------------------
(* fetchAndUpsertTrackLyrics, with the record that the page holds.         *)

FetchesLyrics(p, t) ==
    LET cached == pages[p].copy[t]
    IN  /\ At(p, t, "start") /\ t \in Tracks
        /\ pages[p].aborted => IsUsable(cached, now)
        /\ \E state \in IF IsUsable(cached, now) THEN {cached}
                        ELSE {MapState(value, now) : value \in Lyrics(t)} :
              pages' = [pages EXCEPT ![p].copy[t] = state, ![p].lookups[t] = Done(state)]
        /\ OnlyPages

-----------------------------------------------------------------------------
(* fetchAndUpsertArtistProfileImages.                                      *)

\* The rewrite of a record that an earlier version of the program left (legacyRewriteRequired)
\* is no step: the cache is empty at first, and every writer gives a record its present form.
ReadsImage(p, a) ==
    LET lookup == pages[p].lookups[a]
    IN  /\ At(p, a, "start") /\ a \in Artists
        /\ Moves(p, a, IF IsUsable(stored[a], now) THEN Done(stored[a])
                       ELSE [lookup EXCEPT !.at =
                                IF lookup.links = "unread" THEN "details"
                                ELSE IF lookup.links = "none" THEN "musicbrainz" ELSE "bypass"])
        /\ OnlyPages

\* resolveArtistDetailsFromCache
ReadsDetails(p, a) ==
    /\ At(p, a, "details")
    /\ Moves(p, a, [pages[p].lookups[a] EXCEPT !.links = links[a], !.base = links[a],
          !.at = IF links[a] \in {"old", "current"} THEN "bypass" ELSE "musicbrainz"])
    /\ OnlyPages

\* resolveViaLookupBypass: the links at hand are good if they lead to an image, which
\* old links may or may not do.
BypassesMusicBrainz(p, a) ==
    LET lookup == pages[p].lookups[a]
    IN  /\ Asks(p, a, "bypass")
        /\ \E value \in Images(a) \cup (IF lookup.links = "old" THEN {a, Miss} ELSE {}) :
              IF HasUrl(value) THEN Settles(p, a, MapState(value, now))
              ELSE Moves(p, a, [lookup EXCEPT !.at = "musicbrainz"])
        /\ OnlyPages

\* What comes after an artist is found, with or without a name.
AfterSync(p, a, lookup) ==
    IF lookup.primary = Miss THEN Settles(p, a, MapState(Miss, now))
    ELSE Moves(p, a, [lookup EXCEPT !.at = "discogs"])

\* syncArtistDetailsDiscogsUrls: cached details with other links get the current ones.
Synchronizes(p, a, lookup) ==
    IF lookup.base \in {"absent", "current"} THEN AfterSync(p, a, lookup)
    ELSE Moves(p, a, [lookup EXCEPT !.at = "syncDelete"])

\* resolveViaMusicBrainz: an artist who is found has a name and the current links, but
\* for one without an image, who may have no name, or not be there at all.
AsksMusicBrainz(p, a) ==
    LET lookup == pages[p].lookups[a]
    IN  /\ Asks(p, a, "musicbrainz")
        /\ \/ Settles(p, a, MapState(Unknown, now))
           \/ a \notin exists /\ Settles(p, a, MapState(Miss, now))
           \/ \E primary \in {Nothing, Miss} :
                 LET found == [lookup EXCEPT !.primary = primary]
                 IN  /\ primary = Miss => a \notin exists
                     /\ IF lookup.base = "absent" THEN Moves(p, a, [found EXCEPT !.at = "sync"])
                        ELSE Synchronizes(p, a, found)
        /\ OnlyPages

ReadsForSync(p, a) ==
    /\ At(p, a, "sync")
    /\ Synchronizes(p, a, [pages[p].lookups[a] EXCEPT !.base = links[a]])
    /\ OnlyPages

DeletesDetails(p, a) ==
    /\ At(p, a, "syncDelete")
    /\ Moves(p, a, [pages[p].lookups[a] EXCEPT !.at = "syncSave"])
    /\ links' = [links EXCEPT ![a] = "absent"]
    /\ UNCHANGED <<now, exists, stored, failures, intact>>

SavesDetails(p, a) ==
    /\ At(p, a, "syncSave")
    /\ AfterSync(p, a, pages[p].lookups[a])
    /\ links' = [links EXCEPT ![a] = "current"]
    /\ UNCHANGED <<now, exists, stored, failures, intact>>

\* resolveViaDiscogs
AsksDiscogs(p, a) ==
    /\ Asks(p, a, "discogs")
    /\ \E value \in Images(a) : Settles(p, a, MapState(value, now))
    /\ OnlyPages

-----------------------------------------------------------------------------
(* A page ends when its lookups are over.                                  *)

HasFailed(page) == \E i \in DOMAIN page.lookups : page.lookups[i].at = "failed"

Ended(page) ==
    [page EXCEPT !.at = "done", !.copy = <<>>,
                 !.outcome = IF @ # "none" THEN @
                             ELSE IF HasFailed(page) THEN "failed" ELSE "completed"]

\* FAULTY: the covers that were found are not written if a lookup failed.
WritesIfAllSucceed(page) ==
    /\ SharesCopy(page) /\ ~HasFailed(page)
    /\ page.dirty \/ page.kind = "lyrics"

\* flushArtistReleaseGroupCoverCacheContext is called come what may, and writes what
\* changed; lyrics are written unless a lookup failed.
WritesAtEnd(page) ==
    \/ page.kind = "groupCovers" /\ page.dirty
    \/ page.kind = "lyrics" /\ ~HasFailed(page)

EndsLookups(p) ==
    /\ pages[p].at = "work" /\ \A i \in DOMAIN pages[p].lookups : IsOver(pages[p].lookups[i])
    /\ pages' = [pages EXCEPT ![p] =
          IF WritesAtEnd(@) THEN [@ EXCEPT !.at = "delete"] ELSE Ended(@)]
    /\ OnlyPages

DeletesAtEnd(p) ==
    /\ pages[p].at = "delete"
    /\ pages' = [pages EXCEPT ![p].at = "save"]
    /\ DeletesRecord(p, Nothing, PageRecord(p))

SavesAtEnd(p) ==
    /\ pages[p].at = "save"
    /\ pages' = [pages EXCEPT ![p] = Ended(@)]
    /\ SavesRecord(pages[p].copy)

PageCannotWrite(p) ==
    /\ pages[p].at \in {"delete", "save"}
    /\ failures < MaxFailures /\ failures' = failures + 1
    /\ pages' = [pages EXCEPT ![p] = Ended([@ EXCEPT !.outcome = "failed"])]
    /\ intact' = FALSE
    /\ UNCHANGED <<now, exists, stored, links>>

Tick == now < MaxTime /\ now' = now + 1
        /\ UNCHANGED <<exists, stored, links, pages, failures, intact>>

WorksOn(p, i) ==
    \/ IsStopped(p, i) \/ LookupCannotReach(p, i) \/ Deletes(p, i) \/ Saves(p, i)
    \/ ReadsRelease(p, i) \/ FetchesRelease(p, i) \/ FetchesGroupOfRelease(p, i)
    \/ BeginsGroup(p, i) \/ ReadsSiblings(p, i) \/ FetchesGroup(p, i) \/ ReadsFallback(p, i)
    \/ (\E r \in Releases : TriesSibling(p, i, r)) \/ HasNoSibling(p, i) \/ SavesSiblings(p, i)
    \/ FetchesLyrics(p, i)
    \/ ReadsImage(p, i) \/ ReadsDetails(p, i) \/ BypassesMusicBrainz(p, i)
    \/ AsksMusicBrainz(p, i) \/ ReadsForSync(p, i) \/ DeletesDetails(p, i)
    \/ SavesDetails(p, i) \/ AsksDiscogs(p, i)

PageStep(p) ==
    \/ BeginsPage(p) \/ PageCannotRead(p) \/ TimesOut(p)
    \/ (\E i \in DOMAIN pages[p].lookups : WorksOn(p, i))
    \/ EndsLookups(p) \/ DeletesAtEnd(p) \/ SavesAtEnd(p) \/ PageCannotWrite(p)

-----------------------------------------------------------------------------

\* Every variable has its type, and a page asks only for items of its kind.
LookupsTypeOK ==
    /\ now \in 0 .. MaxTime /\ exists \subseteq Items
    /\ DOMAIN stored = Items /\ \A i \in Items : stored[i] \in State
    /\ links \in [Artists -> LinkStates]
    /\ failures \in 0 .. MaxFailures /\ intact \in BOOLEAN
    /\ \A p \in DOMAIN pages :
          /\ pages[p].kind \in Kinds /\ DOMAIN pages[p].lookups \subseteq ItemsOf[pages[p].kind]
          /\ pages[p].at \in {"queued", "work", "delete", "save", "done"}
          /\ pages[p].outcome \in {"none", "completed", "failed"}
          /\ pages[p].at = "done" => pages[p].outcome # "none"
          /\ \A i \in DOMAIN pages[p].lookups :
                /\ pages[p].lookups[i].misses \subseteq Values
                /\ pages[p].lookups[i].result \in State
                /\ pages[p].lookups[i].asOf \in 0 .. MaxTime
                /\ pages[p].outcome = "completed" => pages[p].lookups[i].at = "done"

\* A confirmed miss is one: what is stored as absent is nowhere, and a group that is
\* stored so has no release with a cover either
\* (coverArtLookup.ts resolveMiss, backgroundTaskMappers.ts).
NoFalseMiss ==
    \A i \in Items : stored[i].value = Miss =>
        /\ i \notin exists
        /\ i \in Groups => ReleasesOf(i) \cap exists = {}

\* The picture of another item is kept for good only where there is none of its own
\* (coverArtLookup.ts mapResolvedCoverState).
FallbackIsProvisional ==
    \A i \in Items : /\ HasUrl(stored[i].value) /\ stored[i].value # i
                     /\ stored[i].until = Forever
                     => i \notin exists

\* What is kept for good is sure.
WhatIsKeptIsSure == NoFalseMiss /\ FallbackIsProvisional

\* What a page looked up is in the cache when the page is over, also if other lookups
\* of it failed or its time was up, as long as nobody wrote over a record and no write
\* failed (coverTaskWorker.ts finally, cacheService.ts setCachedData).  A page of lyrics
\* that fails keeps nothing.
FoundIsKept ==
    intact => \A p \in DOMAIN pages :
        pages[p].at = "done" /\ (pages[p].kind = "lyrics" => ~HasFailed(pages[p])) =>
            \A i \in DOMAIN pages[p].lookups :
                pages[p].lookups[i].at = "done" =>
                    stored[i] # Absent \/ IsBeingWritten({i})

=============================================================================
