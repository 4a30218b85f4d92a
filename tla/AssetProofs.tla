----------------------------- MODULE AssetProofs -----------------------------
(***************************************************************************)
(* Covers, lyrics and artist images, for any items, providers, requests,   *)
(* failures and number of pages.                                           *)
(*                                                                         *)
(* What the lookups keep is sure: a value that is kept went through        *)
(* copies, misses and results of lookups that others may overtake, so the  *)
(* invariant says of each of them how sure it is; one lemma per step shows *)
(* that the step keeps it so.                                              *)
(*                                                                         *)
(* What is asked for is answered by pages of bounded size: the chunks of a *)
(* task are packed, by induction over the pieces they are filled from, and *)
(* the pages of a task stay the chunks it was queued with.                 *)
(*                                                                         *)
(* What is found is kept: every copy of a record is in the hand of a page  *)
(* or of a lookup, and as long as no record is written over, a hand that   *)
(* writes has all that was cached and is alone with it.                    *)
(***************************************************************************)
EXTENDS BackgroundAssets, FiniteSetTheorems, FunctionTheorems, SequenceTheorems, TLAPS

-----------------------------------------------------------------------------
(* Types.                                                                  *)

Times == 0 .. MaxTime

Copies == UNION {[D -> State] : D \in SUBSET Items}

GroupStages == {"siblings", "fallback", "sibling"}
ArtistStages == {"details", "bypass", "musicbrainz", "sync", "syncDelete", "syncSave", "discogs"}
Stages == GroupStages \cup ArtistStages \cup {"start", "fetch", "fetchGroup", "delete", "save", "done", "failed"}

Lookup == [at : Stages, copy : Copies, asOf : Times, primary : Values \cup {Nothing},
           misses : SUBSET Values, left : SUBSET Releases, changed : BOOLEAN, result : State,
           links : LinkStates \cup {"unread"}, base : LinkStates]

Page == [task : Nat, kind : Kinds, at : {"queued", "work", "delete", "save", "done"},
         outcome : {"none", "completed", "failed"}, aborted : BOOLEAN, copy : Copies, dirty : BOOLEAN,
         lookups : UNION {[D -> Lookup] : D \in SUBSET Items}]

LEMMA NoCopy == <<>> \in Copies /\ DOMAIN <<>> = {}
  <1>1. <<>> \in [{} -> State]
    OBVIOUS
  <1>2. QED
    BY <1>1 DEF Copies

LEMMA ItemsOfKinds ==
  /\ ItemsOf["groupCovers"] = Groups /\ ItemsOf["releaseCovers"] = Releases
  /\ ItemsOf["newReleaseCovers"] = Releases /\ ItemsOf["lyrics"] = Tracks
  /\ ItemsOf["artistImages"] = Artists
  BY DEF ItemsOf

LEMMA MapStateTyped ==
  ASSUME NEW value \in Values, NEW time \in Times
  PROVE  /\ MapState(value, time) \in State /\ MapState(value, time).value = value
         /\ MapState(value, time) # Absent
         /\ value # Unknown => MapState(value, time).until = Forever
  BY TimesAssumption, ItemsAssumption DEF MapState, State, Values, Forever, Times, Absent

LEMMA MapFallbackTyped ==
  ASSUME NEW value \in Values, NEW misses \in SUBSET Values, NEW time \in Times
  PROVE  /\ MapFallback(value, misses, time) \in State /\ MapFallback(value, misses, time).value = value
         /\ MapFallback(value, misses, time) # Absent
         /\ Unknown \in misses => MapFallback(value, misses, time).until # Forever
  BY MapStateTyped, TimesAssumption, ItemsAssumption DEF MapFallback, State, Values, Forever, Times, Absent

-----------------------------------------------------------------------------
(* What is sure.                                                           *)

\* A state of item i that may be kept: a miss is one, and the picture of another item
\* stands for good only where there is none of its own.
Sure(i, state) ==
    /\ state.value = Miss => i \notin exists /\ (i \in Groups => ReleasesOf(i) \cap exists = {})
    /\ HasUrl(state.value) /\ state.value # i /\ state.until = Forever => i \notin exists

\* What a lookup of item i holds on its way: its copy is sure, a miss it collected is
\* one, and so is the miss it is about to write.
LookupSure(i, lookup) ==
    /\ \A x \in DOMAIN lookup.copy : Sure(x, lookup.copy[x])
    /\ lookup.at \in GroupStages => i \in Groups
    /\ lookup.at = "fetchGroup" => i \in Releases
    /\ lookup.at \in ArtistStages => i \in Artists
    /\ lookup.at = "fetchGroup" =>
          lookup.misses \subseteq {Miss, Unknown} /\ (Unknown \in lookup.misses \/ i \notin exists)
    /\ i \in Groups /\ lookup.at \in GroupStages \cup {"delete", "save"} =>
          lookup.primary \in {Miss, Unknown} /\ (lookup.primary = Miss => i \notin exists)
    /\ lookup.at = "sibling" =>
          /\ lookup.primary \in lookup.misses /\ lookup.misses \subseteq {Miss, Unknown}
          /\ DOMAIN lookup.copy = ReleasesOf(i) /\ lookup.left \subseteq ReleasesOf(i)
          /\ Unknown \notin lookup.misses => (ReleasesOf(i) \ lookup.left) \cap exists = {}
    /\ i \in Groups /\ lookup.at \in {"delete", "save"} =>
          /\ lookup.result.value \in Values
          /\ lookup.result.value = Miss => i \notin exists /\ ReleasesOf(i) \cap exists = {}
    /\ i \in Artists /\ lookup.primary = Miss => i \notin exists

\* What a page holds: a copy that its lookups share covers them all.
PageSure(page) ==
    /\ page \in Page /\ DOMAIN page.lookups \subseteq ItemsOf[page.kind]
    /\ \A x \in DOMAIN page.copy : Sure(x, page.copy[x])
    /\ SharesCopy(page) /\ page.at \in {"work", "delete", "save"} =>
          DOMAIN page.lookups \subseteq DOMAIN page.copy
    /\ \A i \in DOMAIN page.lookups : LookupSure(i, page.lookups[i])

PagesSure == \A p \in DOMAIN pages : PageSure(pages[p])

CacheSure ==
    /\ now \in Times /\ exists \subseteq Items /\ links \in [Artists -> LinkStates]
    /\ stored \in [Items -> State] /\ \A i \in Items : Sure(i, stored[i])

LookupsSure == CacheSure /\ PagesSure

\* Sure knowledge stays so, as what the providers have does not change.
LEMMA PagesStaySure ==
  ASSUME exists' = exists, \A p \in DOMAIN pages' : PageSure(pages'[p])
  PROVE  PagesSure'
  BY DEF PagesSure, PageSure, LookupSure, Sure

LEMMA CacheStaysSure ==
  ASSUME CacheSure, UNCHANGED <<now, exists, stored, links>>
  PROVE  CacheSure'
  BY DEF CacheSure, Sure

-----------------------------------------------------------------------------
(* What changes of pages and lookups keep.                                 *)

\* A lookup that moves on with what is sure.
LEMMA MovesKeeps ==
  ASSUME PagesSure, NEW p \in DOMAIN pages, NEW i \in DOMAIN pages[p].lookups,
         NEW lookup \in Lookup, LookupSure(i, lookup), Moves(p, i, lookup)
  PROVE  \A q \in DOMAIN pages' : PageSure(pages'[q])
  <1> DEFINE page == pages[p]
             new == [page EXCEPT !.lookups[i] = lookup]
  <1>1. pages' = [pages EXCEPT ![p] = new]
    BY DEF Moves
  <1>2. page \in Page /\ PageSure(page) /\ i \in DOMAIN page.lookups
    BY DEF PagesSure, PageSure
  <1> HIDE DEF page
  <1>3. new = [page EXCEPT !.lookups = [page.lookups EXCEPT ![i] = lookup]]
    BY <1>2 DEF Page
  <1>4. PICK D \in SUBSET Items : page.lookups \in [D -> Lookup]
    BY <1>2 DEF Page
  <1>5. [page.lookups EXCEPT ![i] = lookup] \in [D -> Lookup]
    BY <1>2, <1>4
  <1>6. /\ new \in Page /\ new.kind = page.kind /\ new.at = page.at /\ new.copy = page.copy
        /\ new.lookups = [page.lookups EXCEPT ![i] = lookup]
    BY <1>2, <1>3, <1>5 DEF Page
  <1>7. DOMAIN new.lookups = DOMAIN page.lookups
    BY <1>6
  <1>8. \A j \in DOMAIN new.lookups : LookupSure(j, new.lookups[j])
    BY <1>2, <1>6, <1>7 DEF PageSure
  <1> HIDE DEF new
  <1>9. PageSure(new)
    BY <1>2, <1>6, <1>7, <1>8 DEF PageSure, SharesCopy
  <1>10. QED
    BY <1>1, <1>9 DEF PagesSure

LEMMA NewLookupTyped == NewLookup \in Lookup
  BY NoCopy, TimesAssumption DEF NewLookup, Lookup, Stages, Times, State, Absent, Forever, LinkStates

LEMMA DoneTyped ==
  ASSUME NEW i, NEW state \in State
  PROVE  Done(state) \in Lookup /\ LookupSure(i, Done(state)) /\ Failed \in Lookup /\ LookupSure(i, Failed)
  <1>1. Done(state) \in Lookup /\ Failed \in Lookup
    BY NewLookupTyped DEF Done, Failed, Lookup, Stages
  <1>2. /\ Done(state).at = "done" /\ DOMAIN Done(state).copy = {} /\ Done(state).primary = Nothing
        /\ Failed.at = "failed" /\ DOMAIN Failed.copy = {} /\ Failed.primary = Nothing
    BY NewLookupTyped, NoCopy DEF Done, Failed, NewLookup
  <1>3. QED
    BY <1>1, <1>2, ItemsAssumption DEF LookupSure, GroupStages, ArtistStages

\* A lookup that settles on a sure state, to write it with its record.
LEMMA SettlesKeeps ==
  ASSUME PagesSure, NEW p \in DOMAIN pages, NEW i \in DOMAIN pages[p].lookups, i \in Releases \cup Artists,
         NEW state \in State, Sure(i, state), Settles(p, i, state)
  PROVE  \A q \in DOMAIN pages' : PageSure(pages'[q])
  <1> DEFINE lookup == pages[p].lookups[i]
             copy == [x \in DOMAIN lookup.copy \cup {i} |-> IF x = i THEN state ELSE lookup.copy[x]]
             new == [lookup EXCEPT !.at = "delete", !.result = state, !.left = {}, !.copy = copy]
  <1>1. Moves(p, i, new)
    BY DEF Settles
  <1>2. lookup \in Lookup /\ LookupSure(i, lookup)
    BY DEF PagesSure, PageSure, Page
  <1>3. i \in Items /\ i \notin Groups
    BY ItemsAssumption DEF Items
  <1> HIDE DEF lookup
  <1>4. PICK D \in SUBSET Items : lookup.copy \in [D -> State]
    BY <1>2 DEF Lookup, Copies
  <1>5. copy \in [D \cup {i} -> State] /\ D \cup {i} \in SUBSET Items
    BY <1>3, <1>4
  <1>6. copy \in Copies
    BY <1>5 DEF Copies
  <1>7. \A x \in DOMAIN copy : Sure(x, copy[x])
    BY <1>2 DEF LookupSure
  <1> HIDE DEF copy
  <1>8. new \in Lookup /\ new.at = "delete" /\ new.copy = copy /\ new.primary = lookup.primary
    BY <1>2, <1>6 DEF Lookup, Stages
  <1> HIDE DEF new
  <1>9. LookupSure(i, new)
    BY <1>2, <1>3, <1>7, <1>8 DEF LookupSure, GroupStages, ArtistStages
  <1>10. QED
    BY <1>1, <1>8, <1>9, MovesKeeps

\* A lookup of a shared record that concludes with a sure state.
LEMMA ConcludesKeeps ==
  ASSUME PagesSure, NEW p \in DOMAIN pages, NEW g \in DOMAIN pages[p].lookups,
         NEW state \in State, Sure(g, state), Concludes(p, g, state)
  PROVE  \A q \in DOMAIN pages' : PageSure(pages'[q])
  <1> DEFINE page == pages[p]
             new == Concluded(page, g, state)
  <1>1. pages' = [pages EXCEPT ![p] = new]
    BY DEF Concludes
  <1>2. page \in Page /\ PageSure(page) /\ g \in DOMAIN page.lookups
    BY DEF PagesSure, PageSure
  <1> HIDE DEF page
  <1> DEFINE copy == [page.copy EXCEPT ![g] = state]
             lookups == [page.lookups EXCEPT ![g] = Done(state)]
             dirty == page.dirty \/ state # page.copy[g]
  <1>3. new = [page EXCEPT !.copy = copy, !.dirty = dirty, !.lookups = lookups]
    BY <1>2 DEF Page, Concluded
  <1>4. PICK D \in SUBSET Items : page.lookups \in [D -> Lookup]
    BY <1>2 DEF Page
  <1>5. lookups \in [D -> Lookup] /\ DOMAIN lookups = DOMAIN page.lookups
    BY <1>4, DoneTyped
  <1>6. PICK E \in SUBSET Items : page.copy \in [E -> State]
    BY <1>2 DEF Page, Copies
  <1>7. copy \in [E -> State] /\ DOMAIN copy = DOMAIN page.copy
    BY <1>6
  <1>8. copy \in Copies /\ dirty \in BOOLEAN
    BY <1>7 DEF Copies
  <1>9. \A x \in DOMAIN copy : Sure(x, copy[x])
    BY <1>2, <1>7 DEF PageSure
  <1>10. \A j \in DOMAIN lookups : LookupSure(j, lookups[j])
    BY <1>2, DoneTyped DEF PageSure
  <1> HIDE DEF copy, lookups, dirty, new
  <1>11. /\ new \in Page /\ new.kind = page.kind /\ new.at = page.at /\ new.copy = copy
         /\ new.lookups = lookups
    BY <1>2, <1>3, <1>5, <1>8 DEF Page
  <1>12. PageSure(new)
    BY <1>2, <1>5, <1>7, <1>9, <1>10, <1>11 DEF PageSure, SharesCopy
  <1>13. QED
    BY <1>1, <1>12 DEF PagesSure

\* A lookup that fails.
LEMMA FailsKeeps ==
  ASSUME PagesSure, NEW p \in DOMAIN pages, NEW i \in DOMAIN pages[p].lookups, FailsLookup(p, i)
  PROVE  \A q \in DOMAIN pages' : PageSure(pages'[q])
  <1> DEFINE page == pages[p]
             new == AfterFailure(page, i)
             lookups == [page.lookups EXCEPT ![i] = Failed]
             outcome == IF page.outcome = "none" /\ page.kind # "groupCovers" THEN "failed" ELSE page.outcome
  <1>1. pages' = [pages EXCEPT ![p] = new]
    BY DEF FailsLookup
  <1>2. page \in Page /\ PageSure(page) /\ i \in DOMAIN page.lookups
    BY DEF PagesSure, PageSure
  <1>3. Failed \in Lookup /\ LookupSure(i, Failed)
    <2>1. Absent \in State
      BY TimesAssumption DEF Absent, State, Forever
    <2>2. QED
      BY <2>1, DoneTyped
  <1> HIDE DEF page
  <1>4. new = [page EXCEPT !.lookups = lookups, !.outcome = outcome]
    BY <1>2 DEF Page, AfterFailure
  <1>5. PICK D \in SUBSET Items : page.lookups \in [D -> Lookup]
    BY <1>2 DEF Page
  <1>6. lookups \in [D -> Lookup] /\ DOMAIN lookups = DOMAIN page.lookups
    BY <1>3, <1>5
  <1>7. \A j \in DOMAIN lookups : LookupSure(j, lookups[j])
    BY <1>2, <1>3 DEF PageSure
  <1>8. outcome \in {"none", "completed", "failed"}
    BY <1>2 DEF Page
  <1> HIDE DEF lookups, outcome, new
  <1>9. /\ new \in Page /\ new.kind = page.kind /\ new.at = page.at /\ new.copy = page.copy
        /\ new.lookups = lookups
    BY <1>2, <1>4, <1>6, <1>8 DEF Page
  <1>10. PageSure(new)
    BY <1>2, <1>6, <1>7, <1>9 DEF PageSure, SharesCopy
  <1>11. QED
    BY <1>1, <1>10 DEF PagesSure

-----------------------------------------------------------------------------
(* The steps of lookups.                                                   *)

\* A lookup of a page at work, as each of its steps finds it.
LEMMA WorkingLookup ==
  ASSUME LookupsSure, NEW p \in DOMAIN pages, NEW i \in DOMAIN pages[p].lookups
  PROVE  /\ PagesSure /\ CacheSure /\ pages[p] \in Page /\ PageSure(pages[p])
         /\ i \in Items /\ i \in ItemsOf[pages[p].kind]
         /\ pages[p].lookups[i] \in Lookup /\ LookupSure(i, pages[p].lookups[i])
         /\ i \in Groups \cup Tracks /\ pages[p].at = "work" =>
              i \in DOMAIN pages[p].copy /\ pages[p].copy[i] \in State /\ Sure(i, pages[p].copy[i])
         /\ now \in Times
  <1>1. pages[p] \in Page /\ PageSure(pages[p]) /\ LookupSure(i, pages[p].lookups[i])
    BY DEF LookupsSure, PagesSure, PageSure
  <1>2. i \in Items /\ pages[p].lookups[i] \in Lookup
    BY <1>1 DEF Page
  <1>3. i \in ItemsOf[pages[p].kind] /\ pages[p].kind \in Kinds
    BY <1>1 DEF PageSure, Page
  <1>4. ASSUME i \in Groups \cup Tracks, pages[p].at = "work"
        PROVE  i \in DOMAIN pages[p].copy /\ pages[p].copy[i] \in State /\ Sure(i, pages[p].copy[i])
    <2>1. SharesCopy(pages[p])
      BY <1>3, <1>4, ItemsOfKinds, ItemsAssumption DEF SharesCopy, Kinds
    <2>2. i \in DOMAIN pages[p].copy
      BY <1>1, <1>4, <2>1 DEF PageSure
    <2>3. PICK D \in SUBSET Items : pages[p].copy \in [D -> State]
      BY <1>1 DEF Page, Copies
    <2>4. QED
      BY <1>1, <2>2, <2>3 DEF PageSure
  <1>5. QED
    BY <1>1, <1>2, <1>3, <1>4 DEF LookupsSure, CacheSure

\* What a copy of cached states is.
LEMMA CopyOfSure ==
  ASSUME CacheSure, NEW record \in SUBSET Items
  PROVE  /\ CopyOf(record) \in Copies /\ DOMAIN CopyOf(record) = record
         /\ \A x \in record : CopyOf(record)[x] = stored[x] /\ Sure(x, CopyOf(record)[x])
  BY DEF CopyOf, Copies, CacheSure

\* Providers do not lie.
LEMMA AnswersSure ==
  ASSUME NEW i \in Items, NEW replies \in ReplySets(i)
  PROVE  /\ Answered(i, replies) \in {i, Miss, Unknown} /\ Answered(i, replies) \in Values
         /\ Answered(i, replies) = Miss => i \notin exists
  BY ItemsAssumption DEF ReplySets, Answered, Values

LEMMA CoversSure ==
  ASSUME NEW i \in Items, NEW value \in Covers(i)
  PROVE  value \in {i, Miss, Unknown} /\ value \in Values /\ (value = Miss => i \notin exists)
  BY AnswersSure DEF Covers

LEMMA ImagesSure ==
  ASSUME NEW i \in Items, NEW value \in Images(i)
  PROVE  value \in {i, Miss, Unknown} /\ value \in Values /\ (value = Miss => i \notin exists)
  BY AnswersSure DEF Images

\* The states that lookups come to, of an answer and of a fallback.
LEMMA AnswerIsSure ==
  ASSUME NEW i \in Items, NEW value \in {i, Miss, Unknown}, NEW time \in Times,
         value = Miss => i \notin exists /\ (i \in Groups => ReleasesOf(i) \cap exists = {})
  PROVE  MapState(value, time) \in State /\ Sure(i, MapState(value, time))
  <1>1. value \in Values /\ Miss \notin Items /\ Unknown \notin Items
    BY ItemsAssumption DEF Values
  <1>2. MapState(value, time) \in State /\ MapState(value, time).value = value
    BY <1>1, MapStateTyped
  <1>3. QED
    BY <1>1, <1>2 DEF Sure, HasUrl

LEMMA FallbackIsSure ==
  ASSUME NEW i \in Items, NEW value \in Items, NEW misses \in SUBSET {Miss, Unknown}, NEW time \in Times,
         Unknown \in misses \/ i \notin exists
  PROVE  MapFallback(value, misses, time) \in State /\ Sure(i, MapFallback(value, misses, time))
  <1>1. value \in Values /\ misses \in SUBSET Values /\ Miss \notin Items
    BY ItemsAssumption DEF Values
  <1>2. /\ MapFallback(value, misses, time) \in State /\ MapFallback(value, misses, time).value = value
        /\ Unknown \in misses => MapFallback(value, misses, time).until # Forever
    BY <1>1, MapFallbackTyped
  <1>3. QED
    BY <1>1, <1>2 DEF Sure, HasUrl

\* A step of pages and lookups alone.
LEMMA OnlyPagesSure ==
  ASSUME LookupsSure, UNCHANGED <<now, exists, stored, links>>, \A q \in DOMAIN pages' : PageSure(pages'[q])
  PROVE  LookupsSure'
  BY PagesStaySure, CacheStaysSure DEF LookupsSure

-----------------------------------------------------------------------------
(* Covers of releases.                                                     *)

LEMMA ReadsReleaseSure ==
  ASSUME LookupsSure, NEW p \in DOMAIN pages, NEW r \in DOMAIN pages[p].lookups, ReadsRelease(p, r)
  PROVE  LookupsSure'
  <1>1. r \in Items /\ r \in Releases /\ now \in Times /\ CacheSure /\ PagesSure /\ r \notin Groups /\ r \notin Artists
    BY WorkingLookup, ItemsAssumption DEF ReadsRelease
  <1>2. CASE IsUsable(stored[r], now)
    <2>1. Done(stored[r]) \in Lookup /\ LookupSure(r, Done(stored[r]))
      BY <1>1, DoneTyped DEF CacheSure
    <2>2. \A q \in DOMAIN pages' : PageSure(pages'[q])
      BY <1>1, <1>2, <2>1, MovesKeeps DEF ReadsRelease
    <2>3. QED
      BY <1>2, <2>2, OnlyPagesSure DEF ReadsRelease, OnlyPages
  <1>3. CASE ~IsUsable(stored[r], now)
    <2> DEFINE new == [NewLookup EXCEPT !.at = "fetch", !.copy = CopyOf(Record(r)), !.asOf = now]
    <2>1. Record(r) \in SUBSET Items
      BY <1>1, ItemsAssumption DEF Record, ReleasesOf, Items
    <2>2. /\ CopyOf(Record(r)) \in Copies /\ DOMAIN CopyOf(Record(r)) = Record(r)
          /\ \A x \in Record(r) : Sure(x, CopyOf(Record(r))[x])
      BY <1>1, <2>1, CopyOfSure
    <2>3. /\ new \in Lookup /\ new.at = "fetch" /\ new.copy = CopyOf(Record(r)) /\ new.primary = Nothing
      BY <1>1, <2>2, NewLookupTyped DEF Lookup, Stages, NewLookup
    <2> HIDE DEF new
    <2>4. LookupSure(r, new)
      BY <1>1, <2>2, <2>3 DEF LookupSure, GroupStages, ArtistStages
    <2>5. \A q \in DOMAIN pages' : PageSure(pages'[q])
      BY <1>1, <1>3, <2>3, <2>4, MovesKeeps DEF ReadsRelease, new
    <2>6. QED
      BY <1>3, <2>5, OnlyPagesSure DEF ReadsRelease, ReadsToWrite
  <1>4. QED
    BY <1>2, <1>3

LEMMA FetchesReleaseSure ==
  ASSUME LookupsSure, NEW p \in DOMAIN pages, NEW r \in DOMAIN pages[p].lookups, FetchesRelease(p, r)
  PROVE  LookupsSure'
  <1> DEFINE lookup == pages[p].lookups[r]
             peers == {x \in DOMAIN lookup.copy \ {r} : IsUsableUrl(lookup.copy[x], lookup.asOf)}
  <1>1. /\ r \in Items /\ r \in Releases /\ now \in Times /\ PagesSure /\ r \notin Groups /\ r \notin Artists
        /\ lookup \in Lookup /\ LookupSure(r, lookup)
    BY WorkingLookup, ItemsAssumption DEF FetchesRelease
  <1>2. PICK value \in Covers(r) :
              \/ HasUrl(value) /\ Settles(p, r, MapState(value, now))
              \/ /\ ~HasUrl(value)
                 /\ \E x \in peers :
                       Settles(p, r, MapFallback(lookup.copy[x].value, {value}, now))
              \/ /\ ~HasUrl(value) /\ peers = {}
                 /\ Moves(p, r, [lookup EXCEPT !.at = "fetchGroup", !.misses = {value}])
    BY DEF FetchesRelease
  <1>3. /\ value \in {r, Miss, Unknown} /\ (value = Miss => r \notin exists)
        /\ ~HasUrl(value) => value \in {Miss, Unknown}
    BY <1>1, CoversSure DEF HasUrl
  <1>4. ASSUME HasUrl(value), Settles(p, r, MapState(value, now))
        PROVE  \A q \in DOMAIN pages' : PageSure(pages'[q])
    BY <1>1, <1>3, <1>4, AnswerIsSure, SettlesKeeps
  <1>5. ASSUME ~HasUrl(value), NEW x \in peers, Settles(p, r, MapFallback(lookup.copy[x].value, {value}, now))
        PROVE  \A q \in DOMAIN pages' : PageSure(pages'[q])
    <2>1. lookup.copy[x].value \in Items
      BY <1>5 DEF IsUsableUrl, HasUrl
    <2>2. {value} \in SUBSET {Miss, Unknown} /\ (Unknown \in {value} \/ r \notin exists)
      BY <1>3, <1>5
    <2>3. /\ MapFallback(lookup.copy[x].value, {value}, now) \in State
          /\ Sure(r, MapFallback(lookup.copy[x].value, {value}, now))
      BY <1>1, <2>1, <2>2, FallbackIsSure
    <2>4. QED
      BY <1>1, <1>5, <2>3, SettlesKeeps
  <1>6. ASSUME ~HasUrl(value), Moves(p, r, [lookup EXCEPT !.at = "fetchGroup", !.misses = {value}])
        PROVE  \A q \in DOMAIN pages' : PageSure(pages'[q])
    <2> DEFINE new == [lookup EXCEPT !.at = "fetchGroup", !.misses = {value}]
    <2>1. {value} \in SUBSET Values
      BY <1>3, <1>6 DEF Values
    <2> HIDE DEF lookup
    <2>2. /\ new \in Lookup /\ new.at = "fetchGroup" /\ new.misses = {value} /\ new.copy = lookup.copy
          /\ new.primary = lookup.primary
      BY <1>1, <2>1 DEF Lookup, Stages
    <2> HIDE DEF new
    <2>3. LookupSure(r, new)
      BY <1>1, <1>3, <1>6, <2>2 DEF LookupSure, GroupStages, ArtistStages
    <2>4. QED
      BY <1>1, <1>6, <2>2, <2>3, MovesKeeps DEF new
  <1>7. \A q \in DOMAIN pages' : PageSure(pages'[q])
    BY <1>2, <1>4, <1>5, <1>6
  <1>8. QED
    BY <1>7, OnlyPagesSure DEF FetchesRelease, OnlyPages

LEMMA FetchesGroupOfReleaseSure ==
  ASSUME LookupsSure, NEW p \in DOMAIN pages, NEW r \in DOMAIN pages[p].lookups, FetchesGroupOfRelease(p, r)
  PROVE  LookupsSure'
  <1> DEFINE lookup == pages[p].lookups[r]
             misses == lookup.misses
  <1>1. /\ r \in Items /\ now \in Times /\ PagesSure /\ lookup \in Lookup /\ LookupSure(r, lookup)
        /\ lookup.at = "fetchGroup"
    BY WorkingLookup DEF FetchesGroupOfRelease, Asks, At
  <1>2. /\ r \in Releases /\ misses \subseteq {Miss, Unknown} /\ (Unknown \in misses \/ r \notin exists)
        /\ GroupOf(r) \in Items /\ r \notin Groups
    BY <1>1, ItemsAssumption DEF LookupSure, Items
  <1>3. PICK value \in Covers(GroupOf(r)) :
              Settles(p, r, IF HasUrl(value) THEN MapFallback(value, misses, now)
                            ELSE MapState(ResolveMiss(misses \cup {value}), now))
    BY DEF FetchesGroupOfRelease
  <1>4. CASE HasUrl(value)
    <2>1. MapFallback(value, misses, now) \in State /\ Sure(r, MapFallback(value, misses, now))
      BY <1>1, <1>2, <1>4, FallbackIsSure DEF HasUrl
    <2>2. QED
      BY <1>1, <1>2, <1>3, <1>4, <2>1, SettlesKeeps, OnlyPagesSure DEF FetchesGroupOfRelease, OnlyPages
  <1>5. CASE ~HasUrl(value)
    <2> DEFINE answer == ResolveMiss(misses \cup {value})
    <2>1. answer \in {r, Miss, Unknown} /\ (answer = Miss => r \notin exists)
      BY <1>2, ItemsAssumption DEF ResolveMiss
    <2>2. MapState(answer, now) \in State /\ Sure(r, MapState(answer, now))
      BY <1>1, <1>2, <2>1, AnswerIsSure
    <2> HIDE DEF answer
    <2>3. Settles(p, r, MapState(answer, now))
      BY <1>3, <1>5 DEF answer
    <2>4. QED
      BY <1>1, <1>2, <2>2, <2>3, SettlesKeeps, OnlyPagesSure DEF FetchesGroupOfRelease, OnlyPages
  <1>6. QED
    BY <1>4, <1>5

-----------------------------------------------------------------------------
(* Covers of groups.                                                       *)

LEMMA ReleasesOfGroup ==
  ASSUME NEW g \in Groups
  PROVE  ReleasesOf(g) \subseteq Releases /\ ReleasesOf(g) \in SUBSET Items
         /\ g \in Items /\ g \notin Releases /\ g \notin Artists
  BY ItemsAssumption DEF ReleasesOf, Items

LEMMA BeginsGroupSure ==
  ASSUME LookupsSure, NEW p \in DOMAIN pages, NEW g \in DOMAIN pages[p].lookups, BeginsGroup(p, g)
  PROVE  LookupsSure'
  <1> DEFINE current == pages[p].copy[g]
             siblings == [NewLookup EXCEPT !.at = "siblings", !.primary = current.value, !.asOf = now]
             fetch == [NewLookup EXCEPT !.at = "fetch"]
             next == IF IsUsableUrl(current, now) THEN Done(current)
                     ELSE IF IsUsable(current, now) THEN siblings ELSE fetch
  <1>1. /\ g \in Groups /\ now \in Times /\ PagesSure /\ current \in State /\ Sure(g, current)
        /\ g \notin Releases /\ g \notin Artists
    BY WorkingLookup, ReleasesOfGroup DEF BeginsGroup, At
  <1>2. Moves(p, g, next)
    BY DEF BeginsGroup
  <1>3. ASSUME IsUsableUrl(current, now)
        PROVE  next \in Lookup /\ LookupSure(g, next)
    BY <1>1, <1>3, DoneTyped
  <1>4. ASSUME ~IsUsableUrl(current, now) /\ IsUsable(current, now)
        PROVE  next \in Lookup /\ LookupSure(g, next)
    <2>1. current.value \in {Miss, Unknown} /\ (current.value = Miss => g \notin exists)
      BY <1>1, <1>4 DEF IsUsableUrl, IsUsable, State, Values, HasUrl, Sure
    <2> HIDE DEF current
    <2>2. /\ siblings \in Lookup /\ siblings.at = "siblings" /\ siblings.primary = current.value
          /\ siblings.copy = <<>>
      BY <1>1, <2>1, NewLookupTyped DEF Lookup, Stages, GroupStages, NewLookup, Values
    <2> HIDE DEF siblings
    <2>3. LookupSure(g, siblings)
      BY <1>1, <2>1, <2>2, NoCopy DEF LookupSure, GroupStages, ArtistStages
    <2>4. QED
      BY <1>4, <2>2, <2>3
  <1>5. ASSUME ~IsUsable(current, now)
        PROVE  next \in Lookup /\ LookupSure(g, next)
    <2>1. /\ fetch \in Lookup /\ fetch.at = "fetch" /\ fetch.copy = <<>> /\ fetch.primary = Nothing
      BY NewLookupTyped DEF Lookup, Stages, NewLookup
    <2> HIDE DEF fetch
    <2>2. LookupSure(g, fetch)
      BY <1>1, <2>1, NoCopy DEF LookupSure, GroupStages, ArtistStages
    <2>3. ~IsUsableUrl(current, now)
      BY <1>5 DEF IsUsableUrl
    <2>4. QED
      BY <1>5, <2>1, <2>2, <2>3
  <1>6. next \in Lookup /\ LookupSure(g, next)
    BY <1>3, <1>4, <1>5 DEF IsUsableUrl
  <1> HIDE DEF next
  <1>7. QED
    BY <1>1, <1>2, <1>6, MovesKeeps, OnlyPagesSure DEF BeginsGroup, OnlyPages

LEMMA ReadsSiblingsSure ==
  ASSUME LookupsSure, NEW p \in DOMAIN pages, NEW g \in DOMAIN pages[p].lookups, ReadsSiblings(p, g)
  PROVE  LookupsSure'
  <1> DEFINE lookup == pages[p].lookups[g]
             urls == {stored[r].value : r \in {x \in ReleasesOf(g) : IsUsableUrl(stored[x], lookup.asOf)}}
  <1>1. /\ now \in Times /\ PagesSure /\ lookup \in Lookup /\ LookupSure(g, lookup) /\ lookup.at = "siblings"
        /\ pages[p].at = "work" /\ g \in Groups /\ g \in Items
    BY WorkingLookup DEF ReadsSiblings, At, LookupSure, GroupStages
  <1>2. lookup.primary \in {Miss, Unknown} /\ (lookup.primary = Miss => g \notin exists)
    BY <1>1 DEF LookupSure, GroupStages
  <1>3. ASSUME NEW value \in urls, Concludes(p, g, MapFallback(value, {lookup.primary}, now))
        PROVE  \A q \in DOMAIN pages' : PageSure(pages'[q])
    <2>1. value \in Items
      BY <1>3 DEF IsUsableUrl, HasUrl
    <2>2. {lookup.primary} \in SUBSET {Miss, Unknown} /\ (Unknown \in {lookup.primary} \/ g \notin exists)
      BY <1>2
    <2>3. /\ MapFallback(value, {lookup.primary}, now) \in State
          /\ Sure(g, MapFallback(value, {lookup.primary}, now))
      BY <1>1, <2>1, <2>2, FallbackIsSure
    <2>4. QED
      BY <1>1, <1>3, <2>3, ConcludesKeeps
  <1>4. ASSUME Moves(p, g, [lookup EXCEPT !.at = "fallback"])
        PROVE  \A q \in DOMAIN pages' : PageSure(pages'[q])
    <2> DEFINE new == [lookup EXCEPT !.at = "fallback"]
    <2>1. /\ new \in Lookup /\ new.at = "fallback" /\ new.copy = lookup.copy /\ new.primary = lookup.primary
      BY <1>1 DEF Lookup, Stages, GroupStages
    <2> HIDE DEF new
    <2>2. LookupSure(g, new)
      BY <1>1, <1>2, <2>1, ReleasesOfGroup DEF LookupSure, GroupStages, ArtistStages
    <2>3. QED
      BY <1>1, <1>4, <2>1, <2>2, MovesKeeps DEF new
  <1>5. ASSUME Moves(p, g, Done(pages[p].copy[g]))
        PROVE  \A q \in DOMAIN pages' : PageSure(pages'[q])
    <2>1. pages[p].copy[g] \in State
      BY <1>1, WorkingLookup
    <2>2. QED
      BY <1>1, <1>5, <2>1, DoneTyped, MovesKeeps
  <1>6. QED
    BY <1>3, <1>4, <1>5, OnlyPagesSure DEF ReadsSiblings, OnlyPages

LEMMA FetchesGroupSure ==
  ASSUME LookupsSure, NEW p \in DOMAIN pages, NEW g \in DOMAIN pages[p].lookups, FetchesGroup(p, g)
  PROVE  LookupsSure'
  <1>1. g \in Groups /\ now \in Times /\ PagesSure /\ g \in Items /\ g \notin Releases /\ g \notin Artists
    BY WorkingLookup, ReleasesOfGroup DEF FetchesGroup
  <1>2. PICK value \in Covers(g) :
              IF HasUrl(value) THEN Concludes(p, g, MapState(value, now))
              ELSE Moves(p, g, [NewLookup EXCEPT !.at = "fallback", !.primary = value])
    BY DEF FetchesGroup
  <1>3. /\ value \in {g, Miss, Unknown} /\ (value = Miss => g \notin exists) /\ value \in Values
        /\ ~HasUrl(value) => value \in {Miss, Unknown}
    BY <1>1, CoversSure DEF HasUrl
  <1>4. CASE HasUrl(value)
    <2>1. value = g /\ value # Miss
      BY <1>3, <1>4, ItemsAssumption DEF HasUrl
    <2>2. QED
      BY <1>1, <1>2, <1>3, <1>4, <2>1, AnswerIsSure, ConcludesKeeps, OnlyPagesSure DEF FetchesGroup, OnlyPages
  <1>5. CASE ~HasUrl(value)
    <2> DEFINE new == [NewLookup EXCEPT !.at = "fallback", !.primary = value]
    <2>1. /\ new \in Lookup /\ new.at = "fallback" /\ new.copy = <<>> /\ new.primary = value
      BY <1>3, NewLookupTyped DEF Lookup, Stages, GroupStages, NewLookup
    <2> HIDE DEF new
    <2>2. LookupSure(g, new)
      BY <1>1, <1>3, <1>5, <2>1, NoCopy DEF LookupSure, GroupStages, ArtistStages
    <2>3. \A q \in DOMAIN pages' : PageSure(pages'[q])
      BY <1>1, <1>2, <1>5, <2>1, <2>2, MovesKeeps DEF new
    <2>4. QED
      BY <2>3, OnlyPagesSure DEF FetchesGroup, OnlyPages
  <1>6. QED
    BY <1>4, <1>5

LEMMA ReadsFallbackSure ==
  ASSUME LookupsSure, NEW p \in DOMAIN pages, NEW g \in DOMAIN pages[p].lookups, ReadsFallback(p, g)
  PROVE  LookupsSure'
  <1> DEFINE lookup == pages[p].lookups[g]
             copy == CopyOf(ReleasesOf(g))
             new == [lookup EXCEPT !.at = "sibling", !.copy = copy, !.asOf = now,
                                   !.left = ReleasesOf(g), !.misses = {lookup.primary}]
  <1>1. /\ now \in Times /\ PagesSure /\ CacheSure /\ lookup \in Lookup /\ LookupSure(g, lookup)
        /\ lookup.at = "fallback" /\ g \in Groups
    BY WorkingLookup DEF ReadsFallback, At, LookupSure, GroupStages
  <1>2. lookup.primary \in {Miss, Unknown} /\ (lookup.primary = Miss => g \notin exists)
    BY <1>1 DEF LookupSure, GroupStages
  <1>3. /\ ReleasesOf(g) \subseteq Releases /\ ReleasesOf(g) \in SUBSET Items /\ g \notin Releases /\ g \notin Artists
    BY <1>1, ReleasesOfGroup
  <1>4. copy \in Copies /\ DOMAIN copy = ReleasesOf(g) /\ \A x \in DOMAIN copy : Sure(x, copy[x])
    BY <1>1, <1>3, CopyOfSure
  <1>5. Moves(p, g, new)
    BY DEF ReadsFallback
  <1> HIDE DEF copy, lookup
  <1>6. {lookup.primary} \in SUBSET Values
    BY <1>2 DEF Values
  <1>7. /\ new \in Lookup /\ new.at = "sibling" /\ new.copy = copy /\ new.primary = lookup.primary
        /\ new.left = ReleasesOf(g) /\ new.misses = {lookup.primary}
    BY <1>1, <1>3, <1>4, <1>6 DEF Lookup, Stages, GroupStages
  <1> HIDE DEF new
  <1>8. LookupSure(g, new)
    BY <1>1, <1>2, <1>3, <1>4, <1>7 DEF LookupSure, GroupStages, ArtistStages
  <1>9. QED
    BY <1>1, <1>5, <1>7, <1>8, MovesKeeps, OnlyPagesSure DEF ReadsFallback, ReadsToWrite

\* The search for a cover of a release ends: with a picture, or with a miss if all
\* releases were tried.
LEMMA FallsBackKeeps ==
  ASSUME LookupsSure, NEW p \in DOMAIN pages, NEW g \in DOMAIN pages[p].lookups, g \in Groups,
         NEW lookup \in Lookup, \A x \in DOMAIN lookup.copy : Sure(x, lookup.copy[x]),
         lookup.primary \in {Miss, Unknown}, lookup.primary = Miss => g \notin exists,
         NEW value \in Values,
         value = Miss => g \notin exists /\ ReleasesOf(g) \cap exists = {},
         FallsBack(p, g, lookup, value)
  PROVE  \A q \in DOMAIN pages' : PageSure(pages'[q])
  <1>1. now \in Times /\ PagesSure /\ g \in Items /\ g \notin Releases /\ g \notin Artists
    BY WorkingLookup, ReleasesOfGroup
  <1>2. CASE lookup.changed
    <2> DEFINE result == MapState(value, now)
               new == [lookup EXCEPT !.at = "delete", !.left = {}, !.result = result]
    <2>1. result \in State /\ result.value = value
      BY <1>1, MapStateTyped
    <2> HIDE DEF result
    <2>2. /\ new \in Lookup /\ new.at = "delete" /\ new.result = result /\ new.copy = lookup.copy
          /\ new.primary = lookup.primary
      BY <2>1 DEF Lookup, Stages
    <2> HIDE DEF new
    <2>3. LookupSure(g, new)
      BY <1>1, <2>1, <2>2 DEF LookupSure, GroupStages, ArtistStages
    <2>4. Moves(p, g, new)
      BY <1>2 DEF FallsBack, new, result
    <2>5. QED
      BY <1>1, <2>2, <2>3, <2>4, MovesKeeps
  <1>3. CASE ~lookup.changed
    <2> DEFINE state == MapFallback(value, {lookup.primary}, now)
    <2>1. {lookup.primary} \in SUBSET {Miss, Unknown} /\ (Unknown \in {lookup.primary} \/ g \notin exists)
          /\ {lookup.primary} \in SUBSET Values
      BY <1>1 DEF Values
    <2>2. state \in State /\ state.value = value
      BY <1>1, <2>1, MapFallbackTyped
    <2>3. Sure(g, state)
      <3>1. CASE value \in Items
        BY <1>1, <2>1, <3>1, FallbackIsSure
      <3>2. CASE value \notin Items
        BY <2>2, <3>2 DEF Sure, HasUrl
      <3>3. QED
        BY <3>1, <3>2
    <2> HIDE DEF state
    <2>4. Concludes(p, g, state)
      BY <1>3 DEF FallsBack, state
    <2>5. QED
      BY <1>1, <2>2, <2>3, <2>4, ConcludesKeeps
  <1>4. QED
    BY <1>2, <1>3

LEMMA TriesSiblingSure ==
  ASSUME LookupsSure, NEW p \in DOMAIN pages, NEW g \in DOMAIN pages[p].lookups, NEW r \in Releases,
         TriesSibling(p, g, r)
  PROVE  LookupsSure'
  <1> DEFINE lookup == pages[p].lookups[g]
             cached == lookup.copy[r]
             Tried(state) == [lookup EXCEPT !.left = @ \ {r}, !.copy[r] = state,
                                            !.misses = @ \cup {state.value},
                                            !.changed = @ \/ ~IsUsable(cached, lookup.asOf)]
  <1>1. /\ now \in Times /\ PagesSure /\ CacheSure /\ lookup \in Lookup /\ LookupSure(g, lookup)
        /\ lookup.at = "sibling" /\ g \in Groups /\ r \in lookup.left
    BY WorkingLookup DEF TriesSibling, At, LookupSure, GroupStages
  <1>2. /\ ReleasesOf(g) \subseteq Releases /\ ReleasesOf(g) \in SUBSET Items /\ g \notin Releases /\ g \notin Artists
    BY <1>1, ReleasesOfGroup
  <1>3. /\ lookup.primary \in {Miss, Unknown} /\ (lookup.primary = Miss => g \notin exists)
        /\ lookup.primary \in lookup.misses /\ lookup.misses \subseteq {Miss, Unknown}
        /\ DOMAIN lookup.copy = ReleasesOf(g) /\ lookup.left \subseteq ReleasesOf(g)
        /\ Unknown \notin lookup.misses => (ReleasesOf(g) \ lookup.left) \cap exists = {}
        /\ \A x \in DOMAIN lookup.copy : Sure(x, lookup.copy[x])
    BY <1>1 DEF LookupSure, GroupStages
  <1>4. r \in ReleasesOf(g) /\ r \in Items /\ r \notin Groups
    BY <1>1, <1>2, <1>3, ItemsAssumption
  <1>5. lookup.copy \in [ReleasesOf(g) -> State] /\ cached \in State
    BY <1>1, <1>3, <1>4 DEF Lookup, Copies
  <1>6. PICK state \in IF IsUsable(cached, lookup.asOf) THEN {cached}
                       ELSE {MapState(value, now) : value \in Covers(r)} :
              IF HasUrl(state.value) THEN FallsBack(p, g, Tried(state), state.value)
              ELSE Moves(p, g, Tried(state))
    BY DEF TriesSibling
  <1>7. state \in State /\ Sure(r, state) /\ state.value \in Values
    <2>1. CASE IsUsable(cached, lookup.asOf)
      BY <1>3, <1>4, <1>5, <1>6, <2>1 DEF IsUsable, State
    <2>2. CASE ~IsUsable(cached, lookup.asOf)
      <3>1. PICK value \in Covers(r) : state = MapState(value, now)
        BY <1>6, <2>2
      <3>2. value \in {r, Miss, Unknown} /\ value \in Values /\ (value = Miss => r \notin exists)
        BY <1>4, CoversSure
      <3>3. QED
        BY <1>1, <1>4, <3>1, <3>2, AnswerIsSure, MapStateTyped
    <2>3. QED
      BY <2>1, <2>2
  <1> DEFINE new == Tried(state)
             copy == [lookup.copy EXCEPT ![r] = state]
             changed == lookup.changed \/ ~IsUsable(cached, lookup.asOf)
  <1>8. /\ copy \in [ReleasesOf(g) -> State] /\ copy \in Copies /\ DOMAIN copy = ReleasesOf(g)
        /\ \A x \in DOMAIN copy : Sure(x, copy[x])
    <2>1. copy \in [ReleasesOf(g) -> State]
      BY <1>5, <1>7
    <2>2. copy \in Copies
      BY <1>2, <2>1 DEF Copies
    <2>3. QED
      BY <1>3, <1>5, <1>7, <2>1, <2>2
  <1>9. changed \in BOOLEAN /\ lookup.left \ {r} \in SUBSET Releases
        /\ lookup.misses \cup {state.value} \in SUBSET Values
    BY <1>1, <1>7 DEF Lookup, IsUsable
  <1>10. new = [lookup EXCEPT !.left = lookup.left \ {r}, !.copy = copy,
                              !.misses = lookup.misses \cup {state.value}, !.changed = changed]
    BY <1>1 DEF Lookup
  <1> HIDE DEF new, copy, changed
  <1>11. /\ new \in Lookup /\ new.at = "sibling" /\ new.copy = copy /\ new.primary = lookup.primary
         /\ new.left = lookup.left \ {r} /\ new.misses = lookup.misses \cup {state.value}
    BY <1>1, <1>8, <1>9, <1>10 DEF Lookup
  <1>12. CASE HasUrl(state.value)
    <2>1. FallsBack(p, g, new, state.value)
      BY <1>6, <1>12 DEF new
    <2>2. state.value # Miss
      BY <1>12, ItemsAssumption DEF HasUrl
    <2>3. \A q \in DOMAIN pages' : PageSure(pages'[q])
      BY <1>1, <1>3, <1>7, <1>8, <1>11, <2>1, <2>2, FallsBackKeeps
    <2>4. QED
      BY <2>3, OnlyPagesSure DEF TriesSibling, OnlyPages
  <1>13. CASE ~HasUrl(state.value)
    <2>1. state.value \in {Miss, Unknown} /\ (state.value = Miss => r \notin exists)
      BY <1>7, <1>13 DEF HasUrl, Values, Sure
    <2>2. LookupSure(g, new)
      BY <1>1, <1>2, <1>3, <1>4, <1>8, <1>11, <2>1 DEF LookupSure, GroupStages, ArtistStages
    <2>3. Moves(p, g, new)
      BY <1>6, <1>13 DEF new
    <2>4. QED
      BY <1>1, <1>11, <2>2, <2>3, MovesKeeps, OnlyPagesSure DEF TriesSibling, OnlyPages
  <1>14. QED
    BY <1>12, <1>13

LEMMA HasNoSiblingSure ==
  ASSUME LookupsSure, NEW p \in DOMAIN pages, NEW g \in DOMAIN pages[p].lookups, HasNoSibling(p, g)
  PROVE  LookupsSure'
  <1> DEFINE lookup == pages[p].lookups[g]
             value == ResolveMiss(lookup.misses)
  <1>1. /\ lookup \in Lookup /\ LookupSure(g, lookup) /\ lookup.at = "sibling" /\ g \in Groups
        /\ lookup.left = {} /\ FallsBack(p, g, lookup, value)
    BY WorkingLookup DEF HasNoSibling, At, LookupSure, GroupStages
  <1>2. /\ lookup.primary \in {Miss, Unknown} /\ (lookup.primary = Miss => g \notin exists)
        /\ lookup.primary \in lookup.misses
        /\ Unknown \notin lookup.misses => ReleasesOf(g) \cap exists = {}
        /\ \A x \in DOMAIN lookup.copy : Sure(x, lookup.copy[x])
    BY <1>1 DEF LookupSure, GroupStages
  <1>3. value \in Values /\ (value = Miss => g \notin exists /\ ReleasesOf(g) \cap exists = {})
    BY <1>2, ItemsAssumption DEF ResolveMiss, Values
  <1>4. \A q \in DOMAIN pages' : PageSure(pages'[q])
    BY <1>1, <1>2, <1>3, FallsBackKeeps
  <1>5. QED
    BY <1>4, OnlyPagesSure DEF HasNoSibling, OnlyPages

-----------------------------------------------------------------------------
(* The cache is written.                                                   *)

\* A copy that is sure leaves a cache that is, and so does a record that is deleted.
LEMMA SavesKeeps ==
  ASSUME CacheSure, NEW copy \in Copies, \A x \in DOMAIN copy : Sure(x, copy[x]), SavesRecord(copy)
  PROVE  CacheSure'
  <1>1. PICK D \in SUBSET Items : copy \in [D -> State]
    BY DEF Copies
  <1>2. stored' \in [Items -> State]
    BY <1>1 DEF SavesRecord, CacheSure
  <1>3. \A i \in Items : Sure(i, stored'[i])
    BY DEF SavesRecord, CacheSure
  <1>4. QED
    BY <1>2, <1>3 DEF SavesRecord, CacheSure, Sure

LEMMA DeletesKeeps ==
  ASSUME CacheSure, NEW p, NEW i, NEW record, DeletesRecord(p, i, record)
  PROVE  CacheSure'
  <1>1. Absent \in State /\ \A x : Sure(x, Absent)
    BY TimesAssumption, ItemsAssumption DEF Absent, State, Forever, Sure, HasUrl
  <1>2. stored' \in [Items -> State]
    BY <1>1 DEF DeletesRecord, CacheSure
  <1>3. \A x \in Items : Sure(x, stored'[x])
    BY <1>1 DEF DeletesRecord, CacheSure
  <1>4. QED
    BY <1>2, <1>3 DEF DeletesRecord, CacheSure, Sure

LEMMA DeletesSure ==
  ASSUME LookupsSure, NEW p \in DOMAIN pages, NEW i \in DOMAIN pages[p].lookups, Deletes(p, i)
  PROVE  LookupsSure'
  <1> DEFINE lookup == pages[p].lookups[i]
             new == [lookup EXCEPT !.at = "save"]
  <1>1. /\ PagesSure /\ CacheSure /\ lookup \in Lookup /\ LookupSure(i, lookup) /\ lookup.at = "delete"
        /\ Moves(p, i, new)
    BY WorkingLookup DEF Deletes, At
  <1> HIDE DEF lookup
  <1>2. /\ new \in Lookup /\ new.at = "save" /\ new.result = lookup.result /\ new.copy = lookup.copy
        /\ new.primary = lookup.primary
    BY <1>1 DEF Lookup, Stages
  <1> HIDE DEF new
  <1>3. LookupSure(i, new)
    BY <1>1, <1>2 DEF LookupSure, GroupStages, ArtistStages
  <1>4. \A q \in DOMAIN pages' : PageSure(pages'[q])
    BY <1>1, <1>2, <1>3, MovesKeeps
  <1>5. CacheSure' /\ exists' = exists
    BY <1>1, DeletesKeeps DEF Deletes, DeletesRecord
  <1>6. QED
    BY <1>4, <1>5, PagesStaySure DEF LookupsSure

LEMMA SavesSure ==
  ASSUME LookupsSure, NEW p \in DOMAIN pages, NEW i \in DOMAIN pages[p].lookups, Saves(p, i)
  PROVE  LookupsSure'
  <1> DEFINE lookup == pages[p].lookups[i]
  <1>1. /\ PagesSure /\ CacheSure /\ lookup \in Lookup /\ LookupSure(i, lookup)
        /\ Moves(p, i, Done(lookup.result)) /\ SavesRecord(lookup.copy)
    BY WorkingLookup DEF Saves
  <1>2. lookup.result \in State /\ lookup.copy \in Copies /\ \A x \in DOMAIN lookup.copy : Sure(x, lookup.copy[x])
    BY <1>1 DEF Lookup, LookupSure
  <1> HIDE DEF lookup
  <1>3. \A q \in DOMAIN pages' : PageSure(pages'[q])
    BY <1>1, <1>2, DoneTyped, MovesKeeps
  <1>4. CacheSure' /\ exists' = exists
    BY <1>1, <1>2, SavesKeeps DEF SavesRecord
  <1>5. QED
    BY <1>3, <1>4, PagesStaySure DEF LookupsSure

LEMMA SavesSiblingsSure ==
  ASSUME LookupsSure, NEW p \in DOMAIN pages, NEW g \in DOMAIN pages[p].lookups, SavesSiblings(p, g)
  PROVE  LookupsSure'
  <1> DEFINE lookup == pages[p].lookups[g]
             value == lookup.result.value
             state == MapFallback(value, {lookup.primary}, now)
  <1>1. /\ PagesSure /\ CacheSure /\ lookup \in Lookup /\ LookupSure(g, lookup) /\ now \in Times
        /\ g \in Groups /\ g \in Items /\ lookup.at = "save"
        /\ Concludes(p, g, state) /\ SavesRecord(lookup.copy)
    BY WorkingLookup DEF SavesSiblings, At
  <1>2. /\ lookup.primary \in {Miss, Unknown} /\ (lookup.primary = Miss => g \notin exists)
        /\ value \in Values /\ (value = Miss => g \notin exists /\ ReleasesOf(g) \cap exists = {})
        /\ lookup.copy \in Copies /\ \A x \in DOMAIN lookup.copy : Sure(x, lookup.copy[x])
    BY <1>1 DEF LookupSure, Lookup
  <1>3. {lookup.primary} \in SUBSET {Miss, Unknown} /\ (Unknown \in {lookup.primary} \/ g \notin exists)
        /\ {lookup.primary} \in SUBSET Values
    BY <1>2 DEF Values
  <1> HIDE DEF value
  <1>4. state \in State /\ state.value = value
    BY <1>1, <1>2, <1>3, MapFallbackTyped
  <1>5. Sure(g, state)
    <2>1. CASE value \in Items
      BY <1>1, <1>3, <2>1, FallbackIsSure
    <2>2. CASE value \notin Items
      BY <1>2, <1>4, <2>2 DEF Sure, HasUrl
    <2>3. QED
      BY <2>1, <2>2
  <1> HIDE DEF state
  <1>6. \A q \in DOMAIN pages' : PageSure(pages'[q])
    BY <1>1, <1>4, <1>5, ConcludesKeeps
  <1>7. CacheSure' /\ exists' = exists
    BY <1>1, <1>2, SavesKeeps DEF SavesRecord
  <1>8. QED
    BY <1>6, <1>7, PagesStaySure DEF LookupsSure

-----------------------------------------------------------------------------
(* Lyrics.                                                                 *)

LEMMA FetchesLyricsSure ==
  ASSUME LookupsSure, NEW p \in DOMAIN pages, NEW t \in DOMAIN pages[p].lookups, FetchesLyrics(p, t)
  PROVE  LookupsSure'
  <1> DEFINE page == pages[p]
             cached == page.copy[t]
  <1>1. /\ PagesSure /\ page \in Page /\ PageSure(page) /\ t \in Items /\ t \in Tracks /\ now \in Times
        /\ t \in DOMAIN page.copy /\ cached \in State /\ Sure(t, cached) /\ t \notin Groups
        /\ t \in DOMAIN page.lookups
    BY WorkingLookup, ItemsAssumption DEF FetchesLyrics, At
  <1>2. PICK state \in IF IsUsable(cached, now) THEN {cached}
                       ELSE {MapState(value, now) : value \in Lyrics(t)} :
              pages' = [pages EXCEPT ![p].copy[t] = state, ![p].lookups[t] = Done(state)]
    BY DEF FetchesLyrics
  <1>3. state \in State /\ Sure(t, state)
    <2>1. CASE IsUsable(cached, now)
      BY <1>1, <1>2, <2>1
    <2>2. CASE ~IsUsable(cached, now)
      <3>1. PICK value \in Lyrics(t) : state = MapState(value, now)
        BY <1>2, <2>2
      <3>2. value \in {t, Miss, Unknown} /\ (value = Miss => t \notin exists)
        BY <1>1, <3>1, ItemsAssumption DEF Lyrics
      <3>3. QED
        BY <1>1, <3>1, <3>2, AnswerIsSure
    <2>3. QED
      BY <2>1, <2>2
  <1> DEFINE copy == [page.copy EXCEPT ![t] = state]
             lookups == [page.lookups EXCEPT ![t] = Done(state)]
             new == [page EXCEPT !.copy = copy, !.lookups = lookups]
  <1>4. pages' = [pages EXCEPT ![p] = new]
    <2>1. pages' = [pages EXCEPT ![p] = [page EXCEPT !.copy[t] = state, !.lookups[t] = Done(state)]]
      BY <1>2
    <2>2. [page EXCEPT !.copy[t] = state, !.lookups[t] = Done(state)] = new
      BY <1>1 DEF Page
    <2>3. QED
      BY <2>1, <2>2
  <1> HIDE DEF page, cached
  <1>5. PICK D \in SUBSET Items : page.lookups \in [D -> Lookup]
    BY <1>1 DEF Page
  <1>6. lookups \in [D -> Lookup] /\ DOMAIN lookups = DOMAIN page.lookups
    BY <1>3, <1>5, DoneTyped
  <1>7. PICK E \in SUBSET Items : page.copy \in [E -> State]
    BY <1>1 DEF Page, Copies
  <1>8. copy \in [E -> State] /\ DOMAIN copy = DOMAIN page.copy
    BY <1>3, <1>7
  <1>9. copy \in Copies
    BY <1>8 DEF Copies
  <1>10. \A x \in DOMAIN copy : Sure(x, copy[x])
    BY <1>1, <1>3, <1>8 DEF PageSure
  <1>11. \A j \in DOMAIN lookups : LookupSure(j, lookups[j])
    BY <1>1, <1>3, DoneTyped DEF PageSure
  <1> HIDE DEF copy, lookups
  <1>12. /\ new \in Page /\ new.kind = page.kind /\ new.at = page.at /\ new.copy = copy
         /\ new.lookups = lookups
    BY <1>1, <1>6, <1>9 DEF Page
  <1> HIDE DEF new
  <1>13. PageSure(new)
    BY <1>1, <1>6, <1>8, <1>10, <1>11, <1>12 DEF PageSure, SharesCopy
  <1>14. \A q \in DOMAIN pages' : PageSure(pages'[q])
    BY <1>1, <1>4, <1>13 DEF PagesSure
  <1>15. QED
    BY <1>14, OnlyPagesSure DEF FetchesLyrics, OnlyPages

-----------------------------------------------------------------------------
(* Images of artists.                                                      *)

\* A lookup of an artist, wherever it goes from here.
ArtistSure(a, lookup) ==
    /\ lookup \in Lookup /\ \A x \in DOMAIN lookup.copy : Sure(x, lookup.copy[x])
    /\ lookup.primary = Miss => a \notin exists

LEMMA AtArtist ==
  ASSUME LookupsSure, NEW p \in DOMAIN pages, NEW a \in DOMAIN pages[p].lookups,
         a \in Artists \/ pages[p].lookups[a].at \in ArtistStages
  PROVE  /\ a \in Artists /\ a \in Items /\ a \notin Groups /\ a \notin Releases
         /\ PagesSure /\ CacheSure /\ now \in Times /\ ArtistSure(a, pages[p].lookups[a])
  BY WorkingLookup, ItemsAssumption DEF LookupSure, ArtistSure

LEMMA ArtistGoesOn ==
  ASSUME PagesSure, NEW p \in DOMAIN pages, NEW a \in DOMAIN pages[p].lookups, a \in Artists, a \notin Groups,
         NEW lookup, ArtistSure(a, lookup), NEW at \in ArtistStages, NEW base \in LinkStates,
         NEW found \in LinkStates \cup {"unread"},
         Moves(p, a, [lookup EXCEPT !.at = at, !.base = base, !.links = found])
  PROVE  \A q \in DOMAIN pages' : PageSure(pages'[q])
  <1> DEFINE new == [lookup EXCEPT !.at = at, !.base = base, !.links = found]
  <1>1. /\ new \in Lookup /\ new.at = at /\ new.copy = lookup.copy /\ new.primary = lookup.primary
    BY DEF ArtistSure, Lookup, Stages
  <1>2. Moves(p, a, new)
    OBVIOUS
  <1> HIDE DEF new
  <1>3. LookupSure(a, new)
    BY <1>1 DEF ArtistSure, LookupSure, GroupStages, ArtistStages
  <1>4. QED
    BY <1>1, <1>2, <1>3, MovesKeeps

\* A lookup that only goes elsewhere.
LEMMA ArtistTurns ==
  ASSUME PagesSure, NEW p \in DOMAIN pages, NEW a \in DOMAIN pages[p].lookups, a \in Artists, a \notin Groups,
         NEW lookup, ArtistSure(a, lookup), NEW at \in ArtistStages, Moves(p, a, [lookup EXCEPT !.at = at])
  PROVE  \A q \in DOMAIN pages' : PageSure(pages'[q])
  <1>1. /\ [lookup EXCEPT !.at = at] = [lookup EXCEPT !.at = at, !.base = lookup.base, !.links = lookup.links]
        /\ lookup.base \in LinkStates /\ lookup.links \in LinkStates \cup {"unread"}
    BY DEF ArtistSure, Lookup
  <1>2. Moves(p, a, [lookup EXCEPT !.at = at, !.base = lookup.base, !.links = lookup.links])
    BY <1>1
  <1>3. QED
    BY <1>1, <1>2, ArtistGoesOn

LEMMA AnswerSettles ==
  ASSUME PagesSure, now \in Times, NEW p \in DOMAIN pages, NEW a \in DOMAIN pages[p].lookups,
         a \in Artists, a \in Items, a \notin Groups,
         NEW value \in {a, Miss, Unknown}, value = Miss => a \notin exists,
         Settles(p, a, MapState(value, now))
  PROVE  \A q \in DOMAIN pages' : PageSure(pages'[q])
  BY AnswerIsSure, SettlesKeeps

LEMMA AfterSyncKeeps ==
  ASSUME PagesSure, now \in Times, NEW p \in DOMAIN pages, NEW a \in DOMAIN pages[p].lookups,
         a \in Artists, a \in Items, a \notin Groups, NEW lookup, ArtistSure(a, lookup), AfterSync(p, a, lookup)
  PROVE  \A q \in DOMAIN pages' : PageSure(pages'[q])
  <1>1. CASE lookup.primary = Miss
    BY <1>1, AnswerSettles DEF AfterSync, ArtistSure
  <1>2. CASE lookup.primary # Miss
    BY <1>2, ArtistTurns DEF AfterSync, ArtistStages
  <1>3. QED
    BY <1>1, <1>2

LEMMA SynchronizesKeeps ==
  ASSUME PagesSure, now \in Times, NEW p \in DOMAIN pages, NEW a \in DOMAIN pages[p].lookups,
         a \in Artists, a \in Items, a \notin Groups, NEW lookup, ArtistSure(a, lookup), Synchronizes(p, a, lookup)
  PROVE  \A q \in DOMAIN pages' : PageSure(pages'[q])
  <1>1. CASE lookup.base \in {"absent", "current"}
    BY <1>1, AfterSyncKeeps DEF Synchronizes
  <1>2. CASE lookup.base \notin {"absent", "current"}
    BY <1>2, ArtistTurns DEF Synchronizes, ArtistStages
  <1>3. QED
    BY <1>1, <1>2

LEMMA ReadsImageSure ==
  ASSUME LookupsSure, NEW p \in DOMAIN pages, NEW a \in DOMAIN pages[p].lookups, ReadsImage(p, a)
  PROVE  LookupsSure'
  <1> DEFINE lookup == pages[p].lookups[a]
             at == IF lookup.links = "unread" THEN "details"
                   ELSE IF lookup.links = "none" THEN "musicbrainz" ELSE "bypass"
  <1>1. /\ a \in Artists /\ a \in Items /\ a \notin Groups /\ PagesSure /\ CacheSure /\ ArtistSure(a, lookup)
    BY AtArtist DEF ReadsImage
  <1>2. CASE IsUsable(stored[a], now)
    <2>1. stored[a] \in State /\ Moves(p, a, Done(stored[a]))
      BY <1>1, <1>2 DEF ReadsImage, CacheSure
    <2>2. \A q \in DOMAIN pages' : PageSure(pages'[q])
      BY <1>1, <2>1, DoneTyped, MovesKeeps
    <2>3. QED
      BY <2>2, OnlyPagesSure DEF ReadsImage, OnlyPages
  <1>3. CASE ~IsUsable(stored[a], now)
    <2>1. Moves(p, a, [lookup EXCEPT !.at = at]) /\ at \in ArtistStages
      BY <1>3 DEF ReadsImage, ArtistStages
    <2> HIDE DEF at, lookup
    <2>2. \A q \in DOMAIN pages' : PageSure(pages'[q])
      BY <1>1, <2>1, ArtistTurns
    <2>3. QED
      BY <2>2, OnlyPagesSure DEF ReadsImage, OnlyPages
  <1>4. QED
    BY <1>2, <1>3

LEMMA ReadsDetailsSure ==
  ASSUME LookupsSure, NEW p \in DOMAIN pages, NEW a \in DOMAIN pages[p].lookups, ReadsDetails(p, a)
  PROVE  LookupsSure'
  <1> DEFINE lookup == pages[p].lookups[a]
             at == IF links[a] \in {"old", "current"} THEN "bypass" ELSE "musicbrainz"
  <1>1. /\ a \in Artists /\ a \notin Groups /\ PagesSure /\ CacheSure /\ ArtistSure(a, lookup)
    BY AtArtist DEF ReadsDetails, At, ArtistStages
  <1>2. links[a] \in LinkStates /\ at \in ArtistStages
    BY <1>1 DEF CacheSure, ArtistStages
  <1>3. Moves(p, a, [lookup EXCEPT !.at = at, !.base = links[a], !.links = links[a]])
    BY <1>1 DEF ReadsDetails, Moves, ArtistSure, Lookup
  <1> HIDE DEF at, lookup
  <1>4. \A q \in DOMAIN pages' : PageSure(pages'[q])
    BY <1>1, <1>2, <1>3, ArtistGoesOn
  <1>5. QED
    BY <1>4, OnlyPagesSure DEF ReadsDetails, OnlyPages

LEMMA BypassesMusicBrainzSure ==
  ASSUME LookupsSure, NEW p \in DOMAIN pages, NEW a \in DOMAIN pages[p].lookups, BypassesMusicBrainz(p, a)
  PROVE  LookupsSure'
  <1> DEFINE lookup == pages[p].lookups[a]
  <1>1. /\ a \in Artists /\ a \in Items /\ a \notin Groups /\ PagesSure /\ now \in Times /\ ArtistSure(a, lookup)
    BY AtArtist DEF BypassesMusicBrainz, Asks, At, ArtistStages
  <1>2. PICK value \in Images(a) \cup (IF lookup.links = "old" THEN {a, Miss} ELSE {}) :
              IF HasUrl(value) THEN Settles(p, a, MapState(value, now))
              ELSE Moves(p, a, [lookup EXCEPT !.at = "musicbrainz"])
    BY DEF BypassesMusicBrainz
  <1>3. value \in {a, Miss, Unknown}
    BY <1>1, ImagesSure
  <1> HIDE DEF lookup
  <1>4. CASE HasUrl(value)
    <2>1. value # Miss
      BY <1>4, ItemsAssumption DEF HasUrl
    <2>2. QED
      BY <1>1, <1>2, <1>3, <1>4, <2>1, AnswerSettles, OnlyPagesSure DEF BypassesMusicBrainz, OnlyPages
  <1>5. CASE ~HasUrl(value)
    BY <1>1, <1>2, <1>5, ArtistTurns, OnlyPagesSure DEF BypassesMusicBrainz, OnlyPages, ArtistStages
  <1>6. QED
    BY <1>4, <1>5

LEMMA AsksMusicBrainzSure ==
  ASSUME LookupsSure, NEW p \in DOMAIN pages, NEW a \in DOMAIN pages[p].lookups, AsksMusicBrainz(p, a)
  PROVE  LookupsSure'
  <1> DEFINE lookup == pages[p].lookups[a]
             Found(primary) == [lookup EXCEPT !.primary = primary]
  <1>1. /\ a \in Artists /\ a \in Items /\ a \notin Groups /\ PagesSure /\ now \in Times /\ ArtistSure(a, lookup)
    BY AtArtist DEF AsksMusicBrainz, Asks, At, ArtistStages
  <1>2. ASSUME Settles(p, a, MapState(Unknown, now))
        PROVE  \A q \in DOMAIN pages' : PageSure(pages'[q])
    BY <1>1, <1>2, ItemsAssumption, AnswerSettles
  <1>3. ASSUME a \notin exists, Settles(p, a, MapState(Miss, now))
        PROVE  \A q \in DOMAIN pages' : PageSure(pages'[q])
    BY <1>1, <1>3, AnswerSettles
  <1>4. ASSUME NEW primary \in {Nothing, Miss}, primary = Miss => a \notin exists,
               IF lookup.base = "absent" THEN Moves(p, a, [Found(primary) EXCEPT !.at = "sync"])
               ELSE Synchronizes(p, a, Found(primary))
        PROVE  \A q \in DOMAIN pages' : PageSure(pages'[q])
    <2> DEFINE found == Found(primary)
    <2> HIDE DEF lookup
    <2>1. found \in Lookup /\ found.primary = primary /\ found.copy = lookup.copy
      BY <1>1 DEF ArtistSure, Lookup, Values
    <2>2. ArtistSure(a, found)
      BY <1>1, <1>4, <2>1 DEF ArtistSure
    <2> HIDE DEF found
    <2>3. IF lookup.base = "absent" THEN Moves(p, a, [found EXCEPT !.at = "sync"])
          ELSE Synchronizes(p, a, found)
      BY <1>4 DEF found
    <2>4. CASE lookup.base = "absent"
      BY <1>1, <2>2, <2>3, <2>4, ArtistTurns DEF ArtistStages
    <2>5. CASE lookup.base # "absent"
      BY <1>1, <2>2, <2>3, <2>5, SynchronizesKeeps
    <2>6. QED
      BY <2>4, <2>5
  <1>5. \A q \in DOMAIN pages' : PageSure(pages'[q])
    BY <1>2, <1>3, <1>4 DEF AsksMusicBrainz
  <1>6. QED
    BY <1>5, OnlyPagesSure DEF AsksMusicBrainz, OnlyPages

LEMMA ReadsForSyncSure ==
  ASSUME LookupsSure, NEW p \in DOMAIN pages, NEW a \in DOMAIN pages[p].lookups, ReadsForSync(p, a)
  PROVE  LookupsSure'
  <1> DEFINE lookup == pages[p].lookups[a]
             new == [lookup EXCEPT !.base = links[a]]
  <1>1. /\ a \in Artists /\ a \in Items /\ a \notin Groups /\ PagesSure /\ CacheSure /\ now \in Times
        /\ ArtistSure(a, lookup)
    BY AtArtist DEF ReadsForSync, At, ArtistStages
  <1>2. Synchronizes(p, a, new)
    BY DEF ReadsForSync
  <1> HIDE DEF lookup
  <1>3. new \in Lookup /\ new.primary = lookup.primary /\ new.copy = lookup.copy
    BY <1>1 DEF ArtistSure, Lookup, CacheSure
  <1> HIDE DEF new
  <1>4. ArtistSure(a, new)
    BY <1>1, <1>3 DEF ArtistSure
  <1>5. QED
    BY <1>1, <1>2, <1>4, SynchronizesKeeps, OnlyPagesSure DEF ReadsForSync, OnlyPages

\* The cached details get other links.
LEMMA LinksSure ==
  ASSUME LookupsSure, NEW a, NEW state \in LinkStates, links' = [links EXCEPT ![a] = state],
         UNCHANGED <<now, exists, stored>>, \A q \in DOMAIN pages' : PageSure(pages'[q])
  PROVE  LookupsSure'
  <1>1. CacheSure'
    BY DEF LookupsSure, CacheSure, Sure
  <1>2. QED
    BY <1>1, PagesStaySure DEF LookupsSure

LEMMA DeletesDetailsSure ==
  ASSUME LookupsSure, NEW p \in DOMAIN pages, NEW a \in DOMAIN pages[p].lookups, DeletesDetails(p, a)
  PROVE  LookupsSure'
  <1>1. \A q \in DOMAIN pages' : PageSure(pages'[q])
    BY AtArtist, ArtistTurns DEF DeletesDetails, At, ArtistStages
  <1>2. QED
    BY <1>1, LinksSure DEF DeletesDetails, LinkStates

LEMMA SavesDetailsSure ==
  ASSUME LookupsSure, NEW p \in DOMAIN pages, NEW a \in DOMAIN pages[p].lookups, SavesDetails(p, a)
  PROVE  LookupsSure'
  <1>1. \A q \in DOMAIN pages' : PageSure(pages'[q])
    BY AtArtist, AfterSyncKeeps DEF SavesDetails, At, ArtistStages
  <1>2. QED
    BY <1>1, LinksSure DEF SavesDetails, LinkStates

LEMMA AsksDiscogsSure ==
  ASSUME LookupsSure, NEW p \in DOMAIN pages, NEW a \in DOMAIN pages[p].lookups, AsksDiscogs(p, a)
  PROVE  LookupsSure'
  <1>1. \A q \in DOMAIN pages' : PageSure(pages'[q])
    BY AtArtist, ImagesSure, AnswerSettles DEF AsksDiscogs, Asks, At, ArtistStages
  <1>2. QED
    BY <1>1, OnlyPagesSure DEF AsksDiscogs, OnlyPages

-----------------------------------------------------------------------------
(* The steps of pages.                                                     *)

LEMMA IsStoppedSure ==
  ASSUME LookupsSure, NEW p \in DOMAIN pages, NEW i \in DOMAIN pages[p].lookups, IsStopped(p, i)
  PROVE  LookupsSure'
  BY WorkingLookup, FailsKeeps, OnlyPagesSure DEF IsStopped, OnlyPages

LEMMA LookupCannotReachSure ==
  ASSUME LookupsSure, NEW p \in DOMAIN pages, NEW i \in DOMAIN pages[p].lookups, LookupCannotReach(p, i)
  PROVE  LookupsSure'
  BY WorkingLookup, FailsKeeps, OnlyPagesSure DEF LookupCannotReach

LEMMA WorksOnSure ==
  ASSUME LookupsSure, NEW p \in DOMAIN pages, NEW i \in DOMAIN pages[p].lookups, WorksOn(p, i)
  PROVE  LookupsSure'
  BY IsStoppedSure, LookupCannotReachSure, DeletesSure, SavesSure, ReadsReleaseSure, FetchesReleaseSure,
     FetchesGroupOfReleaseSure, BeginsGroupSure, ReadsSiblingsSure, FetchesGroupSure, ReadsFallbackSure,
     TriesSiblingSure, HasNoSiblingSure, SavesSiblingsSure, FetchesLyricsSure, ReadsImageSure,
     ReadsDetailsSure, BypassesMusicBrainzSure, AsksMusicBrainzSure, ReadsForSyncSure, DeletesDetailsSure,
     SavesDetailsSure, AsksDiscogsSure
  DEF WorksOn

\* A page that goes on or ends, with a copy that is sure.
LEMMA PageBecomes ==
  ASSUME PagesSure, NEW p \in DOMAIN pages, NEW new \in Page, new.kind = pages[p].kind,
         new.lookups = pages[p].lookups, \A x \in DOMAIN new.copy : Sure(x, new.copy[x]),
         SharesCopy(pages[p]) /\ new.at \in {"work", "delete", "save"} =>
            DOMAIN new.lookups \subseteq DOMAIN new.copy,
         pages' = [pages EXCEPT ![p] = new]
  PROVE  \A q \in DOMAIN pages' : PageSure(pages'[q])
  <1>1. PageSure(pages[p]) /\ (SharesCopy(new) <=> SharesCopy(pages[p]))
    BY DEF PagesSure, SharesCopy
  <1>2. PageSure(new)
    BY <1>1 DEF PageSure
  <1>3. QED
    BY <1>2 DEF PagesSure

LEMMA PageTyped ==
  ASSUME PagesSure, NEW p \in DOMAIN pages
  PROVE  /\ pages[p] \in Page /\ PageSure(pages[p])
         /\ pages[p].at \in {"queued", "work", "delete", "save", "done"}
         /\ pages[p].outcome \in {"none", "completed", "failed"} /\ pages[p].aborted \in BOOLEAN
         /\ pages[p].copy \in Copies /\ \A x \in DOMAIN pages[p].copy : Sure(x, pages[p].copy[x])
         /\ PageRecord(p) \subseteq Items /\ DOMAIN pages[p].lookups \subseteq PageRecord(p)
  <1>1. pages[p] \in Page /\ PageSure(pages[p])
    BY DEF PagesSure, PageSure
  <1>2. DOMAIN pages[p].lookups \subseteq Items
    BY <1>1 DEF Page
  <1>3. \A i \in Items : i \in Record(i) /\ Record(i) \subseteq Items
    BY ItemsAssumption DEF Record, ReleasesOf, Items
  <1>4. QED
    BY <1>1, <1>2, <1>3 DEF Page, PageSure, PageRecord

LEMMA BeginsPageSure ==
  ASSUME LookupsSure, NEW p \in DOMAIN pages, BeginsPage(p)
  PROVE  LookupsSure'
  <1> DEFINE page == pages[p]
             copy == IF SharesCopy(page) THEN CopyOf(PageRecord(p)) ELSE page.copy
             new == [page EXCEPT !.at = "work", !.outcome = page.outcome, !.aborted = page.aborted, !.copy = copy]
  <1>1. /\ PagesSure /\ CacheSure /\ page \in Page /\ page.outcome \in {"none", "completed", "failed"}
        /\ page.aborted \in BOOLEAN /\ page.copy \in Copies /\ \A x \in DOMAIN page.copy : Sure(x, page.copy[x])
        /\ PageRecord(p) \subseteq Items /\ DOMAIN page.lookups \subseteq PageRecord(p)
    BY PageTyped DEF LookupsSure
  <1>2. /\ copy \in Copies /\ \A x \in DOMAIN copy : Sure(x, copy[x])
        /\ SharesCopy(page) => DOMAIN page.lookups \subseteq DOMAIN copy
    BY <1>1, CopyOfSure
  <1>3. pages' = [pages EXCEPT ![p] = new]
    <2>1. CASE SharesCopy(page)
      <3>1. pages' = [pages EXCEPT ![p] = [page EXCEPT !.at = "work", !.copy = copy]]
        BY <2>1 DEF BeginsPage
      <3>2. [page EXCEPT !.at = "work", !.copy = copy] = new
        BY <1>1 DEF Page
      <3>3. QED
        BY <3>1, <3>2
    <2>2. CASE ~SharesCopy(page)
      <3>1. pages' = [pages EXCEPT ![p] = [page EXCEPT !.at = "work"]] /\ copy = page.copy
        BY <2>2 DEF BeginsPage
      <3>2. [page EXCEPT !.at = "work"] = new
        BY <1>1, <3>1 DEF Page
      <3>3. QED
        BY <3>1, <3>2
    <2>3. QED
      BY <2>1, <2>2
  <1>a. new = [page EXCEPT !.at = "work", !.outcome = page.outcome, !.aborted = page.aborted, !.copy = copy]
    OBVIOUS
  <1> HIDE DEF copy, new
  <1>b. /\ new \in Page /\ new.kind = page.kind /\ new.lookups = page.lookups
        /\ new.at = "work" /\ new.copy = copy
    <2>1. page \in Page
      BY <1>1
    <2> HIDE DEF page
    <2>2. QED
      BY <1>1, <1>2, <1>a, <2>1 DEF Page
  <1>4. \A q \in DOMAIN pages' : PageSure(pages'[q])
    BY <1>1, <1>2, <1>3, <1>b, PageBecomes
  <1>5. QED
    BY <1>4, OnlyPagesSure DEF BeginsPage, OnlyPages, ReadsToWrite

LEMMA PageCannotReadSure ==
  ASSUME LookupsSure, NEW p \in DOMAIN pages, PageCannotRead(p)
  PROVE  LookupsSure'
  <1> DEFINE page == pages[p]
             new == [page EXCEPT !.at = "done", !.outcome = "failed", !.aborted = page.aborted, !.copy = page.copy]
  <1>1. /\ PagesSure /\ page \in Page /\ page.aborted \in BOOLEAN /\ page.copy \in Copies
        /\ \A x \in DOMAIN page.copy : Sure(x, page.copy[x])
    BY PageTyped DEF LookupsSure
  <1>2. pages' = [pages EXCEPT ![p] = new]
    <2>1. pages' = [pages EXCEPT ![p] = [page EXCEPT !.at = "done", !.outcome = "failed"]]
      BY DEF PageCannotRead
    <2>2. [page EXCEPT !.at = "done", !.outcome = "failed"] = new
      BY <1>1 DEF Page
    <2>3. QED
      BY <2>1, <2>2
  <1>a. new = [page EXCEPT !.at = "done", !.outcome = "failed", !.aborted = page.aborted, !.copy = page.copy]
    OBVIOUS
  <1> HIDE DEF new
  <1>b. /\ new \in Page /\ new.kind = page.kind /\ new.lookups = page.lookups
        /\ new.at = "done" /\ new.copy = page.copy
    <2>1. page \in Page
      BY <1>1
    <2> HIDE DEF page
    <2>2. QED
      BY <1>1, <1>2, <1>a, <2>1 DEF Page
  <1>3. \A q \in DOMAIN pages' : PageSure(pages'[q])
    BY <1>1, <1>2, <1>b, PageBecomes
  <1>4. QED
    BY <1>3, OnlyPagesSure DEF PageCannotRead

LEMMA TimesOutSure ==
  ASSUME LookupsSure, NEW p \in DOMAIN pages, TimesOut(p)
  PROVE  LookupsSure'
  <1> DEFINE page == pages[p]
             new == [page EXCEPT !.at = page.at, !.outcome = "failed", !.aborted = TRUE, !.copy = page.copy]
  <1>1. /\ PagesSure /\ page \in Page /\ PageSure(page) /\ page.copy \in Copies
        /\ page.at \in {"work", "delete", "save"} /\ \A x \in DOMAIN page.copy : Sure(x, page.copy[x])
    BY PageTyped DEF LookupsSure, TimesOut
  <1>2. pages' = [pages EXCEPT ![p] = new]
    <2>1. pages' = [pages EXCEPT ![p] = [page EXCEPT !.outcome = "failed", !.aborted = TRUE]]
      BY DEF TimesOut
    <2>2. [page EXCEPT !.outcome = "failed", !.aborted = TRUE] = new
      BY <1>1 DEF Page
    <2>3. QED
      BY <2>1, <2>2
  <1>3. SharesCopy(page) => DOMAIN page.lookups \subseteq DOMAIN page.copy
    BY <1>1 DEF PageSure
  <1>a. new = [page EXCEPT !.at = page.at, !.outcome = "failed", !.aborted = TRUE, !.copy = page.copy]
    OBVIOUS
  <1> HIDE DEF new
  <1>b. /\ new \in Page /\ new.kind = page.kind /\ new.lookups = page.lookups
        /\ new.at = page.at /\ new.copy = page.copy
    <2>1. page \in Page
      BY <1>1
    <2> HIDE DEF page
    <2>2. QED
      BY <1>1, <1>2, <1>a, <2>1 DEF Page
  <1>4. \A q \in DOMAIN pages' : PageSure(pages'[q])
    BY <1>1, <1>2, <1>3, <1>b, PageBecomes
  <1>5. QED
    BY <1>4, OnlyPagesSure DEF TimesOut

\* A page that ends.
LEMMA EndsKeeps ==
  ASSUME PagesSure, NEW p \in DOMAIN pages, NEW result \in {"none", "completed", "failed"},
         pages' = [pages EXCEPT ![p] = Ended([pages[p] EXCEPT !.outcome = result])]
  PROVE  \A q \in DOMAIN pages' : PageSure(pages'[q])
  <1> DEFINE page == pages[p]
             with == [page EXCEPT !.outcome = result]
             outcome == Ended(with).outcome
             new == [page EXCEPT !.at = "done", !.outcome = outcome, !.aborted = page.aborted, !.copy = <<>>]
  <1>1. PagesSure /\ page \in Page /\ page.aborted \in BOOLEAN
    BY PageTyped
  <1>2. with \in Page /\ with.outcome = result
    BY <1>1 DEF Page
  <1>3. outcome = IF result # "none" THEN result ELSE IF HasFailed(with) THEN "failed" ELSE "completed"
    BY <1>2 DEF Ended, Page
  <1>4. outcome \in {"none", "completed", "failed"}
    BY <1>3
  <1>5. Ended(with) = [with EXCEPT !.at = "done", !.copy = <<>>, !.outcome = outcome]
    BY <1>2, <1>3 DEF Ended, Page
  <1> HIDE DEF outcome
  <1>6. [with EXCEPT !.at = "done", !.copy = <<>>, !.outcome = outcome] = new
    BY <1>1, <1>2 DEF Page
  <1>7. pages' = [pages EXCEPT ![p] = new]
    BY <1>5, <1>6
  <1> HIDE DEF new, with
  <1>8. new \in Page /\ new.kind = page.kind /\ new.lookups = page.lookups /\ new.at = "done" /\ new.copy = <<>>
    BY <1>1, <1>4, NoCopy DEF new, Page
  <1>9. \A x \in DOMAIN new.copy : Sure(x, new.copy[x])
    BY <1>8, NoCopy
  <1>10. QED
    BY <1>7, <1>8, <1>9, PageBecomes

LEMMA EndsLookupsSure ==
  ASSUME LookupsSure, NEW p \in DOMAIN pages, EndsLookups(p)
  PROVE  LookupsSure'
  <1> DEFINE page == pages[p]
  <1>1. /\ PagesSure /\ page \in Page /\ PageSure(page) /\ page.copy \in Copies /\ page.aborted \in BOOLEAN
        /\ page.outcome \in {"none", "completed", "failed"} /\ \A x \in DOMAIN page.copy : Sure(x, page.copy[x])
        /\ page.at = "work"
    BY PageTyped DEF LookupsSure, EndsLookups
  <1>2. CASE WritesAtEnd(page)
    <2> DEFINE new == [page EXCEPT !.at = "delete", !.outcome = page.outcome, !.aborted = page.aborted,
                                   !.copy = page.copy]
    <2>1. pages' = [pages EXCEPT ![p] = [page EXCEPT !.at = "delete"]]
      BY <1>2 DEF EndsLookups
    <2>2. [page EXCEPT !.at = "delete"] = new
      BY <1>1 DEF Page
    <2>3. pages' = [pages EXCEPT ![p] = new]
      BY <2>1, <2>2
    <2>4. SharesCopy(page) => DOMAIN page.lookups \subseteq DOMAIN page.copy
      BY <1>1 DEF PageSure
    <2>a. new = [page EXCEPT !.at = "delete", !.outcome = page.outcome, !.aborted = page.aborted,
                      !.copy = page.copy]
      OBVIOUS
    <2> HIDE DEF new
    <2>b. /\ new \in Page /\ new.kind = page.kind /\ new.lookups = page.lookups
          /\ new.at = "delete" /\ new.copy = page.copy
      <3>1. page \in Page
        BY <1>1
      <3> HIDE DEF page
      <3>2. QED
        BY <1>1, <1>2, <2>a, <3>1 DEF Page
    <2>5. \A q \in DOMAIN pages' : PageSure(pages'[q])
      BY <1>1, <2>3, <2>4, <2>b, PageBecomes
    <2>6. QED
      BY <2>5, OnlyPagesSure DEF EndsLookups, OnlyPages
  <1>3. CASE ~WritesAtEnd(page)
    <2>1. pages' = [pages EXCEPT ![p] = Ended(page)]
      BY <1>3 DEF EndsLookups
    <2>2. page = [page EXCEPT !.outcome = page.outcome]
      BY <1>1 DEF Page
    <2>3. pages' = [pages EXCEPT ![p] = Ended([page EXCEPT !.outcome = page.outcome])]
      BY <2>1, <2>2
    <2>4. \A q \in DOMAIN pages' : PageSure(pages'[q])
      BY <1>1, <2>3, EndsKeeps
    <2>5. QED
      BY <2>4, OnlyPagesSure DEF EndsLookups, OnlyPages
  <1>4. QED
    BY <1>2, <1>3

LEMMA DeletesAtEndSure ==
  ASSUME LookupsSure, NEW p \in DOMAIN pages, DeletesAtEnd(p)
  PROVE  LookupsSure'
  <1> DEFINE page == pages[p]
             new == [page EXCEPT !.at = "save", !.outcome = page.outcome, !.aborted = page.aborted,
                                 !.copy = page.copy]
  <1>1. /\ PagesSure /\ page \in Page /\ PageSure(page) /\ page.copy \in Copies /\ page.aborted \in BOOLEAN
        /\ page.outcome \in {"none", "completed", "failed"} /\ \A x \in DOMAIN page.copy : Sure(x, page.copy[x])
        /\ page.at = "delete"
    BY PageTyped DEF LookupsSure, DeletesAtEnd
  <1>2. pages' = [pages EXCEPT ![p] = [page EXCEPT !.at = "save"]]
    BY DEF DeletesAtEnd
  <1>3. [page EXCEPT !.at = "save"] = new
    BY <1>1 DEF Page
  <1>4. pages' = [pages EXCEPT ![p] = new]
    BY <1>2, <1>3
  <1>5. SharesCopy(page) => DOMAIN page.lookups \subseteq DOMAIN page.copy
    BY <1>1 DEF PageSure
  <1>a. new = [page EXCEPT !.at = "save", !.outcome = page.outcome, !.aborted = page.aborted,
                    !.copy = page.copy]
    OBVIOUS
  <1> HIDE DEF new
  <1>b. /\ new \in Page /\ new.kind = page.kind /\ new.lookups = page.lookups
        /\ new.at = "save" /\ new.copy = page.copy
    <2>1. page \in Page
      BY <1>1
    <2> HIDE DEF page
    <2>2. QED
      BY <1>1, <1>2, <1>a, <2>1 DEF Page
  <1>6. \A q \in DOMAIN pages' : PageSure(pages'[q])
    BY <1>1, <1>4, <1>5, <1>b, PageBecomes
  <1>7. CacheSure' /\ exists' = exists
    BY DeletesKeeps DEF DeletesAtEnd, DeletesRecord, LookupsSure
  <1>8. QED
    BY <1>6, <1>7, PagesStaySure DEF LookupsSure

LEMMA SavesAtEndSure ==
  ASSUME LookupsSure, NEW p \in DOMAIN pages, SavesAtEnd(p)
  PROVE  LookupsSure'
  <1> DEFINE page == pages[p]
  <1>1. /\ PagesSure /\ CacheSure /\ page \in Page /\ page.copy \in Copies
        /\ page.outcome \in {"none", "completed", "failed"} /\ \A x \in DOMAIN page.copy : Sure(x, page.copy[x])
    BY PageTyped DEF LookupsSure
  <1>2. page = [page EXCEPT !.outcome = page.outcome]
    BY <1>1 DEF Page
  <1>3. pages' = [pages EXCEPT ![p] = Ended([page EXCEPT !.outcome = page.outcome])]
    BY <1>2 DEF SavesAtEnd
  <1>4. \A q \in DOMAIN pages' : PageSure(pages'[q])
    BY <1>1, <1>3, EndsKeeps
  <1>5. CacheSure' /\ exists' = exists
    BY <1>1, SavesKeeps DEF SavesAtEnd, SavesRecord
  <1>6. QED
    BY <1>4, <1>5, PagesStaySure DEF LookupsSure

LEMMA PageCannotWriteSure ==
  ASSUME LookupsSure, NEW p \in DOMAIN pages, PageCannotWrite(p)
  PROVE  LookupsSure'
  <1>1. \A q \in DOMAIN pages' : PageSure(pages'[q])
    BY EndsKeeps DEF PageCannotWrite, LookupsSure
  <1>2. QED
    BY <1>1, OnlyPagesSure DEF PageCannotWrite

LEMMA PageStepSure ==
  ASSUME LookupsSure, NEW p \in DOMAIN pages, PageStep(p)
  PROVE  LookupsSure'
  BY BeginsPageSure, PageCannotReadSure, TimesOutSure, WorksOnSure, EndsLookupsSure, DeletesAtEndSure,
     SavesAtEndSure, PageCannotWriteSure
  DEF PageStep

-----------------------------------------------------------------------------
(* Planning and queueing.                                                  *)

Plan == [at : {"reading", "told"}, contract : {"v1", "v2"}, ask : Requests, task : Nat,
         unread : SUBSET Items, resolved : Copies, unseen : SUBSET Items]

Task == [key : {"v1", "v2"} \X Kinds \X SUBSET Items, kept : BOOLEAN, asked : SUBSET Items,
         resolved : Copies]

PlansTyped == (request = NoRequest \/ request \in Plan) /\ tasks \in Seq(Task)

LEMMA NewPageSure ==
  ASSUME NEW t \in Nat, NEW kind \in Kinds, NEW items, items \subseteq ItemsOf[kind],
         NEW given \in LinkStates \cup {"unread"}
  PROVE  PageSure(NewPage(t, kind, items, given))
  <1> DEFINE page == NewPage(t, kind, items, given)
             lookup == [NewLookup EXCEPT !.links = given]
             lookups == [i \in items |-> lookup]
  <1>1. items \in SUBSET Items
    BY ItemsOfKinds DEF Kinds, Items
  <1>2. /\ lookup \in Lookup /\ lookup.at = "start" /\ lookup.copy = <<>> /\ lookup.primary = Nothing
    BY NewLookupTyped DEF Lookup, NewLookup
  <1> HIDE DEF lookup
  <1>3. lookups \in [items -> Lookup] /\ DOMAIN lookups = items
    BY <1>2
  <1>4. \A i \in items : LookupSure(i, lookups[i])
    BY <1>2, NoCopy, ItemsAssumption DEF LookupSure, GroupStages, ArtistStages
  <1>5. /\ page.task = t /\ page.kind = kind /\ page.at = "queued" /\ page.copy = <<>> /\ page.lookups = lookups
    BY DEF NewPage, lookup
  <1> HIDE DEF lookups
  <1>6. page \in Page
    BY <1>1, <1>3, NoCopy DEF NewPage, Page, lookups, lookup
  <1> HIDE DEF page
  <1>7. /\ \A x \in DOMAIN page.copy : Sure(x, page.copy[x])
        /\ \A i \in DOMAIN page.lookups : LookupSure(i, page.lookups[i])
    BY <1>3, <1>4, <1>5, NoCopy
  <1>8. PageSure(page)
    BY <1>3, <1>5, <1>6, <1>7 DEF PageSure
  <1>9. QED
    BY <1>8 DEF page

LEMMA QueuesTaskSure ==
  ASSUME LookupsSure, PlansTyped, QueuesTask
  PROVE  LookupsSure'
  <1> DEFINE kind == request.ask.kind
  <1>1. request \in Plan /\ request.ask \in Requests
    BY DEF PlansTyped, QueuesTask, IsPlanned, NoRequest, Plan
  <1>2. kind \in Kinds /\ Pending \subseteq ItemsOf[kind] /\ Len(tasks) + 1 \in Nat
    BY <1>1, RequestsAssumption DEF Pending, PlansTyped
  <1>3. PICK chunks \in Chunks(request.ask, Pending), given \in GivenLinks(kind) :
              pages' = [p \in 1 .. Len(pages) + Len(chunks) |->
                    IF p \in DOMAIN pages THEN pages[p]
                    ELSE NewPage(Len(tasks) + 1, kind, Pending \cap ToSet(chunks[p - Len(pages)]), given)]
    BY DEF QueuesTask
  <1>4. given \in LinkStates \cup {"unread"}
    BY <1>3 DEF GivenLinks, LinkStates
  <1> HIDE DEF kind
  <1>5. \A q \in DOMAIN pages' : PageSure(pages'[q])
    <2> SUFFICES ASSUME NEW q \in DOMAIN pages'
                 PROVE  PageSure(pages'[q])
      OBVIOUS
    <2>1. CASE q \in DOMAIN pages
      BY <1>3, <2>1 DEF LookupsSure, PagesSure
    <2>2. CASE q \notin DOMAIN pages
      <3> DEFINE items == Pending \cap ToSet(chunks[q - Len(pages)])
      <3>1. pages'[q] = NewPage(Len(tasks) + 1, kind, items, given)
        BY <1>3, <2>2
      <3>2. items \subseteq ItemsOf[kind]
        BY <1>2
      <3> HIDE DEF items
      <3>3. QED
        BY <1>2, <1>4, <3>1, <3>2, NewPageSure
    <2>3. QED
      BY <2>1, <2>2
  <1>6. QED
    BY <1>5, OnlyPagesSure DEF QueuesTask

LEMMA UnchangedSure ==
  ASSUME LookupsSure, UNCHANGED <<now, exists, stored, links, pages>>
  PROVE  LookupsSure'
  BY OnlyPagesSure DEF LookupsSure, PagesSure

LEMMA TickSure ==
  ASSUME LookupsSure, Tick
  PROVE  LookupsSure'
  <1>1. now' \in Times
    BY TimesAssumption DEF Tick, LookupsSure, CacheSure, Times
  <1>2. CacheSure'
    BY <1>1 DEF Tick, LookupsSure, CacheSure, Sure
  <1>3. QED
    BY <1>2, PagesStaySure DEF Tick, LookupsSure, PagesSure

LEMMA ReadingIsPlan ==
  ASSUME PlansTyped, request.at = "reading"
  PROVE  request \in Plan
  BY DEF PlansTyped, NoRequest

\* What a planner finds in a record, and with it all that it found.
Hits(i) == {x \in Record(i) \cap request.unread : IsUsable(stored[x], now) /\ stored[x].value # Unknown}

ReadInto(resolved, hits) ==
    [x \in DOMAIN resolved \cup hits |-> IF x \in hits THEN stored[x] ELSE resolved[x]]

LEMMA ReadsTyped ==
  ASSUME CacheSure, NEW resolved \in Copies, NEW hits \in SUBSET Items
  PROVE  ReadInto(resolved, hits) \in Copies
  <1>1. PICK D \in SUBSET Items : resolved \in [D -> State]
    BY DEF Copies
  <1>2. \A x \in hits : stored[x] \in State
    BY DEF CacheSure
  <1>3. ReadInto(resolved, hits) \in [D \cup hits -> State]
    BY <1>1, <1>2 DEF ReadInto
  <1>4. D \cup hits \in SUBSET Items
    OBVIOUS
  <1>5. QED
    BY <1>3, <1>4 DEF Copies

\* A key names a kind and items of it, or their groups.
LEMMA KeysTyped ==
  ASSUME NEW contract \in {"v1", "v2"}, NEW ask \in Requests
  PROVE  TaskKey(contract, ask) \in {"v1", "v2"} \X Kinds \X SUBSET Items
  <1>1. ask.kind \in Kinds /\ ask.items \subseteq ItemsOf[ask.kind] /\ ask.items \subseteq Items
    BY RequestsAssumption, ItemsOfKinds DEF Kinds, Items
  <1>2. ask.kind = "releaseCovers" => ask.items \subseteq Releases
    BY RequestsAssumption DEF ReleasesOf
  <1>3. Named(ask) \in SUBSET Items
    BY <1>1, <1>2, ItemsAssumption DEF Named, NamesAll, Items
  <1>4. QED
    BY <1>1, <1>3 DEF TaskKey

\* Planning and queueing keep the request and the tasks typed.
LEMMA PlansStayTyped ==
  ASSUME CacheSure, PlansTyped, Next
  PROVE  PlansTyped'
  <1>1. ASSUME NEW contract \in {"v1", "v2"}, NEW ask \in Requests, Asked(contract, ask)
        PROVE  PlansTyped'
    <2>1. ask.items \in SUBSET Items
      BY RequestsAssumption, ItemsOfKinds DEF Kinds, Items
    <2>2. request' \in Plan
      BY <1>1, <2>1, NoCopy DEF Asked, Plan
    <2>3. QED
      BY <1>1, <2>2 DEF Asked, PlansTyped
  <1>2. ASSUME NEW i \in Items, PartitionReads(i)
        PROVE  PlansTyped'
    <2> DEFINE unread == request.unread \ Record(i)
               resolved == ReadInto(request.resolved, Hits(i))
               unseen == request.unseen \cup {x \in Record(i) \cap request.unread : IsBeingWritten({x})}
    <2>1. request \in Plan
      BY <1>2, ReadingIsPlan DEF PartitionReads
    <2>2. unread \in SUBSET Items /\ unseen \in SUBSET Items /\ Hits(i) \in SUBSET Items
      BY <2>1 DEF Plan, Hits
    <2>3. request' = [request EXCEPT !.unread = unread, !.resolved = resolved, !.unseen = unseen]
      BY <1>2 DEF PartitionReads, ReadInto, Hits
    <2>a. resolved \in Copies
      BY <2>1, <2>2, ReadsTyped DEF Plan
    <2> HIDE DEF unread, resolved, unseen
    <2>4. request' \in Plan
      BY <2>1, <2>2, <2>3, <2>a DEF Plan
    <2>5. QED
      BY <1>2, <2>4 DEF PartitionReads, PlansTyped
  <1>3. ASSUME NEW i \in Items, PartitionFails(i)
        PROVE  PlansTyped'
    <2>1. request \in Plan
      BY <1>3, ReadingIsPlan DEF PartitionFails
    <2>2. request' \in Plan
      BY <1>3, <2>1 DEF PartitionFails, Plan
    <2>3. QED
      BY <1>3, <2>2 DEF PartitionFails, PlansTyped
  <1>4. CASE AnswersAtOnce
    <2>1. request \in Plan
      BY <1>4, ReadingIsPlan DEF AnswersAtOnce, IsPlanned
    <2>2. request' \in Plan
      BY <1>4, <2>1 DEF AnswersAtOnce, Plan
    <2>3. QED
      BY <1>4, <2>2 DEF AnswersAtOnce, PlansTyped
  <1>5. CASE QueuesTask
    <2>1. request \in Plan
      BY <1>5, ReadingIsPlan DEF QueuesTask, IsPlanned
    <2>2. Len(tasks) + 1 \in Nat
      BY DEF PlansTyped
    <2>3. request' \in Plan
      BY <1>5, <2>1, <2>2 DEF QueuesTask, Plan
    <2> DEFINE key == TaskKey(request.contract, request.ask)
    <2>a. key \in {"v1", "v2"} \X Kinds \X SUBSET Items
      BY <2>1, KeysTyped DEF Plan
    <2>b. request.ask.items \in SUBSET Items /\ request.resolved \in Copies
      BY <2>1, RequestsAssumption, ItemsOfKinds DEF Plan, Kinds, Items
    <2>c. tasks' = Append(tasks, [key |-> key, kept |-> TRUE, asked |-> request.ask.items,
                                  resolved |-> request.resolved])
      BY <1>5 DEF QueuesTask
    <2> HIDE DEF key
    <2>4. [key |-> key, kept |-> TRUE, asked |-> request.ask.items, resolved |-> request.resolved] \in Task
      BY <2>a, <2>b DEF Task
    <2>5. tasks' \in Seq(Task)
      BY <2>c, <2>4 DEF PlansTyped
    <2>6. QED
      BY <2>3, <2>5 DEF PlansTyped
  <1>6. ASSUME NEW t \in DOMAIN tasks, JoinsTask(t)
        PROVE  PlansTyped'
    <2>1. request \in Plan /\ t \in Nat
      BY <1>6, ReadingIsPlan DEF JoinsTask, IsPlanned, PlansTyped
    <2>2. request' \in Plan
      BY <1>6, <2>1 DEF JoinsTask, Plan
    <2>3. QED
      BY <1>6, <2>2 DEF JoinsTask, PlansTyped
  <1>7. ASSUME NEW t \in DOMAIN tasks, Forgets(t)
        PROVE  PlansTyped'
    <2>1. tasks[t] \in Task
      BY DEF PlansTyped
    <2>2. [tasks[t] EXCEPT !.kept = FALSE] \in Task
      BY <2>1 DEF Task
    <2>3. tasks' = [tasks EXCEPT ![t] = [tasks[t] EXCEPT !.kept = FALSE]]
      BY <1>7 DEF Forgets
    <2> DEFINE new == [tasks[t] EXCEPT !.kept = FALSE]
    <2> HIDE DEF new
    <2>4. tasks' = [tasks EXCEPT ![t] = new] /\ new \in Task
      BY <2>2, <2>3 DEF new
    <2>5. tasks' \in Seq(Task)
      BY <2>4 DEF PlansTyped
    <2>6. QED
      BY <1>7, <2>5 DEF Forgets, PlansTyped
  <1>8. CASE UNCHANGED <<request, tasks>>
    BY <1>8 DEF PlansTyped
  <1>9. QED
    BY <1>1, <1>2, <1>3, <1>4, <1>5, <1>6, <1>7, <1>8 DEF Next

-----------------------------------------------------------------------------
(* What is kept is sure.                                                   *)

AssetsSure == LookupsSure /\ PlansTyped

LEMMA InitSure ==
  ASSUME Init
  PROVE  AssetsSure
  <1>1. Absent \in State /\ \A x : Sure(x, Absent)
    BY TimesAssumption, ItemsAssumption DEF Absent, State, Forever, Sure, HasUrl
  <1>2. stored \in [Items -> State] /\ \A i \in Items : Sure(i, stored[i])
    BY <1>1 DEF Init, InitLookups
  <1>3. CacheSure
    BY <1>2, TimesAssumption DEF Init, InitLookups, CacheSure, Times
  <1>4. DOMAIN pages = {}
    BY NoCopy DEF Init, InitLookups
  <1>5. PlansTyped
    BY DEF Init, PlansTyped
  <1>6. QED
    BY <1>3, <1>4, <1>5 DEF AssetsSure, LookupsSure, PagesSure

LEMMA NextSure ==
  ASSUME AssetsSure, [Next]_vars
  PROVE  AssetsSure'
  <1>1. CASE Next
    <2>1. PlansTyped'
      BY <1>1, PlansStayTyped DEF AssetsSure, LookupsSure
    <2>2. LookupsSure'
      <3>1. ASSUME NEW contract \in {"v1", "v2"}, NEW ask \in Requests, Asked(contract, ask)
            PROVE  LookupsSure'
        BY <3>1, UnchangedSure DEF Asked, AssetsSure, lookupVars
      <3>2. ASSUME NEW i \in Items, PartitionReads(i) \/ PartitionFails(i)
            PROVE  LookupsSure'
        BY <3>2, UnchangedSure DEF PartitionReads, PartitionFails, AssetsSure, lookupVars
      <3>3. CASE AnswersAtOnce
        BY <3>3, UnchangedSure DEF AnswersAtOnce, AssetsSure, lookupVars
      <3>4. CASE QueuesTask
        BY <3>4, QueuesTaskSure DEF AssetsSure
      <3>5. ASSUME NEW t \in DOMAIN tasks, JoinsTask(t) \/ Forgets(t)
            PROVE  LookupsSure'
        BY <3>5, UnchangedSure DEF JoinsTask, Forgets, AssetsSure, lookupVars
      <3>6. ASSUME NEW p \in DOMAIN pages, PageStep(p)
            PROVE  LookupsSure'
        BY <3>6, PageStepSure DEF AssetsSure
      <3>7. CASE Tick
        BY <3>7, TickSure DEF AssetsSure
      <3>8. QED
        BY <1>1, <3>1, <3>2, <3>3, <3>4, <3>5, <3>6, <3>7 DEF Next
    <2>3. QED
      BY <2>1, <2>2 DEF AssetsSure
  <1>2. CASE UNCHANGED vars
    BY <1>2, UnchangedSure DEF vars, lookupVars, AssetsSure, PlansTyped
  <1>3. QED
    BY <1>1, <1>2

\* Pages and cache have their types, and everything a lookup holds on its way to the
\* cache is as sure as what it will write.
THEOREM AssetsStaySure == Spec => []AssetsSure
  <1>1. Init => AssetsSure
    BY InitSure
  <1>2. AssetsSure /\ [Next]_vars => AssetsSure'
    BY NextSure
  <1>3. QED
    BY <1>1, <1>2, PTL DEF Spec

\* What the cache keeps for good of covers, lyrics and images is sure, for any number
\* of pages at once: no confirmed miss of what a provider has, and no picture of
\* another item for good where there is one of its own (coverArtLookup.ts resolveMiss
\* and mapResolvedCoverState).
THEOREM OnlyTheSureIsKept == Spec => []WhatIsKeptIsSure
  <1>1. AssetsSure => WhatIsKeptIsSure
    BY DEF AssetsSure, LookupsSure, CacheSure, Sure, WhatIsKeptIsSure, NoFalseMiss, FallbackIsProvisional
  <1>2. QED
    BY <1>1, AssetsStaySure, PTL

-----------------------------------------------------------------------------
(* Induction.  The least-number principle for sets follows from the        *)
(* well-foundedness of the order of the naturals.                          *)

LEMMA LeastNumber ==
  ASSUME NEW T, T \subseteq Nat, T # {}
  PROVE  \E n \in T : \A m \in T : n <= m
  <1> DEFINE R == {ss \in Nat \X Nat : ss[1] < ss[2]}
  <1>1. IsWellFoundedOn(R, Nat)
    BY NatLessThanWellFounded DEF OpToRel
  <1> HIDE DEF R
  <1>2. PICK n \in T : \A m \in T : ~(<<m, n>> \in R)
    BY <1>1, WFMin
  <1>3. \A m \in T : ~(m < n)
    BY <1>2 DEF R
  <1>4. QED
    BY <1>2, <1>3

LEMMA Induction ==
  ASSUME NEW S, NEW n \in Nat, 0 \in S, \A k \in 0 .. n - 1 : k \in S => k + 1 \in S
  PROVE  0 .. n \subseteq S
  <1> SUFFICES ASSUME (0 .. n) \ S # {}
               PROVE  FALSE
    OBVIOUS
  <1> DEFINE T == (0 .. n) \ S
  <1>1. PICK k \in T : \A m \in T : k <= m
    <2>1. T \subseteq Nat /\ T # {}
      OBVIOUS
    <2> HIDE DEF T
    <2>2. QED
      BY <2>1, LeastNumber
  <1>2. k - 1 \in 0 .. n - 1 /\ k - 1 + 1 = k
    BY <1>1
  <1>3. k - 1 \in S
    BY <1>1, <1>2
  <1>4. QED
    BY <1>1, <1>2, <1>3

-----------------------------------------------------------------------------
(* Folds and flattened sequences are what their steps make of them.        *)

LEMMA MaxOfInterval ==
  ASSUME NEW n \in Nat, NEW s, s \subseteq 1 .. n + 1, n + 1 \in s
  PROVE  Max(s) = n + 1
  <1>1. \A y \in s : n + 1 >= y
    OBVIOUS
  <1>2. Max(s) \in s /\ \A y \in s : Max(s) >= y
    BY <1>1 DEF Max
  <1> DEFINE x == Max(s)
  <1> HIDE DEF x
  <1>3. x \in 1 .. n + 1 /\ x >= n + 1
    BY <1>2 DEF x
  <1>4. x = n + 1
    BY <1>3
  <1>5. QED
    BY <1>4 DEF x

\* The chunks as they are after each of the pieces.
FilledBy(filled, pieces, n) ==
    /\ filled[0] = <<>>
    /\ \A k \in 1 .. n : filled[k] = AddedToChunks(filled[k - 1], pieces[k])

LEMMA FoldedChunks ==
  ASSUME NEW n \in Nat, NEW pieces, DOMAIN pieces = 1 .. n
  PROVE  \E filled : FilledBy(filled, pieces, n) /\ FoldLeft(AddedToChunks, <<>>, pieces) = filled[n]
  <1> DEFINE Step(f, s) == IF s = {} THEN <<>>
                           ELSE AddedToChunks(f[s \ {Max(s)}], pieces[Max(s)])
             IsFold(f, m) == f = [s \in SUBSET (1 .. m) |-> Step(f, s)]
             folded == CHOOSE f : IsFold(f, n)
  <1>1. FoldLeft(AddedToChunks, <<>>, pieces) = folded[1 .. n]
    BY DEF FoldLeft, MapThenFoldSet
  <1>2. \E f : IsFold(f, n)
    <2> DEFINE Good == {m \in Nat : \E f : IsFold(f, m)}
    <2>1. 0 \in Good
      <3>1. IsFold([s \in SUBSET (1 .. 0) |-> <<>>], 0)
        OBVIOUS
      <3>2. QED
        BY <3>1
    <2>2. ASSUME NEW m \in 0 .. n - 1, m \in Good
          PROVE  m + 1 \in Good
      <3>1. PICK f : IsFold(f, m)
        BY <2>2
      <3> DEFINE g == [s \in SUBSET (1 .. m + 1) |->
                          IF m + 1 \in s THEN AddedToChunks(f[s \ {m + 1}], pieces[m + 1]) ELSE f[s]]
      <3>2. ASSUME NEW s \in SUBSET (1 .. m + 1)
            PROVE  g[s] = Step(g, s)
        <4>1. CASE m + 1 \in s
          <5>1. m \in Nat /\ s \subseteq 1 .. m + 1
            OBVIOUS
          <5>2. Max(s) = m + 1 /\ s \ {m + 1} \in SUBSET (1 .. m + 1) /\ m + 1 \notin s \ {m + 1}
            BY <4>1, <5>1, MaxOfInterval
          <5>3. QED
            BY <4>1, <5>2
        <4>2. CASE m + 1 \notin s
          <5>1. s \in SUBSET (1 .. m)
            BY <4>2
          <5>2. s # {} => \E x \in s : \A y \in s : x >= y
            <6> SUFFICES ASSUME s # {}
                         PROVE  \E x \in s : \A y \in s : x >= y
              OBVIOUS
            <6> DEFINE T == {k \in Nat : m - k \in s}
            <6>1. T \subseteq Nat /\ T # {}
              <7>1. PICK x \in s : TRUE
                OBVIOUS
              <7>2. m - x \in T
                BY <5>1
              <7>3. QED
                BY <7>2
            <6>2. PICK k \in T : \A j \in T : k <= j
              BY <6>1, LeastNumber
            <6>3. \A y \in s : m - y \in T
              BY <5>1
            <6>4. m - k \in s /\ \A y \in s : m - k >= y
              <7>1. \A y \in s : k <= m - y
                BY <6>2, <6>3
              <7>2. k \in Nat /\ m - k \in s
                BY <6>2
              <7>3. QED
                BY <5>1, <7>1, <7>2
            <6>5. QED
              BY <6>4
          <5>3. s # {} => Max(s) \in s
            BY <5>2 DEF Max
          <5>4. s # {} => s \ {Max(s)} \in SUBSET (1 .. m) /\ m + 1 \notin s \ {Max(s)}
            BY <4>2, <5>1
          <5>5. f[s] = Step(f, s)
            BY <3>1, <5>1
          <5>6. QED
            BY <4>2, <5>1, <5>4, <5>5
        <4>3. QED
          BY <4>1, <4>2
      <3> HIDE DEF g
      <3>3. IsFold(g, m + 1)
        BY <3>2 DEF g
      <3>4. m + 1 \in Nat
        OBVIOUS
      <3> HIDE DEF IsFold
      <3>5. QED
        BY <3>3, <3>4
    <2> HIDE DEF Good
    <2>3. 0 .. n \subseteq Good
      BY <2>1, <2>2, Induction
    <2>4. n \in Good
      BY <2>3
    <2>5. QED
      BY <2>4 DEF Good
  <1>3. IsFold(folded, n)
    BY <1>2
  <1> DEFINE filled == [k \in 0 .. n |-> folded[1 .. k]]
  <1> HIDE DEF folded
  <1>4. filled[0] = <<>> /\ filled[n] = folded[1 .. n]
    BY <1>3
  <1>5. ASSUME NEW k \in 1 .. n
        PROVE  filled[k] = AddedToChunks(filled[k - 1], pieces[k])
    <2>1. 1 .. k \in SUBSET (1 .. n) /\ 1 .. k # {} /\ (1 .. k) \ {k} = 1 .. k - 1
      OBVIOUS
    <2>2. Max(1 .. k) = k
      <3> DEFINE j == k - 1
      <3>1. j \in Nat /\ j + 1 = k /\ 1 .. k \subseteq 1 .. j + 1 /\ j + 1 \in 1 .. k
        OBVIOUS
      <3> HIDE DEF j
      <3>2. Max(1 .. k) = j + 1
        BY <3>1, MaxOfInterval
      <3>3. QED
        BY <3>1, <3>2
    <2>3. folded[1 .. k] = AddedToChunks(folded[1 .. k - 1], pieces[k])
      BY <1>3, <2>1, <2>2
    <2>4. QED
      BY <2>3
  <1>6. QED
    BY <1>1, <1>4, <1>5 DEF FilledBy

FlatBy(flat, seqs, n) ==
    /\ flat[1] = seqs[1]
    /\ \A k \in 2 .. n : flat[k] = flat[k - 1] \o seqs[k]

LEMMA FlattenedSeqs ==
  ASSUME NEW n \in Nat, NEW seqs, DOMAIN seqs = 1 .. n, Len(seqs) = n, n # 0
  PROVE  \E flat : FlatBy(flat, seqs, n) /\ FlattenSeq(seqs) = flat[n]
  <1> DEFINE Step(f, i) == IF i = 1 THEN seqs[i] ELSE f[i - 1] \o seqs[i]
             IsFlat(f, m) == f = [i \in 1 .. m |-> Step(f, i)]
             flat == CHOOSE f : IsFlat(f, n)
  <1>1. FlattenSeq(seqs) = flat[n]
    BY DEF FlattenSeq
  <1>2. \E f : IsFlat(f, n)
    <2> DEFINE Good == {m \in Nat : \E f : IsFlat(f, m)}
    <2>1. 0 \in Good
      <3>1. IsFlat([i \in 1 .. 0 |-> <<>>], 0)
        OBVIOUS
      <3>2. QED
        BY <3>1
    <2>2. ASSUME NEW m \in 0 .. n - 1, m \in Good
          PROVE  m + 1 \in Good
      <3>1. PICK f : IsFlat(f, m)
        BY <2>2
      <3> DEFINE g == [i \in 1 .. m + 1 |-> IF i = m + 1 THEN Step(f, i) ELSE f[i]]
      <3>2. ASSUME NEW i \in 1 .. m + 1
            PROVE  g[i] = Step(g, i)
        <4>1. CASE i = m + 1
          BY <4>1
        <4>2. CASE i # m + 1
          <5>1. i \in 1 .. m /\ (i # 1 => i - 1 \in 1 .. m)
            BY <4>2
          <5>2. f[i] = Step(f, i)
            BY <3>1, <5>1
          <5>3. QED
            BY <5>1, <5>2
        <4>3. QED
          BY <4>1, <4>2
      <3> HIDE DEF g
      <3>3. IsFlat(g, m + 1)
        BY <3>2 DEF g
      <3>4. m + 1 \in Nat
        OBVIOUS
      <3> HIDE DEF IsFlat
      <3>5. QED
        BY <3>3, <3>4
    <2> HIDE DEF Good
    <2>3. 0 .. n \subseteq Good
      BY <2>1, <2>2, Induction
    <2>4. n \in Good
      BY <2>3
    <2>5. QED
      BY <2>4 DEF Good
  <1>3. IsFlat(flat, n)
    BY <1>2
  <1> HIDE DEF flat
  <1>4. FlatBy(flat, seqs, n)
    <2>1. \A i \in 1 .. n : flat[i] = IF i = 1 THEN seqs[i] ELSE flat[i - 1] \o seqs[i]
      BY <1>3
    <2>2. 1 \in 1 .. n /\ \A k \in 2 .. n : k \in 1 .. n /\ k # 1
      OBVIOUS
    <2>3. QED
      BY <2>1, <2>2 DEF FlatBy
  <1>5. QED
    BY <1>1, <1>4

-----------------------------------------------------------------------------
(* Chunks.                                                                 *)

\* The chunks hold the items, each in one of them, and none is too long.
Packed(chunks, items) ==
    /\ chunks \in Seq(Seq(Items))
    /\ \A n \in DOMAIN chunks : Len(chunks[n]) <= SubtaskItemLimit
    /\ UNION {ToSet(chunks[n]) : n \in DOMAIN chunks} = items
    /\ \A m, n \in DOMAIN chunks : m # n => ToSet(chunks[m]) \cap ToSet(chunks[n]) = {}

\* Where the chunks of a sequence of this length begin and end.
LEMMA Multiples ==
  ASSUME NEW size \in Nat \ {0}, NEW a \in Int, NEW b \in Int
  PROVE  /\ a * size \in Int
         /\ a <= b => a * size <= b * size
         /\ (a + 1) * size = a * size + size
         /\ a \in Nat => a <= a * size
  <1>1. a * size \in Int /\ (a + 1) * size = a * size + size
    OBVIOUS
  <1>2. a <= b => a * size <= b * size
    <2>1. b * size - a * size = (b - a) * size
      OBVIOUS
    <2>2. b - a \in Nat => (b - a) * size >= 0
      OBVIOUS
    <2>3. QED
      BY <2>1, <2>2
  <1>3. a \in Nat => a <= a * size
    <2>1. a * size = a + a * (size - 1)
      OBVIOUS
    <2>2. a \in Nat => a * (size - 1) >= 0
      OBVIOUS
    <2>3. QED
      BY <2>1, <2>2
  <1>4. QED
    BY <1>1, <1>2, <1>3

LEMMA EnoughChunks ==
  ASSUME NEW size \in Nat \ {0}, NEW len \in Nat
  PROVE  /\ (len + size - 1) \div size \in Nat
         /\ len <= ((len + size - 1) \div size) * size
  <1> DEFINE a == len + size - 1
             q == a \div size
  <1>1. a \in Nat /\ a = len + size - 1
    OBVIOUS
  <1> HIDE DEF a
  <1>2. q \in Int /\ q >= 0
    BY <1>1
  <1>3. a < q * size + size
    BY <1>1
  <1> HIDE DEF q
  <1>4. q * size \in Int
    BY <1>2
  <1>5. q \in Nat /\ len <= q * size
    BY <1>1, <1>2, <1>3, <1>4
  <1>6. QED
    BY <1>5 DEF q, a

LEMMA PartOfSeq ==
  ASSUME NEW S, NEW s \in Seq(S), NEW m \in Nat \ {0}, NEW n \in Nat, n <= Len(s)
  PROVE  /\ SubSeq(s, m, n) \in Seq(S)
         /\ Len(SubSeq(s, m, n)) = (IF m <= n + 1 THEN n - m + 1 ELSE 0)
         /\ ToSet(SubSeq(s, m, n)) = {s[k] : k \in m .. n}
  <1>1. CASE m <= n + 1
    <2>1. SubSeq(s, m, n) = [i \in 1 .. n - m + 1 |-> s[i + m - 1]]
      BY <1>1
    <2> DEFINE t == [i \in 1 .. n - m + 1 |-> s[i + m - 1]]
    <2>2. t \in Seq(S) /\ Len(t) = n - m + 1
      BY <1>1
    <2>3. ToSet(t) = {s[k] : k \in m .. n}
      <3>1. \A k \in m .. n : k - m + 1 \in 1 .. n - m + 1 /\ s[k] = t[k - m + 1]
        OBVIOUS
      <3>2. \A i \in 1 .. n - m + 1 : i + m - 1 \in m .. n /\ t[i] = s[i + m - 1]
        OBVIOUS
      <3>3. DOMAIN t = 1 .. n - m + 1
        OBVIOUS
      <3> HIDE DEF t
      <3>4. QED
        BY <3>1, <3>2, <3>3 DEF ToSet
    <2>4. QED
      BY <1>1, <2>1, <2>2, <2>3
  <1>2. CASE ~(m <= n + 1)
    <2>1. SubSeq(s, m, n) = <<>> /\ m .. n = {}
      BY <1>2
    <2>2. QED
      BY <1>2, <2>1 DEF ToSet
  <1>3. QED
    BY <1>1, <1>2

LEMMA LimitIsPositive == SubtaskItemLimit \in Nat \ {0}
  BY PagesAssumption

\* A sequence without duplicates, cut at the limit.
LEMMA CutSeq ==
  ASSUME NEW seq \in Seq(Items), \A a, b \in DOMAIN seq : a # b => seq[a] # seq[b]
  PROVE  Packed(ChunkArray(seq, SubtaskItemLimit), ToSet(seq))
  <1> DEFINE size == SubtaskItemLimit
             len == Len(seq)
             count == (len + size - 1) \div size
             End(n) == IF n * size < len THEN n * size ELSE len
             part == [n \in 1 .. count |-> SubSeq(seq, (n - 1) * size + 1, End(n))]
  <1>1. ChunkArray(seq, SubtaskItemLimit) = part
    BY DEF ChunkArray
  <1>2. size \in Nat \ {0} /\ len \in Nat
    BY LimitIsPositive
  <1> HIDE DEF size
  <1>3. count \in Nat /\ len <= count * size
    BY <1>2, EnoughChunks
  <1> HIDE DEF count
  <1>4. ASSUME NEW n \in 1 .. count
        PROVE  /\ (n - 1) * size + 1 \in Nat \ {0} /\ End(n) \in Nat /\ End(n) <= len
               /\ (n - 1) * size + size = n * size /\ n * size \in Nat /\ (n - 1) * size \in Nat
    <2>1. n - 1 \in Nat /\ n - 1 + 1 = n /\ n \in Nat
      BY <1>3
    <2>2. (n - 1) * size \in Int /\ n - 1 <= (n - 1) * size /\ n * size = (n - 1) * size + size
      BY <1>2, <2>1, Multiples
    <2>3. (n - 1) * size \in Nat /\ n * size \in Nat
      BY <1>2, <2>1, <2>2
    <2>4. QED
      BY <1>2, <2>2, <2>3
  <1> HIDE DEF End, len
  <1>5. ASSUME NEW n \in 1 .. count
        PROVE  /\ part[n] \in Seq(Items) /\ Len(part[n]) <= size
               /\ ToSet(part[n]) = {seq[k] : k \in (n - 1) * size + 1 .. End(n)}
    <2> DEFINE m == (n - 1) * size + 1
               e == End(n)
    <2>1. m \in Nat \ {0} /\ e \in Nat /\ e <= Len(seq) /\ e - m + 1 <= size /\ part[n] = SubSeq(seq, m, e)
      <3>1. m \in Nat \ {0} /\ e \in Nat /\ e <= Len(seq)
        BY <1>4 DEF len
      <3>2. e <= n * size
        BY <1>2, <1>4 DEF End
      <3>3. QED
        BY <1>2, <1>4, <3>1, <3>2
    <2> HIDE DEF m, e, part
    <2>2. /\ part[n] \in Seq(Items) /\ Len(part[n]) = (IF m <= e + 1 THEN e - m + 1 ELSE 0)
          /\ ToSet(part[n]) = {seq[k] : k \in m .. e}
      BY <2>1, PartOfSeq
    <2>3. Len(part[n]) <= size
      BY <1>2, <2>1, <2>2
    <2>4. QED
      BY <2>2, <2>3 DEF m, e
  <1>6. DOMAIN part = 1 .. count /\ part \in Seq(Seq(Items))
    <2>1. part = [n \in 1 .. count |-> part[n]]
      OBVIOUS
    <2> HIDE DEF part
    <2>2. part \in [1 .. count -> Seq(Items)]
      BY <1>5, <2>1
    <2>3. QED
      BY <1>3, <2>2
  <1> HIDE DEF part
  <1>7. ASSUME NEW k \in 1 .. len
        PROVE  \E n \in 1 .. count : k \in (n - 1) * size + 1 .. End(n)
    <2> DEFINE T == {n \in Nat : k <= n * size}
    <2>1. count \in T
      BY <1>2, <1>3, Multiples
    <2>2. PICK n \in T : \A m \in T : n <= m
      <3>1. T \subseteq Nat /\ T # {}
        BY <2>1
      <3> HIDE DEF T
      <3>2. QED
        BY <3>1, LeastNumber
    <2>3. n \in Nat /\ k <= n * size /\ n <= count
      BY <2>1, <2>2
    <2>4. n # 0
      BY <1>2, <2>3
    <2>5. n \in 1 .. count /\ n - 1 \in Nat /\ ~(n <= n - 1)
      BY <1>3, <2>3, <2>4
    <2>6. ~(k <= (n - 1) * size)
      BY <2>2, <2>5
    <2>7. k \in (n - 1) * size + 1 .. End(n)
      BY <1>2, <1>4, <2>3, <2>5, <2>6 DEF End
    <2>8. QED
      BY <2>5, <2>7
  <1>8. ASSUME NEW n \in 1 .. count, NEW k \in (n - 1) * size + 1 .. End(n)
        PROVE  k \in 1 .. len
    BY <1>2, <1>4
  <1>9. DOMAIN seq = 1 .. len
    BY DEF len
  <1>10. UNION {ToSet(part[n]) : n \in DOMAIN part} = ToSet(seq)
    <2>1. ASSUME NEW n \in DOMAIN part, NEW x \in ToSet(part[n])
          PROVE  x \in ToSet(seq)
      <3>1. n \in 1 .. count
        BY <1>6
      <3>2. x \in {seq[k] : k \in (n - 1) * size + 1 .. End(n)}
        BY <1>5, <2>1, <3>1
      <3>3. PICK k \in (n - 1) * size + 1 .. End(n) : x = seq[k]
        BY <3>2
      <3>4. k \in DOMAIN seq
        BY <1>8, <1>9, <3>1
      <3>5. QED
        BY <3>3, <3>4 DEF ToSet
    <2>2. ASSUME NEW k \in DOMAIN seq
          PROVE  \E n \in DOMAIN part : seq[k] \in ToSet(part[n])
      <3>1. PICK n \in 1 .. count : k \in (n - 1) * size + 1 .. End(n)
        BY <1>7, <1>9
      <3>2. seq[k] \in ToSet(part[n])
        BY <1>5, <3>1
      <3>3. QED
        BY <1>6, <3>2
    <2>3. \A x \in ToSet(seq) : \E n \in DOMAIN part : x \in ToSet(part[n])
      BY <2>2 DEF ToSet
    <2>4. QED
      BY <2>1, <2>3
  <1>11. ASSUME NEW m \in 1 .. count, NEW n \in 1 .. count, m < n
         PROVE  ToSet(part[m]) \cap ToSet(part[n]) = {}
    <2>1. m * size <= (n - 1) * size
      <3>1. m <= n - 1 /\ m \in Int /\ n - 1 \in Int
        BY <1>3, <1>11
      <3>2. QED
        BY <1>2, <3>1, Multiples
    <2>2. ASSUME NEW j \in (m - 1) * size + 1 .. End(m), NEW k \in (n - 1) * size + 1 .. End(n)
          PROVE  seq[j] # seq[k]
      <3>1. End(m) <= m * size
        BY <1>2, <1>4 DEF End
      <3>2. j # k
        BY <1>2, <1>4, <2>1, <3>1
      <3>3. j \in DOMAIN seq /\ k \in DOMAIN seq
        BY <1>8, <1>9
      <3>4. QED
        BY <3>2, <3>3
    <2>3. ASSUME NEW x \in ToSet(part[m]), x \in ToSet(part[n])
          PROVE  FALSE
      <3>1. PICK j \in (m - 1) * size + 1 .. End(m) : x = seq[j]
        BY <1>5
      <3>2. PICK k \in (n - 1) * size + 1 .. End(n) : x = seq[k]
        BY <1>5, <2>3
      <3>3. QED
        BY <2>2, <3>1, <3>2
    <2>4. QED
      BY <2>3
  <1>12. \A m, n \in DOMAIN part : m # n => ToSet(part[m]) \cap ToSet(part[n]) = {}
    <2>1. ASSUME NEW m \in 1 .. count, NEW n \in 1 .. count, m # n
          PROVE  ToSet(part[m]) \cap ToSet(part[n]) = {}
      <3>1. m < n \/ n < m
        BY <1>3, <2>1
      <3>2. QED
        BY <1>11, <3>1
    <2>2. QED
      BY <1>6, <2>1
  <1>13. QED
    BY <1>1, <1>5, <1>6, <1>10, <1>12 DEF Packed, size

LEMMA JoinedSets ==
  ASSUME NEW S, NEW s \in Seq(S), NEW t \in Seq(S)
  PROVE  /\ s \o t \in Seq(S) /\ Len(s \o t) = Len(s) + Len(t)
         /\ ToSet(s \o t) = ToSet(s) \cup ToSet(t)
  <1>1. /\ s \o t \in Seq(S) /\ Len(s \o t) = Len(s) + Len(t) /\ DOMAIN (s \o t) = 1 .. Len(s) + Len(t)
        /\ \A i \in 1 .. Len(s) + Len(t) : (s \o t)[i] = IF i <= Len(s) THEN s[i] ELSE t[i - Len(s)]
    OBVIOUS
  <1>2. DOMAIN s = 1 .. Len(s) /\ DOMAIN t = 1 .. Len(t) /\ Len(s) \in Nat /\ Len(t) \in Nat
    OBVIOUS
  <1>3. \A i \in DOMAIN s : i \in DOMAIN (s \o t) /\ (s \o t)[i] = s[i]
    BY <1>1, <1>2
  <1>4. \A i \in DOMAIN t : i + Len(s) \in DOMAIN (s \o t) /\ (s \o t)[i + Len(s)] = t[i]
    BY <1>1, <1>2
  <1>5. \A i \in DOMAIN (s \o t) :
           (i \in DOMAIN s /\ (s \o t)[i] = s[i])
             \/ (i - Len(s) \in DOMAIN t /\ (s \o t)[i] = t[i - Len(s)])
    BY <1>1, <1>2
  <1> DEFINE u == s \o t
  <1> HIDE DEF u
  <1>6. ToSet(u) = ToSet(s) \cup ToSet(t)
    <2>1. \A i \in DOMAIN u : u[i] \in ToSet(s) \cup ToSet(t)
      BY <1>5 DEF ToSet, u
    <2>2. \A i \in DOMAIN s : s[i] \in ToSet(u)
      BY <1>3 DEF ToSet, u
    <2>3. \A i \in DOMAIN t : t[i] \in ToSet(u)
      BY <1>4 DEF ToSet, u
    <2>4. QED
      BY <2>1, <2>2, <2>3 DEF ToSet
  <1>7. QED
    BY <1>1, <1>6 DEF u

LEMMA JoinedChunks ==
  ASSUME NEW c, NEW d, NEW A, NEW B, Packed(c, A), Packed(d, B), A \cap B = {}
  PROVE  Packed(c \o d, A \cup B)
  <1> DEFINE e == c \o d
  <1>1. c \in Seq(Seq(Items)) /\ d \in Seq(Seq(Items))
    BY DEF Packed
  <1>2. /\ e \in Seq(Seq(Items)) /\ DOMAIN e = 1 .. Len(c) + Len(d)
        /\ \A i \in 1 .. Len(c) + Len(d) : e[i] = IF i <= Len(c) THEN c[i] ELSE d[i - Len(c)]
    BY <1>1
  <1>3. DOMAIN c = 1 .. Len(c) /\ DOMAIN d = 1 .. Len(d) /\ Len(c) \in Nat /\ Len(d) \in Nat
    BY <1>1
  <1> HIDE DEF e
  <1>4. \A i \in DOMAIN e : (i \in DOMAIN c /\ e[i] = c[i]) \/ (i - Len(c) \in DOMAIN d /\ e[i] = d[i - Len(c)])
    BY <1>2, <1>3
  <1>5. \A i \in DOMAIN c : i \in DOMAIN e /\ e[i] = c[i]
    BY <1>2, <1>3
  <1>6. \A i \in DOMAIN d : i + Len(c) \in DOMAIN e /\ e[i + Len(c)] = d[i]
    BY <1>2, <1>3
  <1>7. \A i \in DOMAIN e : Len(e[i]) <= SubtaskItemLimit
    BY <1>4 DEF Packed
  <1>8. UNION {ToSet(e[i]) : i \in DOMAIN e} = A \cup B
    <2>1. \A i \in DOMAIN c : ToSet(c[i]) \subseteq UNION {ToSet(e[k]) : k \in DOMAIN e}
      BY <1>5
    <2>2. \A i \in DOMAIN d : ToSet(d[i]) \subseteq UNION {ToSet(e[k]) : k \in DOMAIN e}
      BY <1>6
    <2>3. A = UNION {ToSet(c[i]) : i \in DOMAIN c} /\ B = UNION {ToSet(d[i]) : i \in DOMAIN d}
      BY DEF Packed
    <2>4. \A i \in DOMAIN e : ToSet(e[i]) \subseteq A \cup B
      BY <1>4, <2>3
    <2>5. QED
      BY <2>1, <2>2, <2>3, <2>4
  <1>9. ASSUME NEW m \in DOMAIN e, NEW n \in DOMAIN e, m # n
        PROVE  ToSet(e[m]) \cap ToSet(e[n]) = {}
    <2>1. \A i \in DOMAIN c : ToSet(c[i]) \subseteq A
      BY DEF Packed
    <2>2. \A i \in DOMAIN d : ToSet(d[i]) \subseteq B
      BY DEF Packed
    <2>3. m - Len(c) # n - Len(c)
      BY <1>2, <1>3, <1>9
    <2>4. CASE m \in DOMAIN c /\ e[m] = c[m] /\ n \in DOMAIN c /\ e[n] = c[n]
      BY <1>9, <2>4 DEF Packed
    <2>5. CASE m - Len(c) \in DOMAIN d /\ e[m] = d[m - Len(c)] /\ n - Len(c) \in DOMAIN d /\ e[n] = d[n - Len(c)]
      BY <2>3, <2>5 DEF Packed
    <2>6. CASE \/ e[m] = c[m] /\ m \in DOMAIN c /\ n - Len(c) \in DOMAIN d /\ e[n] = d[n - Len(c)]
               \/ e[n] = c[n] /\ n \in DOMAIN c /\ m - Len(c) \in DOMAIN d /\ e[m] = d[m - Len(c)]
      BY <2>1, <2>2, <2>6
    <2>7. QED
      BY <1>4, <2>4, <2>5, <2>6
  <1>10. QED
    BY <1>2, <1>7, <1>8, <1>9 DEF Packed, e

\* Some more items join the last chunk, or begin another.
LEMMA AddedChunks ==
  ASSUME NEW c, NEW A, Packed(c, A), NEW ids \in Seq(Items), Len(ids) <= SubtaskItemLimit,
         ToSet(ids) \cap A = {}
  PROVE  Packed(AddedToChunks(c, ids), A \cup ToSet(ids))
  <1> DEFINE last == Len(c)
             B == ToSet(ids)
  <1>1. c \in Seq(Seq(Items)) /\ DOMAIN c = 1 .. last /\ last \in Nat
    BY DEF Packed
  <1>2. CASE last > 0 /\ Len(c[last]) + Len(ids) <= SubtaskItemLimit
    <2> DEFINE new == c[last] \o ids
               e == [c EXCEPT ![last] = new]
    <2>1. last \in DOMAIN c /\ c[last] \in Seq(Items)
      BY <1>1, <1>2
    <2>2. AddedToChunks(c, ids) = e
      BY <1>2 DEF AddedToChunks
    <2>3. new \in Seq(Items) /\ Len(new) <= SubtaskItemLimit /\ ToSet(new) = ToSet(c[last]) \cup B
      <3>1. /\ new \in Seq(Items) /\ Len(new) = Len(c[last]) + Len(ids)
            /\ ToSet(new) = ToSet(c[last]) \cup ToSet(ids)
        BY <2>1, JoinedSets
      <3>2. QED
        BY <1>2, <3>1
    <2> HIDE DEF new, last, B
    <2>4. /\ e \in Seq(Seq(Items)) /\ DOMAIN e = DOMAIN c /\ e[last] = new
          /\ \A n \in DOMAIN c : n # last => e[n] = c[n]
      BY <1>1, <2>1, <2>3
    <2> HIDE DEF e
    <2>5. \A n \in DOMAIN e : Len(e[n]) <= SubtaskItemLimit
      BY <2>3, <2>4 DEF Packed
    <2>6. UNION {ToSet(e[n]) : n \in DOMAIN e} = A \cup B
      <3>1. A = UNION {ToSet(c[n]) : n \in DOMAIN c}
        BY DEF Packed
      <3>2. \A n \in DOMAIN c : ToSet(c[n]) \subseteq ToSet(e[n])
        BY <2>3, <2>4
      <3>3. B \subseteq ToSet(e[last])
        BY <2>3, <2>4
      <3>4. \A n \in DOMAIN e : ToSet(e[n]) \subseteq A \cup B
        BY <2>1, <2>3, <2>4, <3>1
      <3>5. QED
        BY <2>1, <2>4, <3>1, <3>2, <3>3, <3>4
    <2>7. ASSUME NEW m \in DOMAIN e, NEW n \in DOMAIN e, m # n
          PROVE  ToSet(e[m]) \cap ToSet(e[n]) = {}
      <3>1. \A k \in DOMAIN c : ToSet(c[k]) \cap B = {}
        BY DEF Packed, B
      <3>2. ToSet(c[m]) \cap ToSet(c[n]) = {}
        BY <2>4, <2>7 DEF Packed
      <3>3. \A k \in DOMAIN c : ToSet(e[k]) = IF k = last THEN ToSet(c[k]) \cup B ELSE ToSet(c[k])
        BY <2>3, <2>4
      <3>4. QED
        BY <2>4, <2>7, <3>1, <3>2, <3>3
    <2>8. QED
      BY <2>2, <2>4, <2>5, <2>6, <2>7 DEF Packed, B
  <1>3. CASE ~(last > 0 /\ Len(c[last]) + Len(ids) <= SubtaskItemLimit)
    <2>1. AddedToChunks(c, ids) = Append(c, ids)
      BY <1>3 DEF AddedToChunks
    <2>2. Append(c, ids) = c \o <<ids>>
      BY <1>1
    <2>3. Packed(<<ids>>, B)
      <3>1. <<ids>> \in Seq(Seq(Items)) /\ DOMAIN <<ids>> = {1} /\ <<ids>>[1] = ids
        OBVIOUS
      <3> DEFINE d == <<ids>>
      <3> HIDE DEF d
      <3>2. UNION {ToSet(d[n]) : n \in DOMAIN d} = B
        BY <3>1 DEF d
      <3>3. QED
        BY <3>1, <3>2 DEF Packed, d
    <2>4. QED
      BY <2>1, <2>2, <2>3, JoinedChunks
  <1>4. QED
    BY <1>2, <1>3

LEMMA NoChunks == Packed(<<>>, {})
  BY DEF Packed

\* Filling chunks with pieces that are packed packs them.
LEMMA FilledChunks ==
  ASSUME NEW pieces, NEW A, Packed(pieces, A)
  PROVE  Packed(FoldLeft(AddedToChunks, <<>>, pieces), A)
  <1> DEFINE n == Len(pieces)
             Before(k) == UNION {ToSet(pieces[j]) : j \in 1 .. k}
  <1>1. pieces \in Seq(Seq(Items)) /\ DOMAIN pieces = 1 .. n /\ n \in Nat
    BY DEF Packed
  <1> HIDE DEF n
  <1>2. PICK filled : FilledBy(filled, pieces, n) /\ FoldLeft(AddedToChunks, <<>>, pieces) = filled[n]
    BY <1>1, FoldedChunks
  <1> DEFINE Good == {k \in 0 .. n : Packed(filled[k], Before(k))}
  <1>3. 0 \in Good
    <2>1. Before(0) = {}
      OBVIOUS
    <2>2. filled[0] = <<>>
      BY <1>2 DEF FilledBy
    <2> HIDE DEF Before
    <2>3. Packed(filled[0], Before(0))
      BY <2>1, <2>2, NoChunks
    <2>4. QED
      BY <1>1, <2>3
  <1>4. ASSUME NEW k \in 0 .. n - 1, k \in Good
        PROVE  k + 1 \in Good
    <2>1. k + 1 \in 1 .. n /\ k + 1 - 1 = k /\ k + 1 \in DOMAIN pieces /\ k \in Nat
      BY <1>1
    <2>2. filled[k + 1] = AddedToChunks(filled[k], pieces[k + 1])
      BY <1>2, <2>1 DEF FilledBy
    <2>3. Before(k + 1) = Before(k) \cup ToSet(pieces[k + 1])
      <3>1. 1 .. k + 1 = (1 .. k) \cup {k + 1}
        BY <2>1
      <3>2. QED
        BY <3>1
    <2>4. ToSet(pieces[k + 1]) \cap Before(k) = {}
      <3>1. \A j \in 1 .. k : j \in DOMAIN pieces /\ j # k + 1
        BY <1>1
      <3>2. \A j \in 1 .. k : ToSet(pieces[k + 1]) \cap ToSet(pieces[j]) = {}
        BY <2>1, <3>1 DEF Packed
      <3>3. QED
        BY <3>2
    <2>5. pieces[k + 1] \in Seq(Items) /\ Len(pieces[k + 1]) <= SubtaskItemLimit
      <3> DEFINE j == k + 1
      <3>1. j \in DOMAIN pieces
        BY <2>1
      <3> HIDE DEF j
      <3>2. pieces[j] \in Seq(Items)
        BY <1>1, <3>1
      <3>3. Len(pieces[j]) <= SubtaskItemLimit
        BY <3>1 DEF Packed
      <3>4. QED
        BY <3>2, <3>3 DEF j
    <2>6. Packed(filled[k], Before(k))
      BY <1>4
    <2> HIDE DEF Before
    <2>7. Packed(AddedToChunks(filled[k], pieces[k + 1]), Before(k) \cup ToSet(pieces[k + 1]))
      BY <2>4, <2>5, <2>6, AddedChunks
    <2>8. QED
      BY <2>1, <2>2, <2>3, <2>7
  <1> HIDE DEF Good
  <1>5. n \in Good
    <2>1. 0 .. n \subseteq Good
      BY <1>1, <1>3, <1>4, Induction
    <2>2. QED
      BY <1>1, <2>1
  <1>6. Before(n) = A
    BY <1>1 DEF Packed
  <1>7. QED
    BY <1>2, <1>5, <1>6 DEF Good

\* Packed sequences of chunks, of different items, are packed when they are put together.
LEMMA FlatChunks ==
  ASSUME NEW n \in Nat, NEW seqs \in Seq(Seq(Seq(Items))), Len(seqs) = n, NEW part,
         \A k \in 1 .. n : Packed(seqs[k], part[k]),
         \A j, k \in 1 .. n : j # k => part[j] \cap part[k] = {}
  PROVE  Packed(FlattenSeq(seqs), UNION {part[k] : k \in 1 .. n})
  <1> DEFINE Before(k) == UNION {part[j] : j \in 1 .. k}
  <1>0. DOMAIN seqs = 1 .. n
    OBVIOUS
  <1>1. CASE n = 0
    <2>1. FlattenSeq(seqs) = seqs
      BY <1>1 DEF FlattenSeq
    <2>2. Packed(seqs, {})
      <3>1. seqs = <<>>
        BY <1>1
      <3>2. QED
        BY <3>1, NoChunks
    <2>3. UNION {part[k] : k \in 1 .. n} = {}
      BY <1>1
    <2>4. QED
      BY <2>1, <2>2, <2>3
  <1>2. CASE n # 0
    <2>1. PICK flat : FlatBy(flat, seqs, n) /\ FlattenSeq(seqs) = flat[n]
      BY <1>2, <1>0, FlattenedSeqs
    <2> DEFINE Good == {k \in 0 .. n : k # 0 => Packed(flat[k], Before(k))}
    <2>2. 0 \in Good
      OBVIOUS
    <2>3. ASSUME NEW k \in 0 .. n - 1, k \in Good
          PROVE  k + 1 \in Good
      <3>1. k + 1 \in 1 .. n /\ k + 1 - 1 = k /\ k \in Nat
        OBVIOUS
      <3>2. CASE k = 0
        <4>1. flat[1] = seqs[1] /\ Before(1) = part[1]
          BY <2>1 DEF FlatBy
        <4>2. Packed(seqs[1], part[1]) /\ k + 1 = 1
          BY <3>1, <3>2
        <4> HIDE DEF Before
        <4>3. Packed(flat[k + 1], Before(k + 1))
          BY <4>1, <4>2
        <4>4. QED
          BY <3>1, <4>3
      <3>3. CASE k # 0
        <4>1. flat[k + 1] = flat[k] \o seqs[k + 1]
          <5> DEFINE j == k + 1
          <5>1. j \in 2 .. n /\ j - 1 = k
            BY <3>1, <3>3
          <5> HIDE DEF j
          <5>2. flat[j] = flat[j - 1] \o seqs[j]
            BY <2>1, <5>1 DEF FlatBy
          <5>3. QED
            BY <5>1, <5>2 DEF j
        <4>2. Before(k + 1) = Before(k) \cup part[k + 1]
          <5>1. 1 .. k + 1 = (1 .. k) \cup {k + 1}
            BY <3>1
          <5>2. QED
            BY <5>1
        <4>3. Before(k) \cap part[k + 1] = {}
          <5>1. \A j \in 1 .. k : j \in 1 .. n /\ j # k + 1
            BY <3>1
          <5>2. QED
            BY <3>1, <5>1
        <4>4. Packed(flat[k], Before(k)) /\ Packed(seqs[k + 1], part[k + 1])
          BY <2>3, <3>1, <3>3
        <4> HIDE DEF Before
        <4>5. Packed(flat[k] \o seqs[k + 1], Before(k) \cup part[k + 1])
          BY <4>3, <4>4, JoinedChunks
        <4>6. Packed(flat[k + 1], Before(k + 1))
          BY <4>1, <4>2, <4>5
        <4>7. QED
          BY <3>1, <4>6
      <3>4. QED
        BY <3>2, <3>3
    <2> HIDE DEF Good
    <2>4. n \in Good
      <3>1. 0 .. n \subseteq Good
        BY <2>2, <2>3, Induction
      <3>2. QED
        BY <3>1
    <2>5. QED
      BY <1>2, <2>1, <2>4 DEF Good
  <1>3. QED
    BY <1>1, <1>2

\* Lists of the elements of a finite set.
LEMMA ListedSet ==
  ASSUME NEW S, IsFiniteSet(S), NEW s \in [1 .. Cardinality(S) -> S],
         \A a, b \in 1 .. Cardinality(S) : a # b => s[a] # s[b]
  PROVE  /\ s \in Seq(S) /\ ToSet(s) = S /\ Len(s) = Cardinality(S) /\ DOMAIN s = 1 .. Cardinality(S)
         /\ \A a, b \in DOMAIN s : a # b => s[a] # s[b]
  <1> DEFINE n == Cardinality(S)
  <1>1. n \in Nat
    BY FS_CardinalityType
  <1>2. IsFiniteSet(1 .. n) /\ Cardinality(1 .. n) = n
    BY <1>1, FS_Interval
  <1>3. s \in Injection(1 .. n, S)
    BY DEF Injection, IsInjective
  <1>4. Cardinality(1 .. n) = Cardinality(S)
    BY <1>2
  <1>5. s \in Surjection(1 .. n, S)
    BY <1>3, <1>4, FS_Injection
  <1>6. ToSet(s) = S
    BY <1>5 DEF Surjection, ToSet
  <1>7. s \in Seq(S) /\ Len(s) = n /\ DOMAIN s = 1 .. n
    BY <1>1
  <1>8. QED
    BY <1>6, <1>7

LEMMA SetListed ==
  ASSUME NEW S, IsFiniteSet(S)
  PROVE  /\ SetToSeq(S) \in Seq(S) /\ ToSet(SetToSeq(S)) = S
         /\ \A a, b \in DOMAIN SetToSeq(S) : a # b => SetToSeq(S)[a] # SetToSeq(S)[b]
  <1> DEFINE s == SetToSeq(S)
  <1>1. \E f \in [1 .. Cardinality(S) -> S] : IsInjective(f)
    BY FS_CardinalityType DEF ExistsBijection, Bijection, Injection
  <1>2. s \in [1 .. Cardinality(S) -> S] /\ IsInjective(s)
    BY <1>1 DEF SetToSeq
  <1> HIDE DEF s
  <1>3. \A a, b \in 1 .. Cardinality(S) : a # b => s[a] # s[b]
    BY <1>2 DEF IsInjective
  <1>4. s \in Seq(S) /\ ToSet(s) = S /\ \A a, b \in DOMAIN s : a # b => s[a] # s[b]
    BY <1>2, <1>3, ListedSet
  <1>5. QED
    BY <1>4 DEF s

\* The chunks of what is asked for hold it, each item once, and none is too long.
LEMMA ChunksArePacked ==
  ASSUME NEW ask, NEW items, items \subseteq Items, IsFiniteSet(items), NEW chunks \in Chunks(ask, items)
  PROVE  Packed(chunks, items)
  <1>1. CASE ask.kind # "newReleaseCovers"
    <2>1. PICK ids \in SetToSeqs(items) : chunks = ChunkArray(ids, SubtaskItemLimit)
      BY <1>1 DEF Chunks
    <2>2. /\ ids \in [1 .. Cardinality(items) -> items]
          /\ \A a, b \in 1 .. Cardinality(items) : a # b => ids[a] # ids[b]
      BY DEF SetToSeqs
    <2>3. ids \in Seq(items) /\ ToSet(ids) = items /\ \A a, b \in DOMAIN ids : a # b => ids[a] # ids[b]
      BY <2>2, ListedSet
    <2>4. ids \in Seq(Items)
      BY <2>3
    <2>5. QED
      BY <2>1, <2>3, <2>4, CutSeq
  <1>2. CASE ask.kind = "newReleaseCovers"
    <2> DEFINE groups == {GroupOf(r) : r \in items}
               ItemsIn(g) == {r \in items : GroupOf(r) = g}
    <2>1. PICK order \in SetToSeqs(groups) :
                 chunks = ChunkEntries([n \in DOMAIN order |-> SetToSeq(ItemsIn(order[n]))])
      BY <1>2 DEF Chunks
    <2>2. IsFiniteSet(groups)
      <3> DEFINE f == [r \in items |-> GroupOf(r)]
      <3>1. f \in Surjection(items, groups)
        BY DEF Surjection
      <3>2. QED
        BY <3>1, FS_Surjection
    <2> DEFINE count == Cardinality(groups)
    <2>3. order \in [1 .. count -> groups] /\ \A a, b \in 1 .. count : a # b => order[a] # order[b]
      BY DEF SetToSeqs
    <2> HIDE DEF groups
    <2>4. /\ ToSet(order) = groups /\ DOMAIN order = 1 .. count /\ count \in Nat
      BY <2>2, <2>3, ListedSet, FS_CardinalityType
    <2> HIDE DEF count
    <2> DEFINE entries == [n \in 1 .. count |-> SetToSeq(ItemsIn(order[n]))]
               seqs == [n \in 1 .. count |-> ChunkArray(entries[n], SubtaskItemLimit)]
               part == [n \in 1 .. count |-> ItemsIn(order[n])]
    <2>5. ChunkEntries(entries) = FoldLeft(AddedToChunks, <<>>, FlattenSeq(seqs))
      BY DEF ChunkEntries
    <2>6. ASSUME NEW n \in 1 .. count
          PROVE  Packed(seqs[n], part[n]) /\ seqs[n] \in Seq(Seq(Items))
      <3> DEFINE S == ItemsIn(order[n])
                 s == SetToSeq(S)
      <3>1. IsFiniteSet(S) /\ S \subseteq Items
        BY FS_Subset
      <3>2. seqs[n] = ChunkArray(s, SubtaskItemLimit) /\ part[n] = S
        OBVIOUS
      <3> HIDE DEF S, seqs, part
      <3>3. s \in Seq(S) /\ ToSet(s) = S /\ \A a, b \in DOMAIN s : a # b => s[a] # s[b]
        BY <3>1, SetListed
      <3> HIDE DEF s
      <3>4. s \in Seq(Items)
        BY <3>1, <3>3
      <3>5. Packed(seqs[n], part[n])
        BY <3>2, <3>3, <3>4, CutSeq
      <3>6. QED
        BY <3>5 DEF Packed
    <2>7. seqs \in Seq(Seq(Seq(Items))) /\ Len(seqs) = count
      <3>1. seqs \in [1 .. count -> Seq(Seq(Items))]
        BY <2>6
      <3> HIDE DEF seqs
      <3>2. QED
        BY <2>4, <3>1
    <2>8. \A j, k \in 1 .. count : j # k => part[j] \cap part[k] = {}
      BY <2>3
    <2>9. UNION {part[k] : k \in 1 .. count} = items
      <3>1. \A r \in items : \E k \in 1 .. count : order[k] = GroupOf(r)
        BY <2>4 DEF ToSet, groups
      <3>2. QED
        BY <3>1
    <2> HIDE DEF part, seqs
    <2>10. Packed(FlattenSeq(seqs), UNION {part[k] : k \in 1 .. count})
      <3>1. \A k \in 1 .. count : Packed(seqs[k], part[k])
        BY <2>6
      <3>2. QED
        BY <2>4, <2>7, <2>8, <3>1, FlatChunks
    <2>11. Packed(FlattenSeq(seqs), items)
      BY <2>9, <2>10
    <2>12. Packed(FoldLeft(AddedToChunks, <<>>, FlattenSeq(seqs)), items)
      BY <2>11, FilledChunks
    <2>13. chunks = ChunkEntries(entries)
      BY <2>1, <2>4
    <2>14. QED
      BY <2>5, <2>12, <2>13
  <1>3. QED
    BY <1>1, <1>2

-----------------------------------------------------------------------------
(* What is asked for is answered, by pages of bounded size.                *)

\* A page is over with an outcome, complete if all its lookups are done, and it writes
\* when they are over.
PageGoesOn(page) ==
    /\ page.at = "done" => page.outcome # "none"
    /\ page.outcome = "completed" =>
          page.at = "done" /\ \A i \in DOMAIN page.lookups : page.lookups[i].at = "done"
    /\ page.at \in {"delete", "save"} => \A i \in DOMAIN page.lookups : IsOver(page.lookups[i])

\* The counters of a run stay in their bounds.
Counted == failures \in 0 .. MaxFailures /\ intact \in BOOLEAN

PagesGoOn ==
    /\ pages \in Seq(Page) /\ Counted
    /\ \A p \in DOMAIN pages : PageGoesOn(pages[p])

\* The pages of a task share out its items.
PagesShare ==
    /\ \A p \in DOMAIN pages :
          pages[p].task \in DOMAIN tasks /\ Cardinality(DOMAIN pages[p].lookups) <= SubtaskItemLimit
    /\ \A p, q \in DOMAIN pages :
          p # q /\ pages[p].task = pages[q].task => DOMAIN pages[p].lookups \cap DOMAIN pages[q].lookups = {}

LookedUp(t) == UNION {DOMAIN pages[p].lookups : p \in PagesOf(t)}

\* A task looks up what its planner did not find, which one of the first contract does
\* not try to.
TasksAnswer ==
    \A t \in DOMAIN tasks :
        /\ tasks[t].asked \subseteq DOMAIN tasks[t].resolved \cup LookedUp(t)
        /\ DOMAIN tasks[t].resolved \subseteq tasks[t].asked
        /\ tasks[t].key[1] = "v1" => DOMAIN tasks[t].resolved = {}
        /\ NamesAll(tasks[t].key[2]) => tasks[t].asked = tasks[t].key[3]

\* A client has a task for what it asked for, or all of it was found.
RequestHasTask ==
    /\ request.at = "reading" =>
          /\ request.task = 0
          /\ request.unread \subseteq request.ask.items /\ DOMAIN request.resolved \subseteq request.ask.items
          /\ request.contract = "v1" => request.unread = {} /\ DOMAIN request.resolved = {}
    /\ request.at = "told" =>
          /\ request.contract = "v1" => DOMAIN request.resolved = {}
          /\ IF request.task = 0 THEN request.ask.items \subseteq DOMAIN request.resolved
             ELSE /\ request.task \in DOMAIN tasks
                  /\ tasks[request.task].key = TaskKey(request.contract, request.ask)

PlansHold == PagesGoOn /\ PagesShare /\ TasksAnswer /\ RequestHasTask

\* What a step of a lookup may change of its page.
WorkedOn(old, new) ==
    /\ new.at = "work" /\ new.task = old.task /\ DOMAIN new.lookups = DOMAIN old.lookups
    /\ new.outcome \in {old.outcome, "failed"}

Turns(p, i) ==
    /\ pages[p].at = "work"
    /\ \/ \E lookup : Moves(p, i, lookup)
       \/ FailsLookup(p, i)
       \/ \E state : Concludes(p, i, state)
       \/ \E state : pages' = [pages EXCEPT ![p].copy[i] = state, ![p].lookups[i] = Done(state)]

LEMMA SettlingTurns ==
  ASSUME NEW p, NEW i, NEW state, Settles(p, i, state)
  PROVE  \E lookup : Moves(p, i, lookup)
  BY DEF Settles

LEMMA FallingBackTurns ==
  ASSUME NEW p, NEW g, NEW lookup, NEW value, FallsBack(p, g, lookup, value)
  PROVE  (\E new : Moves(p, g, new)) \/ (\E state : Concludes(p, g, state))
  BY DEF FallsBack

LEMMA SynchronizingTurns ==
  ASSUME NEW p, NEW a, NEW lookup, AfterSync(p, a, lookup) \/ Synchronizes(p, a, lookup)
  PROVE  \E new : Moves(p, a, new)
  BY SettlingTurns DEF AfterSync, Synchronizes

LEMMA WorkingTurns ==
  ASSUME NEW p, NEW i, WorksOn(p, i)
  PROVE  Turns(p, i)
  <1>1. CASE IsStopped(p, i)
    BY <1>1 DEF IsStopped, Turns
  <1>2. CASE LookupCannotReach(p, i)
    BY <1>2 DEF LookupCannotReach, At, Turns
  <1>3. CASE Deletes(p, i) \/ Saves(p, i)
    BY <1>3 DEF Deletes, Saves, At, Turns
  <1>4. CASE ReadsRelease(p, i)
    BY <1>4 DEF ReadsRelease, At, Turns
  <1>5. CASE FetchesRelease(p, i)
    <2> DEFINE peers == {x \in DOMAIN pages[p].lookups[i].copy \ {i} :
                            IsUsableUrl(pages[p].lookups[i].copy[x], pages[p].lookups[i].asOf)}
    <2>1. PICK value \in Covers(i) :
             \/ Settles(p, i, MapState(value, now))
             \/ \E x \in peers : Settles(p, i, MapFallback(pages[p].lookups[i].copy[x].value, {value}, now))
             \/ Moves(p, i, [pages[p].lookups[i] EXCEPT !.at = "fetchGroup", !.misses = {value}])
      BY <1>5 DEF FetchesRelease
    <2>2. pages[p].at = "work"
      BY <1>5 DEF FetchesRelease, Asks, At
    <2>3. QED
      BY <2>1, <2>2, SettlingTurns DEF Turns
  <1>6. CASE FetchesGroupOfRelease(p, i)
    BY <1>6, SettlingTurns DEF FetchesGroupOfRelease, Asks, At, Turns
  <1>7. CASE BeginsGroup(p, i)
    BY <1>7 DEF BeginsGroup, At, Turns
  <1>8. CASE ReadsSiblings(p, i)
    BY <1>8 DEF ReadsSiblings, At, Turns
  <1>9. CASE FetchesGroup(p, i)
    BY <1>9 DEF FetchesGroup, Asks, At, Turns
  <1>10. CASE ReadsFallback(p, i)
    BY <1>10 DEF ReadsFallback, At, Turns
  <1>11. ASSUME NEW r \in Releases, TriesSibling(p, i, r)
         PROVE  Turns(p, i)
    <2> DEFINE lookup == pages[p].lookups[i]
               cached == lookup.copy[r]
               Tried(state) == [lookup EXCEPT !.left = @ \ {r}, !.copy[r] = state,
                                              !.misses = @ \cup {state.value},
                                              !.changed = @ \/ ~IsUsable(cached, lookup.asOf)]
    <2>1. PICK state \in IF IsUsable(cached, lookup.asOf) THEN {cached}
                         ELSE {MapState(value, now) : value \in Covers(r)} :
             FallsBack(p, i, Tried(state), state.value) \/ Moves(p, i, Tried(state))
      BY <1>11 DEF TriesSibling
    <2>2. pages[p].at = "work"
      BY <1>11 DEF TriesSibling, At
    <2> HIDE DEF Tried
    <2>3. QED
      BY <2>1, <2>2, FallingBackTurns DEF Turns
  <1>12. CASE HasNoSibling(p, i)
    BY <1>12, FallingBackTurns DEF HasNoSibling, At, Turns
  <1>13. CASE SavesSiblings(p, i)
    BY <1>13 DEF SavesSiblings, At, Turns
  <1>14. CASE FetchesLyrics(p, i)
    BY <1>14 DEF FetchesLyrics, At, Turns
  <1>15. CASE ReadsImage(p, i)
    BY <1>15 DEF ReadsImage, At, Turns
  <1>16. CASE ReadsDetails(p, i)
    BY <1>16 DEF ReadsDetails, At, Turns
  <1>17. CASE BypassesMusicBrainz(p, i)
    BY <1>17, SettlingTurns DEF BypassesMusicBrainz, Asks, At, Turns
  <1>18. CASE AsksMusicBrainz(p, i)
    BY <1>18, SettlingTurns, SynchronizingTurns DEF AsksMusicBrainz, Asks, At, Turns
  <1>19. CASE ReadsForSync(p, i)
    BY <1>19, SynchronizingTurns DEF ReadsForSync, At, Turns
  <1>20. CASE DeletesDetails(p, i)
    BY <1>20 DEF DeletesDetails, At, Turns
  <1>21. CASE SavesDetails(p, i)
    BY <1>21, SynchronizingTurns DEF SavesDetails, At, Turns
  <1>22. CASE AsksDiscogs(p, i)
    BY <1>22, SettlingTurns DEF AsksDiscogs, Asks, At, Turns
  <1>23. QED
    BY <1>1, <1>2, <1>3, <1>4, <1>5, <1>6, <1>7, <1>8, <1>9, <1>10, <1>11, <1>12, <1>13, <1>14, <1>15,
       <1>16, <1>17, <1>18, <1>19, <1>20, <1>21, <1>22 DEF WorksOn

LEMMA WorkedPage ==
  ASSUME LookupsSure, NEW p \in DOMAIN pages, NEW i \in DOMAIN pages[p].lookups, Turns(p, i)
  PROVE  \E new : pages' = [pages EXCEPT ![p] = new] /\ WorkedOn(pages[p], new)
  <1> DEFINE page == pages[p]
  <1>1. page \in Page /\ i \in DOMAIN page.lookups /\ page.at = "work"
    BY WorkingLookup DEF Turns
  <1>2. ASSUME NEW lookup, Moves(p, i, lookup)
        PROVE  \E new : pages' = [pages EXCEPT ![p] = new] /\ WorkedOn(pages[p], new)
    <2> DEFINE new == [page EXCEPT !.lookups[i] = lookup]
    <2>1. pages' = [pages EXCEPT ![p] = new]
      BY <1>2 DEF Moves
    <2> HIDE DEF page
    <2>2. WorkedOn(page, new)
      BY <1>1 DEF Page, WorkedOn
    <2>3. QED
      BY <2>1, <2>2 DEF page
  <1>3. CASE FailsLookup(p, i)
    <2> DEFINE new == AfterFailure(page, i)
    <2>1. pages' = [pages EXCEPT ![p] = new]
      BY <1>3 DEF FailsLookup
    <2> HIDE DEF page
    <2>2. WorkedOn(page, new)
      BY <1>1 DEF Page, WorkedOn, AfterFailure
    <2>3. QED
      BY <2>1, <2>2 DEF page
  <1>4. ASSUME NEW state, Concludes(p, i, state)
        PROVE  \E new : pages' = [pages EXCEPT ![p] = new] /\ WorkedOn(pages[p], new)
    <2> DEFINE new == Concluded(page, i, state)
    <2>1. pages' = [pages EXCEPT ![p] = new]
      BY <1>4 DEF Concludes
    <2> HIDE DEF page
    <2>2. WorkedOn(page, new)
      BY <1>1 DEF Page, WorkedOn, Concluded
    <2>3. QED
      BY <2>1, <2>2 DEF page
  <1>5. ASSUME NEW state, pages' = [pages EXCEPT ![p].copy[i] = state, ![p].lookups[i] = Done(state)]
        PROVE  \E new : pages' = [pages EXCEPT ![p] = new] /\ WorkedOn(pages[p], new)
    <2> DEFINE done == Done(state)
               new == [page EXCEPT !.copy[i] = state, !.lookups[i] = done]
    <2> HIDE DEF done
    <2>1. pages' = [pages EXCEPT ![p] = new]
      BY <1>5 DEF done
    <2> HIDE DEF page
    <2>2. WorkedOn(page, new)
      BY <1>1 DEF Page, WorkedOn
    <2>3. QED
      BY <2>1, <2>2 DEF page
  <1>6. QED
    BY <1>2, <1>3, <1>4, <1>5 DEF Turns

-----------------------------------------------------------------------------
(* Steps of pages.                                                         *)

\* A page keeps its task and what it looks up.
SameShare(old, new) == new.task = old.task /\ DOMAIN new.lookups = DOMAIN old.lookups

TurnsPage(p) ==
    \E new : /\ pages' = [pages EXCEPT ![p] = new]
             /\ SameShare(pages[p], new) /\ PageGoesOn(new)

LEMMA EndedGoesOn ==
  ASSUME NEW page \in Page, \A i \in DOMAIN page.lookups : IsOver(page.lookups[i]),
         page.outcome # "completed"
  PROVE  SameShare(page, Ended(page)) /\ PageGoesOn(Ended(page))
  <1> DEFINE outcome == IF page.outcome # "none" THEN page.outcome
                        ELSE IF HasFailed(page) THEN "failed" ELSE "completed"
             new == Ended(page)
  <1>1. /\ new.at = "done" /\ new.outcome = outcome /\ new.task = page.task /\ new.lookups = page.lookups
    BY DEF Ended, Page
  <1>2. outcome # "none"
    OBVIOUS
  <1>3. outcome = "completed" => \A i \in DOMAIN page.lookups : page.lookups[i].at = "done"
    BY DEF HasFailed, IsOver
  <1> HIDE DEF outcome, new
  <1>4. QED
    BY <1>1, <1>2, <1>3 DEF SameShare, PageGoesOn, new

LEMMA PageStepTurns ==
  ASSUME LookupsSure, NEW p \in DOMAIN pages, PageGoesOn(pages[p]), PageStep(p)
  PROVE  TurnsPage(p)
  <1> DEFINE page == pages[p]
  <1>1. /\ page \in Page /\ page.outcome \in {"none", "completed", "failed"}
        /\ page.at \in {"queued", "work", "delete", "save", "done"} /\ PageGoesOn(page)
        /\ page.at # "done" => page.outcome # "completed"
    BY PageTyped DEF LookupsSure, PageGoesOn
  <1>2. CASE BeginsPage(p)
    <2>1. \E copy : pages' = [pages EXCEPT ![p] = [page EXCEPT !.at = "work", !.copy = copy]]
      <3>1. CASE SharesCopy(page)
        BY <1>2, <3>1 DEF BeginsPage
      <3>2. CASE ~SharesCopy(page)
        <4>1. [page EXCEPT !.at = "work"] = [page EXCEPT !.at = "work", !.copy = page.copy]
          <5> HIDE DEF page
          <5>1. QED
            BY <1>1 DEF Page
        <4>2. pages' = [pages EXCEPT ![p] = [page EXCEPT !.at = "work"]]
          BY <1>2, <3>2 DEF BeginsPage
        <4>3. QED
          BY <4>1, <4>2
      <3>3. QED
        BY <3>1, <3>2
    <2>2. PICK copy : pages' = [pages EXCEPT ![p] = [page EXCEPT !.at = "work", !.copy = copy]]
      BY <2>1
    <2> DEFINE new == [page EXCEPT !.at = "work", !.copy = copy]
    <2>3. page.at = "queued"
      BY <1>2 DEF BeginsPage
    <2>4. SameShare(page, new) /\ PageGoesOn(new)
      <3> HIDE DEF page
      <3>1. QED
        BY <1>1, <2>3 DEF Page, SameShare, PageGoesOn
    <2>5. QED
      BY <2>2, <2>4 DEF TurnsPage
  <1>3. CASE PageCannotRead(p)
    <2> DEFINE new == [page EXCEPT !.at = "done", !.outcome = "failed"]
    <2>1. pages' = [pages EXCEPT ![p] = new]
      BY <1>3 DEF PageCannotRead
    <2>2. SameShare(page, new) /\ PageGoesOn(new)
      <3> HIDE DEF page
      <3>1. QED
        BY <1>1 DEF Page, SameShare, PageGoesOn
    <2>3. QED
      BY <2>1, <2>2 DEF TurnsPage
  <1>4. CASE TimesOut(p)
    <2> DEFINE new == [page EXCEPT !.outcome = "failed", !.aborted = TRUE]
    <2>1. pages' = [pages EXCEPT ![p] = new]
      BY <1>4 DEF TimesOut
    <2>2. SameShare(page, new) /\ PageGoesOn(new)
      <3> HIDE DEF page
      <3>1. QED
        BY <1>1 DEF Page, SameShare, PageGoesOn
    <2>3. QED
      BY <2>1, <2>2 DEF TurnsPage
  <1>5. ASSUME NEW i \in DOMAIN pages[p].lookups, WorksOn(p, i)
        PROVE  TurnsPage(p)
    <2>1. Turns(p, i)
      BY <1>5, WorkingTurns
    <2>2. PICK new : pages' = [pages EXCEPT ![p] = new] /\ WorkedOn(page, new)
      BY <2>1, WorkedPage
    <2>3. page.at = "work"
      BY <2>1 DEF Turns
    <2>4. SameShare(page, new) /\ PageGoesOn(new)
      BY <1>1, <2>2, <2>3 DEF WorkedOn, SameShare, PageGoesOn
    <2>5. QED
      BY <2>2, <2>4 DEF TurnsPage
  <1>6. CASE EndsLookups(p)
    <2>1. /\ page.at = "work" /\ \A i \in DOMAIN page.lookups : IsOver(page.lookups[i])
          /\ pages' = [pages EXCEPT ![p] = IF WritesAtEnd(page) THEN [page EXCEPT !.at = "delete"]
                                           ELSE Ended(page)]
      BY <1>6 DEF EndsLookups
    <2> DEFINE new == [page EXCEPT !.at = "delete"]
    <2>2. SameShare(page, new) /\ PageGoesOn(new)
      <3> HIDE DEF page
      <3>1. QED
        BY <1>1, <2>1 DEF Page, SameShare, PageGoesOn
    <2>3. SameShare(page, Ended(page)) /\ PageGoesOn(Ended(page))
      BY <1>1, <2>1, EndedGoesOn
    <2>4. QED
      BY <2>1, <2>2, <2>3 DEF TurnsPage
  <1>7. CASE DeletesAtEnd(p)
    <2> DEFINE new == [page EXCEPT !.at = "save"]
    <2>1. pages' = [pages EXCEPT ![p] = new] /\ page.at = "delete"
      BY <1>7 DEF DeletesAtEnd
    <2>2. SameShare(page, new) /\ PageGoesOn(new)
      <3> HIDE DEF page
      <3>1. QED
        BY <1>1, <2>1 DEF Page, SameShare, PageGoesOn
    <2>3. QED
      BY <2>1, <2>2 DEF TurnsPage
  <1>8. CASE SavesAtEnd(p)
    <2>1. page.at = "save" /\ pages' = [pages EXCEPT ![p] = Ended(page)]
      BY <1>8 DEF SavesAtEnd
    <2>2. SameShare(page, Ended(page)) /\ PageGoesOn(Ended(page))
      BY <1>1, <2>1, EndedGoesOn DEF PageGoesOn
    <2>3. QED
      BY <2>1, <2>2 DEF TurnsPage
  <1>9. CASE PageCannotWrite(p)
    <2> DEFINE with == [page EXCEPT !.outcome = "failed"]
    <2>1. page.at \in {"delete", "save"} /\ pages' = [pages EXCEPT ![p] = Ended(with)]
      BY <1>9 DEF PageCannotWrite
    <2>2. with \in Page /\ with.lookups = page.lookups /\ with.task = page.task /\ with.outcome = "failed"
      <3> HIDE DEF page
      <3>1. QED
        BY <1>1 DEF Page
    <2> HIDE DEF with, page
    <2>3. \A i \in DOMAIN with.lookups : IsOver(with.lookups[i])
      BY <1>1, <2>1, <2>2 DEF PageGoesOn
    <2>4. SameShare(with, Ended(with)) /\ PageGoesOn(Ended(with))
      BY <2>2, <2>3, EndedGoesOn
    <2>5. SameShare(page, Ended(with))
      BY <2>2, <2>4 DEF SameShare
    <2>6. QED
      BY <2>1, <2>4, <2>5 DEF TurnsPage, page
  <1>10. QED
    BY <1>2, <1>3, <1>4, <1>5, <1>6, <1>7, <1>8, <1>9 DEF PageStep

LEMMA CountsOn ==
  ASSUME Counted
  PROVE  /\ UNCHANGED <<failures, intact>> => Counted'
         /\ UNCHANGED failures /\ intact' \in BOOLEAN => Counted'
         /\ failures < MaxFailures /\ failures' = failures + 1 /\ intact' \in BOOLEAN => Counted'
  BY FailuresAssumption DEF Counted

\* How the steps of a lookup reach the cache.
LEMMA WorkingReaches ==
  ASSUME NEW p, NEW i, WorksOn(p, i)
  PROVE  \/ OnlyPages \/ LookupCannotReach(p, i) \/ Deletes(p, i)
         \/ (\E record : ReadsToWrite(record)) \/ (\E copy : SavesRecord(copy))
         \/ DeletesDetails(p, i) \/ SavesDetails(p, i)
  <1>1. Saves(p, i) \/ SavesSiblings(p, i) => \E copy : SavesRecord(copy)
    BY DEF Saves, SavesSiblings
  <1>2. ReadsRelease(p, i) \/ ReadsFallback(p, i) => OnlyPages \/ \E record : ReadsToWrite(record)
    BY DEF ReadsRelease, ReadsFallback
  <1>3. \/ IsStopped(p, i) \/ FetchesRelease(p, i) \/ FetchesGroupOfRelease(p, i) \/ BeginsGroup(p, i)
        \/ ReadsSiblings(p, i) \/ FetchesGroup(p, i) \/ (\E r \in Releases : TriesSibling(p, i, r))
        \/ HasNoSibling(p, i)
        => OnlyPages
    BY DEF IsStopped, FetchesRelease, FetchesGroupOfRelease, BeginsGroup, ReadsSiblings, FetchesGroup,
           TriesSibling, HasNoSibling
  <1>4. \/ FetchesLyrics(p, i) \/ ReadsImage(p, i) \/ ReadsDetails(p, i) \/ BypassesMusicBrainz(p, i)
        \/ AsksMusicBrainz(p, i) \/ ReadsForSync(p, i) \/ AsksDiscogs(p, i)
        => OnlyPages
    BY DEF FetchesLyrics, ReadsImage, ReadsDetails, BypassesMusicBrainz, AsksMusicBrainz, ReadsForSync,
           AsksDiscogs
  <1>5. QED
    BY <1>1, <1>2, <1>3, <1>4 DEF WorksOn

LEMMA WorksOnCounts ==
  ASSUME Counted, NEW p, NEW i, WorksOn(p, i)
  PROVE  Counted'
  <1>1. CASE OnlyPages
    BY <1>1, CountsOn DEF OnlyPages
  <1>2. CASE LookupCannotReach(p, i)
    <2>1. failures < MaxFailures /\ failures' = failures + 1 /\ intact' \in BOOLEAN
      BY <1>2 DEF LookupCannotReach
    <2>2. QED
      BY <2>1, CountsOn
  <1>3. ASSUME NEW record, ReadsToWrite(record)
        PROVE  Counted'
    BY <1>3, CountsOn DEF ReadsToWrite
  <1>4. CASE Deletes(p, i)
    BY <1>4, CountsOn DEF Deletes, DeletesRecord
  <1>5. ASSUME NEW copy, SavesRecord(copy)
        PROVE  Counted'
    BY <1>5, CountsOn DEF SavesRecord
  <1>6. CASE DeletesDetails(p, i) \/ SavesDetails(p, i)
    BY <1>6, CountsOn DEF DeletesDetails, SavesDetails
  <1>7. QED
    BY <1>1, <1>2, <1>3, <1>4, <1>5, <1>6, WorkingReaches

LEMMA PageStepCounts ==
  ASSUME Counted, NEW p, PageStep(p)
  PROVE  Counted'
  <1>1. CASE BeginsPage(p)
    BY <1>1, CountsOn DEF BeginsPage, OnlyPages, ReadsToWrite
  <1>2. CASE PageCannotRead(p) \/ TimesOut(p) \/ PageCannotWrite(p)
    BY <1>2, CountsOn DEF PageCannotRead, TimesOut, PageCannotWrite, Counted
  <1>3. CASE EndsLookups(p)
    BY <1>3, CountsOn DEF EndsLookups, OnlyPages
  <1>4. CASE DeletesAtEnd(p)
    BY <1>4, CountsOn DEF DeletesAtEnd, DeletesRecord
  <1>5. CASE SavesAtEnd(p)
    BY <1>5, CountsOn DEF SavesAtEnd, SavesRecord
  <1>6. QED
    BY <1>1, <1>2, <1>3, <1>4, <1>5, WorksOnCounts DEF PageStep

-----------------------------------------------------------------------------
(* The plans hold.                                                         *)

\* What turns a page changes nothing of how items are shared and answered.
LEMMA SharesStay ==
  ASSUME DOMAIN pages' = DOMAIN pages, \A p \in DOMAIN pages : SameShare(pages[p], pages'[p]),
         UNCHANGED <<request, tasks>>, PagesShare, TasksAnswer, RequestHasTask
  PROVE  PagesShare' /\ TasksAnswer' /\ RequestHasTask'
  <1>1. PagesShare'
    BY DEF PagesShare, SameShare
  <1>2. ASSUME NEW t \in DOMAIN tasks
        PROVE  LookedUp(t)' = LookedUp(t)
    <2>1. PagesOf(t)' = PagesOf(t)
      BY DEF PagesOf, SameShare
    <2>2. \A p \in PagesOf(t) : DOMAIN pages'[p].lookups = DOMAIN pages[p].lookups
      BY DEF PagesOf, SameShare
    <2>3. QED
      BY <2>1, <2>2 DEF LookedUp
  <1>3. TasksAnswer'
    BY <1>2 DEF TasksAnswer
  <1>4. RequestHasTask'
    BY DEF RequestHasTask
  <1>5. QED
    BY <1>1, <1>3, <1>4

LEMMA PageStepPlans ==
  ASSUME LookupsSure, PlansHold, NEW p \in DOMAIN pages, PageStep(p), UNCHANGED <<request, tasks>>
  PROVE  PlansHold'
  <1>1. /\ PageGoesOn(pages[p]) /\ pages \in Seq(Page) /\ Counted
        /\ \A q \in DOMAIN pages : PageGoesOn(pages[q])
    BY DEF PlansHold, PagesGoOn
  <1>2. PICK new : /\ pages' = [pages EXCEPT ![p] = new]
                   /\ SameShare(pages[p], new) /\ PageGoesOn(new)
    BY <1>1, PageStepTurns DEF TurnsPage
  <1>3. DOMAIN pages' = DOMAIN pages /\ \A q \in DOMAIN pages : pages'[q] = IF q = p THEN new ELSE pages[q]
    BY <1>2
  <1>4. LookupsSure'
    BY PageStepSure
  <1>5. new \in Page
    BY <1>3, <1>4 DEF LookupsSure, PagesSure, PageSure
  <1>6. pages' \in Seq(Page)
    BY <1>1, <1>2, <1>5
  <1>7. PagesGoOn'
    BY <1>1, <1>2, <1>3, <1>6, PageStepCounts DEF PagesGoOn
  <1>8. \A q \in DOMAIN pages : SameShare(pages[q], pages'[q])
    BY <1>2, <1>3 DEF SameShare
  <1>9. PagesShare' /\ TasksAnswer' /\ RequestHasTask'
    BY <1>3, <1>8, SharesStay DEF PlansHold
  <1>10. QED
    BY <1>7, <1>9 DEF PlansHold

\* A chunk has no more items than it is long.
LEMMA FewInSeq ==
  ASSUME NEW S, NEW s \in Seq(S)
  PROVE  Cardinality(ToSet(s)) \in Nat /\ Cardinality(ToSet(s)) <= Len(s)
  <1>1. Len(s) \in Nat /\ DOMAIN s = 1 .. Len(s)
    OBVIOUS
  <1>2. s \in [1 .. Len(s) -> ToSet(s)] /\ \A x \in ToSet(s) : \E n \in 1 .. Len(s) : s[n] = x
    BY <1>1 DEF ToSet
  <1>3. ExistsSurjection(1 .. Len(s), ToSet(s))
    BY <1>2 DEF ExistsSurjection, Surjection
  <1>4. Cardinality(ToSet(s)) <= Len(s)
    BY <1>1, <1>3, FS_SurjCardinalityBound
  <1>5. IsFiniteSet(ToSet(s))
    BY <1>1, <1>3, FS_NatSurjection
  <1>6. QED
    BY <1>4, <1>5, FS_CardinalityType

\* The pages that a planner queues.
Queued(chunks, given) ==
    [p \in 1 .. Len(pages) + Len(chunks) |->
        IF p \in DOMAIN pages THEN pages[p]
        ELSE NewPage(Len(tasks) + 1, request.ask.kind, Pending \cap ToSet(chunks[p - Len(pages)]), given)]

LEMMA QueuedPages ==
  ASSUME PlansTyped, PlansHold, QueuesTask
  PROVE  \E chunks : \E given \in GivenLinks(request.ask.kind) :
            Packed(chunks, Pending) /\ pages' = Queued(chunks, given)
  <1>1. request \in Plan /\ request.ask \in Requests
    BY ReadingIsPlan DEF QueuesTask, IsPlanned, Plan
  <1>2. IsFiniteSet(request.ask.items) /\ request.ask.items \subseteq Items
    BY <1>1, RequestsAssumption, ItemsOfKinds DEF Kinds, Items
  <1>3. IsFiniteSet(Pending) /\ Pending \subseteq Items
    BY <1>2, FS_Difference DEF Pending
  <1>4. \A chunks \in Chunks(request.ask, Pending) : Packed(chunks, Pending)
    BY <1>3, ChunksArePacked
  <1>5. PICK chunks \in Chunks(request.ask, Pending), given \in GivenLinks(request.ask.kind) :
             pages' = Queued(chunks, given)
    BY DEF QueuesTask, Queued
  <1>6. QED
    BY <1>4, <1>5

LEMMA QueuesTaskPlans ==
  ASSUME PlansTyped, PlansHold, QueuesTask
  PROVE  PlansHold'
  <1> DEFINE n == Len(pages)
             kind == request.ask.kind
  <1>a. PICK t0 : t0 = Len(tasks) + 1
    OBVIOUS
  <1>b. PICK chunks : \E given \in GivenLinks(kind) : Packed(chunks, Pending) /\ pages' = Queued(chunks, given)
    BY QueuedPages
  <1>1. PICK given \in GivenLinks(kind) : Packed(chunks, Pending) /\ pages' = Queued(chunks, given)
    BY <1>b
  <1> DEFINE m == Len(chunks)
             Part(q) == Pending \cap ToSet(chunks[q - n])
  <1>2. /\ pages \in Seq(Page) /\ n \in Nat /\ DOMAIN pages = 1 .. n
        /\ chunks \in Seq(Seq(Items)) /\ m \in Nat /\ DOMAIN chunks = 1 .. m
        /\ tasks \in Seq(Task) /\ t0 \in Nat /\ t0 # 0 /\ DOMAIN tasks = 1 .. t0 - 1 /\ t0 \notin DOMAIN tasks
    BY <1>a, <1>1 DEF PlansHold, PagesGoOn, Packed, PlansTyped
  <1>3. request \in Plan /\ request.at = "reading" /\ request.ask \in Requests
    BY ReadingIsPlan DEF QueuesTask, IsPlanned, Plan
  <1>4. kind \in Kinds /\ Pending \subseteq ItemsOf[kind] /\ given \in LinkStates \cup {"unread"}
    BY <1>1, <1>3, RequestsAssumption DEF Pending, GivenLinks, LinkStates
  <1> DEFINE P2 == [p \in 1 .. n + m |-> IF p \in DOMAIN pages THEN pages[p] ELSE NewPage(t0, kind, Part(p), given)]
  <1>5. pages' = P2
    BY <1>a, <1>1 DEF Queued
  <1>6. /\ DOMAIN P2 = 1 .. n + m /\ DOMAIN pages \subseteq DOMAIN P2
        /\ \A q \in DOMAIN pages : P2[q] = pages[q]
        /\ \A q \in (1 .. n + m) \ DOMAIN pages : P2[q] = NewPage(t0, kind, Part(q), given)
    BY <1>2
  <1>7. ASSUME NEW q \in (1 .. n + m) \ DOMAIN pages
        PROVE  /\ P2[q] \in Page /\ PageGoesOn(P2[q]) /\ P2[q].task = t0 /\ DOMAIN P2[q].lookups = Part(q)
               /\ q - n \in DOMAIN chunks /\ Part(q) = ToSet(chunks[q - n])
    <2> DEFINE items == Part(q)
               page == NewPage(t0, kind, items, given)
    <2>1. q - n \in DOMAIN chunks
      BY <1>2
    <2>2. items = ToSet(chunks[q - n])
      BY <1>1, <2>1 DEF Packed
    <2>3. items \subseteq ItemsOf[kind]
      BY <1>4
    <2>4. P2[q] = page
      BY <1>6
    <2> HIDE DEF P2, items, n, m, kind
    <2>5. PageSure(page)
      BY <1>2, <1>4, <2>3, NewPageSure
    <2>6. page.task = t0 /\ DOMAIN page.lookups = items /\ page.at = "queued" /\ page.outcome = "none"
      BY DEF NewPage
    <2> HIDE DEF page
    <2>7. page \in Page /\ PageGoesOn(page)
      BY <2>5, <2>6 DEF PageSure, PageGoesOn
    <2>8. QED
      BY <2>1, <2>2, <2>4, <2>6, <2>7 DEF items
  <1> HIDE DEF P2, Part, kind, n, m
  <1>8. P2 \in Seq(Page)
    <2>1. \A q \in 1 .. n + m : P2[q] \in Page
      BY <1>2, <1>6, <1>7
    <2>2. P2 \in [1 .. n + m -> Page]
      BY <2>1 DEF P2
    <2>3. n + m \in Nat
      BY <1>2
    <2>4. QED
      BY <2>2, <2>3
  <1>9. /\ tasks' = Append(tasks, [key |-> TaskKey(request.contract, request.ask), kept |-> TRUE,
                                   asked |-> request.ask.items, resolved |-> request.resolved])
        /\ request' = [request EXCEPT !.at = "told", !.task = t0, !.unseen = {}]
        /\ UNCHANGED <<failures, intact>>
    BY <1>a DEF QueuesTask
  <1>10. /\ DOMAIN tasks' = DOMAIN tasks \cup {t0} /\ \A t \in DOMAIN tasks : tasks'[t] = tasks[t]
         /\ tasks'[t0] = [key |-> TaskKey(request.contract, request.ask), kept |-> TRUE,
                          asked |-> request.ask.items, resolved |-> request.resolved]
    BY <1>a, <1>2, <1>9
  <1>11. PagesGoOn'
    <2>1. Counted'
      BY <1>9 DEF PlansHold, PagesGoOn, Counted
    <2>2. \A q \in DOMAIN P2 : PageGoesOn(P2[q])
      BY <1>6, <1>7 DEF PlansHold, PagesGoOn
    <2>3. QED
      BY <1>5, <1>8, <2>1, <2>2 DEF PagesGoOn
  <1>12. PagesShare'
    <2>1. ASSUME NEW q \in DOMAIN P2
          PROVE  P2[q].task \in DOMAIN tasks' /\ Cardinality(DOMAIN P2[q].lookups) <= SubtaskItemLimit
      <3>1. CASE q \in DOMAIN pages
        BY <1>6, <1>10, <3>1 DEF PlansHold, PagesShare
      <3>2. CASE q \notin DOMAIN pages
        <4> DEFINE chunk == chunks[q - n]
        <4>1. /\ P2[q].task = t0 /\ DOMAIN P2[q].lookups = ToSet(chunk) /\ q - n \in DOMAIN chunks
          BY <1>6, <1>7, <3>2
        <4>2. chunk \in Seq(Items) /\ Len(chunk) <= SubtaskItemLimit
          BY <1>1, <1>2, <4>1 DEF Packed
        <4> HIDE DEF chunk
        <4>3. Cardinality(ToSet(chunk)) \in Nat /\ Cardinality(ToSet(chunk)) <= Len(chunk) /\ Len(chunk) \in Nat
          BY <4>2, FewInSeq
        <4>4. Cardinality(ToSet(chunk)) <= SubtaskItemLimit
          BY <4>2, <4>3, LimitIsPositive
        <4>5. QED
          BY <1>10, <4>1, <4>4
      <3>3. QED
        BY <3>1, <3>2
    <2>2. ASSUME NEW a \in DOMAIN P2, NEW b \in DOMAIN P2, a # b, P2[a].task = P2[b].task
          PROVE  DOMAIN P2[a].lookups \cap DOMAIN P2[b].lookups = {}
      <3>1. CASE a \in DOMAIN pages /\ b \in DOMAIN pages
        BY <1>6, <2>2, <3>1 DEF PlansHold, PagesShare
      <3>2. CASE a \notin DOMAIN pages /\ b \notin DOMAIN pages
        <4> DEFINE x == a - n
                   y == b - n
        <4>1. /\ x \in DOMAIN chunks /\ y \in DOMAIN chunks /\ DOMAIN P2[a].lookups = ToSet(chunks[x])
              /\ DOMAIN P2[b].lookups = ToSet(chunks[y])
          BY <1>6, <1>7, <3>2
        <4>2. x # y
          BY <1>2, <1>6, <2>2
        <4> HIDE DEF x, y
        <4>3. QED
          BY <1>1, <4>1, <4>2 DEF Packed
      <3>3. ASSUME NEW q \in DOMAIN P2
            PROVE  P2[q].task = t0 <=> q \notin DOMAIN pages
        BY <1>2, <1>6, <1>7 DEF PlansHold, PagesShare
      <3>4. QED
        BY <2>2, <3>1, <3>2, <3>3
    <2>3. QED
      BY <1>5, <2>1, <2>2 DEF PagesShare
  <1>13. \A q \in DOMAIN P2 : P2[q].task = t0 <=> q \notin DOMAIN pages
    BY <1>2, <1>6, <1>7 DEF PlansHold, PagesShare
  <1>14. ASSUME NEW t \in DOMAIN tasks
         PROVE  LookedUp(t)' = LookedUp(t)
    <2>1. PagesOf(t)' = PagesOf(t)
      BY <1>2, <1>5, <1>6, <1>13 DEF PagesOf
    <2>2. \A q \in PagesOf(t) : pages'[q] = pages[q]
      BY <1>5, <1>6 DEF PagesOf
    <2>3. QED
      BY <2>1, <2>2 DEF LookedUp
  <1>15. Pending \subseteq LookedUp(t0)'
    <2> SUFFICES ASSUME NEW i \in Pending
                 PROVE  i \in LookedUp(t0)'
      OBVIOUS
    <2>1. PICK k \in DOMAIN chunks : i \in ToSet(chunks[k])
      BY <1>1 DEF Packed
    <2> DEFINE q == n + k
    <2>2. q \in (1 .. n + m) \ DOMAIN pages /\ q - n = k
      BY <1>2, <2>1
    <2> HIDE DEF q
    <2>3. P2[q].task = t0 /\ i \in DOMAIN P2[q].lookups
      BY <1>7, <2>1, <2>2
    <2>4. q \in PagesOf(t0)'
      BY <1>5, <1>6, <2>2, <2>3 DEF PagesOf
    <2>5. QED
      BY <1>5, <2>3, <2>4 DEF LookedUp
  <1>16. TasksAnswer'
    <2>1. ASSUME NEW t \in DOMAIN tasks
          PROVE  /\ tasks'[t].asked \subseteq DOMAIN tasks'[t].resolved \cup LookedUp(t)'
                 /\ DOMAIN tasks'[t].resolved \subseteq tasks'[t].asked
                 /\ tasks'[t].key[1] = "v1" => DOMAIN tasks'[t].resolved = {}
                 /\ NamesAll(tasks'[t].key[2]) => tasks'[t].asked = tasks'[t].key[3]
      BY <1>10, <1>14 DEF PlansHold, TasksAnswer
    <2>2. /\ tasks'[t0].asked \subseteq DOMAIN tasks'[t0].resolved \cup LookedUp(t0)'
          /\ DOMAIN tasks'[t0].resolved \subseteq tasks'[t0].asked
          /\ tasks'[t0].key[1] = "v1" => DOMAIN tasks'[t0].resolved = {}
          /\ NamesAll(tasks'[t0].key[2]) => tasks'[t0].asked = tasks'[t0].key[3]
      <3>1. /\ tasks'[t0].key = <<request.contract, request.ask.kind, Named(request.ask)>>
            /\ tasks'[t0].asked = request.ask.items /\ tasks'[t0].resolved = request.resolved
        BY <1>10 DEF TaskKey
      <3>2. /\ request.contract = "v1" => DOMAIN request.resolved = {}
            /\ DOMAIN request.resolved \subseteq request.ask.items
        BY <1>3 DEF PlansHold, RequestHasTask
      <3>3. request.ask.items \subseteq DOMAIN request.resolved \cup LookedUp(t0)'
        BY <1>15 DEF Pending
      <3>4. NamesAll(request.ask.kind) => Named(request.ask) = request.ask.items
        BY DEF Named
      <3>5. QED
        BY <3>1, <3>2, <3>3, <3>4
    <2>3. QED
      BY <1>10, <2>1, <2>2 DEF TasksAnswer
  <1>17. RequestHasTask'
    <2>1. /\ request'.at = "told" /\ request'.task = t0 /\ request'.contract = request.contract
          /\ request'.ask = request.ask /\ request'.resolved = request.resolved
      BY <1>3, <1>9 DEF Plan
    <2>2. request.contract = "v1" => DOMAIN request.resolved = {}
      BY <1>3 DEF PlansHold, RequestHasTask
    <2>3. QED
      BY <1>2, <1>10, <2>1, <2>2 DEF RequestHasTask, TaskKey
  <1>18. QED
    BY <1>11, <1>12, <1>16, <1>17 DEF PlansHold

\* Steps of planners leave the pages alone.
LEMMA PlansStay ==
  ASSUME PlansHold, UNCHANGED lookupVars, DOMAIN tasks' = DOMAIN tasks,
         \A t \in DOMAIN tasks : /\ tasks'[t].key = tasks[t].key /\ tasks'[t].asked = tasks[t].asked
                                 /\ tasks'[t].resolved = tasks[t].resolved,
         RequestHasTask'
  PROVE  PlansHold'
  <1>1. PagesGoOn' /\ PagesShare'
    BY DEF PlansHold, PagesGoOn, PagesShare, Counted, lookupVars
  <1>2. TasksAnswer'
    BY DEF PlansHold, TasksAnswer, LookedUp, PagesOf, lookupVars
  <1>3. QED
    BY <1>1, <1>2 DEF PlansHold

LEMMA InitPlans ==
  ASSUME Init
  PROVE  PlansHold
  <1>1. /\ pages = <<>> /\ tasks = <<>> /\ failures = 0 /\ intact = TRUE /\ request.at = "idle"
    BY DEF Init, InitLookups, NoRequest
  <1>2. pages \in Seq(Page) /\ DOMAIN pages = {} /\ DOMAIN tasks = {}
    BY <1>1
  <1>3. Counted
    BY <1>1, FailuresAssumption DEF Counted
  <1>4. QED
    BY <1>1, <1>2, <1>3 DEF PlansHold, PagesGoOn, PagesShare, TasksAnswer, RequestHasTask

\* Counting a failure of a planner's request to the cache.
LEMMA PartitionFailsPlans ==
  ASSUME PlansTyped, PlansHold, NEW i \in Items, PartitionFails(i)
  PROVE  PlansHold'
  <1>1. Counted'
    BY CountsOn DEF PartitionFails, PlansHold, PagesGoOn, Counted
  <1>2. PagesGoOn' /\ PagesShare' /\ TasksAnswer'
    BY <1>1 DEF PartitionFails, PlansHold, PagesGoOn, PagesShare, TasksAnswer, LookedUp, PagesOf
  <1>3. RequestHasTask'
    <2>1. request \in Plan /\ request.at = "reading"
      BY ReadingIsPlan DEF PartitionFails
    <2>2. request.contract = "v1" => request.unread = {} /\ DOMAIN request.resolved = {}
      BY <2>1 DEF PlansHold, RequestHasTask
    <2>3. request' = [request EXCEPT !.unread = request.unread \ Record(i),
                                     !.unseen = request.unseen \cup (Record(i) \cap request.unread)]
      BY DEF PartitionFails
    <2>4. /\ request'.at = "reading" /\ request'.task = request.task /\ request'.contract = request.contract
          /\ request'.ask = request.ask
          /\ request'.resolved = request.resolved /\ request'.unread \subseteq request.unread
      BY <2>1, <2>3 DEF Plan
    <2>5. QED
      BY <2>1, <2>2, <2>4 DEF PlansHold, RequestHasTask
  <1>4. QED
    BY <1>2, <1>3 DEF PlansHold

LEMMA PartitionReadsPlans ==
  ASSUME PlansTyped, PlansHold, NEW i \in Items, PartitionReads(i)
  PROVE  PlansHold'
  <1> DEFINE unread == request.unread \ Record(i)
             resolved == ReadInto(request.resolved, Hits(i))
             unseen == request.unseen \cup {x \in Record(i) \cap request.unread : IsBeingWritten({x})}
  <1>1. request \in Plan /\ request.at = "reading" /\ i \in request.unread
    BY ReadingIsPlan DEF PartitionReads
  <1>2. request' = [request EXCEPT !.unread = unread, !.resolved = resolved, !.unseen = unseen]
    BY DEF PartitionReads, ReadInto, Hits
  <1>a. unread \subseteq request.unread /\ DOMAIN resolved \subseteq DOMAIN request.resolved \cup request.unread
    BY DEF ReadInto, Hits
  <1> HIDE DEF unread, resolved, unseen
  <1>3. /\ request'.at = "reading" /\ request'.task = request.task /\ request'.contract = request.contract
        /\ request'.ask = request.ask /\ request'.unread = unread /\ request'.resolved = resolved
    BY <1>1, <1>2 DEF Plan
  <1>4. /\ request.task = 0 /\ request.contract # "v1"
        /\ request.unread \subseteq request.ask.items /\ DOMAIN request.resolved \subseteq request.ask.items
    BY <1>1 DEF PlansHold, RequestHasTask
  <1>5. RequestHasTask'
    BY <1>a, <1>3, <1>4 DEF RequestHasTask
  <1>6. QED
    BY <1>5, PlansStay DEF PartitionReads

LEMMA PlansGoOn ==
  ASSUME AssetsSure, PlansHold, [Next]_vars
  PROVE  PlansHold'
  <1>0. LookupsSure /\ PlansTyped
    BY DEF AssetsSure
  <1>1. ASSUME NEW contract \in {"v1", "v2"}, NEW ask \in Requests, Asked(contract, ask)
        PROVE  PlansHold'
    <2>1. /\ request'.at = "reading" /\ request'.task = 0 /\ request'.contract = contract
          /\ request'.ask = ask /\ request'.unread = (IF contract = "v2" THEN ask.items ELSE {})
          /\ request'.resolved = <<>>
      BY <1>1 DEF Asked
    <2>2. RequestHasTask'
      BY <2>1, NoCopy DEF RequestHasTask
    <2>3. QED
      BY <1>1, <2>2, PlansStay DEF Asked
  <1>2. ASSUME NEW i \in Items, PartitionReads(i) \/ PartitionFails(i)
        PROVE  PlansHold'
    BY <1>0, <1>2, PartitionReadsPlans, PartitionFailsPlans
  <1>3. CASE AnswersAtOnce
    <2>1. request \in Plan /\ request.at = "reading" /\ request' = [request EXCEPT !.at = "told"]
          /\ request.task = 0 /\ request.ask.items \subseteq DOMAIN request.resolved
      BY <1>0, <1>3, ReadingIsPlan DEF AnswersAtOnce, IsPlanned, Pending, PlansHold, RequestHasTask
    <2>2. /\ request'.at = "told" /\ request'.task = 0 /\ request'.ask = request.ask
          /\ request'.resolved = request.resolved /\ request'.contract = request.contract
      BY <2>1 DEF Plan
    <2>a. request.contract = "v1" => DOMAIN request.resolved = {}
      BY <2>1 DEF PlansHold, RequestHasTask
    <2>3. RequestHasTask'
      BY <2>1, <2>2, <2>a DEF RequestHasTask
    <2>4. QED
      BY <1>3, <2>3, PlansStay DEF AnswersAtOnce
  <1>4. CASE QueuesTask
    BY <1>0, <1>4, QueuesTaskPlans
  <1>5. ASSUME NEW t \in DOMAIN tasks, JoinsTask(t)
        PROVE  PlansHold'
    <2>1. request \in Plan /\ t # 0
      BY <1>0, <1>5, ReadingIsPlan DEF JoinsTask, IsPlanned, PlansTyped
    <2>2. /\ request'.at = "told" /\ request'.task = t /\ request'.ask = request.ask
          /\ request'.contract = request.contract /\ tasks[t].key = TaskKey(request.contract, request.ask)
          /\ request'.resolved = request.resolved
      BY <1>5, <2>1 DEF JoinsTask, IsShared, Plan
    <2>a. request.contract = "v1" => DOMAIN request.resolved = {}
      BY <1>5 DEF JoinsTask, IsPlanned, PlansHold, RequestHasTask
    <2>3. RequestHasTask'
      BY <1>5, <2>1, <2>2, <2>a DEF JoinsTask, RequestHasTask
    <2>4. QED
      BY <1>5, <2>3, PlansStay DEF JoinsTask
  <1>6. ASSUME NEW t \in DOMAIN tasks, Forgets(t)
        PROVE  PlansHold'
    <2>1. tasks' = [tasks EXCEPT ![t] = [tasks[t] EXCEPT !.kept = FALSE]] /\ tasks[t] \in Task
      BY <1>0, <1>6 DEF Forgets, PlansTyped
    <2> DEFINE new == [tasks[t] EXCEPT !.kept = FALSE]
    <2>2. new.key = tasks[t].key /\ new.asked = tasks[t].asked /\ new.resolved = tasks[t].resolved
      BY <2>1 DEF Task
    <2>a. tasks' = [tasks EXCEPT ![t] = new]
      BY <2>1
    <2> HIDE DEF new
    <2>3. /\ DOMAIN tasks' = DOMAIN tasks
          /\ \A u \in DOMAIN tasks : /\ tasks'[u].key = tasks[u].key /\ tasks'[u].asked = tasks[u].asked
                                    /\ tasks'[u].resolved = tasks[u].resolved
      BY <2>a, <2>2
    <2>4. RequestHasTask'
      BY <1>6, <2>3 DEF Forgets, PlansHold, RequestHasTask
    <2>5. QED
      BY <1>6, <2>3, <2>4, PlansStay DEF Forgets
  <1>7. ASSUME NEW p \in DOMAIN pages, PageStep(p), UNCHANGED <<request, tasks>>
        PROVE  PlansHold'
    BY <1>0, <1>7, PageStepPlans
  <1>8. CASE UNCHANGED <<pages, failures, intact, request, tasks>>
    BY <1>8 DEF PlansHold, PagesGoOn, PagesShare, TasksAnswer, RequestHasTask, LookedUp, PagesOf, Counted
  <1>9. QED
    BY <1>1, <1>2, <1>3, <1>4, <1>5, <1>6, <1>7, <1>8 DEF Next, Tick, vars, lookupVars

\* The pages of a task share out what it has to look up, and who is told of a task is
\* told of one that answers.
THEOREM PlansAlwaysHold == Spec => []PlansHold
  <1>1. Init => PlansHold
    BY InitPlans
  <1>2. AssetsSure /\ PlansHold /\ [Next]_vars => PlansHold'
    BY PlansGoOn
  <1>3. QED
    BY <1>1, <1>2, AssetsStaySure, PTL DEF Spec

\* Under the first contract each item that is asked for is looked up by the task that the
\* client is given, or the client whose planner queued that task did not list it and its
\* key does not name what is listed.
LegacyLeavesOutUnlisted ==
    request.at = "told" /\ request.contract = "v1" =>
        LET t == request.task
        IN  \A i \in request.ask.items :
                /\ t # 0
                /\ \/ \E p \in PagesOf(t) : i \in DOMAIN pages[p].lookups
                   \/ ~NamesAll(request.ask.kind) /\ i \notin tasks[t].asked

\* A client of the first contract who is given a task that was queued for another gets
\* all that it asked for of new releases and of artists, whose keys name everything, and
\* of the other kinds what the first one listed as well, however many tasks, pages and
\* planners came before (legacyAssetPlanner.ts, backgroundTaskWorkers.ts,
\* withTaskKeyNamespace).
THEOREM LegacyTasksAnswer == Spec => []LegacyLeavesOutUnlisted
  <1>1. AssetsSure /\ PlansHold => LegacyLeavesOutUnlisted
    <2> SUFFICES ASSUME AssetsSure, PlansHold, request.at = "told", request.contract = "v1",
                        NEW i \in request.ask.items
                 PROVE  /\ request.task # 0
                        /\ \/ \E p \in PagesOf(request.task) : i \in DOMAIN pages[p].lookups
                           \/ ~NamesAll(request.ask.kind) /\ i \notin tasks[request.task].asked
      BY DEF LegacyLeavesOutUnlisted
    <2> DEFINE t == request.task
    <2>1. request.task # 0
      BY DEF PlansHold, RequestHasTask
    <2>2. /\ t \in DOMAIN tasks
          /\ tasks[t].key = <<"v1", request.ask.kind, Named(request.ask)>>
      BY <2>1 DEF PlansHold, RequestHasTask, TaskKey
    <2>3. /\ tasks[t].asked \subseteq LookedUp(t)
          /\ NamesAll(request.ask.kind) => tasks[t].asked = request.ask.items
      BY <2>2 DEF PlansHold, TasksAnswer, Named
    <2>4. CASE i \in tasks[t].asked
      BY <2>1, <2>3, <2>4 DEF LookedUp
    <2>5. CASE i \notin tasks[t].asked
      BY <2>1, <2>3, <2>5
    <2>6. QED
      BY <2>4, <2>5
  <1>2. QED
    BY <1>1, AssetsStaySure, PlansAlwaysHold, PTL

\* However many items are asked for, and however the releases of a group are packed
\* together: no page has more than the limit, no item is in two pages of a task, and
\* everything has its type (backgroundTaskWorkers.ts SUBTASK_ITEM_LIMIT,
\* chunkReleaseGroupReleasePageEntries).
THEOREM PagesAlwaysBounded == Spec => []PagesAreBounded
  <1>1. AssetsSure /\ PlansHold => PagesAreBounded
    <2> SUFFICES ASSUME AssetsSure, PlansHold
                 PROVE  PagesAreBounded
      OBVIOUS
    <2>1. CacheSure /\ PagesSure /\ PlansTyped /\ PagesGoOn /\ PagesShare /\ RequestHasTask
      BY DEF AssetsSure, LookupsSure, PlansHold
    <2>2. ASSUME NEW p \in DOMAIN pages
          PROVE  /\ pages[p].kind \in Kinds /\ DOMAIN pages[p].lookups \subseteq ItemsOf[pages[p].kind]
                 /\ pages[p].at \in {"queued", "work", "delete", "save", "done"}
                 /\ pages[p].outcome \in {"none", "completed", "failed"}
                 /\ pages[p].at = "done" => pages[p].outcome # "none"
                 /\ \A i \in DOMAIN pages[p].lookups :
                       /\ pages[p].lookups[i].misses \subseteq Values
                       /\ pages[p].lookups[i].result \in State
                       /\ pages[p].lookups[i].asOf \in 0 .. MaxTime
                       /\ pages[p].outcome = "completed" => pages[p].lookups[i].at = "done"
      <3> DEFINE page == pages[p]
      <3>1. page \in Page /\ DOMAIN page.lookups \subseteq ItemsOf[page.kind] /\ PageGoesOn(page)
        BY <2>1 DEF PagesSure, PageSure, PagesGoOn
      <3> HIDE DEF page
      <3>2. \A i \in DOMAIN page.lookups : page.lookups[i] \in Lookup
        BY <3>1 DEF Page
      <3>3. \A i \in DOMAIN page.lookups : /\ page.lookups[i].misses \subseteq Values
                                           /\ page.lookups[i].result \in State
                                           /\ page.lookups[i].asOf \in 0 .. MaxTime
        BY <3>2 DEF Lookup, Times
      <3>4. /\ page.kind \in Kinds /\ page.at \in {"queued", "work", "delete", "save", "done"}
            /\ page.outcome \in {"none", "completed", "failed"}
        BY <3>1 DEF Page
      <3>5. QED
        BY <3>1, <3>3, <3>4 DEF PageGoesOn, page
    <2>3. LookupsTypeOK
      BY <2>1, <2>2 DEF LookupsTypeOK, CacheSure, PagesGoOn, Counted, Times
    <2>4. request.at \in {"idle", "reading", "told"}
      BY <2>1 DEF PlansTyped, NoRequest, Plan
    <2>5. \A t \in DOMAIN tasks : tasks[t].kept \in BOOLEAN /\ DOMAIN tasks[t].resolved \subseteq tasks[t].asked
      <3>1. \A t \in DOMAIN tasks : tasks[t] \in Task
        BY <2>1 DEF PlansTyped
      <3>2. TasksAnswer
        BY DEF PlansHold
      <3>3. QED
        BY <3>1, <3>2 DEF Task, TasksAnswer
    <2>6. TypeOK
      BY <2>1, <2>3, <2>4, <2>5 DEF TypeOK, PagesShare
    <2>7. QED
      BY <2>1, <2>6 DEF PagesAreBounded, PagesShare, PagesOf
  <1>2. QED
    BY <1>1, AssetsStaySure, PlansAlwaysHold, PTL

-----------------------------------------------------------------------------
(* What is found is kept.  A page and each of its lookups may hold a copy  *)
(* of a record, which it read to write it back: these are the hands the    *)
(* cached states pass through.                                             *)

HandCopy(page, i) == IF i = Nothing THEN page.copy ELSE page.lookups[i].copy

HandWrites(page, i) == (IF i = Nothing THEN page.at ELSE page.lookups[i].at) = "save"

Hands(P) == UNION {{<<p, i>> : i \in DOMAIN P[p].lookups \cup {Nothing}} : p \in DOMAIN P}

CopyAt(P, h) == HandCopy(P[h[1]], h[2])
WritesAt(P, h) == HandWrites(P[h[1]], h[2])

\* What a writer deleted it has in hand, to save it.
SafeItems(P, st) ==
    {x \in Items : \/ st[x] # Absent
                   \/ \E h \in Hands(P) : /\ WritesAt(P, h) /\ x \in DOMAIN CopyAt(P, h)
                                          /\ CopyAt(P, h)[x] # Absent}

\* No copy lacks what is cached, and a writer is alone with what it writes, but for an
\* artist's image, which is written without being read.
CopiesKnow(P, st) ==
    \A h \in Hands(P) : \A x \in DOMAIN CopyAt(P, h) :
        /\ x \in Items
        /\ st[x] # Absent \/ x \in Artists => CopyAt(P, h)[x] # Absent

WritersAreAlone(P) ==
    \A h \in Hands(P) : WritesAt(P, h) =>
        \A k \in Hands(P) : k # h =>
            DOMAIN CopyAt(P, h) \cap DOMAIN CopyAt(P, k) \subseteq Artists

HandsHold(P, st) == CopiesKnow(P, st) /\ WritersAreAlone(P)

\* What a lookup holds and what it found, of which the items of safe are not lost.
LookupKept(i, lookup, safe) ==
    /\ lookup.at \in {"delete", "save"} => DOMAIN lookup.copy = Written(i)
    /\ i \in Releases /\ lookup.at \in {"fetch", "fetchGroup"} => DOMAIN lookup.copy = Record(i)
    /\ i \in Artists /\ lookup.at \in ArtistStages \cup {"start"} => DOMAIN lookup.copy = {}
    /\ i \in Releases \cup Artists /\ lookup.at \in {"delete", "save"} => lookup.copy[i] # Absent
    /\ i \in Releases \cup Artists /\ lookup.at = "done" => i \in safe
    /\ i \in Tracks => lookup.at \in {"start", "done", "failed"}

FoundInCopy(page) ==
    /\ DOMAIN page.copy = UNION {Record(i) : i \in DOMAIN page.lookups}
    /\ \A i \in DOMAIN page.lookups :
          page.lookups[i].at \in {"siblings", "done"} => page.copy[i] # Absent

PageKept(page, safe) ==
    /\ \A i \in DOMAIN page.lookups : LookupKept(i, page.lookups[i], safe)
    /\ page.at = "queued" => \A i \in DOMAIN page.lookups : page.lookups[i].at = "start"
    /\ page.at \in {"delete", "save"} => SharesCopy(page)
    /\ SharesCopy(page) /\ page.at \in {"work", "delete", "save"} => FoundInCopy(page)
    /\ page.kind = "groupCovers" /\ page.at = "work" /\ ~page.dirty =>
          \A x \in DOMAIN page.copy : page.copy[x] # Absent => x \in safe
    /\ page.at = "done" /\ (page.kind = "lyrics" => ~HasFailed(page)) =>
          \A i \in DOMAIN page.lookups : page.lookups[i].at = "done" => i \in safe

Kept(P, st) ==
    /\ HandsHold(P, st)
    /\ \A p \in DOMAIN P : PageKept(P[p], SafeItems(P, st))

EverythingKept == intact => Kept(pages, stored)

\* A hand that goes on writing, or holding what it held; it may lack less than before.
Calm(old, new, i) ==
    /\ HandWrites(new, i) <=> HandWrites(old, i)
    /\ HandWrites(old, i) => HandCopy(new, i) = HandCopy(old, i)
    /\ DOMAIN HandCopy(new, i) \subseteq DOMAIN HandCopy(old, i) \cup Artists
    /\ \A x \in DOMAIN HandCopy(new, i) :
          HandCopy(new, i)[x] # Absent
            \/ (x \in DOMAIN HandCopy(old, i) /\ HandCopy(new, i)[x] = HandCopy(old, i)[x])

CalmAt(P, P2, h) == Calm(P[h[1]], P2[h[1]], h[2])

EmptyAt(P, h) == ~WritesAt(P, h) /\ DOMAIN CopyAt(P, h) = {}

AllCalm(P, P2) ==
    /\ Hands(P) \subseteq Hands(P2)
    /\ \A h \in Hands(P2) : IF h \in Hands(P) THEN CalmAt(P, P2, h) ELSE EmptyAt(P2, h)

OthersCalm(P, P2, h0) ==
    /\ Hands(P2) = Hands(P) /\ h0 \in Hands(P)
    /\ \A h \in Hands(P) : h # h0 => CalmAt(P, P2, h)

HandsGoOn(P, st, P2, st2) == HandsHold(P2, st2) /\ SafeItems(P, st) \subseteq SafeItems(P2, st2)

LEMMA ArtistsAreItems == Artists \subseteq Items
  BY DEF Items

LEMMA QuietHands ==
  ASSUME NEW P, NEW P2, NEW st, HandsHold(P, st), AllCalm(P, P2)
  PROVE  HandsGoOn(P, st, P2, st)
  <1>1. CopiesKnow(P2, st)
    BY ArtistsAreItems DEF HandsHold, CopiesKnow, AllCalm, CalmAt, Calm, EmptyAt, CopyAt, WritesAt
  <1>2. WritersAreAlone(P2)
    <2> SUFFICES ASSUME NEW h \in Hands(P2), WritesAt(P2, h), NEW k \in Hands(P2), k # h,
                        NEW x \in DOMAIN CopyAt(P2, h) \cap DOMAIN CopyAt(P2, k)
                 PROVE  x \in Artists
      BY DEF WritersAreAlone
    <2>1. h \in Hands(P) /\ k \in Hands(P) /\ CalmAt(P, P2, h) /\ CalmAt(P, P2, k)
      BY DEF AllCalm, EmptyAt
    <2>2. /\ WritesAt(P, h) /\ x \in DOMAIN CopyAt(P, h)
          /\ x \in DOMAIN CopyAt(P, k) \cup Artists
      BY <2>1 DEF CalmAt, Calm, CopyAt, WritesAt
    <2>3. QED
      BY <2>1, <2>2 DEF HandsHold, WritersAreAlone
  <1>3. SafeItems(P, st) \subseteq SafeItems(P2, st)
    <2> SUFFICES ASSUME NEW h \in Hands(P), WritesAt(P, h)
                 PROVE  h \in Hands(P2) /\ WritesAt(P2, h) /\ CopyAt(P2, h) = CopyAt(P, h)
      BY DEF SafeItems
    <2>1. QED
      BY DEF AllCalm, CalmAt, Calm, CopyAt, WritesAt
  <1>4. QED
    BY <1>1, <1>2, <1>3 DEF HandsHold, HandsGoOn

\* A hand takes a copy of a record that nobody writes.
LEMMA ReadHands ==
  ASSUME NEW P, NEW P2, NEW st, HandsHold(P, st), NEW h0, OthersCalm(P, P2, h0),
         ~WritesAt(P, h0), ~WritesAt(P2, h0), DOMAIN CopyAt(P2, h0) \subseteq Items,
         \A x \in DOMAIN CopyAt(P2, h0) : CopyAt(P2, h0)[x] = st[x],
         \A x \in DOMAIN CopyAt(P2, h0) : x \notin Artists,
         \A h \in Hands(P) : WritesAt(P, h) => DOMAIN CopyAt(P, h) \cap DOMAIN CopyAt(P2, h0) = {}
  PROVE  HandsGoOn(P, st, P2, st)
  <1>1. CopiesKnow(P2, st)
    <2> SUFFICES ASSUME NEW h \in Hands(P2), NEW x \in DOMAIN CopyAt(P2, h)
                 PROVE  x \in Items /\ (st[x] # Absent \/ x \in Artists => CopyAt(P2, h)[x] # Absent)
      BY DEF CopiesKnow
    <2>1. CASE h = h0
      BY <2>1
    <2>2. CASE h # h0
      BY <2>2, ArtistsAreItems DEF HandsHold, CopiesKnow, OthersCalm, CalmAt, Calm, CopyAt, WritesAt
    <2>3. QED
      BY <2>1, <2>2
  <1>2. WritersAreAlone(P2)
    <2> SUFFICES ASSUME NEW h \in Hands(P2), WritesAt(P2, h), NEW k \in Hands(P2), k # h,
                        NEW x \in DOMAIN CopyAt(P2, h) \cap DOMAIN CopyAt(P2, k)
                 PROVE  x \in Artists
      BY DEF WritersAreAlone
    <2>1. h \in Hands(P) /\ k \in Hands(P) /\ CalmAt(P, P2, h) /\ h # h0
      BY DEF OthersCalm
    <2>2. WritesAt(P, h) /\ x \in DOMAIN CopyAt(P, h)
      BY <2>1 DEF CalmAt, Calm, CopyAt, WritesAt
    <2>3. CASE k = h0
      BY <2>1, <2>2, <2>3
    <2>4. CASE k # h0
      <3>1. x \in DOMAIN CopyAt(P, k) \cup Artists
        BY <2>1, <2>4 DEF OthersCalm, CalmAt, Calm, CopyAt, WritesAt
      <3>2. QED
        BY <2>1, <2>2, <3>1 DEF HandsHold, WritersAreAlone
    <2>5. QED
      BY <2>3, <2>4
  <1>3. SafeItems(P, st) \subseteq SafeItems(P2, st)
    <2> SUFFICES ASSUME NEW h \in Hands(P), WritesAt(P, h)
                 PROVE  h \in Hands(P2) /\ WritesAt(P2, h) /\ CopyAt(P2, h) = CopyAt(P, h)
      BY DEF SafeItems
    <2>1. QED
      BY DEF OthersCalm, CalmAt, Calm, CopyAt, WritesAt
  <1>4. QED
    BY <1>1, <1>2, <1>3 DEF HandsHold, HandsGoOn

\* A hand deletes the record it holds a copy of, while nobody else holds any of it.
LEMMA DeleteHands ==
  ASSUME NEW P, NEW P2, NEW st, NEW st2, HandsHold(P, st), NEW h0, OthersCalm(P, P2, h0),
         ~WritesAt(P, h0), WritesAt(P2, h0), CopyAt(P2, h0) = CopyAt(P, h0),
         \A x \in Items : st2[x] = IF x \in DOMAIN CopyAt(P, h0) THEN Absent ELSE st[x],
         \A h \in Hands(P) : h # h0 => DOMAIN CopyAt(P, h) \cap DOMAIN CopyAt(P, h0) = {}
  PROVE  HandsGoOn(P, st, P2, st2)
  <1>1. CopiesKnow(P2, st2)
    <2> SUFFICES ASSUME NEW h \in Hands(P2), NEW x \in DOMAIN CopyAt(P2, h)
                 PROVE  x \in Items /\ (st2[x] # Absent \/ x \in Artists => CopyAt(P2, h)[x] # Absent)
      BY DEF CopiesKnow
    <2>1. CASE h = h0
      BY <2>1 DEF HandsHold, CopiesKnow, OthersCalm
    <2>2. CASE h # h0
      BY <2>2, ArtistsAreItems DEF HandsHold, CopiesKnow, OthersCalm, CalmAt, Calm, CopyAt, WritesAt
    <2>3. QED
      BY <2>1, <2>2
  <1>2. WritersAreAlone(P2)
    <2> SUFFICES ASSUME NEW h \in Hands(P2), WritesAt(P2, h), NEW k \in Hands(P2), k # h,
                        NEW x \in DOMAIN CopyAt(P2, h) \cap DOMAIN CopyAt(P2, k)
                 PROVE  x \in Artists
      BY DEF WritersAreAlone
    <2>1. h \in Hands(P) /\ k \in Hands(P)
      BY DEF OthersCalm
    <2>2. /\ x \in DOMAIN CopyAt(P, h) \cup Artists /\ x \in DOMAIN CopyAt(P, k) \cup Artists
          /\ h # h0 => WritesAt(P, h)
      BY <2>1 DEF OthersCalm, CalmAt, Calm, CopyAt, WritesAt
    <2>3. QED
      BY <2>1, <2>2 DEF HandsHold, WritersAreAlone
  <1>3. SafeItems(P, st) \subseteq SafeItems(P2, st2)
    <2> SUFFICES ASSUME NEW x \in Items, x \in SafeItems(P, st)
                 PROVE  x \in SafeItems(P2, st2)
      BY DEF SafeItems
    <2>1. CASE st[x] # Absent /\ x \notin DOMAIN CopyAt(P, h0)
      BY <2>1 DEF SafeItems
    <2>2. CASE st[x] # Absent /\ x \in DOMAIN CopyAt(P, h0)
      <3>1. CopyAt(P2, h0)[x] # Absent
        BY <2>2 DEF HandsHold, CopiesKnow, OthersCalm
      <3>2. QED
        BY <2>2, <3>1 DEF SafeItems, OthersCalm
    <2>3. ASSUME NEW h \in Hands(P), WritesAt(P, h), x \in DOMAIN CopyAt(P, h), CopyAt(P, h)[x] # Absent
          PROVE  x \in SafeItems(P2, st2)
      <3>1. h \in Hands(P2) /\ WritesAt(P2, h) /\ CopyAt(P2, h) = CopyAt(P, h)
        BY <2>3 DEF OthersCalm, CalmAt, Calm, CopyAt, WritesAt
      <3>2. QED
        BY <2>3, <3>1 DEF SafeItems
    <2>4. QED
      BY <2>1, <2>2, <2>3 DEF SafeItems
  <1>4. QED
    BY <1>1, <1>2, <1>3 DEF HandsHold, HandsGoOn

\* A hand saves what it wrote, and is empty.
LEMMA SaveHands ==
  ASSUME NEW P, NEW P2, NEW st, NEW st2, HandsHold(P, st), NEW h0, OthersCalm(P, P2, h0),
         WritesAt(P, h0), EmptyAt(P2, h0),
         \A x \in Items : st2[x] = IF x \in DOMAIN CopyAt(P, h0) THEN CopyAt(P, h0)[x] ELSE st[x]
  PROVE  HandsGoOn(P, st, P2, st2)
  <1>1. CopiesKnow(P2, st2)
    <2> SUFFICES ASSUME NEW h \in Hands(P2), NEW x \in DOMAIN CopyAt(P2, h)
                 PROVE  x \in Items /\ (st2[x] # Absent \/ x \in Artists => CopyAt(P2, h)[x] # Absent)
      BY DEF CopiesKnow
    <2>1. h # h0 /\ h \in Hands(P) /\ CalmAt(P, P2, h)
      BY DEF EmptyAt, OthersCalm
    <2>2. CASE CopyAt(P2, h)[x] # Absent
      BY <2>1, <2>2, ArtistsAreItems DEF HandsHold, CopiesKnow, CalmAt, Calm, CopyAt, WritesAt
    <2>3. CASE CopyAt(P2, h)[x] = Absent
      <3>1. x \in DOMAIN CopyAt(P, h) /\ CopyAt(P, h)[x] = Absent
        BY <2>1, <2>3 DEF CalmAt, Calm, CopyAt, WritesAt
      <3>2. x \in Items /\ x \notin Artists /\ st[x] = Absent
        BY <2>1, <3>1 DEF HandsHold, CopiesKnow
      <3>3. x \notin DOMAIN CopyAt(P, h0)
        BY <2>1, <3>1, <3>2 DEF HandsHold, WritersAreAlone, OthersCalm
      <3>4. QED
        BY <3>2, <3>3
    <2>4. QED
      BY <2>2, <2>3
  <1>2. WritersAreAlone(P2)
    <2> SUFFICES ASSUME NEW h \in Hands(P2), WritesAt(P2, h), NEW k \in Hands(P2), k # h,
                        NEW x \in DOMAIN CopyAt(P2, h) \cap DOMAIN CopyAt(P2, k)
                 PROVE  x \in Artists
      BY DEF WritersAreAlone
    <2>1. h \in Hands(P) /\ k \in Hands(P) /\ h # h0 /\ k # h0
      BY DEF OthersCalm, EmptyAt
    <2>2. /\ WritesAt(P, h) /\ x \in DOMAIN CopyAt(P, h)
          /\ x \in DOMAIN CopyAt(P, k) \cup Artists
      BY <2>1 DEF OthersCalm, CalmAt, Calm, CopyAt, WritesAt
    <2>3. QED
      BY <2>1, <2>2 DEF HandsHold, WritersAreAlone
  <1>3. SafeItems(P, st) \subseteq SafeItems(P2, st2)
    <2> SUFFICES ASSUME NEW x \in Items, x \in SafeItems(P, st)
                 PROVE  x \in SafeItems(P2, st2)
      BY DEF SafeItems
    <2>1. CASE st[x] # Absent
      BY <2>1 DEF SafeItems, HandsHold, CopiesKnow, OthersCalm
    <2>2. ASSUME NEW h \in Hands(P), WritesAt(P, h), x \in DOMAIN CopyAt(P, h), CopyAt(P, h)[x] # Absent
          PROVE  x \in SafeItems(P2, st2)
      <3>1. CASE h = h0
        BY <2>2, <3>1 DEF SafeItems
      <3>2. CASE h # h0
        <4>1. h \in Hands(P2) /\ WritesAt(P2, h) /\ CopyAt(P2, h) = CopyAt(P, h)
          BY <2>2, <3>2 DEF OthersCalm, CalmAt, Calm, CopyAt, WritesAt
        <4>2. QED
          BY <2>2, <4>1 DEF SafeItems
      <3>3. QED
        BY <3>1, <3>2
    <2>3. QED
      BY <2>1, <2>2 DEF SafeItems
  <1>4. QED
    BY <1>1, <1>2, <1>3 DEF HandsHold, HandsGoOn

\* A page that is replaced, of which all hands but one are calm.
PageCalm(old, new, i) ==
    /\ DOMAIN new.lookups = DOMAIN old.lookups
    /\ \A j \in DOMAIN old.lookups \cup {Nothing} : j # i => Calm(old, new, j)

LEMMA ReplacedPage ==
  ASSUME NEW P, NEW p \in DOMAIN P, NEW new, NEW i \in DOMAIN P[p].lookups \cup {Nothing},
         PageCalm(P[p], new, i)
  PROVE  /\ OthersCalm(P, [P EXCEPT ![p] = new], <<p, i>>)
         /\ Calm(P[p], new, i) => AllCalm(P, [P EXCEPT ![p] = new])
         /\ CopyAt(P, <<p, i>>) = HandCopy(P[p], i)
         /\ CopyAt([P EXCEPT ![p] = new], <<p, i>>) = HandCopy(new, i)
         /\ WritesAt(P, <<p, i>>) <=> HandWrites(P[p], i)
         /\ WritesAt([P EXCEPT ![p] = new], <<p, i>>) <=> HandWrites(new, i)
         /\ <<p, i>> \in Hands(P)
  <1> DEFINE P2 == [P EXCEPT ![p] = new]
  <1>1. DOMAIN P2 = DOMAIN P /\ P2[p] = new /\ \A q \in DOMAIN P : q # p => P2[q] = P[q]
    OBVIOUS
  <1> HIDE DEF P2
  <1>2. Hands(P2) = Hands(P) /\ <<p, i>> \in Hands(P)
    BY <1>1 DEF Hands, PageCalm
  <1>3. \A h \in Hands(P) : h # <<p, i>> => CalmAt(P, P2, h)
    <2> SUFFICES ASSUME NEW q \in DOMAIN P, NEW j \in DOMAIN P[q].lookups \cup {Nothing}, <<q, j>> # <<p, i>>
                 PROVE  CalmAt(P, P2, <<q, j>>)
      BY DEF Hands
    <2>1. CASE q = p
      <3>1. Calm(P[p], new, j)
        BY <2>1 DEF PageCalm
      <3>2. QED
        BY <1>1, <2>1, <3>1 DEF CalmAt
    <2>2. CASE q # p
      BY <1>1, <2>2 DEF CalmAt, Calm
    <2>3. QED
      BY <2>1, <2>2
  <1>4. Calm(P[p], new, i) => CalmAt(P, P2, <<p, i>>)
    BY <1>1 DEF CalmAt
  <1>5. OthersCalm(P, P2, <<p, i>>)
    BY <1>2, <1>3 DEF OthersCalm
  <1>6. Calm(P[p], new, i) => AllCalm(P, P2)
    BY <1>2, <1>3, <1>4 DEF AllCalm
  <1>7. /\ CopyAt(P, <<p, i>>) = HandCopy(P[p], i) /\ CopyAt(P2, <<p, i>>) = HandCopy(new, i)
        /\ WritesAt(P, <<p, i>>) <=> HandWrites(P[p], i)
        /\ WritesAt(P2, <<p, i>>) <=> HandWrites(new, i)
    BY <1>1 DEF CopyAt, WritesAt
  <1>8. QED
    BY <1>2, <1>5, <1>6, <1>7 DEF P2

\* What is safe stays so for the pages that do not move.
LEMMA KeptBy ==
  ASSUME NEW P, NEW st, NEW st2, Kept(P, st), NEW p \in DOMAIN P, NEW new,
         HandsGoOn(P, st, [P EXCEPT ![p] = new], st2), PageKept(new, SafeItems([P EXCEPT ![p] = new], st2))
  PROVE  Kept([P EXCEPT ![p] = new], st2)
  <1> DEFINE P2 == [P EXCEPT ![p] = new]
             safe == SafeItems(P, st)
             safe2 == SafeItems(P2, st2)
  <1>1. DOMAIN P2 = DOMAIN P /\ P2[p] = new /\ \A q \in DOMAIN P : q # p => P2[q] = P[q]
    OBVIOUS
  <1>2. safe \subseteq safe2 /\ HandsHold(P2, st2) /\ PageKept(new, safe2)
    BY DEF HandsGoOn
  <1>3. \A q \in DOMAIN P : PageKept(P[q], safe)
    BY DEF Kept
  <1> HIDE DEF P2, safe, safe2
  <1>4. \A q \in DOMAIN P : PageKept(P[q], safe2)
    BY <1>2, <1>3 DEF PageKept, LookupKept
  <1>5. \A q \in DOMAIN P2 : PageKept(P2[q], safe2)
    BY <1>1, <1>2, <1>4
  <1>6. QED
    BY <1>2, <1>5 DEF Kept, P2, safe2

-----------------------------------------------------------------------------
(* The steps of lookups keep what was found.                               *)

\* A page whose lookup of i is another.
LookupMoved(old, new, i, lookup) ==
    /\ new.kind = old.kind /\ new.at = old.at /\ new.copy = old.copy /\ new.dirty = old.dirty
    /\ new.lookups = [old.lookups EXCEPT ![i] = lookup]

\* A lookup that does not write, before or after, and holds no less.
LookupCalm(old, new) ==
    /\ old.at # "save" /\ new.at # "save"
    /\ DOMAIN new.copy \subseteq DOMAIN old.copy \cup Artists
    /\ \A x \in DOMAIN new.copy :
          new.copy[x] # Absent \/ (x \in DOMAIN old.copy /\ new.copy[x] = old.copy[x])

LEMMA MovedPage ==
  ASSUME LookupsSure, NEW p \in DOMAIN pages, NEW i \in DOMAIN pages[p].lookups, NEW lookup,
         \/ Moves(p, i, lookup)
         \/ FailsLookup(p, i) /\ lookup = Failed
  PROVE  \E new : pages' = [pages EXCEPT ![p] = new] /\ LookupMoved(pages[p], new, i, lookup)
  <1> DEFINE page == pages[p]
  <1>1. page \in Page /\ i \in DOMAIN page.lookups
    BY WorkingLookup
  <1>2. CASE Moves(p, i, lookup)
    <2> DEFINE new == [page EXCEPT !.lookups[i] = lookup]
    <2>1. pages' = [pages EXCEPT ![p] = new]
      BY <1>2 DEF Moves
    <2> HIDE DEF page
    <2>2. LookupMoved(page, new, i, lookup)
      BY <1>1 DEF Page, LookupMoved
    <2>3. QED
      BY <2>1, <2>2 DEF page
  <1>3. CASE FailsLookup(p, i) /\ lookup = Failed
    <2> DEFINE new == AfterFailure(page, i)
    <2>1. pages' = [pages EXCEPT ![p] = new]
      BY <1>3 DEF FailsLookup
    <2> HIDE DEF page
    <2>2. LookupMoved(page, new, i, lookup)
      BY <1>1, <1>3 DEF Page, LookupMoved, AfterFailure
    <2>3. QED
      BY <2>1, <2>2 DEF page
  <1>4. QED
    BY <1>2, <1>3

\* The hands of a page whose lookup of i is another.
LEMMA MovedHands ==
  ASSUME NEW old, old \in Page, NEW i \in DOMAIN old.lookups, NEW new, NEW lookup,
         LookupMoved(old, new, i, lookup)
  PROVE  /\ PageCalm(old, new, i) /\ i \in DOMAIN old.lookups \cup {Nothing}
         /\ HandCopy(old, i) = old.lookups[i].copy /\ HandCopy(new, i) = lookup.copy
         /\ HandWrites(old, i) <=> old.lookups[i].at = "save"
         /\ HandWrites(new, i) <=> lookup.at = "save"
         /\ LookupCalm(old.lookups[i], lookup) => Calm(old, new, i)
  <1>1. i # Nothing /\ Nothing \notin DOMAIN old.lookups
    BY ItemsAssumption DEF Page
  <1>2. /\ DOMAIN new.lookups = DOMAIN old.lookups /\ new.lookups[i] = lookup
        /\ \A j \in DOMAIN old.lookups : j # i => new.lookups[j] = old.lookups[j]
    BY DEF LookupMoved
  <1>3. PageCalm(old, new, i)
    <2> SUFFICES ASSUME NEW j \in DOMAIN old.lookups \cup {Nothing}, j # i
                 PROVE  HandCopy(new, j) = HandCopy(old, j) /\ (HandWrites(new, j) <=> HandWrites(old, j))
      BY <1>2 DEF PageCalm, Calm
    <2>1. QED
      BY <1>1, <1>2 DEF HandCopy, HandWrites, LookupMoved
  <1>4. /\ HandCopy(old, i) = old.lookups[i].copy /\ HandCopy(new, i) = lookup.copy
        /\ HandWrites(old, i) <=> old.lookups[i].at = "save"
        /\ HandWrites(new, i) <=> lookup.at = "save"
    BY <1>1, <1>2 DEF HandCopy, HandWrites
  <1>5. QED
    BY <1>3, <1>4 DEF LookupCalm, Calm

LEMMA MovedKept ==
  ASSUME NEW old, NEW i \in DOMAIN old.lookups, NEW new, NEW lookup, LookupMoved(old, new, i, lookup),
         NEW safe, NEW safe2, safe \subseteq safe2, PageKept(old, safe), old.at = "work",
         LookupKept(i, lookup, safe2),
         SharesCopy(old) /\ lookup.at \in {"siblings", "done"} => old.copy[i] # Absent
  PROVE  PageKept(new, safe2)
  <1>1. /\ DOMAIN new.lookups = DOMAIN old.lookups /\ new.lookups[i] = lookup
        /\ \A j \in DOMAIN old.lookups : j # i => new.lookups[j] = old.lookups[j]
        /\ new.kind = old.kind /\ new.at = "work" /\ new.copy = old.copy /\ new.dirty = old.dirty
    BY DEF LookupMoved
  <1>2. \A j \in DOMAIN new.lookups : LookupKept(j, new.lookups[j], safe2)
    BY <1>1 DEF PageKept, LookupKept
  <1>3. SharesCopy(new) => FoundInCopy(new)
    BY <1>1 DEF PageKept, SharesCopy, FoundInCopy
  <1>4. QED
    BY <1>1, <1>2, <1>3 DEF PageKept

\* A lookup that moves on without reading or writing the cache.
QuietlyMoves(p, i, lookup) ==
    /\ Moves(p, i, lookup) \/ (FailsLookup(p, i) /\ lookup = Failed)
    /\ stored' = stored /\ pages[p].at = "work" /\ LookupCalm(pages[p].lookups[i], lookup)
    /\ LookupKept(i, lookup, SafeItems(pages, stored))
    /\ SharesCopy(pages[p]) /\ lookup.at \in {"siblings", "done"} => pages[p].copy[i] # Absent

LEMMA QuietMove ==
  ASSUME LookupsSure, Kept(pages, stored), NEW p \in DOMAIN pages, NEW i \in DOMAIN pages[p].lookups,
         NEW lookup,
         QuietlyMoves(p, i, lookup)
  PROVE  Kept(pages', stored')
  <1>1. PICK new : pages' = [pages EXCEPT ![p] = new] /\ LookupMoved(pages[p], new, i, lookup)
    BY MovedPage DEF QuietlyMoves
  <1>2. pages[p] \in Page
    BY WorkingLookup
  <1>3. PageCalm(pages[p], new, i) /\ Calm(pages[p], new, i) /\ i \in DOMAIN pages[p].lookups \cup {Nothing}
    BY <1>1, <1>2, MovedHands DEF QuietlyMoves
  <1>4. AllCalm(pages, [pages EXCEPT ![p] = new])
    BY <1>3, ReplacedPage
  <1>5. HandsGoOn(pages, stored, [pages EXCEPT ![p] = new], stored)
    BY <1>4, QuietHands DEF Kept
  <1>6. PageKept(pages[p], SafeItems(pages, stored))
    BY DEF Kept
  <1> DEFINE old == pages[p]
             safe == SafeItems(pages, stored)
             safe2 == SafeItems([pages EXCEPT ![p] = new], stored)
  <1>7. /\ safe \subseteq safe2 /\ PageKept(old, safe) /\ old.at = "work" /\ i \in DOMAIN old.lookups
        /\ LookupMoved(old, new, i, lookup) /\ LookupKept(i, lookup, safe)
        /\ SharesCopy(old) /\ lookup.at \in {"siblings", "done"} => old.copy[i] # Absent
    BY <1>1, <1>5, <1>6 DEF HandsGoOn, QuietlyMoves
  <1>a. LookupKept(i, lookup, safe2)
    BY <1>7 DEF LookupKept
  <1> HIDE DEF old, safe, safe2
  <1>b. PageKept(new, safe2)
    BY <1>7, <1>a, MovedKept
  <1>8. PageKept(new, SafeItems([pages EXCEPT ![p] = new], stored))
    BY <1>b DEF safe2
  <1>9. Kept([pages EXCEPT ![p] = new], stored)
    BY <1>5, <1>8, KeptBy
  <1>10. QED
    BY <1>1, <1>9 DEF QuietlyMoves

\* The lookups of a page that shares no copy, and of one that does.
LEMMA WhoShares ==
  ASSUME LookupsSure, NEW p \in DOMAIN pages, NEW i \in DOMAIN pages[p].lookups
  PROVE  /\ i \in Releases \cup Artists => ~SharesCopy(pages[p])
         /\ i \in Groups \cup Tracks => SharesCopy(pages[p])
         /\ i \in Groups => pages[p].kind = "groupCovers"
         /\ i \in Tracks => pages[p].kind = "lyrics"
  <1>1. i \in ItemsOf[pages[p].kind] /\ pages[p].kind \in Kinds
    BY WorkingLookup DEF Page
  <1>2. QED
    BY <1>1, ItemsOfKinds, ItemsAssumption DEF SharesCopy, Kinds

LEMMA RecordOfOne ==
  ASSUME NEW i \in Releases \cup Artists
  PROVE  /\ Written(i) = Record(i) /\ i \in Record(i) /\ Record(i) \subseteq Items
         /\ i \in Artists => Record(i) = {i}
         /\ i \in Releases => Record(i) \subseteq Releases
  BY ItemsAssumption DEF Written, Record, ReleasesOf, Items

\* A lookup that ends with what is cached, or fails.
LEMMA DoneKept ==
  ASSUME NEW i, NEW state, NEW safe, i \in Releases \cup Artists => i \in safe
  PROVE  LookupKept(i, Done(state), safe) /\ LookupKept(i, Failed, safe)
  <1>1. Done(state).at = "done" /\ Failed.at = "failed"
    BY DEF Done, Failed, NewLookup
  <1>2. QED
    BY <1>1 DEF LookupKept, ArtistStages

LEMMA FailedKept ==
  ASSUME NEW i, NEW safe
  PROVE  LookupKept(i, Failed, safe) /\ Failed.at = "failed" /\ DOMAIN Failed.copy = {}
  <1>1. Failed.at = "failed" /\ DOMAIN Failed.copy = {}
    BY NoCopy DEF Failed, NewLookup
  <1>2. QED
    BY <1>1 DEF LookupKept, ArtistStages

LEMMA DoneIsEmpty ==
  ASSUME NEW state
  PROVE  Done(state).at = "done" /\ DOMAIN Done(state).copy = {}
  BY NoCopy DEF Done, NewLookup

\* A lookup of a release or an artist settles on what it found.
LEMMA SettlesKept ==
  ASSUME LookupsSure, Kept(pages, stored), NEW p \in DOMAIN pages, NEW i \in DOMAIN pages[p].lookups, NEW state,
         pages[p].at = "work", Settles(p, i, state), state # Absent, stored' = stored,
         \/ i \in Releases /\ pages[p].lookups[i].at \in {"fetch", "fetchGroup"}
         \/ i \in Artists /\ pages[p].lookups[i].at \in ArtistStages
  PROVE  Kept(pages', stored')
  <1> DEFINE lookup == pages[p].lookups[i]
             copy == [x \in DOMAIN lookup.copy \cup {i} |-> IF x = i THEN state ELSE lookup.copy[x]]
             new == [lookup EXCEPT !.at = "delete", !.result = state, !.left = {}, !.copy = copy]
  <1>1. Moves(p, i, new)
    BY DEF Settles
  <1>2. lookup \in Lookup /\ LookupKept(i, lookup, SafeItems(pages, stored)) /\ lookup.at # "save"
    BY WorkingLookup DEF Kept, PageKept, ArtistStages
  <1>3. new.at = "delete" /\ new.copy = copy
    <2> HIDE DEF lookup, copy
    <2>1. QED
      BY <1>2 DEF Lookup
  <1>4. DOMAIN copy = Written(i) /\ copy[i] # Absent
    BY <1>2, RecordOfOne DEF LookupKept
  <1>5. LookupCalm(lookup, new)
    <2>1. DOMAIN copy \subseteq DOMAIN lookup.copy \cup Artists
      BY <1>2, RecordOfOne DEF LookupKept
    <2>2. \A x \in DOMAIN copy : copy[x] # Absent \/ (x \in DOMAIN lookup.copy /\ copy[x] = lookup.copy[x])
      <3> HIDE DEF lookup
      <3>1. QED
        OBVIOUS
    <2> HIDE DEF copy, new
    <2>3. QED
      BY <1>2, <1>3, <2>1, <2>2 DEF LookupCalm
  <1> HIDE DEF copy, new
  <1>6. LookupKept(i, new, SafeItems(pages, stored))
    BY <1>3, <1>4, RecordOfOne, ItemsAssumption DEF LookupKept, ArtistStages
  <1>7. new.at \notin {"siblings", "done"}
    BY <1>3
  <1>8. QuietlyMoves(p, i, new)
    BY <1>1, <1>5, <1>6, <1>7 DEF QuietlyMoves
  <1>9. QED
    BY <1>8, QuietMove

\* A lookup of an artist that only goes elsewhere.
LEMMA ArtistKept ==
  ASSUME LookupsSure, Kept(pages, stored), NEW p \in DOMAIN pages, NEW a \in DOMAIN pages[p].lookups,
         a \in Artists, pages[p].lookups[a].at \in ArtistStages \cup {"start"}, pages[p].at = "work",
         NEW lookup, lookup.at \in ArtistStages, lookup.copy = pages[p].lookups[a].copy,
         Moves(p, a, lookup), stored' = stored
  PROVE  Kept(pages', stored')
  <1>1. LookupKept(a, pages[p].lookups[a], SafeItems(pages, stored))
    BY DEF Kept, PageKept
  <1>2. LookupCalm(pages[p].lookups[a], lookup)
    BY DEF LookupCalm, ArtistStages
  <1>3. LookupKept(a, lookup, SafeItems(pages, stored))
    BY <1>1, ItemsAssumption DEF LookupKept, ArtistStages
  <1>4. QuietlyMoves(p, a, lookup)
    BY <1>2, <1>3 DEF QuietlyMoves, ArtistStages
  <1>5. QED
    BY <1>4, QuietMove

\* A lookup that ends with what is cached.
LEMMA DoneWithCached ==
  ASSUME LookupsSure, Kept(pages, stored), NEW p \in DOMAIN pages, NEW i \in DOMAIN pages[p].lookups, NEW state,
         i \in Releases \cup Artists, pages[p].at = "work", pages[p].lookups[i].at # "save",
         Moves(p, i, Done(state)), IsUsable(stored[i], now), stored' = stored
  PROVE  Kept(pages', stored')
  <1>1. i \in SafeItems(pages, stored)
    BY WorkingLookup DEF SafeItems, IsUsable, Absent
  <1>2. LookupKept(i, Done(state), SafeItems(pages, stored))
    BY <1>1, DoneKept
  <1>3. LookupCalm(pages[p].lookups[i], Done(state))
    BY DoneIsEmpty DEF LookupCalm
  <1>4. ~SharesCopy(pages[p])
    BY WhoShares
  <1>5. QuietlyMoves(p, i, Done(state))
    BY <1>2, <1>3, <1>4 DEF QuietlyMoves
  <1>6. QED
    BY <1>5, QuietMove

-----------------------------------------------------------------------------
(* The lookups of groups and tracks conclude in the copy they share.       *)

PageConcluded(old, new, i, state) ==
    /\ new.kind = old.kind /\ new.at = old.at
    /\ new.copy = [old.copy EXCEPT ![i] = state]
    /\ new.lookups = [old.lookups EXCEPT ![i] = Done(state)]
    /\ old.kind = "groupCovers" /\ ~new.dirty => ~old.dirty /\ state = old.copy[i]

LEMMA ConcludedPage ==
  ASSUME LookupsSure, NEW p \in DOMAIN pages, NEW i \in DOMAIN pages[p].lookups, NEW state,
         Concludes(p, i, state)
  PROVE  \E new : pages' = [pages EXCEPT ![p] = new] /\ PageConcluded(pages[p], new, i, state)
  <1> DEFINE page == pages[p]
             new == Concluded(page, i, state)
  <1>1. page \in Page /\ i \in DOMAIN page.lookups
    BY WorkingLookup
  <1>2. pages' = [pages EXCEPT ![p] = new]
    BY DEF Concludes
  <1> HIDE DEF page
  <1>3. /\ new.kind = page.kind /\ new.at = page.at
        /\ new.copy = [page.copy EXCEPT ![i] = state]
        /\ new.lookups = [page.lookups EXCEPT ![i] = Done(state)]
        /\ new.dirty = (page.dirty \/ state # page.copy[i])
    BY <1>1 DEF Page, Concluded
  <1> HIDE DEF new
  <1>4. PageConcluded(page, new, i, state)
    BY <1>3 DEF PageConcluded
  <1>5. QED
    BY <1>2, <1>4 DEF page

LEMMA ConcludedHands ==
  ASSUME NEW old, old \in Page, NEW i \in DOMAIN old.lookups, NEW new, NEW state,
         PageConcluded(old, new, i, state), old.at = "work", state # Absent
  PROVE  /\ PageCalm(old, new, i) /\ i \in DOMAIN old.lookups \cup {Nothing}
         /\ HandCopy(old, i) = old.lookups[i].copy /\ DOMAIN HandCopy(new, i) = {}
         /\ HandWrites(old, i) <=> old.lookups[i].at = "save"
         /\ ~HandWrites(new, i)
         /\ old.lookups[i].at # "save" => Calm(old, new, i)
  <1>1. i # Nothing /\ Nothing \notin DOMAIN old.lookups
    BY ItemsAssumption DEF Page
  <1>2. /\ DOMAIN new.lookups = DOMAIN old.lookups /\ new.lookups[i] = Done(state)
        /\ \A j \in DOMAIN old.lookups : j # i => new.lookups[j] = old.lookups[j]
    BY DEF PageConcluded
  <1>3. /\ HandCopy(old, i) = old.lookups[i].copy /\ DOMAIN HandCopy(new, i) = {}
        /\ HandWrites(old, i) <=> old.lookups[i].at = "save"
        /\ ~HandWrites(new, i)
    BY <1>1, <1>2, DoneIsEmpty DEF HandCopy, HandWrites
  <1>4. Calm(old, new, Nothing)
    <2>1. HandCopy(old, Nothing) = old.copy /\ HandCopy(new, Nothing) = [old.copy EXCEPT ![i] = state]
          /\ ~HandWrites(old, Nothing) /\ ~HandWrites(new, Nothing)
      BY DEF HandCopy, HandWrites, PageConcluded
    <2>2. DOMAIN [old.copy EXCEPT ![i] = state] = DOMAIN old.copy
      OBVIOUS
    <2>3. \A x \in DOMAIN old.copy : [old.copy EXCEPT ![i] = state][x] = IF x = i THEN state ELSE old.copy[x]
      OBVIOUS
    <2> DEFINE copy == [old.copy EXCEPT ![i] = state]
    <2> HIDE DEF copy
    <2>4. /\ HandCopy(old, Nothing) = old.copy /\ HandCopy(new, Nothing) = copy
          /\ ~HandWrites(old, Nothing) /\ ~HandWrites(new, Nothing)
          /\ DOMAIN copy = DOMAIN old.copy
          /\ \A x \in DOMAIN old.copy : copy[x] = IF x = i THEN state ELSE old.copy[x]
      BY <2>1, <2>2, <2>3 DEF copy
    <2>5. QED
      BY <2>4 DEF Calm
  <1>5. \A j \in DOMAIN old.lookups : j # i => Calm(old, new, j)
    BY <1>1, <1>2 DEF Calm, HandCopy, HandWrites
  <1>6. QED
    BY <1>2, <1>3, <1>4, <1>5 DEF PageCalm, Calm

LEMMA ConcludedKept ==
  ASSUME NEW old, NEW i \in DOMAIN old.lookups, NEW new, NEW state, PageConcluded(old, new, i, state),
         NEW safe, NEW safe2, safe \subseteq safe2, PageKept(old, safe), old.at = "work", SharesCopy(old),
         i \in Groups \cup Tracks, i \in DOMAIN old.copy, state # Absent
  PROVE  PageKept(new, safe2)
  <1>1. /\ DOMAIN new.lookups = DOMAIN old.lookups /\ new.lookups[i] = Done(state)
        /\ \A j \in DOMAIN old.lookups : j # i => new.lookups[j] = old.lookups[j]
        /\ new.kind = old.kind /\ new.at = "work" /\ new.copy = [old.copy EXCEPT ![i] = state]
    BY DEF PageConcluded
  <1>2. \A j \in DOMAIN new.lookups : LookupKept(j, new.lookups[j], safe2)
    <2>1. LookupKept(i, Done(state), safe2)
      BY DoneKept, ItemsAssumption
    <2>2. QED
      BY <1>1, <2>1 DEF PageKept, LookupKept
  <1>3. FoundInCopy(new)
    BY <1>1 DEF PageKept, FoundInCopy
  <1>4. new.kind = "groupCovers" /\ ~new.dirty =>
          \A x \in DOMAIN new.copy : new.copy[x] # Absent => x \in safe2
    BY <1>1 DEF PageKept, PageConcluded
  <1>5. QED
    BY <1>1, <1>2, <1>3, <1>4 DEF PageKept

\* A lookup concludes without reading or writing the cache.
LEMMA QuietConclusion ==
  ASSUME LookupsSure, Kept(pages, stored), NEW p \in DOMAIN pages, NEW i \in DOMAIN pages[p].lookups,
         NEW state, NEW new,
         pages' = [pages EXCEPT ![p] = new], PageConcluded(pages[p], new, i, state),
         stored' = stored, pages[p].at = "work", pages[p].lookups[i].at # "save", i \in Groups \cup Tracks,
         state # Absent
  PROVE  Kept(pages', stored')
  <1>1. pages[p] \in Page /\ i \in DOMAIN pages[p].copy /\ SharesCopy(pages[p])
    BY WorkingLookup, WhoShares
  <1>2. PageCalm(pages[p], new, i) /\ Calm(pages[p], new, i) /\ i \in DOMAIN pages[p].lookups \cup {Nothing}
    BY <1>1, ConcludedHands
  <1>3. AllCalm(pages, [pages EXCEPT ![p] = new])
    BY <1>2, ReplacedPage
  <1>4. HandsGoOn(pages, stored, [pages EXCEPT ![p] = new], stored)
    BY <1>3, QuietHands DEF Kept
  <1>5. PageKept(pages[p], SafeItems(pages, stored))
    BY DEF Kept
  <1> DEFINE old == pages[p]
             safe == SafeItems(pages, stored)
             safe2 == SafeItems([pages EXCEPT ![p] = new], stored)
  <1>a. safe \subseteq safe2
    BY <1>4 DEF HandsGoOn
  <1>b. /\ PageKept(old, safe) /\ old.at = "work" /\ SharesCopy(old) /\ i \in DOMAIN old.copy
        /\ PageConcluded(old, new, i, state) /\ i \in DOMAIN old.lookups
    BY <1>1, <1>5
  <1> HIDE DEF old, safe, safe2
  <1>c. PageKept(new, safe2)
    BY <1>a, <1>b, ConcludedKept
  <1>6. PageKept(new, SafeItems([pages EXCEPT ![p] = new], stored))
    BY <1>c DEF safe2
  <1>7. Kept([pages EXCEPT ![p] = new], stored)
    BY <1>4, <1>6, KeptBy
  <1>8. QED
    BY <1>7

LEMMA ConcludesQuietly ==
  ASSUME LookupsSure, Kept(pages, stored), NEW p \in DOMAIN pages, NEW g \in DOMAIN pages[p].lookups, NEW state,
         Concludes(p, g, state), stored' = stored, pages[p].at = "work", pages[p].lookups[g].at # "save",
         g \in Groups, state # Absent
  PROVE  Kept(pages', stored')
  <1>1. PICK new : pages' = [pages EXCEPT ![p] = new] /\ PageConcluded(pages[p], new, g, state)
    BY ConcludedPage
  <1>2. QED
    BY <1>1, QuietConclusion

\* A lookup of a group that has nothing to write has found nothing to lose.
LEMMA SharedLookupKept ==
  ASSUME NEW i \in Groups, NEW lookup, NEW safe, lookup.at \notin {"delete", "save"}
  PROVE  LookupKept(i, lookup, safe)
  BY ItemsAssumption DEF LookupKept

LEMMA FetchesReleaseKept ==
  ASSUME LookupsSure, Kept(pages, stored), NEW p \in DOMAIN pages, NEW r \in DOMAIN pages[p].lookups,
         FetchesRelease(p, r)
  PROVE  Kept(pages', stored')
  <1> DEFINE lookup == pages[p].lookups[r]
             peers == {x \in DOMAIN lookup.copy \ {r} : IsUsableUrl(lookup.copy[x], lookup.asOf)}
  <1>1. /\ r \in Items /\ r \in Releases /\ now \in Times /\ lookup \in Lookup /\ lookup.at = "fetch"
        /\ pages[p].at = "work" /\ stored' = stored /\ r \notin Artists
    BY WorkingLookup, ItemsAssumption DEF FetchesRelease, Asks, At, OnlyPages
  <1>2. PICK value \in Covers(r) :
              \/ HasUrl(value) /\ Settles(p, r, MapState(value, now))
              \/ /\ ~HasUrl(value)
                 /\ \E x \in peers :
                       Settles(p, r, MapFallback(lookup.copy[x].value, {value}, now))
              \/ /\ ~HasUrl(value) /\ peers = {}
                 /\ Moves(p, r, [lookup EXCEPT !.at = "fetchGroup", !.misses = {value}])
    BY DEF FetchesRelease
  <1>3. value \in Values
    BY <1>1, CoversSure
  <1>4. ASSUME NEW state, state # Absent, Settles(p, r, state)
        PROVE  Kept(pages', stored')
    BY <1>1, <1>4, SettlesKept
  <1>5. ASSUME Settles(p, r, MapState(value, now))
        PROVE  Kept(pages', stored')
    <2>1. MapState(value, now) # Absent
      BY <1>1, <1>3, MapStateTyped
    <2>2. QED
      BY <1>4, <1>5, <2>1
  <1>6. ASSUME NEW x \in peers, Settles(p, r, MapFallback(lookup.copy[x].value, {value}, now))
        PROVE  Kept(pages', stored')
    <2>1. lookup.copy[x].value \in Values /\ {value} \in SUBSET Values
      BY <1>3, <1>6 DEF IsUsableUrl, HasUrl, Values
    <2>2. MapFallback(lookup.copy[x].value, {value}, now) # Absent
      BY <1>1, <2>1, MapFallbackTyped
    <2>3. QED
      BY <1>4, <1>6, <2>2
  <1>7. ASSUME Moves(p, r, [lookup EXCEPT !.at = "fetchGroup", !.misses = {value}])
        PROVE  Kept(pages', stored')
    <2> DEFINE new == [lookup EXCEPT !.at = "fetchGroup", !.misses = {value}]
    <2>1. LookupKept(r, lookup, SafeItems(pages, stored))
      BY DEF Kept, PageKept
    <2>2. new.at = "fetchGroup" /\ new.copy = lookup.copy
      <3> HIDE DEF lookup
      <3>1. QED
        BY <1>1 DEF Lookup
    <2>3. Moves(p, r, new)
      BY <1>7
    <2> HIDE DEF new
    <2>4. LookupCalm(lookup, new)
      BY <1>1, <2>2 DEF LookupCalm
    <2>5. LookupKept(r, new, SafeItems(pages, stored))
      BY <1>1, <2>1, <2>2 DEF LookupKept, ArtistStages
    <2>6. QuietlyMoves(p, r, new)
      BY <1>1, <2>2, <2>3, <2>4, <2>5 DEF QuietlyMoves
    <2>7. QED
      BY <2>6, QuietMove
  <1>8. QED
    BY <1>2, <1>5, <1>6, <1>7

LEMMA FetchesGroupOfReleaseKept ==
  ASSUME LookupsSure, Kept(pages, stored), NEW p \in DOMAIN pages, NEW r \in DOMAIN pages[p].lookups,
         FetchesGroupOfRelease(p, r)
  PROVE  Kept(pages', stored')
  <1> DEFINE lookup == pages[p].lookups[r]
             misses == lookup.misses
  <1>1. /\ now \in Times /\ lookup \in Lookup /\ LookupSure(r, lookup) /\ lookup.at = "fetchGroup"
        /\ pages[p].at = "work" /\ stored' = stored
    BY WorkingLookup DEF FetchesGroupOfRelease, Asks, At, OnlyPages
  <1>2. r \in Releases /\ GroupOf(r) \in Items
    BY <1>1, ItemsAssumption DEF LookupSure, Items
  <1>3. PICK value \in Covers(GroupOf(r)) :
              Settles(p, r, IF HasUrl(value) THEN MapFallback(value, misses, now)
                            ELSE MapState(ResolveMiss(misses \cup {value}), now))
    BY DEF FetchesGroupOfRelease
  <1>4. value \in Values /\ misses \in SUBSET Values /\ ResolveMiss(misses \cup {value}) \in Values
    BY <1>1, <1>2, CoversSure DEF Lookup, ResolveMiss, Values
  <1>5. /\ MapFallback(value, misses, now) # Absent
        /\ MapState(ResolveMiss(misses \cup {value}), now) # Absent
    BY <1>1, <1>4, MapFallbackTyped, MapStateTyped
  <1>6. PICK state : state # Absent /\ Settles(p, r, state)
    BY <1>3, <1>5
  <1>7. QED
    BY <1>1, <1>2, <1>6, SettlesKept

LEMMA BeginsGroupKept ==
  ASSUME LookupsSure, Kept(pages, stored), NEW p \in DOMAIN pages, NEW g \in DOMAIN pages[p].lookups,
         BeginsGroup(p, g)
  PROVE  Kept(pages', stored')
  <1> DEFINE current == pages[p].copy[g]
             next == IF IsUsableUrl(current, now) THEN Done(current)
                     ELSE IF IsUsable(current, now)
                     THEN [NewLookup EXCEPT !.at = "siblings", !.primary = current.value, !.asOf = now]
                     ELSE [NewLookup EXCEPT !.at = "fetch"]
  <1>1. /\ g \in Groups /\ pages[p].at = "work" /\ pages[p].lookups[g].at = "start" /\ stored' = stored
        /\ Moves(p, g, next)
    BY DEF BeginsGroup, At, OnlyPages
  <1>2. IsUsable(current, now) => current # Absent
    BY DEF IsUsable, Absent
  <1>3. /\ next.at \in {"done", "siblings", "fetch"} /\ DOMAIN next.copy = {}
        /\ next.at \in {"siblings", "done"} => current # Absent
    <2> HIDE DEF current
    <2>1. CASE IsUsableUrl(current, now)
      BY <1>2, <2>1, DoneIsEmpty DEF IsUsableUrl
    <2>2. CASE ~IsUsableUrl(current, now) /\ IsUsable(current, now)
      BY <1>2, <2>2, NoCopy DEF NewLookup
    <2>3. CASE ~IsUsable(current, now)
      BY <2>3, NoCopy DEF NewLookup, IsUsableUrl
    <2>4. QED
      BY <2>1, <2>2, <2>3
  <1> HIDE DEF next
  <1>4. LookupCalm(pages[p].lookups[g], next) /\ LookupKept(g, next, SafeItems(pages, stored))
    BY <1>1, <1>3, SharedLookupKept DEF LookupCalm
  <1>5. QuietlyMoves(p, g, next)
    BY <1>1, <1>3, <1>4 DEF QuietlyMoves
  <1>6. QED
    BY <1>5, QuietMove

LEMMA ReadsSiblingsKept ==
  ASSUME LookupsSure, Kept(pages, stored), NEW p \in DOMAIN pages, NEW g \in DOMAIN pages[p].lookups,
         ReadsSiblings(p, g)
  PROVE  Kept(pages', stored')
  <1> DEFINE lookup == pages[p].lookups[g]
             urls == {stored[r].value : r \in {x \in ReleasesOf(g) : IsUsableUrl(stored[x], lookup.asOf)}}
  <1>1. /\ now \in Times /\ lookup \in Lookup /\ LookupSure(g, lookup) /\ lookup.at = "siblings"
        /\ pages[p].at = "work" /\ g \in Groups /\ stored' = stored
    BY WorkingLookup DEF ReadsSiblings, At, LookupSure, GroupStages, OnlyPages
  <1>2. lookup.primary \in Values
    BY <1>1 DEF LookupSure, GroupStages, Values
  <1>3. ASSUME NEW value \in urls, Concludes(p, g, MapFallback(value, {lookup.primary}, now))
        PROVE  Kept(pages', stored')
    <2>1. value \in Values /\ {lookup.primary} \in SUBSET Values
      BY <1>2, <1>3 DEF IsUsableUrl, HasUrl, Values
    <2>2. MapFallback(value, {lookup.primary}, now) # Absent
      BY <1>1, <2>1, MapFallbackTyped
    <2>3. QED
      BY <1>1, <1>3, <2>2, ConcludesQuietly
  <1>4. ASSUME Moves(p, g, [lookup EXCEPT !.at = "fallback"])
        PROVE  Kept(pages', stored')
    <2> DEFINE new == [lookup EXCEPT !.at = "fallback"]
    <2>1. new.at = "fallback" /\ new.copy = lookup.copy
      <3> HIDE DEF lookup
      <3>1. QED
        BY <1>1 DEF Lookup
    <2>2. Moves(p, g, new)
      BY <1>4
    <2> HIDE DEF new
    <2>3. LookupCalm(lookup, new) /\ LookupKept(g, new, SafeItems(pages, stored))
      BY <1>1, <2>1, SharedLookupKept DEF LookupCalm
    <2>4. QuietlyMoves(p, g, new)
      BY <1>1, <2>1, <2>2, <2>3 DEF QuietlyMoves
    <2>5. QED
      BY <2>4, QuietMove
  <1>5. ASSUME Moves(p, g, Done(pages[p].copy[g]))
        PROVE  Kept(pages', stored')
    <2> DEFINE new == Done(pages[p].copy[g])
    <2>1. new.at = "done" /\ DOMAIN new.copy = {} /\ Moves(p, g, new)
      BY <1>5, DoneIsEmpty
    <2> HIDE DEF new
    <2>2. pages[p].copy[g] # Absent
      BY <1>1, WhoShares DEF Kept, PageKept, FoundInCopy
    <2>3. LookupCalm(lookup, new) /\ LookupKept(g, new, SafeItems(pages, stored))
      BY <1>1, <2>1, SharedLookupKept DEF LookupCalm
    <2>4. QuietlyMoves(p, g, new)
      BY <1>1, <2>1, <2>2, <2>3 DEF QuietlyMoves
    <2>5. QED
      BY <2>4, QuietMove
  <1>6. QED
    BY <1>3, <1>4, <1>5 DEF ReadsSiblings

LEMMA FetchesGroupKept ==
  ASSUME LookupsSure, Kept(pages, stored), NEW p \in DOMAIN pages, NEW g \in DOMAIN pages[p].lookups,
         FetchesGroup(p, g)
  PROVE  Kept(pages', stored')
  <1>1. /\ g \in Groups /\ now \in Times /\ g \in Items /\ pages[p].at = "work" /\ stored' = stored
        /\ pages[p].lookups[g].at = "fetch"
    BY WorkingLookup DEF FetchesGroup, Asks, At, OnlyPages
  <1>2. PICK value \in Covers(g) :
              IF HasUrl(value) THEN Concludes(p, g, MapState(value, now))
              ELSE Moves(p, g, [NewLookup EXCEPT !.at = "fallback", !.primary = value])
    BY DEF FetchesGroup
  <1>3. MapState(value, now) # Absent
    BY <1>1, CoversSure, MapStateTyped
  <1>4. CASE HasUrl(value)
    <2>1. Concludes(p, g, MapState(value, now))
      BY <1>2, <1>4
    <2>2. QED
      BY <1>1, <1>3, <2>1, ConcludesQuietly
  <1>5. CASE ~HasUrl(value)
    <2> DEFINE new == [NewLookup EXCEPT !.at = "fallback", !.primary = value]
    <2>1. new.at = "fallback" /\ DOMAIN new.copy = {} /\ Moves(p, g, new)
      BY <1>2, <1>5, NoCopy DEF NewLookup
    <2> HIDE DEF new
    <2>2. LookupCalm(pages[p].lookups[g], new) /\ LookupKept(g, new, SafeItems(pages, stored))
      BY <1>1, <2>1, SharedLookupKept DEF LookupCalm
    <2>3. QuietlyMoves(p, g, new)
      BY <1>1, <2>1, <2>2 DEF QuietlyMoves
    <2>4. QED
      BY <2>3, QuietMove
  <1>6. QED
    BY <1>4, <1>5

\* The search for a cover of a release ends, for a lookup that has tried some of them.
LEMMA FallsBackKept ==
  ASSUME LookupsSure, Kept(pages, stored), NEW p \in DOMAIN pages, NEW g \in DOMAIN pages[p].lookups,
         g \in Groups,
         pages[p].at = "work", stored' = stored, NEW lookup \in Lookup, DOMAIN lookup.copy = ReleasesOf(g),
         LookupCalm(pages[p].lookups[g], lookup), lookup.primary \in Values, NEW value \in Values,
         FallsBack(p, g, lookup, value)
  PROVE  Kept(pages', stored')
  <1>1. now \in Times
    BY WorkingLookup
  <1>2. CASE lookup.changed
    <2> DEFINE new == [lookup EXCEPT !.at = "delete", !.left = {}, !.result = MapState(value, now)]
    <2>1. new.at = "delete" /\ new.copy = lookup.copy
      BY DEF Lookup
    <2>2. Moves(p, g, new)
      BY <1>2 DEF FallsBack
    <2> HIDE DEF new
    <2>3. LookupCalm(pages[p].lookups[g], new)
      BY <2>1 DEF LookupCalm
    <2>4. LookupKept(g, new, SafeItems(pages, stored))
      BY <2>1, ReleasesOfGroup, ItemsAssumption DEF LookupKept, Written
    <2>5. QuietlyMoves(p, g, new)
      BY <2>1, <2>2, <2>3, <2>4 DEF QuietlyMoves
    <2>6. QED
      BY <2>5, QuietMove
  <1>3. CASE ~lookup.changed
    <2>1. {lookup.primary} \in SUBSET Values
      OBVIOUS
    <2>2. MapFallback(value, {lookup.primary}, now) # Absent
      BY <1>1, <2>1, MapFallbackTyped
    <2>3. Concludes(p, g, MapFallback(value, {lookup.primary}, now))
      BY <1>3 DEF FallsBack
    <2>4. pages[p].lookups[g].at # "save"
      BY DEF LookupCalm
    <2>5. QED
      BY <2>2, <2>3, <2>4, ConcludesQuietly
  <1>4. QED
    BY <1>2, <1>3

LEMMA TriesSiblingKept ==
  ASSUME LookupsSure, Kept(pages, stored), NEW p \in DOMAIN pages, NEW g \in DOMAIN pages[p].lookups,
         NEW r \in Releases,
         TriesSibling(p, g, r)
  PROVE  Kept(pages', stored')
  <1> DEFINE lookup == pages[p].lookups[g]
             cached == lookup.copy[r]
             Tried(state) == [lookup EXCEPT !.left = @ \ {r}, !.copy[r] = state,
                                            !.misses = @ \cup {state.value},
                                            !.changed = @ \/ ~IsUsable(cached, lookup.asOf)]
  <1>1. /\ now \in Times /\ lookup \in Lookup /\ LookupSure(g, lookup) /\ stored' = stored
        /\ pages[p].at = "work" /\ lookup.at = "sibling" /\ g \in Groups /\ r \in lookup.left
    BY WorkingLookup DEF TriesSibling, At, LookupSure, GroupStages, OnlyPages
  <1>2. /\ lookup.primary \in Values /\ DOMAIN lookup.copy = ReleasesOf(g) /\ r \in ReleasesOf(g)
        /\ lookup.copy \in [ReleasesOf(g) -> State]
    BY <1>1 DEF LookupSure, GroupStages, Values, Lookup, Copies
  <1>3. PICK state \in IF IsUsable(cached, lookup.asOf) THEN {cached}
                       ELSE {MapState(value, now) : value \in Covers(r)} :
              IF HasUrl(state.value) THEN FallsBack(p, g, Tried(state), state.value)
              ELSE Moves(p, g, Tried(state))
    BY DEF TriesSibling
  <1>4. state # Absent /\ state \in State /\ state.value \in Values
    <2>1. CASE IsUsable(cached, lookup.asOf)
      BY <1>2, <1>3, <2>1 DEF IsUsable, Absent, State
    <2>2. CASE ~IsUsable(cached, lookup.asOf)
      <3>1. r \in Items
        BY DEF Items
      <3>2. QED
        BY <1>1, <1>3, <2>2, <3>1, CoversSure, MapStateTyped
    <2>3. QED
      BY <2>1, <2>2
  <1> DEFINE new == Tried(state)
             copy == [lookup.copy EXCEPT ![r] = state]
             changed == lookup.changed \/ ~IsUsable(cached, lookup.asOf)
  <1>5. /\ copy \in Copies /\ DOMAIN copy = ReleasesOf(g)
        /\ \A x \in DOMAIN copy : copy[x] # Absent \/ copy[x] = lookup.copy[x]
    <2>1. copy \in [ReleasesOf(g) -> State]
      BY <1>2, <1>4
    <2>2. ReleasesOf(g) \in SUBSET Items
      BY <1>1, ReleasesOfGroup
    <2>3. copy \in Copies
      BY <2>1, <2>2 DEF Copies
    <2>4. QED
      BY <1>2, <1>4, <2>1, <2>3
  <1>6. changed \in BOOLEAN /\ lookup.left \ {r} \in SUBSET Releases
        /\ lookup.misses \cup {state.value} \in SUBSET Values
    BY <1>1, <1>4 DEF Lookup, IsUsable
  <1>7. new = [lookup EXCEPT !.left = lookup.left \ {r}, !.copy = copy,
                             !.misses = lookup.misses \cup {state.value}, !.changed = changed]
    BY <1>1 DEF Lookup
  <1> HIDE DEF new, copy, changed
  <1>8. new \in Lookup /\ new.at = "sibling" /\ new.copy = copy /\ new.primary = lookup.primary
    BY <1>1, <1>5, <1>6, <1>7 DEF Lookup
  <1>9. LookupCalm(lookup, new)
    BY <1>1, <1>2, <1>5, <1>8 DEF LookupCalm
  <1>10. CASE HasUrl(state.value)
    <2>1. FallsBack(p, g, new, state.value)
      BY <1>3, <1>10 DEF new
    <2>2. QED
      BY <1>1, <1>2, <1>4, <1>5, <1>8, <1>9, <2>1, FallsBackKept
  <1>11. CASE ~HasUrl(state.value)
    <2>1. Moves(p, g, new)
      BY <1>3, <1>11 DEF new
    <2>2. LookupKept(g, new, SafeItems(pages, stored))
      BY <1>1, <1>8, SharedLookupKept
    <2>3. QuietlyMoves(p, g, new)
      BY <1>1, <1>8, <1>9, <2>1, <2>2 DEF QuietlyMoves
    <2>4. QED
      BY <2>3, QuietMove
  <1>12. QED
    BY <1>10, <1>11

LEMMA HasNoSiblingKept ==
  ASSUME LookupsSure, Kept(pages, stored), NEW p \in DOMAIN pages, NEW g \in DOMAIN pages[p].lookups,
         HasNoSibling(p, g)
  PROVE  Kept(pages', stored')
  <1> DEFINE lookup == pages[p].lookups[g]
             value == ResolveMiss(lookup.misses)
  <1>1. /\ lookup \in Lookup /\ LookupSure(g, lookup) /\ lookup.at = "sibling" /\ g \in Groups
        /\ stored' = stored /\ pages[p].at = "work" /\ FallsBack(p, g, lookup, value)
    BY WorkingLookup DEF HasNoSibling, At, LookupSure, GroupStages, OnlyPages
  <1>2. lookup.primary \in Values /\ DOMAIN lookup.copy = ReleasesOf(g) /\ value \in Values
    BY <1>1 DEF LookupSure, GroupStages, Values, ResolveMiss
  <1> HIDE DEF value
  <1>3. LookupCalm(lookup, lookup)
    BY <1>1 DEF LookupCalm
  <1>4. QED
    BY <1>1, <1>2, <1>3, FallsBackKept

LEMMA FetchesLyricsKept ==
  ASSUME LookupsSure, Kept(pages, stored), NEW p \in DOMAIN pages, NEW t \in DOMAIN pages[p].lookups,
         FetchesLyrics(p, t)
  PROVE  Kept(pages', stored')
  <1> DEFINE page == pages[p]
             cached == page.copy[t]
  <1>1. /\ page \in Page /\ t \in Items /\ t \in Tracks /\ now \in Times /\ t \in DOMAIN page.copy
        /\ t \in DOMAIN page.lookups /\ page.at = "work" /\ page.lookups[t].at = "start"
        /\ page.kind = "lyrics" /\ stored' = stored
    BY WorkingLookup, WhoShares DEF FetchesLyrics, At, OnlyPages
  <1>2. PICK state \in IF IsUsable(cached, now) THEN {cached}
                       ELSE {MapState(value, now) : value \in Lyrics(t)} :
              pages' = [pages EXCEPT ![p].copy[t] = state, ![p].lookups[t] = Done(state)]
    BY DEF FetchesLyrics
  <1>3. state # Absent
    <2>1. CASE IsUsable(cached, now)
      BY <1>2, <2>1 DEF IsUsable, Absent
    <2>2. CASE ~IsUsable(cached, now)
      <3>1. Lyrics(t) \subseteq Values
        BY <1>1 DEF Lyrics, Values
      <3>2. QED
        BY <1>1, <1>2, <2>2, <3>1, MapStateTyped
    <2>3. QED
      BY <2>1, <2>2
  <1> DEFINE new == [page EXCEPT !.copy[t] = state, !.lookups[t] = Done(state)]
  <1>4. pages' = [pages EXCEPT ![p] = new]
    BY <1>2
  <1> HIDE DEF page, cached
  <1>5. PageConcluded(page, new, t, state)
    BY <1>1 DEF Page, PageConcluded
  <1> HIDE DEF new
  <1>6. PageConcluded(pages[p], new, t, state) /\ pages[p].at = "work" /\ pages[p].lookups[t].at # "save"
    BY <1>1, <1>5 DEF page
  <1>7. QED
    BY <1>1, <1>3, <1>4, <1>6, QuietConclusion

-----------------------------------------------------------------------------
(* The lookups of artists keep what was found.                             *)

LEMMA AnswerKept ==
  ASSUME LookupsSure, Kept(pages, stored), NEW p \in DOMAIN pages, NEW a \in DOMAIN pages[p].lookups,
         pages[p].lookups[a].at \in ArtistStages, pages[p].at = "work", stored' = stored,
         NEW value \in Values, Settles(p, a, MapState(value, now))
  PROVE  Kept(pages', stored')
  <1>1. a \in Artists /\ now \in Times
    BY AtArtist
  <1>2. MapState(value, now) # Absent
    BY <1>1, MapStateTyped
  <1>3. QED
    BY <1>1, <1>2, SettlesKept

\* A lookup of an artist at one of its stages, with what its steps may change of it.
LEMMA ArtistTurned ==
  ASSUME LookupsSure, Kept(pages, stored), NEW p \in DOMAIN pages, NEW a \in DOMAIN pages[p].lookups,
         a \in Artists, pages[p].lookups[a].at \in ArtistStages \cup {"start"}, pages[p].at = "work",
         NEW lookup \in Lookup, lookup.copy = pages[p].lookups[a].copy, NEW at \in ArtistStages,
         Moves(p, a, [lookup EXCEPT !.at = at]), stored' = stored
  PROVE  Kept(pages', stored')
  <1> DEFINE new == [lookup EXCEPT !.at = at]
  <1>1. new.at \in ArtistStages /\ new.copy = pages[p].lookups[a].copy /\ Moves(p, a, new)
    BY DEF Lookup
  <1> HIDE DEF new
  <1>2. QED
    BY <1>1, ArtistKept

LEMMA AfterSyncKept ==
  ASSUME LookupsSure, Kept(pages, stored), NEW p \in DOMAIN pages, NEW a \in DOMAIN pages[p].lookups,
         pages[p].lookups[a].at \in ArtistStages, pages[p].at = "work", stored' = stored,
         NEW lookup \in Lookup, lookup.copy = pages[p].lookups[a].copy, AfterSync(p, a, lookup)
  PROVE  Kept(pages', stored')
  <1>1. a \in Artists
    BY AtArtist
  <1>2. CASE lookup.primary = Miss
    <2>1. Settles(p, a, MapState(Miss, now)) /\ Miss \in Values
      BY <1>2 DEF AfterSync, Values
    <2>2. QED
      BY <2>1, AnswerKept
  <1>3. CASE lookup.primary # Miss
    <2>1. Moves(p, a, [lookup EXCEPT !.at = "discogs"]) /\ "discogs" \in ArtistStages
      BY <1>3 DEF AfterSync, ArtistStages
    <2>2. QED
      BY <1>1, <2>1, ArtistTurned
  <1>4. QED
    BY <1>2, <1>3

LEMMA SynchronizesKept ==
  ASSUME LookupsSure, Kept(pages, stored), NEW p \in DOMAIN pages, NEW a \in DOMAIN pages[p].lookups,
         pages[p].lookups[a].at \in ArtistStages, pages[p].at = "work", stored' = stored,
         NEW lookup \in Lookup, lookup.copy = pages[p].lookups[a].copy, Synchronizes(p, a, lookup)
  PROVE  Kept(pages', stored')
  <1>1. a \in Artists
    BY AtArtist
  <1>2. CASE lookup.base \in {"absent", "current"}
    BY <1>2, AfterSyncKept DEF Synchronizes
  <1>3. CASE lookup.base \notin {"absent", "current"}
    <2>1. Moves(p, a, [lookup EXCEPT !.at = "syncDelete"]) /\ "syncDelete" \in ArtistStages
      BY <1>3 DEF Synchronizes, ArtistStages
    <2>2. QED
      BY <1>1, <2>1, ArtistTurned
  <1>4. QED
    BY <1>2, <1>3

LEMMA ReadsImageKept ==
  ASSUME LookupsSure, Kept(pages, stored), NEW p \in DOMAIN pages, NEW a \in DOMAIN pages[p].lookups,
         ReadsImage(p, a)
  PROVE  Kept(pages', stored')
  <1> DEFINE lookup == pages[p].lookups[a]
             at == IF lookup.links = "unread" THEN "details"
                   ELSE IF lookup.links = "none" THEN "musicbrainz" ELSE "bypass"
  <1>1. /\ a \in Artists /\ lookup \in Lookup /\ lookup.at = "start" /\ pages[p].at = "work" /\ stored' = stored
    BY WorkingLookup DEF ReadsImage, At, OnlyPages
  <1>2. CASE IsUsable(stored[a], now)
    <2>1. Moves(p, a, Done(stored[a]))
      BY <1>2 DEF ReadsImage
    <2>2. QED
      BY <1>1, <1>2, <2>1, DoneWithCached
  <1>3. CASE ~IsUsable(stored[a], now)
    <2>1. Moves(p, a, [lookup EXCEPT !.at = at]) /\ at \in ArtistStages
      BY <1>3 DEF ReadsImage, ArtistStages
    <2> HIDE DEF at
    <2>2. QED
      BY <1>1, <2>1, ArtistTurned
  <1>4. QED
    BY <1>2, <1>3

LEMMA ReadsDetailsKept ==
  ASSUME LookupsSure, Kept(pages, stored), NEW p \in DOMAIN pages, NEW a \in DOMAIN pages[p].lookups,
         ReadsDetails(p, a)
  PROVE  Kept(pages', stored')
  <1> DEFINE lookup == pages[p].lookups[a]
             new == [lookup EXCEPT !.links = links[a], !.base = links[a],
                        !.at = IF links[a] \in {"old", "current"} THEN "bypass" ELSE "musicbrainz"]
  <1>1. /\ a \in Artists /\ lookup \in Lookup /\ lookup.at \in ArtistStages /\ pages[p].at = "work"
        /\ stored' = stored
    BY WorkingLookup, AtArtist DEF ReadsDetails, At, ArtistStages, OnlyPages
  <1>2. new.at \in ArtistStages /\ new.copy = lookup.copy
    <2> HIDE DEF lookup
    <2>1. QED
      BY <1>1 DEF Lookup, ArtistStages
  <1>3. Moves(p, a, new)
    BY DEF ReadsDetails
  <1> HIDE DEF new
  <1>4. QED
    BY <1>1, <1>2, <1>3, ArtistKept

LEMMA BypassesMusicBrainzKept ==
  ASSUME LookupsSure, Kept(pages, stored), NEW p \in DOMAIN pages, NEW a \in DOMAIN pages[p].lookups,
         BypassesMusicBrainz(p, a)
  PROVE  Kept(pages', stored')
  <1> DEFINE lookup == pages[p].lookups[a]
  <1>1. /\ a \in Artists /\ a \in Items /\ lookup \in Lookup /\ lookup.at \in ArtistStages
        /\ pages[p].at = "work" /\ stored' = stored
    BY WorkingLookup, AtArtist DEF BypassesMusicBrainz, Asks, At, ArtistStages, OnlyPages
  <1>2. PICK value \in Images(a) \cup (IF lookup.links = "old" THEN {a, Miss} ELSE {}) :
              IF HasUrl(value) THEN Settles(p, a, MapState(value, now))
              ELSE Moves(p, a, [lookup EXCEPT !.at = "musicbrainz"])
    BY DEF BypassesMusicBrainz
  <1>3. value \in Values /\ "musicbrainz" \in ArtistStages
    BY <1>1, ImagesSure DEF Values, ArtistStages
  <1>4. CASE HasUrl(value)
    BY <1>1, <1>2, <1>3, <1>4, AnswerKept
  <1>5. CASE ~HasUrl(value)
    BY <1>1, <1>2, <1>3, <1>5, ArtistTurned
  <1>6. QED
    BY <1>4, <1>5

LEMMA AsksMusicBrainzKept ==
  ASSUME LookupsSure, Kept(pages, stored), NEW p \in DOMAIN pages, NEW a \in DOMAIN pages[p].lookups,
         AsksMusicBrainz(p, a)
  PROVE  Kept(pages', stored')
  <1> DEFINE lookup == pages[p].lookups[a]
             Found(primary) == [lookup EXCEPT !.primary = primary]
  <1>1. /\ a \in Artists /\ lookup \in Lookup /\ lookup.at \in ArtistStages /\ pages[p].at = "work"
        /\ stored' = stored
    BY WorkingLookup, AtArtist DEF AsksMusicBrainz, Asks, At, ArtistStages, OnlyPages
  <1>2. ASSUME NEW value \in {Unknown, Miss}, Settles(p, a, MapState(value, now))
        PROVE  Kept(pages', stored')
    <2>1. value \in Values
      BY DEF Values
    <2>2. QED
      BY <1>1, <1>2, <2>1, AnswerKept
  <1>3. ASSUME NEW primary \in {Nothing, Miss},
               IF lookup.base = "absent" THEN Moves(p, a, [Found(primary) EXCEPT !.at = "sync"])
               ELSE Synchronizes(p, a, Found(primary))
        PROVE  Kept(pages', stored')
    <2> DEFINE found == Found(primary)
    <2>1. found \in Lookup /\ found.copy = lookup.copy
      <3> HIDE DEF lookup
      <3>1. QED
        BY <1>1 DEF Lookup, Values
    <2> HIDE DEF found
    <2>2. IF lookup.base = "absent" THEN Moves(p, a, [found EXCEPT !.at = "sync"])
          ELSE Synchronizes(p, a, found)
      BY <1>3 DEF found
    <2>3. CASE lookup.base = "absent"
      <3>1. Moves(p, a, [found EXCEPT !.at = "sync"]) /\ "sync" \in ArtistStages
        BY <2>2, <2>3 DEF ArtistStages
      <3>2. QED
        BY <1>1, <2>1, <3>1, ArtistTurned
    <2>4. CASE lookup.base # "absent"
      BY <1>1, <2>1, <2>2, <2>4, SynchronizesKept
    <2>5. QED
      BY <2>3, <2>4
  <1>4. QED
    BY <1>2, <1>3 DEF AsksMusicBrainz

LEMMA ReadsForSyncKept ==
  ASSUME LookupsSure, Kept(pages, stored), NEW p \in DOMAIN pages, NEW a \in DOMAIN pages[p].lookups,
         ReadsForSync(p, a)
  PROVE  Kept(pages', stored')
  <1> DEFINE lookup == pages[p].lookups[a]
             new == [lookup EXCEPT !.base = links[a]]
  <1>1. /\ a \in Artists /\ lookup \in Lookup /\ lookup.at \in ArtistStages /\ pages[p].at = "work"
        /\ stored' = stored /\ CacheSure
    BY WorkingLookup, AtArtist DEF ReadsForSync, At, ArtistStages, OnlyPages
  <1>2. Synchronizes(p, a, new)
    BY DEF ReadsForSync
  <1>3. new \in Lookup /\ new.copy = lookup.copy
    <2> HIDE DEF lookup
    <2>1. QED
      BY <1>1 DEF Lookup, CacheSure
  <1> HIDE DEF new
  <1>4. QED
    BY <1>1, <1>2, <1>3, SynchronizesKept

LEMMA DetailsKept ==
  ASSUME LookupsSure, Kept(pages, stored), NEW p \in DOMAIN pages, NEW a \in DOMAIN pages[p].lookups,
         DeletesDetails(p, a) \/ SavesDetails(p, a)
  PROVE  Kept(pages', stored')
  <1>1. /\ a \in Artists /\ pages[p].lookups[a] \in Lookup /\ pages[p].lookups[a].at \in ArtistStages
        /\ pages[p].at = "work" /\ stored' = stored
    BY WorkingLookup, AtArtist DEF DeletesDetails, SavesDetails, At, ArtistStages
  <1>2. CASE DeletesDetails(p, a)
    <2>1. Moves(p, a, [pages[p].lookups[a] EXCEPT !.at = "syncSave"]) /\ "syncSave" \in ArtistStages
      BY <1>2 DEF DeletesDetails, ArtistStages
    <2>2. QED
      BY <1>1, <2>1, ArtistTurned
  <1>3. CASE SavesDetails(p, a)
    BY <1>1, <1>3, AfterSyncKept DEF SavesDetails
  <1>4. QED
    BY <1>2, <1>3

LEMMA AsksDiscogsKept ==
  ASSUME LookupsSure, Kept(pages, stored), NEW p \in DOMAIN pages, NEW a \in DOMAIN pages[p].lookups,
         AsksDiscogs(p, a)
  PROVE  Kept(pages', stored')
  <1>1. /\ a \in Items /\ pages[p].lookups[a].at \in ArtistStages /\ pages[p].at = "work" /\ stored' = stored
    BY WorkingLookup DEF AsksDiscogs, Asks, At, ArtistStages, OnlyPages
  <1>2. PICK value \in Images(a) : Settles(p, a, MapState(value, now))
    BY DEF AsksDiscogs
  <1>3. value \in Values
    BY <1>1, ImagesSure
  <1>4. QED
    BY <1>1, <1>2, <1>3, AnswerKept

\* A lookup that fails has nothing to save, or the cache is not intact.
LEMMA FailsKept ==
  ASSUME LookupsSure, Kept(pages, stored), NEW p \in DOMAIN pages, NEW i \in DOMAIN pages[p].lookups,
         IsStopped(p, i) \/ (LookupCannotReach(p, i) /\ intact')
  PROVE  Kept(pages', stored')
  <1>1. /\ pages[p].at = "work" /\ stored' = stored /\ FailsLookup(p, i)
        /\ pages[p].lookups[i].at # "save"
    BY DEF IsStopped, LookupCannotReach, At, OnlyPages
  <1>2. LookupCalm(pages[p].lookups[i], Failed) /\ Failed.at = "failed"
    BY <1>1, FailedKept DEF LookupCalm
  <1>3. QuietlyMoves(p, i, Failed)
    BY <1>1, <1>2, FailedKept DEF QuietlyMoves
  <1>4. QED
    BY <1>3, QuietMove

-----------------------------------------------------------------------------
(* The steps that read a record to write it, delete it and save it.        *)

\* A record that nobody writes is in no writer's hand.
LEMMA NobodyWrites ==
  ASSUME LookupsSure, Kept(pages, stored), NEW record, ~IsBeingWritten(record), NEW h \in Hands(pages),
         WritesAt(pages, h)
  PROVE  DOMAIN CopyAt(pages, h) \cap record = {}
  <1>a. PICK p \in DOMAIN pages : \E j \in DOMAIN pages[p].lookups \cup {Nothing} : h = <<p, j>>
    BY DEF Hands
  <1>1. PICK i \in DOMAIN pages[p].lookups \cup {Nothing} : h = <<p, i>>
    BY <1>a
  <1>2. /\ PageKept(pages[p], SafeItems(pages, stored)) /\ Nothing \notin DOMAIN pages[p].lookups
        /\ h[1] = p /\ h[2] = i
    BY <1>1, PageTyped, ItemsAssumption DEF Kept, LookupsSure
  <1>3. CASE i = Nothing
    <2>1. pages[p].at = "save" /\ CopyAt(pages, h) = pages[p].copy
      BY <1>2, <1>3 DEF CopyAt, WritesAt, HandCopy, HandWrites
    <2>2. DOMAIN pages[p].copy = PageRecord(p)
      BY <1>2, <2>1 DEF PageKept, FoundInCopy, PageRecord
    <2>3. QED
      BY <2>1, <2>2 DEF IsBeingWritten
  <1>4. CASE i # Nothing
    <2>1. pages[p].lookups[i].at = "save" /\ CopyAt(pages, h) = pages[p].lookups[i].copy
      BY <1>2, <1>4 DEF CopyAt, WritesAt, HandCopy, HandWrites
    <2>2. DOMAIN pages[p].lookups[i].copy = Written(i)
      BY <1>1, <1>2, <1>4, <2>1 DEF PageKept, LookupKept
    <2>3. QED
      BY <1>1, <1>4, <2>1, <2>2 DEF IsBeingWritten
  <1>5. QED
    BY <1>3, <1>4

\* A record that nobody holds beside a hand is in no other hand.
LEMMA NobodyHolds ==
  ASSUME PagesSure, NEW p, NEW i, NEW record, ~IsHeldBeside(p, i, record), NEW h \in Hands(pages), h # <<p, i>>
  PROVE  DOMAIN CopyAt(pages, h) \cap record = {}
  <1>a. PICK q \in DOMAIN pages : \E k \in DOMAIN pages[q].lookups \cup {Nothing} : h = <<q, k>>
    BY DEF Hands
  <1>1. PICK j \in DOMAIN pages[q].lookups \cup {Nothing} : h = <<q, j>>
    BY <1>a
  <1>2. Nothing \notin DOMAIN pages[q].lookups /\ h[1] = q /\ h[2] = j
    BY <1>1, PageTyped, ItemsAssumption
  <1>3. CASE j = Nothing
    BY <1>1, <1>2, <1>3 DEF CopyAt, HandCopy, IsHeldBeside
  <1>4. CASE j # Nothing
    BY <1>1, <1>2, <1>4 DEF CopyAt, HandCopy, IsHeldBeside
  <1>5. QED
    BY <1>3, <1>4

\* A lookup that reads a record to write it.
ReadingMoves(p, i, lookup) ==
    /\ Moves(p, i, lookup) /\ stored' = stored /\ pages[p].at = "work"
    /\ pages[p].lookups[i].at # "save" /\ lookup.at \notin {"save", "siblings", "done"}
    /\ LookupKept(i, lookup, SafeItems(pages, stored))
    /\ DOMAIN lookup.copy \subseteq Items
    /\ \A x \in DOMAIN lookup.copy : lookup.copy[x] = stored[x] /\ x \notin Artists
    /\ ~IsBeingWritten(DOMAIN lookup.copy)

LEMMA ReadingMove ==
  ASSUME LookupsSure, Kept(pages, stored), NEW p \in DOMAIN pages, NEW i \in DOMAIN pages[p].lookups,
         NEW lookup,
         ReadingMoves(p, i, lookup)
  PROVE  Kept(pages', stored')
  <1>1. PICK new : pages' = [pages EXCEPT ![p] = new] /\ LookupMoved(pages[p], new, i, lookup)
    BY MovedPage DEF ReadingMoves
  <1>2. pages[p] \in Page
    BY WorkingLookup
  <1> DEFINE h0 == <<p, i>>
             old == pages[p]
             P2 == [pages EXCEPT ![p] = new]
             safe == SafeItems(pages, stored)
             safe2 == SafeItems(P2, stored)
  <1>3. /\ PageCalm(old, new, i) /\ i \in DOMAIN old.lookups \cup {Nothing}
        /\ HandCopy(new, i) = lookup.copy /\ ~HandWrites(old, i) /\ ~HandWrites(new, i)
    BY <1>1, <1>2, MovedHands DEF ReadingMoves
  <1>4. /\ OthersCalm(pages, P2, h0) /\ ~WritesAt(pages, h0) /\ ~WritesAt(P2, h0)
        /\ CopyAt(P2, h0) = lookup.copy
    BY <1>3, ReplacedPage
  <1>5. \A h \in Hands(pages) : WritesAt(pages, h) => DOMAIN CopyAt(pages, h) \cap DOMAIN lookup.copy = {}
    BY NobodyWrites DEF ReadingMoves
  <1>a. /\ DOMAIN lookup.copy \subseteq Items
        /\ \A x \in DOMAIN lookup.copy : lookup.copy[x] = stored[x] /\ x \notin Artists
        /\ HandsHold(pages, stored)
    BY DEF ReadingMoves, Kept
  <1> HIDE DEF P2, h0
  <1>6. HandsGoOn(pages, stored, P2, stored)
    BY <1>4, <1>5, <1>a, ReadHands
  <1>7. /\ safe \subseteq safe2 /\ PageKept(old, safe) /\ old.at = "work" /\ i \in DOMAIN old.lookups
        /\ LookupMoved(old, new, i, lookup) /\ LookupKept(i, lookup, safe)
        /\ lookup.at \notin {"siblings", "done"}
    BY <1>1, <1>6 DEF HandsGoOn, ReadingMoves, Kept
  <1>8. LookupKept(i, lookup, safe2)
    BY <1>7 DEF LookupKept
  <1> HIDE DEF old, safe, safe2
  <1>9. PageKept(new, safe2)
    BY <1>7, <1>8, MovedKept
  <1>10. Kept(P2, stored)
    BY <1>6, <1>9, KeptBy DEF P2, safe2
  <1>11. QED
    BY <1>1, <1>10 DEF ReadingMoves, P2

LEMMA ReadsReleaseKept ==
  ASSUME LookupsSure, Kept(pages, stored), intact', NEW p \in DOMAIN pages, NEW r \in DOMAIN pages[p].lookups,
         ReadsRelease(p, r)
  PROVE  Kept(pages', stored')
  <1>1. /\ r \in Releases /\ CacheSure /\ r \notin Artists /\ stored' = stored
        /\ pages[p].at = "work" /\ pages[p].lookups[r].at = "start"
    BY WorkingLookup, ItemsAssumption DEF ReadsRelease, At, OnlyPages, ReadsToWrite
  <1>2. CASE IsUsable(stored[r], now)
    <2>1. Moves(p, r, Done(stored[r]))
      BY <1>2 DEF ReadsRelease
    <2>2. QED
      BY <1>1, <1>2, <2>1, DoneWithCached
  <1>3. CASE ~IsUsable(stored[r], now)
    <2> DEFINE new == [NewLookup EXCEPT !.at = "fetch", !.copy = CopyOf(Record(r)), !.asOf = now]
    <2>1. Record(r) \in SUBSET Items /\ Record(r) \subseteq Releases
      BY <1>1, RecordOfOne
    <2>2. DOMAIN CopyOf(Record(r)) = Record(r) /\ \A x \in Record(r) : CopyOf(Record(r))[x] = stored[x]
      BY <1>1, <2>1, CopyOfSure
    <2>3. new.at = "fetch" /\ new.copy = CopyOf(Record(r))
      BY DEF NewLookup
    <2>4. Moves(p, r, new) /\ ~IsBeingWritten(Record(r))
      BY <1>3 DEF ReadsRelease, ReadsToWrite
    <2> HIDE DEF new
    <2>5. LookupKept(r, new, SafeItems(pages, stored))
      BY <1>1, <2>2, <2>3, ItemsAssumption DEF LookupKept
    <2>6. /\ DOMAIN new.copy \subseteq Items /\ ~IsBeingWritten(DOMAIN new.copy)
          /\ \A x \in DOMAIN new.copy : new.copy[x] = stored[x] /\ x \notin Artists
      BY <2>1, <2>2, <2>3, <2>4, ItemsAssumption
    <2>7. ReadingMoves(p, r, new)
      BY <1>1, <2>3, <2>4, <2>5, <2>6 DEF ReadingMoves
    <2>8. QED
      BY <2>7, ReadingMove
  <1>4. QED
    BY <1>2, <1>3

LEMMA ReadsFallbackKept ==
  ASSUME LookupsSure, Kept(pages, stored), intact', NEW p \in DOMAIN pages, NEW g \in DOMAIN pages[p].lookups,
         ReadsFallback(p, g)
  PROVE  Kept(pages', stored')
  <1> DEFINE lookup == pages[p].lookups[g]
             record == ReleasesOf(g)
             new == [lookup EXCEPT !.at = "sibling", !.copy = CopyOf(record), !.asOf = now,
                                   !.left = record, !.misses = {lookup.primary}]
  <1>1. /\ CacheSure /\ lookup \in Lookup /\ lookup.at = "fallback" /\ g \in Groups /\ stored' = stored
        /\ pages[p].at = "work" /\ Moves(p, g, new) /\ ~IsBeingWritten(record)
    BY WorkingLookup DEF ReadsFallback, At, LookupSure, GroupStages, ReadsToWrite
  <1>2. record \in SUBSET Items /\ record \subseteq Releases
    BY <1>1, ReleasesOfGroup
  <1> HIDE DEF record
  <1>3. DOMAIN CopyOf(record) = record /\ \A x \in record : CopyOf(record)[x] = stored[x]
    BY <1>1, <1>2, CopyOfSure
  <1>4. new.at = "sibling" /\ new.copy = CopyOf(record)
    <2> HIDE DEF lookup
    <2>1. QED
      BY <1>1 DEF Lookup
  <1> HIDE DEF new
  <1>5. LookupKept(g, new, SafeItems(pages, stored))
    BY <1>1, <1>4, SharedLookupKept
  <1>6. /\ DOMAIN new.copy \subseteq Items /\ ~IsBeingWritten(DOMAIN new.copy)
        /\ \A x \in DOMAIN new.copy : new.copy[x] = stored[x] /\ x \notin Artists
    BY <1>1, <1>2, <1>3, <1>4, ItemsAssumption
  <1>7. ReadingMoves(p, g, new)
    BY <1>1, <1>4, <1>5, <1>6 DEF ReadingMoves
  <1>8. QED
    BY <1>7, ReadingMove

LEMMA DeletesKept ==
  ASSUME LookupsSure, Kept(pages, stored), intact', NEW p \in DOMAIN pages, NEW i \in DOMAIN pages[p].lookups,
         Deletes(p, i)
  PROVE  Kept(pages', stored')
  <1> DEFINE lookup == pages[p].lookups[i]
             next == [lookup EXCEPT !.at = "save"]
  <1>1. /\ PagesSure /\ lookup \in Lookup /\ lookup.at = "delete" /\ pages[p].at = "work" /\ Moves(p, i, next)
        /\ stored' = [x \in Items |-> IF x \in Written(i) THEN Absent ELSE stored[x]]
        /\ ~IsHeldBeside(p, i, Written(i)) /\ pages[p] \in Page
    BY WorkingLookup DEF Deletes, At, DeletesRecord
  <1>2. next.at = "save" /\ next.copy = lookup.copy
    <2> HIDE DEF lookup
    <2>1. QED
      BY <1>1 DEF Lookup
  <1>3. LookupKept(i, lookup, SafeItems(pages, stored))
    BY DEF Kept, PageKept
  <1>4. DOMAIN lookup.copy = Written(i)
    BY <1>1, <1>3 DEF LookupKept
  <1> HIDE DEF next
  <1>5. PICK new : pages' = [pages EXCEPT ![p] = new] /\ LookupMoved(pages[p], new, i, next)
    BY <1>1, MovedPage
  <1> DEFINE h0 == <<p, i>>
             old == pages[p]
             P2 == [pages EXCEPT ![p] = new]
             st2 == stored'
             safe == SafeItems(pages, stored)
             safe2 == SafeItems(P2, st2)
  <1>6. /\ PageCalm(old, new, i) /\ i \in DOMAIN old.lookups \cup {Nothing}
        /\ HandCopy(old, i) = lookup.copy /\ HandCopy(new, i) = lookup.copy
        /\ ~HandWrites(old, i) /\ HandWrites(new, i)
    BY <1>1, <1>2, <1>5, MovedHands
  <1>7. /\ OthersCalm(pages, P2, h0) /\ ~WritesAt(pages, h0) /\ WritesAt(P2, h0)
        /\ CopyAt(P2, h0) = CopyAt(pages, h0) /\ DOMAIN CopyAt(pages, h0) = Written(i)
    BY <1>4, <1>6, ReplacedPage
  <1>8. \A h \in Hands(pages) : h # h0 => DOMAIN CopyAt(pages, h) \cap Written(i) = {}
    BY <1>1, NobodyHolds
  <1>9. \A x \in Items : st2[x] = IF x \in Written(i) THEN Absent ELSE stored[x]
    BY <1>1
  <1>10. HandsHold(pages, stored)
    BY DEF Kept
  <1> HIDE DEF P2, h0, st2
  <1>11. HandsGoOn(pages, stored, P2, st2)
    BY <1>7, <1>8, <1>9, <1>10, DeleteHands
  <1>12. /\ safe \subseteq safe2 /\ PageKept(old, safe) /\ old.at = "work" /\ i \in DOMAIN old.lookups
         /\ LookupMoved(old, new, i, next) /\ next.at \notin {"siblings", "done"}
    BY <1>1, <1>2, <1>5, <1>11 DEF HandsGoOn, Kept
  <1>13. LookupKept(i, next, safe2)
    BY <1>1, <1>2, <1>3 DEF LookupKept, ArtistStages
  <1> HIDE DEF old, safe, safe2
  <1>14. PageKept(new, safe2)
    BY <1>12, <1>13, MovedKept
  <1>15. Kept(P2, st2)
    BY <1>11, <1>14, KeptBy DEF P2, safe2
  <1>16. QED
    BY <1>5, <1>15 DEF P2, st2

LEMMA SavesKept ==
  ASSUME LookupsSure, Kept(pages, stored), NEW p \in DOMAIN pages, NEW i \in DOMAIN pages[p].lookups,
         Saves(p, i)
  PROVE  Kept(pages', stored')
  <1> DEFINE lookup == pages[p].lookups[i]
             next == Done(lookup.result)
  <1>1. /\ lookup \in Lookup /\ lookup.at = "save" /\ pages[p].at = "work" /\ Moves(p, i, next)
        /\ stored' = [x \in Items |-> IF x \in DOMAIN lookup.copy THEN lookup.copy[x] ELSE stored[x]]
        /\ pages[p] \in Page /\ i \notin Groups /\ i \in Items
    BY WorkingLookup DEF Saves, At, SavesRecord
  <1>2. next.at = "done" /\ DOMAIN next.copy = {}
    BY DoneIsEmpty
  <1>3. LookupKept(i, lookup, SafeItems(pages, stored))
    BY DEF Kept, PageKept
  <1>4. DOMAIN lookup.copy = Written(i) /\ (i \in Releases \cup Artists => lookup.copy[i] # Absent)
    BY <1>1, <1>3 DEF LookupKept
  <1> HIDE DEF next
  <1>5. PICK new : pages' = [pages EXCEPT ![p] = new] /\ LookupMoved(pages[p], new, i, next)
    BY <1>1, MovedPage
  <1> DEFINE h0 == <<p, i>>
             old == pages[p]
             P2 == [pages EXCEPT ![p] = new]
             st2 == stored'
             safe == SafeItems(pages, stored)
             safe2 == SafeItems(P2, st2)
  <1>6. /\ PageCalm(old, new, i) /\ i \in DOMAIN old.lookups \cup {Nothing}
        /\ HandCopy(old, i) = lookup.copy /\ DOMAIN HandCopy(new, i) = {}
        /\ HandWrites(old, i) /\ ~HandWrites(new, i)
    BY <1>1, <1>2, <1>5, MovedHands
  <1>7. /\ OthersCalm(pages, P2, h0) /\ WritesAt(pages, h0) /\ EmptyAt(P2, h0)
        /\ CopyAt(pages, h0) = lookup.copy
    BY <1>6, ReplacedPage DEF EmptyAt
  <1>8. \A x \in Items : st2[x] = IF x \in DOMAIN lookup.copy THEN lookup.copy[x] ELSE stored[x]
    BY <1>1
  <1>9. HandsHold(pages, stored)
    BY DEF Kept
  <1> HIDE DEF P2, h0, st2
  <1>10. HandsGoOn(pages, stored, P2, st2)
    BY <1>7, <1>8, <1>9, SaveHands
  <1>11. i \in Releases \cup Artists => i \in safe2
    BY <1>1, <1>4, <1>8, RecordOfOne DEF SafeItems
  <1>12. LookupKept(i, next, safe2)
    BY <1>11, DoneKept DEF next
  <1>13. /\ safe \subseteq safe2 /\ PageKept(old, safe) /\ old.at = "work" /\ i \in DOMAIN old.lookups
         /\ LookupMoved(old, new, i, next)
    BY <1>1, <1>5, <1>10 DEF HandsGoOn, Kept
  <1>14. ~SharesCopy(old)
    <2>1. i \notin Tracks
      BY <1>1, <1>3 DEF LookupKept
    <2>2. QED
      BY <1>1, <2>1, WhoShares DEF Items
  <1> HIDE DEF old, safe, safe2
  <1>15. PageKept(new, safe2)
    BY <1>12, <1>13, <1>14, MovedKept
  <1>16. Kept(P2, st2)
    BY <1>10, <1>15, KeptBy DEF P2, safe2
  <1>17. QED
    BY <1>5, <1>16 DEF P2, st2

\* A group whose releases are saved concludes with what it found of them.
LEMMA SavesSiblingsKept ==
  ASSUME LookupsSure, Kept(pages, stored), NEW p \in DOMAIN pages, NEW g \in DOMAIN pages[p].lookups,
         SavesSiblings(p, g)
  PROVE  Kept(pages', stored')
  <1> DEFINE lookup == pages[p].lookups[g]
             state == MapFallback(lookup.result.value, {lookup.primary}, now)
  <1>1. /\ lookup \in Lookup /\ LookupSure(g, lookup) /\ lookup.at = "save" /\ pages[p].at = "work"
        /\ g \in Groups /\ now \in Times /\ Concludes(p, g, state) /\ pages[p] \in Page
        /\ g \in DOMAIN pages[p].copy
        /\ stored' = [x \in Items |-> IF x \in DOMAIN lookup.copy THEN lookup.copy[x] ELSE stored[x]]
    BY WorkingLookup DEF SavesSiblings, At, SavesRecord
  <1>2. state # Absent
    <2>1. lookup.result.value \in Values /\ {lookup.primary} \in SUBSET Values
      BY <1>1 DEF LookupSure, Values
    <2>2. QED
      BY <1>1, <2>1, MapFallbackTyped
  <1> HIDE DEF state
  <1>3. PICK new : pages' = [pages EXCEPT ![p] = new] /\ PageConcluded(pages[p], new, g, state)
    BY <1>1, ConcludedPage
  <1> DEFINE h0 == <<p, g>>
             old == pages[p]
             P2 == [pages EXCEPT ![p] = new]
             st2 == stored'
             safe == SafeItems(pages, stored)
             safe2 == SafeItems(P2, st2)
  <1>4. /\ PageCalm(old, new, g) /\ g \in DOMAIN old.lookups \cup {Nothing}
        /\ HandCopy(old, g) = lookup.copy /\ DOMAIN HandCopy(new, g) = {}
        /\ HandWrites(old, g) /\ ~HandWrites(new, g)
    BY <1>1, <1>2, <1>3, ConcludedHands
  <1>5. /\ OthersCalm(pages, P2, h0) /\ WritesAt(pages, h0) /\ EmptyAt(P2, h0)
        /\ CopyAt(pages, h0) = lookup.copy
    BY <1>4, ReplacedPage DEF EmptyAt
  <1>6. \A x \in Items : st2[x] = IF x \in DOMAIN lookup.copy THEN lookup.copy[x] ELSE stored[x]
    BY <1>1
  <1>7. HandsHold(pages, stored)
    BY DEF Kept
  <1> HIDE DEF P2, h0, st2
  <1>8. HandsGoOn(pages, stored, P2, st2)
    BY <1>5, <1>6, <1>7, SaveHands
  <1>9. /\ safe \subseteq safe2 /\ PageKept(old, safe) /\ old.at = "work" /\ g \in DOMAIN old.lookups
        /\ PageConcluded(old, new, g, state) /\ SharesCopy(old) /\ g \in Groups \cup Tracks
        /\ g \in DOMAIN old.copy
    BY <1>1, <1>3, <1>8, WhoShares DEF HandsGoOn, Kept
  <1> HIDE DEF old, safe, safe2
  <1>10. PageKept(new, safe2)
    BY <1>2, <1>9, ConcludedKept
  <1>11. Kept(P2, st2)
    BY <1>8, <1>10, KeptBy DEF P2, safe2
  <1>12. QED
    BY <1>3, <1>11 DEF P2, st2

LEMMA WorksOnKept ==
  ASSUME LookupsSure, Kept(pages, stored), intact', NEW p \in DOMAIN pages, NEW i \in DOMAIN pages[p].lookups,
         WorksOn(p, i)
  PROVE  Kept(pages', stored')
  BY FailsKept, DeletesKept, SavesKept, ReadsReleaseKept, FetchesReleaseKept, FetchesGroupOfReleaseKept,
     BeginsGroupKept, ReadsSiblingsKept, FetchesGroupKept, ReadsFallbackKept, TriesSiblingKept,
     HasNoSiblingKept, SavesSiblingsKept, FetchesLyricsKept, ReadsImageKept, ReadsDetailsKept,
     BypassesMusicBrainzKept, AsksMusicBrainzKept, ReadsForSyncKept, DetailsKept, AsksDiscogsKept
  DEF WorksOn

-----------------------------------------------------------------------------
(* The steps of pages keep what was found.                                 *)

\* A page whose lookups stay as they are.
LEMMA TurnedHands ==
  ASSUME NEW old, old \in Page, NEW new, new.lookups = old.lookups
  PROVE  /\ PageCalm(old, new, Nothing) /\ Nothing \in DOMAIN old.lookups \cup {Nothing}
         /\ HandCopy(old, Nothing) = old.copy /\ HandCopy(new, Nothing) = new.copy
         /\ HandWrites(old, Nothing) <=> old.at = "save"
         /\ HandWrites(new, Nothing) <=> new.at = "save"
  BY DEF PageCalm, Calm, HandCopy, HandWrites

\* A page that turns without reading or writing the cache.
LEMMA QuietTurn ==
  ASSUME LookupsSure, Kept(pages, stored), NEW p \in DOMAIN pages, NEW new, pages' = [pages EXCEPT ![p] = new],
         stored' = stored, new.lookups = pages[p].lookups, pages[p].at = "save" <=> new.at = "save",
         new.copy = pages[p].copy \/ (pages[p].at # "save" /\ DOMAIN new.copy = {}),
         PageKept(new, SafeItems(pages, stored))
  PROVE  Kept(pages', stored')
  <1>1. pages[p] \in Page
    BY PageTyped DEF LookupsSure
  <1>2. PageCalm(pages[p], new, Nothing) /\ Calm(pages[p], new, Nothing)
    BY <1>1, TurnedHands DEF Calm
  <1>3. AllCalm(pages, [pages EXCEPT ![p] = new])
    BY <1>2, ReplacedPage
  <1>4. HandsGoOn(pages, stored, [pages EXCEPT ![p] = new], stored)
    BY <1>3, QuietHands DEF Kept
  <1> DEFINE safe == SafeItems(pages, stored)
             safe2 == SafeItems([pages EXCEPT ![p] = new], stored)
  <1>5. safe \subseteq safe2 /\ PageKept(new, safe)
    BY <1>4 DEF HandsGoOn
  <1> HIDE DEF safe, safe2
  <1>6. PageKept(new, safe2)
    BY <1>5 DEF PageKept, LookupKept
  <1>7. Kept([pages EXCEPT ![p] = new], stored)
    BY <1>4, <1>6, KeptBy DEF safe2
  <1>8. QED
    BY <1>7

LEMMA DonePageKept ==
  ASSUME NEW old, NEW new, NEW safe, NEW safe2, safe \subseteq safe2, PageKept(old, safe),
         new.at = "done", new.kind = old.kind, new.lookups = old.lookups,
         (old.kind = "lyrics" => ~HasFailed(old)) =>
            \A i \in DOMAIN old.lookups : old.lookups[i].at = "done" => i \in safe2
  PROVE  PageKept(new, safe2)
  BY DEF PageKept, LookupKept, HasFailed

LEMMA EndedPage ==
  ASSUME NEW page \in Page
  PROVE  /\ Ended(page).at = "done" /\ Ended(page).kind = page.kind /\ Ended(page).lookups = page.lookups
         /\ DOMAIN Ended(page).copy = {}
  BY NoCopy DEF Ended, Page

\* What the record of a page that shares its copy is made of.
LEMMA SharedRecord ==
  ASSUME PagesSure, NEW p \in DOMAIN pages, SharesCopy(pages[p])
  PROVE  PageRecord(p) \subseteq Items /\ PageRecord(p) \cap Artists = {}
  <1>1. PageSure(pages[p]) /\ PageRecord(p) \subseteq Items
    BY PageTyped
  <1>2. DOMAIN pages[p].lookups \subseteq Groups \/ DOMAIN pages[p].lookups \subseteq Tracks
    BY <1>1, ItemsOfKinds DEF PageSure, SharesCopy
  <1>3. \A i \in Groups \cup Tracks : Record(i) \cap Artists = {}
    BY ItemsAssumption DEF Record
  <1>4. QED
    BY <1>1, <1>2, <1>3 DEF PageRecord

LEMMA BeginsPageKept ==
  ASSUME LookupsSure, Kept(pages, stored), intact', NEW p \in DOMAIN pages, BeginsPage(p)
  PROVE  Kept(pages', stored')
  <1>1. /\ PagesSure /\ CacheSure /\ pages[p] \in Page /\ pages[p].at = "queued" /\ stored' = stored
        /\ PageKept(pages[p], SafeItems(pages, stored)) /\ PageRecord(p) \subseteq Items
    BY PageTyped DEF LookupsSure, BeginsPage, OnlyPages, ReadsToWrite, Kept
  <1>2. CASE ~SharesCopy(pages[p])
    <2> DEFINE page == pages[p]
               new == [page EXCEPT !.at = "work"]
               safe == SafeItems(pages, stored)
    <2>1. pages' = [pages EXCEPT ![p] = new]
      BY <1>2 DEF BeginsPage
    <2>2. page \in Page /\ PageKept(page, safe) /\ page.at = "queued" /\ ~SharesCopy(page)
      BY <1>1, <1>2
    <2> HIDE DEF page, safe
    <2>3. /\ new.at = "work" /\ new.kind = page.kind /\ new.copy = page.copy /\ new.lookups = page.lookups
      BY <2>2 DEF Page
    <2> HIDE DEF new
    <2>4. PageKept(new, safe)
      BY <2>2, <2>3 DEF PageKept, SharesCopy
    <2>5. /\ PageKept(new, SafeItems(pages, stored)) /\ new.lookups = pages[p].lookups
          /\ new.copy = pages[p].copy /\ (pages[p].at = "save" <=> new.at = "save")
      BY <2>2, <2>3, <2>4 DEF page, safe
    <2>6. QED
      BY <1>1, <2>1, <2>5, QuietTurn
  <1>3. CASE SharesCopy(pages[p])
    <2> DEFINE page == pages[p]
               copy == CopyOf(PageRecord(p))
               new == [page EXCEPT !.at = "work", !.copy = copy]
               h0 == <<p, Nothing>>
               P2 == [pages EXCEPT ![p] = new]
               safe == SafeItems(pages, stored)
               safe2 == SafeItems(P2, stored)
               record == PageRecord(p)
    <2>1. pages' = P2 /\ ~IsBeingWritten(record)
      BY <1>3 DEF BeginsPage, ReadsToWrite
    <2>2. DOMAIN copy = record /\ \A x \in record : copy[x] = stored[x]
      BY <1>1, CopyOfSure
    <2>3. page \in Page /\ PageKept(page, safe) /\ page.at = "queued" /\ SharesCopy(page)
      BY <1>1, <1>3
    <2>4. record \subseteq Items /\ record \cap Artists = {}
      BY <1>1, <1>3, SharedRecord
    <2>a. record = UNION {Record(i) : i \in DOMAIN page.lookups}
      BY DEF PageRecord
    <2> HIDE DEF copy, record
    <2>5. new.at = "work" /\ new.kind = page.kind /\ new.copy = copy /\ new.lookups = page.lookups
      <3> HIDE DEF page
      <3>1. QED
        BY <2>3 DEF Page
    <2> HIDE DEF new
    <2>6. /\ PageCalm(page, new, Nothing) /\ HandCopy(new, Nothing) = copy
          /\ ~HandWrites(page, Nothing) /\ ~HandWrites(new, Nothing)
      BY <2>3, <2>5, TurnedHands
    <2>7. /\ OthersCalm(pages, P2, h0) /\ ~WritesAt(pages, h0) /\ ~WritesAt(P2, h0) /\ CopyAt(P2, h0) = copy
      BY <2>6, ReplacedPage
    <2>8. \A h \in Hands(pages) : WritesAt(pages, h) => DOMAIN CopyAt(pages, h) \cap record = {}
      BY <2>1, NobodyWrites
    <2>9. HandsHold(pages, stored)
      BY DEF Kept
    <2> HIDE DEF P2, h0
    <2>10. HandsGoOn(pages, stored, P2, stored)
      BY <2>2, <2>4, <2>7, <2>8, <2>9, ReadHands
    <2>11. safe \subseteq safe2
      BY <2>10 DEF HandsGoOn
    <2>12. \A x \in record : stored[x] # Absent => x \in safe2
      BY <2>4 DEF SafeItems
    <2> HIDE DEF page, safe, safe2
    <2>13. FoundInCopy(new)
      BY <2>2, <2>3, <2>5, <2>a DEF PageKept, FoundInCopy
    <2>14. \A i \in DOMAIN new.lookups : LookupKept(i, new.lookups[i], safe2)
      BY <2>3, <2>5, <2>11 DEF PageKept, LookupKept
    <2>15. PageKept(new, safe2)
      BY <2>2, <2>5, <2>12, <2>13, <2>14 DEF PageKept
    <2>16. Kept(P2, stored)
      BY <2>10, <2>15, KeptBy DEF P2, safe2
    <2>17. QED
      BY <1>1, <2>1, <2>16
  <1>4. QED
    BY <1>2, <1>3

LEMMA PageCannotReadKept ==
  ASSUME LookupsSure, Kept(pages, stored), NEW p \in DOMAIN pages, PageCannotRead(p)
  PROVE  Kept(pages', stored')
  <1> DEFINE page == pages[p]
             new == [page EXCEPT !.at = "done", !.outcome = "failed"]
             safe == SafeItems(pages, stored)
  <1>1. /\ page \in Page /\ page.at = "queued" /\ stored' = stored /\ PageKept(page, safe)
        /\ pages' = [pages EXCEPT ![p] = new]
    BY PageTyped DEF LookupsSure, PageCannotRead, Kept
  <1> HIDE DEF page, safe
  <1>2. new.at = "done" /\ new.kind = page.kind /\ new.copy = page.copy /\ new.lookups = page.lookups
    BY <1>1 DEF Page
  <1> HIDE DEF new
  <1>3. \A i \in DOMAIN page.lookups : page.lookups[i].at # "done"
    BY <1>1 DEF PageKept
  <1>4. PageKept(new, safe)
    BY <1>1, <1>2, <1>3, DonePageKept
  <1>5. /\ PageKept(new, SafeItems(pages, stored)) /\ new.lookups = pages[p].lookups
        /\ new.copy = pages[p].copy /\ (pages[p].at = "save" <=> new.at = "save")
    BY <1>1, <1>2, <1>4 DEF page, safe
  <1>6. QED
    BY <1>1, <1>5, QuietTurn

LEMMA TimesOutKept ==
  ASSUME LookupsSure, Kept(pages, stored), NEW p \in DOMAIN pages, TimesOut(p)
  PROVE  Kept(pages', stored')
  <1> DEFINE page == pages[p]
             new == [page EXCEPT !.outcome = "failed", !.aborted = TRUE]
             safe == SafeItems(pages, stored)
  <1>1. /\ page \in Page /\ stored' = stored /\ PageKept(page, safe)
        /\ pages' = [pages EXCEPT ![p] = new]
    BY PageTyped DEF LookupsSure, TimesOut, Kept
  <1> HIDE DEF page, safe
  <1>2. /\ new.at = page.at /\ new.kind = page.kind /\ new.copy = page.copy /\ new.lookups = page.lookups
        /\ new.dirty = page.dirty
    BY <1>1 DEF Page
  <1> HIDE DEF new
  <1>3. PageKept(new, safe)
    BY <1>1, <1>2 DEF PageKept, FoundInCopy, SharesCopy, HasFailed
  <1>4. /\ PageKept(new, SafeItems(pages, stored)) /\ new.lookups = pages[p].lookups
        /\ new.copy = pages[p].copy /\ (pages[p].at = "save" <=> new.at = "save")
    BY <1>1, <1>2, <1>3 DEF page, safe
  <1>5. QED
    BY <1>1, <1>4, QuietTurn

LEMMA EndsLookupsKept ==
  ASSUME LookupsSure, Kept(pages, stored), NEW p \in DOMAIN pages, EndsLookups(p)
  PROVE  Kept(pages', stored')
  <1> DEFINE page == pages[p]
             safe == SafeItems(pages, stored)
  <1>1. /\ page \in Page /\ page.at = "work" /\ stored' = stored /\ PageKept(page, safe) /\ PageSure(page)
    BY PageTyped DEF LookupsSure, EndsLookups, OnlyPages, Kept
  <1>2. CASE WritesAtEnd(page)
    <2> DEFINE new == [page EXCEPT !.at = "delete"]
    <2>1. pages' = [pages EXCEPT ![p] = new]
      BY <1>2 DEF EndsLookups
    <2> HIDE DEF page, safe
    <2>2. new.at = "delete" /\ new.kind = page.kind /\ new.copy = page.copy /\ new.lookups = page.lookups
      BY <1>1 DEF Page
    <2> HIDE DEF new
    <2>3. SharesCopy(page)
      BY <1>2 DEF WritesAtEnd, SharesCopy
    <2>4. PageKept(new, safe)
      BY <1>1, <2>2, <2>3 DEF PageKept, FoundInCopy, SharesCopy
    <2>5. /\ PageKept(new, SafeItems(pages, stored)) /\ new.lookups = pages[p].lookups
          /\ new.copy = pages[p].copy /\ (pages[p].at = "save" <=> new.at = "save")
      BY <1>1, <2>2, <2>4 DEF page, safe
    <2>6. QED
      BY <1>1, <2>1, <2>5, QuietTurn
  <1>3. CASE ~WritesAtEnd(page)
    <2> DEFINE new == Ended(page)
    <2>1. pages' = [pages EXCEPT ![p] = new]
      BY <1>3 DEF EndsLookups
    <2> HIDE DEF page, safe
    <2>2. new.at = "done" /\ new.kind = page.kind /\ DOMAIN new.copy = {} /\ new.lookups = page.lookups
      BY <1>1, EndedPage
    <2> HIDE DEF new
    <2>3. ASSUME page.kind = "lyrics" => ~HasFailed(page),
                 NEW i \in DOMAIN page.lookups, page.lookups[i].at = "done"
          PROVE  i \in safe
      <3>1. i \in ItemsOf[page.kind] /\ page.kind \in Kinds
        BY <1>1 DEF PageSure, Page
      <3>2. CASE page.kind = "groupCovers"
        <4>1. SharesCopy(page) /\ ~page.dirty
          BY <1>3, <3>2 DEF SharesCopy, WritesAtEnd
        <4>2. page.copy[i] # Absent /\ i \in DOMAIN page.copy
          BY <1>1, <2>3, <4>1 DEF PageKept, FoundInCopy, PageSure
        <4>3. QED
          BY <1>1, <3>2, <4>1, <4>2 DEF PageKept
      <3>3. CASE page.kind = "lyrics"
        BY <1>3, <2>3, <3>3 DEF WritesAtEnd
      <3>4. CASE page.kind \notin {"groupCovers", "lyrics"}
        <4>1. i \in Releases \cup Artists
          BY <3>1, <3>4, ItemsOfKinds DEF Kinds
        <4>2. QED
          BY <1>1, <2>3, <4>1 DEF PageKept, LookupKept
      <3>5. QED
        BY <3>2, <3>3, <3>4
    <2>4. PageKept(new, safe)
      BY <1>1, <2>2, <2>3, DonePageKept
    <2>5. /\ PageKept(new, SafeItems(pages, stored)) /\ new.lookups = pages[p].lookups
          /\ DOMAIN new.copy = {} /\ pages[p].at # "save" /\ new.at # "save"
      BY <1>1, <2>2, <2>4 DEF page, safe
    <2>6. QED
      BY <1>1, <2>1, <2>5, QuietTurn
  <1>4. QED
    BY <1>2, <1>3

\* A page that deletes its record is alone with it.
LEMMA DeletesAtEndKept ==
  ASSUME LookupsSure, Kept(pages, stored), intact', NEW p \in DOMAIN pages, DeletesAtEnd(p)
  PROVE  Kept(pages', stored')
  <1> DEFINE old == pages[p]
             new == [old EXCEPT !.at = "save"]
             record == PageRecord(p)
             h0 == <<p, Nothing>>
             P2 == [pages EXCEPT ![p] = new]
             st2 == stored'
             safe == SafeItems(pages, stored)
             safe2 == SafeItems(P2, st2)
  <1>1. /\ PagesSure /\ old \in Page /\ old.at = "delete" /\ pages' = P2 /\ PageKept(old, safe)
        /\ st2 = [x \in Items |-> IF x \in record THEN Absent ELSE stored[x]]
        /\ ~IsHeldBeside(p, Nothing, record) /\ HandsHold(pages, stored)
    BY PageTyped DEF LookupsSure, DeletesAtEnd, DeletesRecord, Kept
  <1>2. record = UNION {Record(i) : i \in DOMAIN old.lookups}
    BY DEF PageRecord
  <1>3. new.at = "save" /\ new.kind = old.kind /\ new.copy = old.copy /\ new.lookups = old.lookups
    <2> HIDE DEF old
    <2>1. QED
      BY <1>1 DEF Page
  <1> HIDE DEF old, new, record, safe
  <1>4. SharesCopy(old) /\ FoundInCopy(old) /\ DOMAIN old.copy = record
    BY <1>1, <1>2 DEF PageKept, FoundInCopy
  <1>5. /\ PageCalm(old, new, Nothing) /\ Nothing \in DOMAIN old.lookups \cup {Nothing}
        /\ HandCopy(old, Nothing) = old.copy /\ HandCopy(new, Nothing) = old.copy
        /\ ~HandWrites(old, Nothing) /\ HandWrites(new, Nothing)
    BY <1>1, <1>3, TurnedHands
  <1>6. /\ OthersCalm(pages, P2, h0) /\ ~WritesAt(pages, h0) /\ WritesAt(P2, h0)
        /\ CopyAt(P2, h0) = CopyAt(pages, h0) /\ DOMAIN CopyAt(pages, h0) = record
    BY <1>4, <1>5, ReplacedPage DEF old
  <1>7. \A h \in Hands(pages) : h # h0 => DOMAIN CopyAt(pages, h) \cap record = {}
    BY <1>1, NobodyHolds
  <1>8. \A x \in Items : st2[x] = IF x \in record THEN Absent ELSE stored[x]
    BY <1>1
  <1> HIDE DEF P2, h0, st2
  <1>9. HandsGoOn(pages, stored, P2, st2)
    BY <1>1, <1>6, <1>7, <1>8, DeleteHands
  <1> HIDE DEF safe2
  <1>10. safe \subseteq safe2
    BY <1>9 DEF HandsGoOn, safe, safe2
  <1>11. \A i \in DOMAIN old.lookups : LookupKept(i, old.lookups[i], safe2)
    BY <1>1, <1>10 DEF PageKept, LookupKept
  <1>12. SharesCopy(new) /\ FoundInCopy(new)
    BY <1>3, <1>4 DEF SharesCopy, FoundInCopy
  <1>13. PageKept(new, safe2)
    BY <1>3, <1>11, <1>12 DEF PageKept
  <1>14. Kept(P2, st2)
    BY <1>9, <1>13, KeptBy DEF P2, safe2
  <1>15. QED
    BY <1>1, <1>14 DEF P2, st2

\* A page that saves its record saves what its lookups found.
LEMMA SavesAtEndKept ==
  ASSUME LookupsSure, Kept(pages, stored), NEW p \in DOMAIN pages, SavesAtEnd(p)
  PROVE  Kept(pages', stored')
  <1> DEFINE old == pages[p]
             new == Ended(old)
             h0 == <<p, Nothing>>
             P2 == [pages EXCEPT ![p] = new]
             st2 == stored'
             safe == SafeItems(pages, stored)
             safe2 == SafeItems(P2, st2)
  <1>1. /\ old \in Page /\ PageSure(old) /\ old.at = "save" /\ pages' = P2 /\ PageKept(old, safe)
        /\ st2 = [x \in Items |-> IF x \in DOMAIN old.copy THEN old.copy[x] ELSE stored[x]]
        /\ HandsHold(pages, stored)
    BY PageTyped DEF LookupsSure, SavesAtEnd, SavesRecord, Kept
  <1> HIDE DEF old, safe
  <1>2. new.at = "done" /\ new.kind = old.kind /\ new.lookups = old.lookups /\ DOMAIN new.copy = {}
    BY <1>1, EndedPage
  <1> HIDE DEF new
  <1>3. FoundInCopy(old)
    BY <1>1 DEF PageKept
  <1>4. /\ PageCalm(old, new, Nothing) /\ Nothing \in DOMAIN old.lookups \cup {Nothing}
        /\ HandCopy(old, Nothing) = old.copy /\ DOMAIN HandCopy(new, Nothing) = {}
        /\ HandWrites(old, Nothing) /\ ~HandWrites(new, Nothing)
    BY <1>1, <1>2, TurnedHands
  <1>5. /\ OthersCalm(pages, P2, h0) /\ WritesAt(pages, h0) /\ EmptyAt(P2, h0)
        /\ CopyAt(pages, h0) = old.copy
    BY <1>4, ReplacedPage DEF EmptyAt, old
  <1>6. \A x \in Items : st2[x] = IF x \in DOMAIN old.copy THEN old.copy[x] ELSE stored[x]
    BY <1>1
  <1> HIDE DEF P2, h0, st2
  <1>7. HandsGoOn(pages, stored, P2, st2)
    BY <1>1, <1>5, <1>6, SaveHands
  <1>8. \A x \in Items : st2[x] # Absent => x \in safe2
    BY DEF SafeItems
  <1> HIDE DEF safe2
  <1>9. safe \subseteq safe2
    BY <1>7 DEF HandsGoOn, safe, safe2
  <1>10. ASSUME NEW i \in DOMAIN old.lookups, old.lookups[i].at = "done"
         PROVE  i \in safe2
    <2>1. i \in Items
      BY <1>1, ItemsOfKinds DEF PageSure, Kinds, Page, Items
    <2>2. i \in DOMAIN old.copy /\ old.copy[i] # Absent
      <3>1. i \in Record(i)
        BY <2>1, ItemsAssumption DEF Record, ReleasesOf, Items
      <3>2. QED
        BY <1>3, <1>10, <3>1 DEF FoundInCopy
    <2>3. QED
      BY <1>6, <1>8, <2>1, <2>2
  <1>11. PageKept(new, safe2)
    BY <1>1, <1>2, <1>9, <1>10, DonePageKept
  <1>12. Kept(P2, st2)
    BY <1>7, <1>11, KeptBy DEF P2, safe2
  <1>13. QED
    BY <1>1, <1>12 DEF P2, st2

LEMMA PageStepKept ==
  ASSUME LookupsSure, Kept(pages, stored), intact', NEW p \in DOMAIN pages, PageStep(p)
  PROVE  Kept(pages', stored')
  <1>1. ~PageCannotWrite(p)
    BY DEF PageCannotWrite
  <1>2. QED
    BY <1>1, BeginsPageKept, PageCannotReadKept, TimesOutKept, WorksOnKept, EndsLookupsKept,
       DeletesAtEndKept, SavesAtEndKept DEF PageStep

-----------------------------------------------------------------------------
(* Everything that is found is kept.                                       *)

LEMMA NewPageKept ==
  ASSUME NEW t, NEW kind, NEW items, NEW given, NEW safe
  PROVE  /\ PageKept(NewPage(t, kind, items, given), safe)
         /\ NewPage(t, kind, items, given).at = "queued"
         /\ DOMAIN NewPage(t, kind, items, given).copy = {}
         /\ \A i \in DOMAIN NewPage(t, kind, items, given).lookups :
               /\ NewPage(t, kind, items, given).lookups[i].at = "start"
               /\ DOMAIN NewPage(t, kind, items, given).lookups[i].copy = {}
  <1> DEFINE page == NewPage(t, kind, items, given)
             lookup == [NewLookup EXCEPT !.links = given]
  <1>1. lookup.at = "start" /\ DOMAIN lookup.copy = {}
    BY NoCopy DEF NewLookup
  <1> HIDE DEF lookup
  <1>2. page.at = "queued" /\ page.copy = <<>> /\ page.lookups = [i \in items |-> lookup]
    BY DEF NewPage, lookup
  <1> HIDE DEF page
  <1>3. \A i \in DOMAIN page.lookups : page.lookups[i] = lookup
    BY <1>2
  <1>4. \A i : LookupKept(i, lookup, safe)
    BY <1>1 DEF LookupKept
  <1>5. PageKept(page, safe)
    BY <1>1, <1>2, <1>3, <1>4 DEF PageKept
  <1>6. QED
    BY <1>1, <1>2, <1>3, <1>5, NoCopy DEF page

\* A new page has empty hands, and leaves the others be.
LEMMA QueuesTaskKept ==
  ASSUME PlansTyped, PlansHold, Kept(pages, stored), QueuesTask
  PROVE  Kept(pages', stored')
  <1> DEFINE n == Len(pages)
             t0 == Len(tasks) + 1
             kind == request.ask.kind
             safe == SafeItems(pages, stored)
  <1>1. PICK chunks : \E given \in GivenLinks(kind) : Packed(chunks, Pending) /\ pages' = Queued(chunks, given)
    BY QueuedPages
  <1>2. PICK given \in GivenLinks(kind) : Packed(chunks, Pending) /\ pages' = Queued(chunks, given)
    BY <1>1
  <1> DEFINE m == Len(chunks)
             Part(q) == Pending \cap ToSet(chunks[q - n])
             P2 == [p \in 1 .. n + m |-> IF p \in DOMAIN pages THEN pages[p] ELSE NewPage(t0, kind, Part(p), given)]
             safe2 == SafeItems(P2, stored)
  <1>3. pages \in Seq(Page) /\ n \in Nat /\ DOMAIN pages = 1 .. n /\ m \in Nat
    BY <1>2 DEF PlansHold, PagesGoOn, Packed
  <1>4. pages' = P2 /\ stored' = stored
    BY <1>2 DEF Queued, QueuesTask
  <1>5. /\ DOMAIN P2 = 1 .. n + m /\ DOMAIN pages \subseteq DOMAIN P2
        /\ \A q \in DOMAIN pages : P2[q] = pages[q]
        /\ \A q \in (DOMAIN P2) \ DOMAIN pages : P2[q] = NewPage(t0, kind, Part(q), given)
    BY <1>3
  <1> HIDE DEF P2, n, m, t0, kind, Part
  <1>6. ASSUME NEW q \in (DOMAIN P2) \ DOMAIN pages
        PROVE  /\ PageKept(P2[q], safe2) /\ P2[q].at = "queued" /\ DOMAIN P2[q].copy = {}
               /\ \A i \in DOMAIN P2[q].lookups : P2[q].lookups[i].at = "start" /\ DOMAIN P2[q].lookups[i].copy = {}
    <2> HIDE DEF safe2
    <2> DEFINE items == Part(q)
    <2>1. P2[q] = NewPage(t0, kind, items, given)
      BY <1>5
    <2> HIDE DEF items
    <2>2. QED
      BY <2>1, NewPageKept
  <1>7. AllCalm(pages, P2)
    <2>1. Hands(pages) \subseteq Hands(P2)
      BY <1>5 DEF Hands
    <2>2. ASSUME NEW h \in Hands(P2)
          PROVE  IF h \in Hands(pages) THEN CalmAt(pages, P2, h) ELSE EmptyAt(P2, h)
      <3>1. PICK q \in DOMAIN P2 : \E k \in DOMAIN P2[q].lookups \cup {Nothing} : h = <<q, k>>
        BY DEF Hands
      <3>2. PICK k \in DOMAIN P2[q].lookups \cup {Nothing} : h = <<q, k>>
        BY <3>1
      <3>3. h[1] = q /\ h[2] = k
        BY <3>2
      <3>4. CASE q \in DOMAIN pages
        <4>1. P2[q] = pages[q]
          BY <1>5, <3>4
        <4>2. h \in Hands(pages)
          BY <3>2, <3>4, <4>1 DEF Hands
        <4>3. CalmAt(pages, P2, h)
          BY <3>3, <4>1 DEF CalmAt, Calm
        <4>4. QED
          BY <4>2, <4>3
      <3>5. CASE q \notin DOMAIN pages
        <4>1. h \notin Hands(pages)
          BY <3>2, <3>5 DEF Hands
        <4>2. EmptyAt(P2, h)
          BY <1>6, <3>2, <3>3, <3>5 DEF EmptyAt, WritesAt, CopyAt, HandWrites, HandCopy
        <4>3. QED
          BY <4>1, <4>2
      <3>6. QED
        BY <3>4, <3>5
    <2>3. QED
      BY <2>1, <2>2 DEF AllCalm
  <1>8. HandsGoOn(pages, stored, P2, stored)
    BY <1>7, QuietHands DEF Kept
  <1>9. \A q \in DOMAIN P2 : PageKept(P2[q], safe2)
    <2>1. safe \subseteq safe2
      BY <1>8 DEF HandsGoOn
    <2>2. \A q \in DOMAIN pages : PageKept(pages[q], safe)
      BY DEF Kept
    <2> HIDE DEF safe, safe2
    <2>3. \A q \in DOMAIN pages : PageKept(pages[q], safe2)
      BY <2>1, <2>2 DEF PageKept, LookupKept
    <2>4. QED
      BY <1>5, <1>6, <2>3
  <1>10. Kept(P2, stored)
    BY <1>8, <1>9 DEF Kept, HandsGoOn
  <1>11. QED
    BY <1>4, <1>10

\* Nothing makes up for a record that was written over or not written.
LEMMA IntactFalls ==
  ASSUME LookupsSure, [Next]_vars, intact'
  PROVE  intact
  <1>1. ASSUME NEW p \in DOMAIN pages, NEW i \in DOMAIN pages[p].lookups, WorksOn(p, i)
        PROVE  intact
    <2>1. CASE OnlyPages
      BY <2>1 DEF OnlyPages
    <2>2. CASE LookupCannotReach(p, i)
      BY <2>2 DEF LookupCannotReach
    <2>3. ASSUME NEW record, ReadsToWrite(record)
          PROVE  intact
      BY <2>3 DEF ReadsToWrite
    <2>4. CASE Deletes(p, i)
      BY <2>4 DEF Deletes, DeletesRecord
    <2>5. ASSUME NEW copy, SavesRecord(copy)
          PROVE  intact
      BY <2>5 DEF SavesRecord
    <2>6. CASE DeletesDetails(p, i) \/ SavesDetails(p, i)
      BY <2>6 DEF DeletesDetails, SavesDetails
    <2>7. QED
      BY <1>1, <2>1, <2>2, <2>3, <2>4, <2>5, <2>6, WorkingReaches
  <1>2. ASSUME NEW p \in DOMAIN pages, PageStep(p)
        PROVE  intact
    BY <1>1, <1>2 DEF PageStep, BeginsPage, ReadsToWrite, OnlyPages, PageCannotRead, TimesOut, EndsLookups,
           DeletesAtEnd, DeletesRecord, SavesAtEnd, SavesRecord, PageCannotWrite
  <1>3. UNCHANGED intact => intact
    OBVIOUS
  <1>4. QED
    BY <1>2, <1>3 DEF Next, Asked, PartitionReads, PartitionFails, AnswersAtOnce, QueuesTask, JoinsTask, Forgets,
           Tick, vars, lookupVars

LEMMA InitKept ==
  ASSUME Init
  PROVE  EverythingKept
  <1>1. DOMAIN pages = {}
    BY NoCopy DEF Init, InitLookups
  <1>2. Hands(pages) = {}
    BY <1>1 DEF Hands
  <1>3. QED
    BY <1>1, <1>2 DEF EverythingKept, Kept, HandsHold, CopiesKnow, WritersAreAlone

LEMMA NextKept ==
  ASSUME AssetsSure, PlansHold, EverythingKept, [Next]_vars
  PROVE  EverythingKept'
  <1> SUFFICES ASSUME intact'
               PROVE  Kept(pages', stored')
    BY DEF EverythingKept, Kept, HandsHold, CopiesKnow, WritersAreAlone, SafeItems, PageKept, LookupKept,
           FoundInCopy, Hands, CopyAt, WritesAt, HandCopy, HandWrites
  <1>1. LookupsSure /\ PlansTyped /\ Kept(pages, stored)
    BY IntactFalls DEF AssetsSure, EverythingKept
  <1>2. ASSUME NEW p \in DOMAIN pages, PageStep(p)
        PROVE  Kept(pages', stored')
    BY <1>1, <1>2, PageStepKept
  <1>3. CASE QueuesTask
    BY <1>1, <1>3, QueuesTaskKept
  <1>4. CASE UNCHANGED <<pages, stored>>
    BY <1>1, <1>4
  <1>5. QED
    BY <1>2, <1>3, <1>4 DEF Next, Asked, PartitionReads, PartitionFails, AnswersAtOnce, JoinsTask, Forgets,
           Tick, vars, lookupVars

\* What is safe is cached, or in the hand of one who writes it.
LEMMA KeptIsFound ==
  ASSUME AssetsSure, EverythingKept
  PROVE  FoundIsKept
  <1> SUFFICES ASSUME intact, NEW p \in DOMAIN pages, pages[p].at = "done",
                      pages[p].kind = "lyrics" => ~HasFailed(pages[p]),
                      NEW i \in DOMAIN pages[p].lookups, pages[p].lookups[i].at = "done"
               PROVE  stored[i] # Absent \/ IsBeingWritten({i})
    BY DEF FoundIsKept
  <1>1. LookupsSure /\ Kept(pages, stored)
    BY DEF AssetsSure, EverythingKept
  <1>2. i \in SafeItems(pages, stored)
    BY <1>1 DEF Kept, PageKept
  <1>3. CASE stored[i] # Absent
    BY <1>3
  <1>4. ASSUME NEW h \in Hands(pages), WritesAt(pages, h), i \in DOMAIN CopyAt(pages, h)
        PROVE  IsBeingWritten({i})
    <2> SUFFICES ASSUME ~IsBeingWritten({i})
                 PROVE  FALSE
      OBVIOUS
    <2> DEFINE record == {i}
    <2>1. ~IsBeingWritten(record) /\ i \in record
      OBVIOUS
    <2> HIDE DEF record
    <2>2. DOMAIN CopyAt(pages, h) \cap record = {}
      BY <1>1, <1>4, <2>1, NobodyWrites
    <2>3. QED
      BY <1>4, <2>1, <2>2
  <1>5. QED
    BY <1>2, <1>3, <1>4 DEF SafeItems

\* However pages and lookups run into each other, time out and fail: what a page looked
\* up is in the cache when the page is over, or in the hand of one who is writing it,
\* as long as no record was written over and no write failed (coverTaskWorker.ts
\* finally, cacheService.ts setCachedData).
THEOREM FoundAlwaysKept == Spec => []FoundIsKept
  <1>1. Init => EverythingKept
    BY InitKept
  <1>2. AssetsSure /\ PlansHold /\ EverythingKept /\ [Next]_vars => EverythingKept'
    BY NextKept
  <1>3. AssetsSure /\ EverythingKept => FoundIsKept
    BY KeptIsFound
  <1>4. QED
    BY <1>1, <1>2, <1>3, AssetsStaySure, PlansAlwaysHold, PTL DEF Spec

==============================================================================
