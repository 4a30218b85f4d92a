----------------------------- MODULE AssetStates -----------------------------
(***************************************************************************)
(* What the cache says of a cover, a lyrics page or an artist image        *)
(* (src/src/utils/helpers/remoteStateHelpers.ts and coverArtLookup.ts): a  *)
(* link to a picture, a confirmed miss, or a value that could not be had   *)
(* and is asked for again after a while.                                   *)
(*                                                                         *)
(* Links are named by the item whose picture they show, so that a fallback *)
(* is the name of another item.                                            *)
(***************************************************************************)
EXTENDS Naturals, FiniteSets

CONSTANTS
    Groups,           \* release groups, all of one artist
    Releases,         \* releases
    Tracks,           \* tracks, all of one release
    Artists,          \* artists
    RetryWindow,      \* TRANSIENT_REMOTE_VALUE_RETRY_WINDOW_MS, in clock ticks
    MaxTime,          \* bound: the clock stops here
    Miss,             \* null: there is none
    Unknown,          \* undefined: the provider did not say
    Nothing           \* no entry

CONSTANT GroupOf(_)   \* the release group of a release

Items == Groups \cup Releases \cup Tracks \cup Artists

\* An item is of one kind, since each kind is cached under keys of its own.
ASSUME ItemsAssumption ==
    /\ {Miss, Unknown, Nothing} \cap Items = {}
    /\ Miss # Unknown /\ Nothing \notin {Miss, Unknown}
    /\ Groups \cap (Releases \cup Tracks \cup Artists) = {}
    /\ Releases \cap (Tracks \cup Artists) = {} /\ Tracks \cap Artists = {}
    /\ \A r \in Releases : GroupOf(r) \in Groups

ASSUME TimesAssumption == RetryWindow \in Nat \ {0} /\ MaxTime \in Nat

\* Later than anything the clock says.
Forever == MaxTime + RetryWindow + 1

Values == Items \cup {Miss, Unknown}
State == [value : Values \cup {Nothing}, until : 0 .. Forever]
Absent == [value |-> Nothing, until |-> 0]

ReleasesOf(g) == {r \in Releases : GroupOf(r) = g}

\* The items that are cached under one key: an artist's groups, a group's releases,
\* a release's tracks, an artist's image.
Record(i) ==
    IF i \in Groups THEN Groups
    ELSE IF i \in Releases THEN ReleasesOf(GroupOf(i))
    ELSE IF i \in Tracks THEN Tracks ELSE {i}

\* hasUsableUrl
HasUrl(value) == value \in Items

\* shouldUseCachedState, and not shouldRefetchState: what is unknown is good enough
\* until it is time to ask again.
IsUsable(state, time) == state.value # Nothing /\ time < state.until

IsUsableUrl(state, time) == IsUsable(state, time) /\ HasUrl(state.value)

\* mapCoverState, mapLyricsState and mapArtistImageToState
MapState(value, time) ==
    [value |-> value, until |-> IF value = Unknown THEN time + RetryWindow ELSE Forever]

\* FAULTY: one confirmed miss is enough.
ResolveMissOfAny(values) == IF Miss \in values THEN Miss ELSE Unknown

\* resolveMiss: a miss is confirmed if none of them is in doubt.
ResolveMiss(values) == IF Unknown \in values THEN Unknown ELSE Miss

\* mapResolvedCoverState for a fallback: it is provisional if the picture it stands
\* in for may be there.
MapFallback(value, misses, time) ==
    IF Unknown \in misses
    THEN [value |-> value, until |-> time + RetryWindow]
    ELSE MapState(value, time)

=============================================================================
