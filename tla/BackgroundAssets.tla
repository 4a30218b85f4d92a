-------------------------- MODULE BackgroundAssets --------------------------
(***************************************************************************)
(* Covers, lyrics and artist images: planning what a client asks for       *)
(* against the cache (partitionCachedAssets.ts, cacheFirstAssetPlanner.ts, *)
(* legacyAssetPlanner.ts) and queueing the rest as pages under a dedupe    *)
(* key (backgroundTaskWorkers.ts).  What becomes of a page is in           *)
(* AssetLookups, how the task runtime counts pages in TaskRuntime: here a  *)
(* task is its pages, which start in any order, and it is forgotten some   *)
(* time after the last one is over.                                        *)
(***************************************************************************)
EXTENDS AssetLookups, Sequences, SequencesExt

CONSTANTS
    Requests,           \* what clients ask for: a kind and the items
    SubtaskItemLimit,   \* items per page
    MaxPages,           \* bound: pages that are queued
    Repeated            \* bound: the requests made when no more pages can be queued

ASSUME RequestsAssumption ==
    \A ask \in Requests : /\ ask.kind \in Kinds /\ ask.items \subseteq ItemsOf[ask.kind]
                          /\ IsFiniteSet(ask.items)
                          /\ ask.kind = "releaseCovers" => \E g \in Groups : ask.items \subseteq ReleasesOf(g)
ASSUME PagesAssumption == SubtaskItemLimit \in Nat \ {0} /\ MaxPages \in Nat

VARIABLES
    request,    \* the planner at work
    tasks       \* the tasks that were queued, with what their planner was asked for and
                \* what it found in the cache (history)

vars == <<lookupVars, request, tasks>>

NoRequest == [at |-> "idle"]

Init == InitLookups /\ request = NoRequest /\ tasks = <<>>

-----------------------------------------------------------------------------
(* Planning and queueing.                                                  *)

\* chunkArray
ChunkArray(seq, size) ==
    [n \in 1 .. (Len(seq) + size - 1) \div size |->
        SubSeq(seq, (n - 1) * size + 1, IF n * size < Len(seq) THEN n * size ELSE Len(seq))]

\* FAULTY: the chunk that is full is not begun anew.
AddedToChunksTogether(chunks, ids) ==
    LET last == Len(chunks)
    IN  IF last > 0 /\ Len(chunks[last]) < SubtaskItemLimit
        THEN [chunks EXCEPT ![last] = @ \o ids] ELSE Append(chunks, ids)

\* One step of chunkReleaseGroupReleasePageEntries: some ids of a group join the
\* chunk that is being filled, or begin another if they would not fit.
AddedToChunks(chunks, ids) ==
    LET last == Len(chunks)
    IN  IF last > 0 /\ Len(chunks[last]) + Len(ids) <= SubtaskItemLimit
        THEN [chunks EXCEPT ![last] = @ \o ids] ELSE Append(chunks, ids)

\* The entries of the groups, each cut at the limit, are packed in order.
ChunkEntries(entries) ==
    FoldLeft(AddedToChunks, <<>>, FlattenSeq([n \in DOMAIN entries |->
        ChunkArray(entries[n], SubtaskItemLimit)]))

\* The items of the pages, for each order of the items.
Chunks(ask, items) ==
    IF ask.kind = "newReleaseCovers"
    THEN {ChunkEntries([n \in DOMAIN order |->
                SetToSeq({r \in items : GroupOf(r) = order[n]})]) :
             order \in SetToSeqs({GroupOf(r) : r \in items})}
    ELSE {ChunkArray(ids, SubtaskItemLimit) : ids \in SetToSeqs(items)}

\* What a key names: everything that is asked for, or only the artist, the release group
\* or the release that it belongs to, of which a client may list more or less.
NamesAll(kind) == kind \in {"newReleaseCovers", "artistImages"}

Named(ask) ==
    IF NamesAll(ask.kind) THEN ask.items
    ELSE IF ask.kind = "releaseCovers" THEN {GroupOf(r) : r \in ask.items} ELSE {}

\* FAULTY: both contracts use the same keys.
TaskKeyOfAnyContract(contract, ask) == <<"v1", ask.kind, Named(ask)>>

\* withTaskKeyNamespace
TaskKey(contract, ask) == <<contract, ask.kind, Named(ask)>>

PagesOf(t) == {p \in DOMAIN pages : pages[p].task = t}

IsPending(t) == \E p \in PagesOf(t) : pages[p].outcome = "none"

HasUnknown(t) ==
    \E p \in PagesOf(t) : /\ pages[p].outcome = "completed"
                          /\ \E i \in DOMAIN pages[p].lookups :
                                pages[p].lookups[i].result.value = Unknown

\* resolveDedupeTask: a pending task is shared, one that is over while it is kept
\* and left nothing unknown.
IsShared(t, key) == /\ tasks[t].key = key /\ tasks[t].kept
                    /\ IsPending(t) \/ ~HasUnknown(t)

\* v1 (the legacy planner) asks for all of it at once; v2 reads the cache first.
Asked(contract, ask) ==
    /\ request.at # "reading"
    /\ Len(pages) < MaxPages \/ ask \in Repeated
    /\ request' = [at |-> "reading", contract |-> contract, ask |-> ask, task |-> 0,
                   unread |-> IF contract = "v2" THEN ask.items ELSE {}, resolved |-> <<>>,
                   unseen |-> {}]
    /\ UNCHANGED <<lookupVars, tasks>>

\* The partition of one record: what is there and not unknown is resolved, as it is
\* then.  History: `unseen` is what was deleted to be written, or could not be read.
PartitionReads(i) ==
    LET hits == {x \in Record(i) \cap request.unread :
                    IsUsable(stored[x], now) /\ stored[x].value # Unknown}
    IN  /\ request.at = "reading" /\ i \in request.unread
        /\ request' = [request EXCEPT
              !.unread = @ \ Record(i),
              !.resolved = [x \in DOMAIN @ \cup hits |-> IF x \in hits THEN stored[x] ELSE @[x]],
              !.unseen = @ \cup {x \in Record(i) \cap request.unread : IsBeingWritten({x})}]
        /\ UNCHANGED <<lookupVars, tasks>>

\* A cache that cannot be read leaves its items pending.
PartitionFails(i) ==
    /\ request.at = "reading" /\ i \in request.unread
    /\ failures < MaxFailures /\ failures' = failures + 1
    /\ request' = [request EXCEPT !.unread = @ \ Record(i),
                                  !.unseen = @ \cup (Record(i) \cap request.unread)]
    /\ UNCHANGED <<now, exists, stored, links, pages, intact, tasks>>

Pending == request.ask.items \ DOMAIN request.resolved

IsPlanned == request.at = "reading" /\ request.unread = {}

\* Nothing is pending: no task, and the client knows it all.
AnswersAtOnce ==
    /\ IsPlanned /\ Pending = {}
    /\ request' = [request EXCEPT !.at = "told"]
    /\ UNCHANGED <<lookupVars, tasks>>

JoinsTask(t) ==
    /\ IsPlanned /\ Pending # {} /\ IsShared(t, TaskKey(request.contract, request.ask))
    /\ request' = [request EXCEPT !.at = "told", !.task = t]
    /\ UNCHANGED <<lookupVars, tasks>>

\* Lookups of artists come with their links or without them.
GivenLinks(kind) ==
    IF kind = "artistImages" THEN {"unread", "none", "old", "current"} ELSE {"unread"}

QueuesTask ==
    LET key == TaskKey(request.contract, request.ask)
        kind == request.ask.kind
    IN  /\ IsPlanned /\ Pending # {} /\ \A t \in DOMAIN tasks : ~IsShared(t, key)
        /\ \E chunks \in Chunks(request.ask, Pending), given \in GivenLinks(kind) :
              /\ Len(pages) + Len(chunks) <= MaxPages
              /\ pages' = [p \in 1 .. Len(pages) + Len(chunks) |->
                    IF p \in DOMAIN pages THEN pages[p]
                    ELSE NewPage(Len(tasks) + 1, kind, Pending \cap ToSet(chunks[p - Len(pages)]), given)]
        /\ tasks' = Append(tasks, [key |-> key, kept |-> TRUE, asked |-> request.ask.items,
                                   resolved |-> request.resolved])
        /\ request' = [request EXCEPT !.at = "told", !.task = Len(tasks) + 1, !.unseen = {}]
        /\ UNCHANGED <<now, exists, stored, links, failures, intact>>

\* The retention of a task that is over runs out.
Forgets(t) ==
    /\ tasks[t].kept /\ ~IsPending(t)
    /\ tasks' = [tasks EXCEPT ![t].kept = FALSE]
    /\ UNCHANGED <<lookupVars, request>>

Next ==
    \/ \E contract \in {"v1", "v2"}, ask \in Requests : Asked(contract, ask)
    \/ \E i \in Items : PartitionReads(i) \/ PartitionFails(i)
    \/ AnswersAtOnce \/ QueuesTask
    \/ \E t \in DOMAIN tasks : JoinsTask(t) \/ Forgets(t)
    \/ (\E p \in DOMAIN pages : PageStep(p)) /\ UNCHANGED <<request, tasks>>
    \/ Tick /\ UNCHANGED <<request, tasks>>

Spec == Init /\ [][Next]_vars

-----------------------------------------------------------------------------

TypeOK ==
    /\ LookupsTypeOK
    /\ request.at \in {"idle", "reading", "told"}
    /\ \A p \in DOMAIN pages : pages[p].task \in DOMAIN tasks
    /\ \A t \in DOMAIN tasks : /\ tasks[t].kept \in BOOLEAN
                              /\ DOMAIN tasks[t].resolved \subseteq tasks[t].asked

\* The picture, the text or the confirmed miss that the planner of a task saw is one
\* that is not there for good: it has run out since, or it said that a group has no
\* cover, which a release may belie.
RunsOut(i, state) == state.until <= now \/ (i \in Groups /\ state.value = Miss)

\* It may have been written over: a record was, over a copy read before, or the lookup of
\* an artist, which writes the image without a copy, came to nothing sure.
MayBeLost(i) ==
    \/ ~intact
    \/ /\ i \in Artists
       /\ \E p \in DOMAIN pages : i \in DOMAIN pages[p].lookups /\ pages[p].lookups[i].result.value = Unknown

\* What a client asks for it is told at once, or the task it is given looks it up
\* (cacheFirstAssetPlanner.ts, legacyAssetPlanner.ts, withTaskKeyNamespace).  Of a task
\* that another client's planner queued this is so but for what that client did not
\* list, where the key does not name it, and, under the second contract, for what that
\* planner found in the cache and this one did not: as it had run out by then, or the
\* record could not be read or was being written, or was lost to another write.
OnlyStaleIsLeftOut ==
    request.at = "told" =>
        LET t == request.task
        IN  \A i \in request.ask.items \ DOMAIN request.resolved :
                /\ t # 0
                /\ \/ \E p \in PagesOf(t) : i \in DOMAIN pages[p].lookups
                   \/ ~NamesAll(request.ask.kind) /\ i \notin tasks[t].asked
                   \/ /\ request.contract = "v2" /\ i \in DOMAIN tasks[t].resolved
                      /\ RunsOut(i, tasks[t].resolved[i]) \/ i \in request.unseen \/ MayBeLost(i)

\* No page has more items than the limit, which bounds what a page may take
\* (backgroundTaskWorkers.ts SUBTASK_ITEM_LIMIT), none is in two pages of a task, and
\* everything has its type.
PagesAreBounded ==
    TypeOK /\ \A p \in DOMAIN pages :
        /\ Cardinality(DOMAIN pages[p].lookups) <= SubtaskItemLimit
        /\ \A q \in PagesOf(pages[p].task) \ {p} :
              DOMAIN pages[p].lookups \cap DOMAIN pages[q].lookups = {}

=============================================================================
