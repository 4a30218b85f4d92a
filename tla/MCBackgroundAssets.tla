------------------------- MODULE MCBackgroundAssets -------------------------
(***************************************************************************)
(* A small instance of BackgroundAssets: an artist with two groups, three  *)
(* releases, two tracks and an image.                                      *)
(***************************************************************************)
EXTENDS BackgroundAssets

CONSTANTS g1, g2, r1, r2, r3, t1, t2, a1

MCGroups == {g1, g2}
MCReleases == {r1, r2, r3}
MCTracks == {t1, t2}
MCArtists == {a1}
MCGroupOf(r) == IF r = r3 THEN g2 ELSE g1

Symmetry == Permutations({r1, r2})

MCRequests ==
    {[kind |-> "groupCovers", items |-> {g1, g2}],
     [kind |-> "releaseCovers", items |-> {r1, r2}],
     [kind |-> "newReleaseCovers", items |-> {r1, r2, r3}],
     [kind |-> "lyrics", items |-> {t1, t2}], [kind |-> "lyrics", items |-> {t1}],
     [kind |-> "artistImages", items |-> {a1}]}

MCRepeated == {ask \in MCRequests : ask.kind \in {"lyrics", "releaseCovers"}}

\* The items whose pictures a request is about, directly or as a fallback, but for g2 and
\* r3, which are there to fill a page.
Scene(ask) ==
    IF ask.items \subseteq MCGroups \cup MCReleases THEN {g1, r1, r2} ELSE ask.items

\* What has no part in what is asked for is not there.  A client that asks for the same
\* again may do so by the other contract.
OneScene ==
    request.at # "idle" =>
        /\ exists \subseteq Scene(request.ask)
        /\ request.ask.kind # "artistImages" => links = [a \in Artists |-> "absent"]
        /\ \A t \in DOMAIN tasks : tasks[t].key[2] = request.ask.kind
        /\ request.ask.kind \in {"groupCovers", "releaseCovers"} /\ request.contract = "v2" =>
              tasks # <<>>
        /\ request.ask.items = {t1} => request.contract = "v1"

IsAtWork(lookup) == lookup.at # "start" /\ ~IsOver(lookup)

AtWork == UNION {{<<p, i>> : i \in {x \in DOMAIN pages[p].lookups :
                            IsAtWork(pages[p].lookups[x])}} : p \in DOMAIN pages}

\* Two lookups are at work at a time, and only on the same record: others do not
\* meet.  Pages of groups or of artists, of which each has a record to itself or all have
\* one, follow each other.  The clock moves, or something fails, or a record is written
\* over.  A second task follows no record written over, a failure only among artists, a
\* tick among lyrics not at all and among groups only where no release has a picture.
\* Failures of new releases meet no picture of a release.
FewThings ==
    /\ Cardinality(AtWork) <= 2
    /\ \A x, y \in AtWork : Written(x[2]) = Written(y[2])
    /\ Cardinality({p \in DOMAIN pages : pages[p].kind \in {"groupCovers", "artistImages"}
                                        /\ pages[p].at \notin {"queued", "done"}}) <= 1
    /\ now + failures + (IF intact THEN 0 ELSE 1) <= 1
    /\ Len(tasks) > 1 =>
          LET kind == tasks[1].key[2]
          IN  /\ intact
              /\ failures = 0 \/ kind = "artistImages"
              /\ now = 0 \/ kind # "lyrics"
              /\ now = 0 \/ kind # "groupCovers" \/ exists \subseteq {g1}
    /\ failures > 0 /\ (\E t \in DOMAIN tasks : tasks[t].key[2] = "newReleaseCovers") =>
          exists \subseteq MCGroups
    /\ (\E t \in DOMAIN tasks : tasks[t].asked = {t1}) => now + failures = 0 /\ intact

\* A third client, of covers, asks when the clock has moved and the second task has not
\* begun.
ThirdAsksLate ==
    request.at = "reading" /\ request.ask.kind # "lyrics" /\ Len(tasks) > 1 =>
        request.contract = "v2" /\ now > 0 /\ pages[2].at = "queued"

\* But for lyrics nothing happens while a planner is at work.  Nothing is followed any
\* more once a client has joined a task with another list, or, but for lyrics, was not
\* given the last task or found other things cached than its planner.
PlansAtOnce ==
    LET t == request.task
        Stops == UNCHANGED <<pages, request>>
    IN  /\ request.at = "reading" /\ request.ask.kind # "lyrics" => request' # request
        /\ request.at = "told" /\ t # 0 /\ tasks[t].asked # request.ask.items => Stops
        /\ request.at = "told" /\ request.ask.kind # "lyrics" =>
              (t = Len(tasks) /\ tasks[t].resolved = request.resolved) \/ Stops
=============================================================================
