--------------------------- MODULE MCArtistLibrary ---------------------------
(***************************************************************************)
(* Small instances of ArtistLibrary.                                       *)
(***************************************************************************)
EXTENDS ArtistLibrary

CONSTANTS a1, a2

\* The first release is by both artists, a second one by the first artist only.
MCBy == [r \in Releases |-> IF r = 1 THEN {a1, a2} ELSE {a1}]

\* All releases are editions of one, or each is one of its own.
OneEdition == [r \in Releases |-> 1]
OwnEditions == [r \in Releases |-> r]

Symmetry == Permutations(Callers)

\* What follows after one call spoiled another one's work is not explored, or only
\* as far as the call goes.
IsIntact == intact
IsUnderWay == intact \/ \E c \in Callers : calls[c] # Idle

\* The catalogue changes less often when a request fails.
IsShort == changes + failures <= 2
==============================================================================
