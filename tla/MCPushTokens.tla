---------------------------- MODULE MCPushTokens ----------------------------
(***************************************************************************)
(* Small instances of PushTokens.                                          *)
(***************************************************************************)
EXTENDS PushTokens

Symmetry == Permutations(Users) \cup Permutations(Devices) \cup Permutations(Tokens)
              \cup Permutations(Callers)

\* One disturbance: a call that starts beside another, or a request that fails.
FewDisturbances == overlaps + failures <= 1
=============================================================================
