-------------------------- MODULE MCRequestDeduper --------------------------
(* Small instances of RequestDeduper.                                      *)
EXTENDS RequestDeduper

CONSTANTS k1

\* Keys are independent of one another: one is enough.
MCPrefixes == {{k1}}
=============================================================================
