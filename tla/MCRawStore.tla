----------------------------- MODULE MCRawStore -----------------------------
(***************************************************************************)
(* TLC instances of RawStore: two invocations of any kind over a window of  *)
(* three months, so that the archive may lack the middle one, and of which  *)
(* the first month may be published again between two fetches of it.        *)
(***************************************************************************)
EXTENDS RawStore

MCMaxVersions == <<2, 1, 1>>
=============================================================================
