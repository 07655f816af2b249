----------------------------- MODULE MCSeedLink -----------------------------
(***************************************************************************)
(* An instance of SeedLinkPublisher: a queue of two, trimmed above one.    *)
(***************************************************************************)
EXTENDS SeedLinkPublisher
===========================================================================
