---------------------------- MODULE MCSanitizer ----------------------------
(***************************************************************************)
(* Instances of Sanitizer: queues of two packets, trimmed above one.       *)
(***************************************************************************)
EXTENDS Sanitizer
===========================================================================
