---------------------------- MODULE MCWebServer ----------------------------
(***************************************************************************)
(* Instances of WebServer: two connections with two requests each.         *)
(***************************************************************************)
EXTENDS WebServer
===========================================================================
