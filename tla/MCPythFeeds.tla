----------------------------- MODULE MCPythFeeds -----------------------------
(***************************************************************************)
(* Instance of PythFeeds: a call for one feed, two feeds or the same feed  *)
(* twice, and a watcher with three polls.                                   *)
(***************************************************************************)
EXTENDS PythFeeds

CONSTANTS f, g

AllRequests == {<<f>>, <<f, g>>, <<g, g>>}
=============================================================================
