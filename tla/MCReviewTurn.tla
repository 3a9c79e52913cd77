---------------------------- MODULE MCReviewTurn ----------------------------
(***************************************************************************)
(* Instances of ReviewTurn for TLC, with the streams of MCClaudeClient.    *)
(***************************************************************************)
EXTENDS ReviewTurn, MCClaudeClient
=============================================================================
