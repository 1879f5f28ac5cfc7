--------------------------- MODULE MCSourceDownload ---------------------------
(* A small instance of SourceDownload for TLC: the source grows from two      *)
(* blocks to three.                                                           *)
EXTENDS CacheRefinement, TLC

MCLength == <<2, 3>>
=============================================================================
