--------------------------- MODULE MCCaptionRoom ---------------------------
(* Instances of CaptionRoom for TLC.                                        *)
EXTENDS CaptionRoom
=============================================================================
