--------------------------- MODULE MCVoiceManager ---------------------------
(***************************************************************************)
(* VoiceManager for TLC.  The cfg files say how often the user presses the *)
(* button and says the wake word.                                          *)
(***************************************************************************)
EXTENDS VoiceManager
=============================================================================
