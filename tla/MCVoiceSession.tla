----------------------------- MODULE MCVoiceSession -----------------------------
(* Small instances of VoiceSession for TLC. *)
EXTENDS VoiceSession
================================================================================
