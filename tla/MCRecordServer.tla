----------------------------- MODULE MCRecordServer -----------------------------
(* Small instances of RecordServer for TLC. *)
EXTENDS RecordServerProps
================================================================================
