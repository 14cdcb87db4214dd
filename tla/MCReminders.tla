----------------------------- MODULE MCReminders -----------------------------
(* One request to resume reminders, which may be made again when the chain it *)
(* started has ended.                                                         *)
EXTENDS Reminders, TLC

CONSTANT r1
=============================================================================
