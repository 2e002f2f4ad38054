----------------------------- MODULE MCReminders -----------------------------
(* Instances of Reminders for TLC.                                         *)
EXTENDS Reminders
=============================================================================
