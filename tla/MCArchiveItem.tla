---------------------------- MODULE MCArchiveItem ----------------------------
(***************************************************************************)
(* Small instances of ArchiveItem for TLC.                                 *)
(***************************************************************************)
EXTENDS ArchiveItem

\* The process that runs a command beside the worker.
CONSTANT Command

\* It acquires only, and only where commands are run.
CommandAcquires ==
  pc[Command] # "idle" => setting = "beside" /\ wants[Command] = {}
=============================================================================
