---------------------------- MODULE MCSshSession -----------------------------
(* A start in a working directory and a stop command; each may write more than
   is kept.  For MCStartCommand.cfg: a start that has no directory. *)
EXTENDS SshSession

CONSTANTS start, stop, work

MCCalls == {start, stop}
MCStarts == {start}
MCWorkDir == [c \in MCStarts |-> work]
MCNoDir == [c \in MCStarts |-> None]
=============================================================================
