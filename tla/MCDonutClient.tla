--------------------------- MODULE MCDonutClient ---------------------------
(***************************************************************************)
(* A poll and a command share a token that may make two requests in a      *)
(* window of two seconds, one of them from the poll; one retry each.       *)
(***************************************************************************)
EXTENDS DonutClient

CONSTANTS poll, command

MCTasks == {poll, command}
MCInteractive == {command}
MCRetryAfters == {1, 3}

=============================================================================
