------------------------- MODULE MCRemoteExecution -------------------------
(***************************************************************************)
(* RemoteExecution of every method, with the client's default of three     *)
(* attempts for a read.                                                    *)
(***************************************************************************)
EXTENDS RemoteExecution

MCRuns == Methods
=============================================================================
