---------------------------- MODULE MCZendSignal ----------------------------
(***************************************************************************)
(* Instances of ZendSignal for TLC.                                        *)
(***************************************************************************)
EXTENDS ZendSignal

\* As in a FastCGI worker: its soft-quit handler returns.
MCOrig == [s \in Sig |-> "ret"]

\* As the kernel has it for SIGPROF.
MCInstalled == [MCOrig EXCEPT ![PROF] = "dfl"]
=============================================================================
