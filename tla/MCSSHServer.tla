---------------------------- MODULE MCSSHServer -----------------------------
(* SSHServer on a small instance.  The unauthenticated connections have    *)
(* both limits, with a ratio between 0 and 1 in between; the successful    *)
(* ones only the hard limit.                                               *)
EXTENDS SSHServer

\* a negative max switches the soft limit off
Disabled == -1
=============================================================================
