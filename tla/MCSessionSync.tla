---------------------------- MODULE MCSessionSync ----------------------------
(***************************************************************************)
(* Values for the constants of SessionSync.                                *)
(***************************************************************************)
EXTENDS SessionSync

Everyone    == Clients
Nobody      == {}
Guest       == Clients \ {Host}
HostOnly    == {Host}
NoTraffic   == {}
SameQuality  == [c \in Clients |-> 0]
GuestBetter  == [c \in Clients |-> IF c = Host THEN 0 ELSE 1]
PendingOnly == {"ResetPending"}
UnseenOnly  == {"LeaveUnseen"}
=============================================================================
