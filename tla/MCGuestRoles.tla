---------------------------- MODULE MCGuestRoles ----------------------------
(* Instances of GuestRoles for TLC. *)
EXTENDS GuestRoles

CONSTANTS g1, g2, u1, u2, guest, trial

(* A role that lasts for a minute, and one that is due before it is given. *)
Durations == {-1, 1}

(* One of the servers deletes the role or puts it above the bot's own. *)
Unsteady == {<<g1, guest>>}
=============================================================================
