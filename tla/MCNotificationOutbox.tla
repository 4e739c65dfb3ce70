------------------------ MODULE MCNotificationOutbox ------------------------
(* Values of NotificationOutbox's constants for TLC. *)
EXTENDS NotificationOutbox, TLC

CONSTANTS a, b, w, c1, c2

OneShotSymmetry == Permutations(OneShots)
=============================================================================
