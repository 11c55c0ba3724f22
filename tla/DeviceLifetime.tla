--------------------------- MODULE DeviceLifetime ---------------------------
(***************************************************************************)
(* What devref.h promises of a device that may disappear while it is in    *)
(* use: a user gets hold of it only while it is valid, its owner takes the *)
(* validity away once, and the last to let go frees it.                    *)
(***************************************************************************)
CONSTANTS
  Users,   \* the open files
  Owner    \* the driver of the card, which holds the device from the start

VARIABLES
  valid,     \* may the device be got hold of?
  holders,   \* who has hold of it
  freed      \* its memory has been given back

dlVars == <<valid, holders, freed>>

DLInit == valid = TRUE /\ holders = {Owner} /\ freed = FALSE

\* devref_get.
Hold(u) ==
  /\ valid /\ u \notin holders
  /\ holders' = holders \cup {u}
  /\ UNCHANGED <<valid, freed>>

\* devref_invalidate, by the owner while it holds the device.
Invalidate ==
  /\ valid /\ Owner \in holders
  /\ valid' = FALSE
  /\ UNCHANGED <<holders, freed>>

\* devref_put returns more than 0.  The owner leaves a device it has invalidated.
Leave(u) ==
  /\ u \in holders /\ holders # {u}
  /\ u = Owner => ~valid
  /\ holders' = holders \ {u}
  /\ UNCHANGED <<valid, freed>>

\* devref_put returns 0.
Free(u) ==
  /\ holders = {u} /\ ~valid
  /\ holders' = {} /\ freed' = TRUE
  /\ UNCHANGED valid

DLNext ==
  \/ \E u \in Users : Hold(u)
  \/ Invalidate
  \/ \E u \in Users \cup {Owner} : Leave(u) \/ Free(u)

DLSpec == DLInit /\ [][DLNext]_dlVars
=============================================================================
