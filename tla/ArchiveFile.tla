---------------------------- MODULE ArchiveFile ----------------------------
(***************************************************************************)
(* What the download of a file promises to the walk that asks for it, with *)
(* no ranges, workers, timeouts or .part files: the name in the archive    *)
(* refers to nothing or to a whole file, and it changes in one step,       *)
(* before the walk goes on, to the whole of what this fetch has opened.    *)
(* FetchFile implements it, and Mirror is built on it.                     *)
(***************************************************************************)
CONSTANT Absent

VARIABLES
  device,     \* the size of the device's file
  local,      \* the size of the whole file under the name, or Absent
  opened,     \* the size of the file that this fetch has opened, or Absent
  fetching    \* the walk waits for a fetch, or closes the session of one that failed

vars == <<device, local, opened, fetching>>

Init == local = Absent /\ opened = Absent /\ fetching = FALSE

(* Only a file that is missing, or of another size, is fetched.            *)
Begin ==
  /\ ~fetching /\ local # device
  /\ fetching' = TRUE
  /\ UNCHANGED <<device, local, opened>>

Open ==
  /\ fetching /\ opened = Absent
  /\ opened' = device
  /\ UNCHANGED <<device, local, fetching>>

Place ==
  /\ fetching /\ opened # Absent
  /\ local' = opened /\ opened' = Absent
  /\ UNCHANGED <<device, fetching>>

GiveUp ==
  /\ opened # Absent /\ opened' = Absent
  /\ fetching' \in {fetching, FALSE}
  /\ UNCHANGED <<device, local>>

(* The walk goes on, with an error or without.                             *)
End ==
  /\ fetching /\ fetching' = FALSE
  /\ UNCHANGED <<device, local, opened>>

Rewrite ==
  /\ device' # device
  /\ UNCHANGED <<local, opened, fetching>>

Next == Begin \/ Open \/ Place \/ GiveUp \/ End \/ Rewrite

Spec == Init /\ [][Next]_vars
=============================================================================
