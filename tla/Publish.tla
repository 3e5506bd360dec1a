------------------------------ MODULE Publish ------------------------------
(***************************************************************************)
(* How a session's numbers leave it (src/main.rs): the ticker's branch of  *)
(* run_race writes the snapshot to a temporary file, renames it over the   *)
(* last one and hands the same JSON to the dashboard; a rehearsal only     *)
(* does the last.  A write that fails ends the program, which may also be  *)
(* killed at any moment; systemd starts it again, with nothing but the     *)
(* files (external: deploy/*.service, Restart=on-failure).                 *)
(*                                                                         *)
(* A snapshot is its number in the order they were made, over all runs.    *)
(***************************************************************************)
EXTENDS Integers

CONSTANTS
  MaxMade,       \* bound: snapshots made
  MaxCrashes     \* bound: times the program ends

ASSUME PublishAssumption == MaxMade \in Nat /\ MaxCrashes \in Nat

VARIABLES
  command,       \* "race" or "rehearse"
  main,          \* "up" or "down"
  crashes,       \* times the program ended
  made,          \* snapshots made
  stage,         \* where write_snapshot is
  tmp, out,      \* the two files
  shared         \* the JSON the dashboard answers with

publish == <<command, main, crashes, made, stage, tmp, out, shared>>

Nothing == 0     \* no file yet; "{}" in shared
Partial == -1    \* a file that is being written

PublishInit ==
  /\ command \in {"race", "rehearse"}
  /\ main = "up" /\ crashes = 0 /\ made = 0 /\ stage = "idle"
  /\ tmp = Nothing /\ out = Nothing /\ shared = Nothing

At(from, to) ==
  /\ command = "race" /\ main = "up" /\ stage = from
  /\ stage' = to
  /\ UNCHANGED <<command, main, crashes>>

\* Mutant: the dashboard gets the snapshot before the file does.
Compose_SharesFirst ==
  /\ made < MaxMade
  /\ At("idle", "composed")
  /\ made' = made + 1 /\ shared' = made + 1
  /\ UNCHANGED <<tmp, out>>

\* The ticker fires and the snapshot is put together.
Compose ==
  /\ made < MaxMade
  /\ At("idle", "composed")
  /\ made' = made + 1
  /\ UNCHANGED <<tmp, out, shared>>

\* Mutant: the snapshot is written where it is read.
WriteBegins_InPlace ==
  /\ At("composed", "writing")
  /\ out' = Partial
  /\ UNCHANGED <<made, tmp, shared>>

\* fs::write truncates the temporary file,
WriteBegins ==
  /\ At("composed", "writing")
  /\ tmp' = Partial
  /\ UNCHANGED <<made, out, shared>>

\* and fills it.
WriteEnds ==
  /\ At("writing", "written")
  /\ tmp' = made
  /\ UNCHANGED <<made, out, shared>>

\* fs::rename
Rename ==
  /\ At("written", "renamed")
  /\ out' = tmp /\ tmp' = Nothing
  /\ UNCHANGED <<made, shared>>

\* The loop hands the JSON to the dashboard.
Share ==
  /\ At("renamed", "idle")
  /\ shared' = made
  /\ UNCHANGED <<made, tmp, out>>

\* run_rehearsal: a step, and straight to the dashboard.
RehearsalStep ==
  /\ command = "rehearse" /\ main = "up" /\ made < MaxMade
  /\ made' = made + 1 /\ shared' = made + 1
  /\ UNCHANGED <<command, main, crashes, stage, tmp, out>>

\* write_snapshot returns an error, or the program is killed, anywhere.
Ends ==
  /\ main = "up" /\ crashes < MaxCrashes
  /\ main' = "down" /\ crashes' = crashes + 1
  /\ UNCHANGED <<command, made, stage, tmp, out, shared>>

\* systemd starts it again.
Restart ==
  /\ main = "down"
  /\ main' = "up"
  /\ stage' = "idle" /\ shared' = Nothing
  /\ UNCHANGED <<command, crashes, made, tmp, out>>

PublishStep ==
  Compose \/ WriteBegins \/ WriteEnds \/ Rename \/ Share \/ RehearsalStep \/ Restart
=============================================================================
