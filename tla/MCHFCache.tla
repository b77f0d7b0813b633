----------------------------- MODULE MCHFCache -----------------------------
(* Small instances of HFCache for TLC. *)
EXTENDS HFCache

CONSTANTS p1, p2

Machine(links, procs, kinds, budget) ==
  [links |-> links, procs |-> procs, faults |-> kinds, budget |-> budget]

\* One process on any file system, and two that share one with symbolic links.
\* A crash while the snapshot is being copied is left out (see below).
MCMachines ==
  {Machine(links, {p1}, {"crash", "error"}, 3) : links \in {"symlink", "hardlink"}} \cup
  {Machine("copy", {p1}, {"error"}, 3), Machine("symlink", {p1, p2}, {}, 0)}

\* With this value ReturnedIntact is violated (README, findings).
CrashWhileCopying == {Machine("copy", {p1}, {"crash"}, 1)}
=============================================================================
