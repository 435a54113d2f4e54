------------------------------ MODULE MCSched ------------------------------
(* Workloads of the scheduler on the boot processor alone and with APs. *)
EXTENDS Sched, TLC

CONSTANTS a1, a2

Moves == {"fork", "yield", "exit"}
On(aps, entries) == [up |-> aps, ops |-> Moves \cup entries]

Mixed ==
  {On({}, {"wait", "kill", "sleep", "stop", "cont", "starve"}),
   On({}, {"wait", "kill", "sleep", "signal"}),
   On({}, {"wait", "stop", "cont", "signal"}),
   On({a1, a2}, {"corrupt"}),
   On({a1}, {"signal", "corrupt"}),
   On({a1}, {"corrupt", "stop"}),
   On({a1}, {"kill"}),
   On({a1}, {"wait"})}

Fair == {On({}, {"wait", "kill"}), On({}, {"wait", "sleep"}), On({a1}, {})}

Waiting == {On({a1, a2}, {"wait"})}

(* Nothing tells two tasks apart, but that one of them is the first to run; the
   same is true of the two APs once both are up. *)
Alike == Permutations(Task) \cup Permutations({a1, a2})
=============================================================================
