------------------------------ MODULE WriteOnce ------------------------------
(***************************************************************************)
(* What the raw layer promises of its files (data/immutable.py: "write      *)
(* once, then never again"), as far as it can be kept: a file appears, may  *)
(* be torn or rewritten while those who found it missing are still at it,   *)
(* becomes final once, and is never touched again.                          *)
(***************************************************************************)
CONSTANTS
  Names,      \* the files of the layer
  Contents,   \* what a file may hold
  Absent      \* the content of a file that was never written

VARIABLES content, final

Init ==
  /\ content = [f \in Names |-> Absent]
  /\ final = {}

(* A writer at work; the last one of several leaves the file final. *)
Write(f) ==
  /\ f \notin final
  /\ content'[f] \in Contents \ {Absent}
  /\ content' = [content EXCEPT ![f] = content'[f]]
  /\ final' = final \/ final' = final \union {f}

Finish(f) ==
  /\ content[f] # Absent
  /\ final' = final \union {f}
  /\ UNCHANGED content

Next == \E f \in Names : Write(f) \/ Finish(f)

Spec == Init /\ [][Next]_<<content, final>>
=============================================================================
