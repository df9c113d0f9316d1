---------------------------- MODULE ExclusiveTask ----------------------------
(***************************************************************************)
(* What a lease promises: at most one worker at a time is busy with an     *)
(* item. A worker starts on a free item and stops whenever it likes, by    *)
(* finishing, giving up or crashing.                                       *)
(***************************************************************************)
CONSTANTS Workers, Items

VARIABLE busy   \* the workers that are busy with each item

Init == busy = [i \in Items |-> {}]

Start(w, i) ==
  /\ busy[i] = {}
  /\ busy' = [busy EXCEPT ![i] = {w}]

Stop(w, i) ==
  /\ w \in busy[i]
  /\ busy' = [busy EXCEPT ![i] = @ \ {w}]

Next == \E w \in Workers, i \in Items : Start(w, i) \/ Stop(w, i)

Spec == Init /\ [][Next]_busy
=============================================================================
