---------------------------- MODULE SessionStore ----------------------------
(* What the session manager promises its callers, whatever its goroutines do. *)
(*                                                                            *)
(* A session is in one of four stages and only ever moves forward.  Its id is *)
(* never listed again once it has been removed.  A session is killed only     *)
(* after it has left the store, and once at most: whoever takes it out of the *)
(* store, Remove or Shutdown, owns the kill.  Shutdown empties the store in   *)
(* one step.                                                                  *)

CONSTANT Sessions

VARIABLES stage,   \* stage[s], of Stages
          kills    \* kills[s], how often s has been killed

vars == <<stage, kills>>

Stages == {"absent", "running", "stopped", "removed"}

Listed(s) == stage[s] \in {"running", "stopped"}

TypeOK == /\ stage \in [Sessions -> Stages]
          /\ kills \in [Sessions -> {0, 1}]

Init == /\ stage = [s \in Sessions |-> "absent"]
        /\ kills = [s \in Sessions |-> 0]

\* A new session is listed, as running.
Launch(s) == /\ stage[s] = "absent"
             /\ stage' = [stage EXCEPT ![s] = "running"]
             /\ UNCHANGED kills

\* The shell of a listed session has exited.
Stop(s) == /\ stage[s] = "running"
           /\ stage' = [stage EXCEPT ![s] = "stopped"]
           /\ UNCHANGED kills

Remove(s) == /\ Listed(s)
             /\ stage' = [stage EXCEPT ![s] = "removed"]
             /\ UNCHANGED kills

RemoveAll == /\ stage' = [s \in Sessions |->
                            IF Listed(s) THEN "removed" ELSE stage[s]]
             /\ UNCHANGED kills

Kill(s) == /\ stage[s] = "removed"
           /\ kills[s] = 0
           /\ kills' = [kills EXCEPT ![s] = 1]
           /\ UNCHANGED stage

Next == \/ RemoveAll
        \/ \E s \in Sessions : Launch(s) \/ Stop(s) \/ Remove(s) \/ Kill(s)

Spec == Init /\ [][Next]_vars

=============================================================================
