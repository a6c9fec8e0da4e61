-------------------------------- MODULE Erasure --------------------------------
(***************************************************************************)
(* What hard erasure promises, with keys, transactions, processes and      *)
(* crashes left out.  held[m] is the set of subjects whose data memory m   *)
(* holds, empty when m is not stored; done is the set of erased subjects.  *)
(* An erasure removes everything that holds the subject in one step and is *)
(* final: no later write holds it again.                                   *)
(***************************************************************************)
CONSTANTS Subjects, Mems
VARIABLES held, done

evars == <<held, done>>

Init == held = [m \in Mems |-> {}] /\ done = {}

Write(m, subjects) ==
    /\ held[m] = {}
    /\ subjects \cap done = {}
    /\ held' = [held EXCEPT ![m] = subjects]
    /\ UNCHANGED done

Remove(gone) ==
    /\ held' = [m \in Mems |-> IF m \in gone THEN {} ELSE held[m]]
    /\ UNCHANGED done

Erase(s) ==
    /\ done' = done \cup {s}
    /\ held' \in [Mems -> SUBSET Subjects]
    /\ \A m \in Mems : held'[m] \in {held[m], {}} /\ s \notin held'[m]

Next ==
    \/ \E gone \in SUBSET Mems : Remove(gone)
    \/ \E m \in Mems, T \in SUBSET Subjects : Write(m, T)
    \/ \E s \in Subjects : Erase(s)

Spec == Init /\ [][Next]_evars

\* No stored memory ever holds data of an erased subject.
ErasureFinal == \A m \in Mems : held[m] \cap done = {}

================================================================================
