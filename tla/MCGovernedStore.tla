---------------------------- MODULE MCGovernedStore ----------------------------
(***************************************************************************)
(* Small instances of GovernedStore for TLC.                               *)
(***************************************************************************)
EXTENDS GovernedStore, TLC

CONSTANTS p1, p2

\* Next, less what Ops leaves out of the run of the writes: no row is purged,
\* linked or recalled. Every process loads sqlite-vec, so no erasure is stranded.
WritesNext ==
    \E p \in Procs :
        \/ Remember(p)
        \/ ForgetStart(p) \/ Shred(p) \/ PurgeSubject(p) \/ Evict(p) \/ RecordForget(p)
        \/ Rewrap(p) \/ Crash(p) \/ Open(p)

WritesSpec == Init /\ [][WritesNext]_vars

Symmetry == Permutations(Subjects) \cup Permutations(Mems)
PeerSymmetry == Symmetry \cup Permutations(Procs)
================================================================================
