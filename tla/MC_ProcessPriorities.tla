------------------------ MODULE MC_ProcessPriorities ------------------------
(* Constants of ProcessPriorities for TLC: numbers on and beyond both     *)
(* ranges, a negative one, junk and a word; Linux's SCHED_RR range 1..99. *)
(* The processes run identical code on disjoint fields: two of them, as   *)
(* symmetric model values, show that one process's lines leave the        *)
(* other's fields alone.                                                   *)
EXTENDS ProcessPriorities, TLC

CONSTANTS vrrp, checker

MCProcesses == {vrrp, checker}

MCSymmetry == Permutations(MCProcesses)

MCArgs == {Tok("num", -25, 3), Tok("num", 0, 1), Tok("num", 19, 2),
           Tok("num", 25, 2), Tok("num", 120, 3),
           Tok("numjunk", 7, 2), Tok("name", 0, 4)}

MCRtArgs == {Tok("num", 1000, 4), Tok("numjunk", 7, 2)}

MCGarbage == {3}
=============================================================================
