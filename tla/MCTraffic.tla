------------------------------ MODULE MCTraffic ------------------------------
(* Traffic on small instances; tabs, requests and hosts are               *)
(* interchangeable.                                                        *)
EXTENDS Traffic, TLC

Interchangeable ==
    Permutations(Tab) \cup Permutations(Request) \cup Permutations(Host)
=============================================================================
