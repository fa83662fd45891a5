----------------------------- MODULE MCSessions -----------------------------
(* Instances of Sessions for TLC.  Requests are interchangeable, and so are *)
(* browsers: the properties are invariants and say the same of each.        *)
EXTENDS SessionProperties, TLC

Interchangeable == Permutations(Requests) \cup Permutations(Browsers)
=============================================================================
