--------------------------- MODULE MCAcpHarness ---------------------------
(* Small instances of AcpHarness for TLC. *)
EXTENDS AcpHarness, TLC

CONSTANT EventCount

MCEvents == 1 .. EventCount

(* A replay delivers the second event of a run newer-first: event 1 was    *)
(* created after event 2.                                                  *)
MCCreatedAt == [e \in MCEvents |-> IF e = 1 THEN 2 ELSE IF e = 2 THEN 1 ELSE e]

(* Channels and slots are interchangeable. *)
Symmetric == Permutations(Channels) \cup Permutations(Agents)
=============================================================================
