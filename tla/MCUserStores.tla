---------------------------- MODULE MCUserStores ----------------------------
(* Instances of UserStores for TLC.                                        *)
EXTENDS UserStores, TLC

CONSTANTS t1, t2, blank

Texts == {t1, t2, blank}

(* Two spellings of one memory, and a text that normalises away.           *)
Fingerprints == (t1 :> "print") @@ (t2 :> "print") @@ (blank :> None)

Symmetry == Permutations(Client) \cup Permutations(FactKey) \cup Permutations(Value)
=============================================================================
