------------------------------ MODULE MCSampler ------------------------------
(* Small instances of Sampler for TLC. *)
EXTENDS Sampler

CONSTANTS r1, r2, r3, i1, i2, m1, m2, m3

OneId      == [r \in Reqs |-> i1]
OwnIds     == [r \in Reqs |-> IF r = r1 THEN i1 ELSE i2]

\* The fallback list repeats the primary and one of its own entries.
Chain      == [model |-> m1, fallbacks |-> <<m2, m1, m2, m3>>]
Plain      == [model |-> m1, fallbacks |-> <<>>]
OneBackup  == [model |-> m1, fallbacks |-> <<m2>>]
Solo       == [model |-> m2, fallbacks |-> <<>>]

ChainConfigs == {Chain}
PlainConfigs == {Plain}
TwoConfigs   == {OneBackup, Solo}
=============================================================================
