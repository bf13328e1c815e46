------------------------------- MODULE MCIngest -------------------------------
(* An instance of Ingest for TLC: three findings, two of one severity and  *)
(* CVE, so that pages of three cut through a tie once they are ingested    *)
(* twice.                                                                  *)
EXTENDS Ingest, TLC

ThreeFindings == {"lib-a", "lib-b", "other"}
TwoTied       == ("lib-a" :> 1) @@ ("lib-b" :> 1) @@ ("other" :> 2)
Symmetric     == Permutations(Appliers) \cup Permutations(Attempts)
================================================================================
