------------------------------- MODULE MCScep -------------------------------
(* Two SCEP requests at a time, to two provisioners, one of which uses the   *)
(* algorithm of the library.                                                *)
EXTENDS ScepExchange, TLC

MCAlgorithm == "p1" :> "DES-CBC" @@ "p2" :> "AES-256-GCM"
MCPassword == "p1" :> "w1" @@ "p2" :> "w2"

Symmetry == Permutations(Requests)
=============================================================================
