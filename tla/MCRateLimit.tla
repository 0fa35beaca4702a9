---------------------------- MODULE MCRateLimit ----------------------------
(* RateLimit for TLC: one subject allowed two requests per window and one  *)
(* allowed a single request, against interchangeable requests.             *)
EXTENDS RateLimit, TLC

CONSTANTS ip, key

MCSubjects == {ip, key}
MCLimit == (ip :> 2) @@ (key :> 1)
MCSymmetry == Permutations(Requests)
=============================================================================
