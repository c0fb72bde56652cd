---------------------------- MODULE MCGeneration ----------------------------
(* The bounded instances of Generation that TLC checks.                    *)
EXTENDS Generation
=============================================================================
