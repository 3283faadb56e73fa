------------------------------ MODULE MCBlock ------------------------------
(* Instances of BlockImage for TLC.                                        *)
EXTENDS BlockImage

=============================================================================
