------------------------------- MODULE MCMesh -------------------------------
(* The request path on small instances, for TLC.                            *)
EXTENDS Mesh
=============================================================================
