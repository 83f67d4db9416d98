--------------------------- MODULE MCDeployClaims ---------------------------
(* The instance of MCDeploySaga, with one deployment.                      *)
EXTENDS DeployClaims, MCDeploySaga
=============================================================================
