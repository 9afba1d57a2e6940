---------------------------- MODULE MCDeployment ----------------------------
(* Deployment with a credential that is renewed once.                        *)
EXTENDS Deployment
=============================================================================
