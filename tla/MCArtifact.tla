----------------------------- MODULE MCArtifact -----------------------------
(* Constants for model-checking Artifact: one project per target. *)
EXTENDS Artifact

MCTargets == {"workerd", "vercel"}
=============================================================================
