----------------------------- MODULE Transformer -----------------------------
(***************************************************************************)
(* The endpoints of transformer/router.py in one process: transform/run    *)
(* carries an event through its stages, as the plugins do (EventContent),  *)
(* while jobs are submitted (TransformJobs).                               *)
(***************************************************************************)
EXTENDS EventContent, TransformJobs

transformerVars == <<vars, jobVars>>

TransformerInit == Init /\ JobInit

TransformerNext ==
  \/ Next /\ UNCHANGED jobVars
  \/ JobNext /\ UNCHANGED vars

TransformerSpec == TransformerInit /\ [][TransformerNext]_transformerVars
=============================================================================
