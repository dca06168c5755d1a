-------------------------- MODULE MCResearchCortex --------------------------
(* Plans of a few steps: the collecting step, which may use the network,     *)
(* and steps that may not. The .cfg files give every constant a number.      *)
EXTENDS ResearchCortex
=============================================================================
