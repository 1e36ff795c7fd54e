------------------------ MODULE MCCombinedImageSamplers ------------------------
(***************************************************************************)
(* The shaders of MCShaders go through the traversals.                     *)
(***************************************************************************)
EXTENDS MCShaders, CombinedImageSamplers

MCSampledShaders == SampledShaders
================================================================================
