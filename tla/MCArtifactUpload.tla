--------------------------- MODULE MCArtifactUpload --------------------------
(***************************************************************************)
(* Instances of ArtifactUpload for TLC: an artifact may have three bytes,  *)
(* the file up to six, which leaves room above Go's cap.                   *)
(***************************************************************************)
EXTENDS ArtifactUpload

AllSdks == DOMAIN ProfileOf
=============================================================================
