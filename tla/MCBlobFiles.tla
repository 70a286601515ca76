---------------------------- MODULE MCBlobFiles -----------------------------
(* Instances of the file-system component for TLC.                         *)
EXTENDS BlobFiles, TLC

(* Payloads, identifiers and keys are interchangeable.                     *)
FileSymmetry == Permutations(Values) \cup Permutations(Ids) \cup Permutations(Keys)
=============================================================================
