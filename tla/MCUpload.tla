------------------------------ MODULE MCUpload ------------------------------
(* One recording, another one, and one upload.                             *)
EXTENDS Delivery
=============================================================================
