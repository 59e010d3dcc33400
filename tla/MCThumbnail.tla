----------------------------- MODULE MCThumbnail -----------------------------
(* Thumbnails on a small instance.                                         *)
EXTENDS Thumbnail
=============================================================================
