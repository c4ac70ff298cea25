-------------------------- MODULE MCFlowerIdentifier --------------------------
(* Three photos: an old load can be cancelled twice over. *)
EXTENDS FlowerIdentifier

ThreePhotos == 3
=============================================================================
