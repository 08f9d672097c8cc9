------------------------------ MODULE MCVirtio ------------------------------
(* An instance of Virtio for TLC.                                          *)
EXTENDS Virtio
=============================================================================
