------------------------ MODULE MCDescriptorRefresh ------------------------
(* Small instances of DescriptorRefresh for TLC. *)
EXTENDS DescriptorRefresh
=============================================================================
