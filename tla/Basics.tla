------------------------------- MODULE Basics --------------------------------
(***************************************************************************)
(* What the encoder and the store share: the nil pointer, the length of a  *)
(* hash and the result of a call that can fail.                            *)
(***************************************************************************)

CONSTANTS
  Absent,  \* the nil pointer
  HashLen  \* 32: the bytes of a hash

Ok(v) == [err |-> "", val |-> v]

Err(e) == [err |-> e, val |-> Absent]
=============================================================================
