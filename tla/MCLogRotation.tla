--------------------------- MODULE MCLogRotation ---------------------------
(* Small instances of LogRotation. *)
EXTENDS LogRotation

TwoServices == <<"bigfred", "redis">>

=============================================================================
