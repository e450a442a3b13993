----------------------------- MODULE MCDelivery -----------------------------
(***************************************************************************)
(* A stable version "v1" and a release candidate "rc"; a commit with the   *)
(* [skip ci] marker, which is the head of main and of a branch named as    *)
(* the version, and one without it.                                        *)
(***************************************************************************)
EXTENDS Delivery

Heads == [b \in {"main", "v1"} |-> "c2"]
=============================================================================
