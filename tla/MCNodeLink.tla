----------------------------- MODULE MCNodeLink -----------------------------
(* NodeLink with two calls: one whose caller may give up beside one that is
   brought to its end; or two downloads.                                     *)
EXTENDS NodeLink

CONSTANTS c1, c2

Both(k1, k2) == [i \in Calls |-> IF i = c1 THEN k1 ELSE k2]
MixedKinds == {Both("plain", "upload"), Both("push", "source"),
               Both("source", "upload")}
PushKinds == {Both("push", "push")}
=============================================================================
