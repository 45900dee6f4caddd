----------------------------- MODULE MCSigning -----------------------------
(* Every form an event can take, all saying the same.                       *)
EXTENDS Signing

Submitted ==
    {doc \in Documents : doc.id = 1 /\ doc.time = 1 /\ doc.body = 1}
=============================================================================
