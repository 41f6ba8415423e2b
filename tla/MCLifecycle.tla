----------------------------- MODULE MCLifecycle -----------------------------
(* Two homes, on ports of their own or on the same one.                     *)
EXTENDS Lifecycle

CONSTANTS h1, h2, p1, p2

PortMapsOf == {[h \in Homes |-> p1],
               [h \in Homes |-> IF h = h1 THEN p1 ELSE p2]}
=============================================================================
