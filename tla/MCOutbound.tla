------------------------------ MODULE MCOutbound ------------------------------
(* A borrowed video, sent alone, and a bundle of a text and a local file.    *)
EXTENDS Outbound, TLC

CONSTANTS v, b

MCParts == (v :> 1) @@ (b :> 2)
MCMediaAt == (v :> 1) @@ (b :> 2)
=============================================================================
