------------------------------ MODULE MC_BPFLib ------------------------------
(* Model-checking instance of BPFLib: one XDP interface, TCP failsafe     *)
(* ports 22 and 8080, and three addresses of which two share a /24, so    *)
(* that nodes replace one another, /24 and /32 prefixes nest, and a mask  *)
(* of 33 exercises CidrToHex's bounds check.                              *)
EXTENDS BPFLib

CONSTANTS if1

MCIfaces == {if1}
MCProtos == {6}
MCPorts == {22, 8080}
\* 10.0.0.1, 10.0.0.2 and 10.0.1.1
MCIPs == {167772161, 167772162, 167772417}
MCMasks == {24, 32, 33}
MCRefCounts == {1, 2}
=============================================================================
