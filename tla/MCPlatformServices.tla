-------------------------- MODULE MCPlatformServices ---------------------------
(* Instances of PlatformServices for TLC.                                      *)
EXTENDS PlatformServices

CONSTANTS c1, c2, c3, m1, m2, m3
===============================================================================
