-------------------------- MODULE MCProxyProtocol ---------------------------
(* Lines at the limit of 107 bytes, one byte beyond it, and below the 14   *)
(* bytes that are read first; payloads that fit the array with the header, *)
(* and one that does not fit with the longest header.                      *)
EXTENDS ProxyProtocol
=============================================================================
