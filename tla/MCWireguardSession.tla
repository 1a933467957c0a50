------------------------ MODULE MCWireguardSession ------------------------
(***************************************************************************)
(* Small instances of WireguardSession for TLC.                            *)
(***************************************************************************)
EXTENDS WireguardSession

\* A third request only while the daemon was told everything: afterwards nothing is claimed of
\* the daemon, and two are enough for the client's retries.
ThirdOnlyIfTold == asked <= IF untold THEN 2 ELSE 3

=============================================================================
