------------------------------ MODULE MCServer ------------------------------
(***************************************************************************)
(* Three clients for two slots; two of them send a byte at a time.        *)
(***************************************************************************)
EXTENDS HttpServer

CONSTANTS a, b, drip, sweep, nobody

=============================================================================
