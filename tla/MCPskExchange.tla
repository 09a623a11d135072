--------------------------- MODULE MCPskExchange ---------------------------
(* Model-checking instance of PskExchange.                                 *)
EXTENDS PskExchange, TLC

\* The responder's session table: two rsp_session_id values.
MCRspIds == {1, 2}
=============================================================================
