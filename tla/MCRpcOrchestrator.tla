--------------------------- MODULE MCRpcOrchestrator --------------------------
(* Two implemented providers and one that is not, which stands between them   *)
(* in the order of the tiers and after them in the registry, as in the code.  *)
EXTENDS RpcOrchestrator

MCRegistry == <<"ankr", "chainstack", "quicknode">>
MCOrder == <<"ankr", "quicknode", "chainstack">>
MCImplemented == {"ankr", "chainstack"}
===============================================================================
