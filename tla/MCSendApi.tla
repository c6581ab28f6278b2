------------------------------ MODULE MCSendApi ------------------------------
(* Model values for SendApi: session keys and idempotency keys that join   *)
(* to the same text in two ways.                                           *)
EXTENDS SendApiImplements

MCParts == {"agent", "customer", "message"}
MCSessions == {<<"agent">>, <<"agent", "customer">>}
MCKeys == {<<"message">>, <<"customer", "message">>}
MCOneKey == {<<"message">>}
=============================================================================
