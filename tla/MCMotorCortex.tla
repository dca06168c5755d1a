--------------------------- MODULE MCMotorCortex ---------------------------
(* Procedures and a chain as long as the ring, so that every call meets a    *)
(* full ring, with one of each kind of command.                              *)
EXTENDS MotorCortex

MCProcedures == {<<"string", "key">>, <<"start", "end">>}
MCChains == {<<"end", "key", "string">>}
=============================================================================
