-------------------------- MODULE MCGatewayReplay ---------------------------
(* Four tool calls, one of an idempotent tool and one of no tool the       *)
(* registry has, three turns, two claims.                                  *)
EXTENDS GatewayReplay

CONSTANTS t1, t2, t3, t4
=============================================================================
