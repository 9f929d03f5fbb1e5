----------------------------- MODULE AlpacaExchange -----------------------------
(***************************************************************************)
(* What an exchange with an Alpaca server comes to (alpaca_connector.py):  *)
(* the error the connector makes of what the server sent, or of what       *)
(* happened to the connection, and the answer the adapter makes of that.   *)
(***************************************************************************)
EXTENDS Tree

(* What may happen: to the connection, to the HTTP answer, to its JSON.    *)
Connection == {"refused", "timed out", "disconnected", "broken connection", "cut short"}
Http       == {"status 400", "status 500", "other status", "not JSON", "malformed JSON"}
Json       == {"no ErrorNumber", "busy", "other ErrorNumber", "value"}
Exchanges  == Connection \cup Http \cup Json

\* __check_error and _get or _put: the exception, or the end of the method.
\* AlpacaContentTypeError is raised without the arguments it needs.
Raised(exchange) ==
    CASE exchange \in {"refused", "timed out"} -> "RequestConnectionError"
      [] exchange = "disconnected"             -> "ServerConnectionError"
      [] exchange = "broken connection"        -> "ClientConnectionError"
      [] exchange = "cut short"                -> "ClientPayloadError"
      [] exchange = "status 400"               -> "AlpacaHttp400Error"
      [] exchange = "status 500"               -> "AlpacaHttp500Error"
      [] exchange = "other status"             -> "AlpacaHttpError"
      [] exchange = "not JSON"                 -> "TypeError"
      [] exchange = "malformed JSON"           -> "ValueError"
      [] exchange = "no ErrorNumber"           -> "KeyError"
      [] exchange = "busy"                     -> "AlpacaError 20072"
      [] exchange = "other ErrorNumber"        -> "AlpacaError"
      [] exchange = "value"                    -> "nothing"

\* A mutation for the runs: whatever is no error of Alpaca is permanent.
UnknownIsPermanent(raised) == Answer("2002", "CRITICAL")

\* get_value of the adapter, for an exception raise_tree_exeption lets through.
Uncaught(raised) == IF raised = "KeyError" THEN Answer("1002", "CRITICAL")
                                           ELSE Answer("2002", "NORMAL")

\* raise_tree_exeption.
AlpacaAnswer(exchange) ==
    LET raised == Raised(exchange)
    IN  CASE raised = "nothing"                        -> Ok
          [] raised \in {"AlpacaHttp400Error", "AlpacaHttp500Error", "AlpacaHttpError",
                         "AlpacaError", "ClientConnectionError"}
                                                       -> Answer("2002", "NORMAL")
          [] raised = "AlpacaError 20072"              -> Answer("4008", "TEMPORARY")
          [] raised = "RequestConnectionError"         -> Answer("4005", "TEMPORARY")
          [] raised \in {"TypeError", "ValueError"}    -> Answer("1003", "NORMAL")
          [] raised = "ServerConnectionError"          -> Answer("2002", "TEMPORARY")
          [] OTHER                                     -> Uncaught(raised)
=================================================================================
