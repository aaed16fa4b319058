------------------------------- MODULE Exchange -------------------------------
(***************************************************************************)
(* What an exchange with the model promises the conversation that asks for *)
(* it (GeminiClientService.generateChatResponse): one result, which is a   *)
(* text, or an outfit of the account's own items, or an error.             *)
(***************************************************************************)
CONSTANT Mine   (* The items the account has had during the exchange. *)

VARIABLES outcome, outfit

exchangeVars == <<outcome, outfit>>

Result == [outcome : {"text", "error"}, outfit : {{}}]
          \cup [outcome : {"outfit"}, outfit : (SUBSET Mine) \ {{}}]

ExchangeInit == outcome = "none" /\ outfit = {}

ExchangeNext ==
  /\ outcome = "none"
  /\ \E r \in Result : outcome' = r.outcome /\ outfit' = r.outfit

ExchangeSpec ==
  /\ ExchangeInit
  /\ [][ExchangeNext]_exchangeVars
  /\ WF_exchangeVars(ExchangeNext)

===============================================================================
