------------------------------- MODULE ToolLoop -------------------------------
(***************************************************************************)
(* One exchange with the model: GeminiClientService.generateChatResponse   *)
(* with the tool handlers of ContextBuilderService.  The model is free to  *)
(* ask for anything, in any round; the loop's budgets end the exchange.    *)
(* Meanwhile the account's items may be removed.                           *)
(***************************************************************************)
EXTENDS Naturals, Sequences, FiniteSets

CONSTANTS
  Items,      (* Item ids, of this and of other accounts.                   *)
  Mine,       (* Those of this account.                                     *)
  Calls,      (* The calls the model makes.  Equal calls have equal keys.   *)
  MaxRounds,  (* AI_MAX_TOOL_ROUNDS.                                        *)
  MaxCalls,   (* AI_MAX_TOOL_CALLS.                                         *)
  RowLimit,   (* Rows a tool returns at most.                               *)
  MaxBatch    (* Calls in one answer of the model: bounds the model.        *)

(* A call's arguments: the ids it names or, for a search, the items that    *)
(* match; whether the arguments are usable (a colour of the palette, a      *)
(* summary); the limit asked for, 0 if it is not a positive number.         *)
ToolNames == {"search_wardrobe", "get_item_details", "get_weather",
              "get_recent_outfits", "propose_outfit", "get_calendar_events"}
Call == [name : ToolNames \cup {"unknown"}, ids : SUBSET Items,
         usable : BOOLEAN, limit : 0..RowLimit + 1]

ASSUME ToolLoopAssumption ==
  /\ Mine \subseteq Items
  /\ IsFiniteSet(Items)
  /\ Calls \subseteq Call
  /\ MaxRounds \in Nat /\ MaxCalls \in Nat /\ RowLimit \in Nat /\ MaxBatch \in Nat

VARIABLES
  owned,      (* The account's items in the wardrobe.                        *)
  step,       (* Where generateChatResponse is.                              *)
  round,      (* Rounds begun.                                               *)
  callsUsed,  (* The budget spent.                                           *)
  calls,      (* The calls of this round still to be handled.                *)
  turn,       (* Calls of the round and responses made to them.              *)
  cache,      (* Results by call, errors included.                           *)
  exhausted,  (* budgetExhausted                                             *)
  proposal,   (* The ids of outfitProposal; {} while there is none.          *)
  executed,   (* How often each call reached its handler.                    *)
  sends,      (* Requests sent to the model.                                 *)
  outcome, outfit

loopVars == <<owned, step, round, callsUsed, calls, turn, cache, exhausted,
              proposal, executed, sends, outcome, outfit>>

ToolResult == [error : BOOLEAN, ids : SUBSET Items, truncated : BOOLEAN]
NotCached == [error |-> TRUE, ids |-> {}, truncated |-> TRUE]

LoopTypeOK ==
  /\ owned \subseteq Mine
  /\ step \in {"send", "calls", "final", "done"}
  /\ round \in 0..MaxRounds
  /\ callsUsed \in Nat
  /\ calls \in Seq(Calls)
  /\ turn \in [asked : Nat, answered : Nat]
  /\ cache \in [Calls -> ToolResult]
  /\ exhausted \in BOOLEAN
  /\ proposal \subseteq Items
  /\ executed \in [Calls -> Nat]
  /\ sends \in Nat
  /\ outcome \in {"none", "text", "outfit", "error"}
  /\ outfit \subseteq Items

LoopInit ==
  /\ owned = Mine
  /\ step = "send"
  /\ round = 0
  /\ callsUsed = 0
  /\ calls = <<>>
  /\ turn = [asked |-> 0, answered |-> 0]
  /\ cache = [c \in Calls |-> NotCached]
  /\ exhausted = FALSE
  /\ proposal = {}
  /\ executed = [c \in Calls |-> 0]
  /\ sends = 0
  /\ outcome = "none"
  /\ outfit = {}

-------------------------------------------------------------------------------
(* The handlers: the results a call can have.  Each may also fail, by an     *)
(* error or the RPC time-out, and a failure is a result like any other.      *)
Failed == [error |-> TRUE, ids |-> {}, truncated |-> FALSE]
Found(S, cut) == [error |-> FALSE, ids |-> S, truncated |-> cut]
NoRows == Found({}, FALSE)

(* The first n of the items of S, in the order of a query or a list that is  *)
(* not modelled.                                                             *)
FirstRows(S, n) ==
  {T \in SUBSET S : Cardinality(T) = (IF n < Cardinality(S) THEN n ELSE Cardinality(S))}

RowCap(c) == IF c.limit = 0 \/ c.limit > RowLimit THEN RowLimit ELSE c.limit

SearchWardrobe(c) ==
  IF ~c.usable THEN {Failed}
  ELSE LET hits == c.ids \cap owned
       IN {Failed} \cup {Found(T, T # hits) : T \in FirstRows(hits, RowCap(c))}

GetItemDetails(c) ==
  IF c.ids = {} THEN {NoRows}
  ELSE {Failed} \cup {Found(T \cap owned, T # c.ids) : T \in FirstRows(c.ids, RowLimit)}

(* A mistaken form of the next definition: an outfit is accepted if any of   *)
(* its ids is the account's own.                                             *)
ValidateAnyOwned(c) ==
  IF ~c.usable \/ c.ids = {} THEN {Failed}
  ELSE {Failed} \cup {IF c.ids \cap owned # {} THEN Found(c.ids, FALSE) ELSE Failed}

(* validateOutfitProposal: every id must be the account's. *)
ValidateOutfitProposal(c) ==
  IF ~c.usable \/ c.ids = {} THEN {Failed}
  ELSE {Failed, IF c.ids \subseteq owned THEN Found(c.ids, FALSE) ELSE Failed}

(* The other tools name no items: no forecast or a disconnected calendar is  *)
(* a result, and get_recent_outfits turns an error into an empty list.       *)
GetWeather == {NoRows, Failed}
GetCalendarEvents == {NoRows, Failed}
GetRecentOutfits == {NoRows}

ExecuteTool(c) ==
  CASE c.name = "search_wardrobe" -> SearchWardrobe(c)
    [] c.name = "get_item_details" -> GetItemDetails(c)
    [] c.name = "propose_outfit" -> ValidateOutfitProposal(c)
    [] c.name = "get_weather" -> GetWeather
    [] c.name = "get_calendar_events" -> GetCalendarEvents
    [] c.name = "get_recent_outfits" -> GetRecentOutfits
    [] OTHER -> {Failed}

-------------------------------------------------------------------------------
Finish(kind, ids) ==
  /\ step' = "done"
  /\ outcome' = kind
  /\ outfit' = ids

Continue(next) == step' = next /\ UNCHANGED <<outcome, outfit>>

Batches == UNION {[1..n -> Calls] : n \in 1..MaxBatch}

(* A round: the model fails, answers in text, or asks for calls. *)
Send ==
  /\ step = "send"
  /\ round < MaxRounds
  /\ round' = round + 1
  /\ sends' = sends + 1
  /\ \/ /\ \E kind \in {"error", "text"} : Finish(kind, {})
        /\ UNCHANGED <<calls, turn>>
     \/ \E batch \in Batches :
          /\ calls' = batch
          /\ turn' = [asked |-> Len(batch), answered |-> 0]
          /\ Continue("calls")
  /\ UNCHANGED <<owned, callsUsed, cache, exhausted, proposal, executed>>

Respond == turn' = [turn EXCEPT !.answered = @ + 1]

(* After an accepted outfit the remaining calls are dropped. *)
IgnoreCall ==
  /\ proposal # {}
  /\ UNCHANGED <<callsUsed, turn, cache, exhausted, proposal, executed>>

(* Mistaken forms of the next three definitions: a budget overrun by one; a  *)
(* call over the budget left without a response; errors left uncached.       *)
UnaffordableLate == callsUsed > MaxCalls
RefuseCallSilently ==
  /\ proposal = {}
  /\ callsUsed >= MaxCalls
  /\ exhausted' = TRUE
  /\ UNCHANGED <<callsUsed, turn, cache, proposal, executed>>
CachedIfGood(c) == ~cache[c].error

(* The budget is spent. *)
Unaffordable == callsUsed >= MaxCalls

RefuseCall ==
  /\ proposal = {}
  /\ Unaffordable
  /\ exhausted' = TRUE
  /\ Respond
  /\ UNCHANGED <<callsUsed, cache, proposal, executed>>

(* What an answered call means for the exchange. *)
Accept(c, result) ==
  proposal' = IF c.name = "propose_outfit" /\ ~result.error THEN result.ids ELSE proposal

Charge == callsUsed' = callsUsed + 1

Cached(c) == cache[c] # NotCached

RepeatCall(c) ==
  /\ proposal = {}
  /\ ~Unaffordable
  /\ Cached(c)
  /\ Charge
  /\ Respond
  /\ Accept(c, cache[c])
  /\ UNCHANGED <<cache, exhausted, executed>>

RunCall(c) ==
  /\ proposal = {}
  /\ ~Unaffordable
  /\ ~Cached(c)
  /\ Charge
  /\ Respond
  /\ executed' = [executed EXCEPT ![c] = @ + 1]
  /\ \E result \in ExecuteTool(c) :
       /\ cache' = [cache EXCEPT ![c] = result]
       /\ Accept(c, result)
  /\ UNCHANGED exhausted

HandleCall ==
  /\ step = "calls"
  /\ calls # <<>>
  /\ calls' = Tail(calls)
  /\ IgnoreCall \/ RefuseCall \/ RepeatCall(Head(calls)) \/ RunCall(Head(calls))
  /\ UNCHANGED <<owned, step, round, sends, outcome, outfit>>

EndRound ==
  /\ step = "calls"
  /\ calls = <<>>
  /\ IF proposal # {} THEN Finish("outfit", proposal)
     ELSE Continue(IF exhausted THEN "final" ELSE "send")
  /\ UNCHANGED <<owned, round, callsUsed, calls, turn, cache, exhausted, proposal, executed, sends>>

(* finalAnswerWithoutTools, when a budget is spent. *)
FinalAnswer ==
  /\ step = "final" \/ (step = "send" /\ round = MaxRounds)
  /\ sends' = sends + 1
  /\ \E kind \in {"error", "text"} : Finish(kind, {})
  /\ UNCHANGED <<owned, round, callsUsed, calls, turn, cache, exhausted, proposal, executed>>

(* The user removes an item during the exchange. *)
RemoveItem ==
  /\ step # "done"
  /\ \E i \in owned : owned' = owned \ {i}
  /\ UNCHANGED <<step, round, callsUsed, calls, turn, cache, exhausted,
                 proposal, executed, sends, outcome, outfit>>

Exchanging == Send \/ HandleCall \/ EndRound \/ FinalAnswer

LoopNext == Exchanging \/ RemoveItem

LoopSpec == LoopInit /\ [][LoopNext]_loopVars

(* A request to the model ends and a tool's RPC times out, so the loop goes  *)
(* on.                                                                       *)
LoopFairness == WF_loopVars(Exchanging)

-------------------------------------------------------------------------------
(* Whatever the model asks for, an exchange costs at most MaxRounds + 1      *)
(* requests and MaxCalls calls.  No handler runs without being charged, nor  *)
(* twice for one call, failed or not: a model that repeats itself costs no   *)
(* further round trips.                                                      *)
BudgetsKept ==
  /\ callsUsed <= MaxCalls
  /\ sends <= MaxRounds + 1
  /\ Cardinality({c \in Calls : executed[c] > 0}) <= callsUsed
  /\ \A c \in Calls : executed[c] <= 1

(* Whenever the conversation is sent on to the model, each call of its last  *)
(* answer has been given one response: the model's API refuses a transcript  *)
(* with a call left open.                                                    *)
CallsAnswered == step \in {"send", "final"} => turn.answered = turn.asked

(* The exchange as the conversation sees it: it ends, and an outfit names    *)
(* only items that were the account's own, removals in between included.     *)
Promise == INSTANCE Exchange
ExchangeKept == Promise!ExchangeSpec

===============================================================================
