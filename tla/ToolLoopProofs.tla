---------------------------- MODULE ToolLoopProofs ----------------------------
(***************************************************************************)
(* Theorems about an exchange with the model, for any calls it may make    *)
(* and any budgets.                                                        *)
(***************************************************************************)
EXTENDS ToolLoop, FiniteSetTheorems, TLAPS

(* The budget: each call cached was run once, each run was charged, each     *)
(* request belongs to a round or is the final one.                           *)
Ran == {c \in Calls : executed[c] > 0}

Accounted ==
  /\ callsUsed <= MaxCalls
  /\ sends <= round + (IF step = "done" THEN 1 ELSE 0)
  /\ \A c \in Calls : executed[c] = IF Cached(c) THEN 1 ELSE 0
  /\ IsFiniteSet(Ran) /\ Cardinality(Ran) <= callsUsed

(* Calls not yet handled are those not yet answered, until an outfit is      *)
(* accepted.                                                                 *)
Outstanding ==
  /\ CallsAnswered
  /\ step = "calls" /\ proposal = {} => turn.asked = turn.answered + Len(calls)

(* An accepted outfit, or one in the cache, was checked.                     *)
Checked ==
  /\ proposal \subseteq Mine
  /\ \A c \in Calls :
       c.name = "propose_outfit" /\ ~cache[c].error => cache[c].ids \subseteq Mine
  /\ step # "done" => outcome = "none" /\ outfit = {}

LoopInv == LoopTypeOK /\ Accounted /\ Outstanding /\ Checked

-------------------------------------------------------------------------------
(* What a handler may return. *)
LEMMA ResultsFound ==
  ASSUME NEW S \in SUBSET Items, NEW cut \in BOOLEAN
  PROVE  Found(S, cut) \in ToolResult \ {NotCached} /\ ~Found(S, cut).error
                                                 /\ Found(S, cut).ids = S
BY DEF Found, ToolResult, NotCached

LEMMA FailureTyped == Failed \in ToolResult \ {NotCached} /\ Failed.error
BY DEF Failed, ToolResult, NotCached

LEMMA SearchTyped ==
  ASSUME LoopTypeOK, NEW c \in Calls, NEW result \in SearchWardrobe(c)
  PROVE  result \in ToolResult \ {NotCached}
<1> DEFINE hits == c.ids \cap owned
<1>1. CASE result = Failed
  BY <1>1, FailureTyped
<1>2. ASSUME NEW T \in FirstRows(hits, RowCap(c)), result = Found(T, T # hits)
      PROVE  result \in ToolResult \ {NotCached}
  <2>1. T \in SUBSET Items
    BY ToolLoopAssumption DEF FirstRows, LoopTypeOK
  <2>2. (T # hits) \in BOOLEAN
    OBVIOUS
  <2> QED
    BY <1>2, <2>1, <2>2, ResultsFound
<1> QED
  BY <1>1, <1>2 DEF SearchWardrobe

LEMMA DetailsTyped ==
  ASSUME LoopTypeOK, NEW c \in Calls, NEW result \in GetItemDetails(c)
  PROVE  result \in ToolResult \ {NotCached}
<1>1. CASE result \in {Failed, NoRows}
  BY <1>1, FailureTyped, ResultsFound DEF NoRows
<1>2. ASSUME NEW T \in FirstRows(c.ids, RowLimit), result = Found(T \cap owned, T # c.ids)
      PROVE  result \in ToolResult \ {NotCached}
  <2>1. T \cap owned \in SUBSET Items
    BY ToolLoopAssumption DEF LoopTypeOK
  <2>2. (T # c.ids) \in BOOLEAN
    OBVIOUS
  <2> QED
    BY <1>2, <2>1, <2>2, ResultsFound
<1> QED
  BY <1>1, <1>2 DEF GetItemDetails

LEMMA ProposalTyped ==
  ASSUME LoopTypeOK, NEW c \in Calls, NEW result \in ValidateOutfitProposal(c)
  PROVE  /\ result \in ToolResult \ {NotCached}
         /\ ~result.error => result.ids \subseteq owned
<1>1. CASE result = Failed
  BY <1>1, FailureTyped
<1>2. CASE result = Found(c.ids, FALSE) /\ c.ids \subseteq owned
  <2>1. c.ids \in SUBSET Items
    BY <1>2, ToolLoopAssumption DEF LoopTypeOK
  <2> QED
    BY <1>2, <2>1, ResultsFound
<1> QED
  BY <1>1, <1>2 DEF ValidateOutfitProposal

LEMMA ToolResults ==
  ASSUME LoopTypeOK, NEW c \in Calls, NEW result \in ExecuteTool(c)
  PROVE  /\ result \in ToolResult \ {NotCached}
         /\ c.name = "propose_outfit" /\ ~result.error => result.ids \subseteq Mine
<1>1. CASE c.name = "search_wardrobe"
  BY <1>1, SearchTyped DEF ExecuteTool
<1>2. CASE c.name = "get_item_details"
  BY <1>2, DetailsTyped DEF ExecuteTool
<1>3. CASE c.name = "propose_outfit"
  BY <1>3, ProposalTyped DEF ExecuteTool, LoopTypeOK
<1>4. CASE c.name \notin {"search_wardrobe", "get_item_details", "propose_outfit"}
  <2>1. result \in {NoRows, Failed}
    BY <1>4 DEF ExecuteTool, GetWeather, GetCalendarEvents, GetRecentOutfits
  <2> QED
    BY <1>4, <2>1, FailureTyped, ResultsFound DEF NoRows
<1> QED
  BY <1>1, <1>2, <1>3, <1>4

LEMMA CallTyped ==
  ASSUME LoopTypeOK, calls # <<>>
  PROVE  /\ Head(calls) \in Calls
         /\ Tail(calls) \in Seq(Calls)
         /\ Len(Tail(calls)) = Len(calls) - 1
         /\ Len(calls) \in Nat \ {0}
BY DEF LoopTypeOK

LEMMA NotCachedTyped == NotCached \in ToolResult
BY DEF NotCached, ToolResult

-------------------------------------------------------------------------------
LEMMA LoopInitInv == LoopInit => LoopInv
<1> SUFFICES ASSUME LoopInit
             PROVE  LoopInv
  OBVIOUS
<1> USE ToolLoopAssumption DEF LoopInit
<1>1. LoopTypeOK
  <2>1. cache \in [Calls -> ToolResult] /\ executed \in [Calls -> Nat]
    BY NotCachedTyped
  <2>2. calls \in Seq(Calls) /\ round \in 0..MaxRounds /\ turn \in [asked : Nat, answered : Nat]
    OBVIOUS
  <2> QED
    BY <2>1, <2>2 DEF LoopTypeOK
<1>2. Accounted
  <2>1. Ran = {}
    BY DEF Ran
  <2> QED
    BY <2>1, FS_EmptySet DEF Accounted, Cached
<1>3. Outstanding /\ Checked
  BY DEF Outstanding, CallsAnswered, Checked, NotCached
<1> QED
  BY <1>1, <1>2, <1>3 DEF LoopInv

LEMMA SendStep ==
  ASSUME LoopInv, Send
  PROVE  LoopInv'
<1> USE ToolLoopAssumption DEF LoopInv
<1>1. round' = round + 1 /\ sends' = sends + 1 /\ round < MaxRounds /\ step = "send"
  BY DEF Send
<1>2. round' \in 0..MaxRounds /\ sends' \in Nat
  BY <1>1 DEF LoopTypeOK
<1>3. UNCHANGED <<owned, callsUsed, cache, exhausted, proposal, executed>>
  BY DEF Send
<1>4. Accounted'
  <2>1. Ran' = Ran /\ \A c \in Calls : Cached(c)' = Cached(c)
    BY <1>3 DEF Ran, Cached
  <2>2. sends' <= round' + (IF step' = "done" THEN 1 ELSE 0)
    BY <1>1, <1>2 DEF Accounted, LoopTypeOK
  <2> QED
    BY <1>3, <2>1, <2>2 DEF Accounted
<1>5. CASE \E kind \in {"error", "text"} : Finish(kind, {}) /\ UNCHANGED <<calls, turn>>
  <2>1. LoopTypeOK'
    BY <1>2, <1>3, <1>5 DEF LoopTypeOK, Finish
  <2>2. Outstanding' /\ Checked'
    BY <1>3, <1>5 DEF Finish, Outstanding, CallsAnswered, Checked
  <2> QED
    BY <1>4, <2>1, <2>2
<1>6. ASSUME NEW batch \in Batches, calls' = batch,
             turn' = [asked |-> Len(batch), answered |-> 0], Continue("calls")
      PROVE  LoopInv'
  <2>1. batch \in Seq(Calls) /\ Len(batch) \in Nat
    BY DEF Batches
  <2>2. LoopTypeOK'
    BY <1>2, <1>3, <1>6, <2>1 DEF LoopTypeOK, Continue
  <2>3. Outstanding' /\ Checked'
    BY <1>1, <1>3, <1>6, <2>1 DEF Continue, Outstanding, CallsAnswered, Checked
  <2> QED
    BY <1>4, <2>2, <2>3
<1> QED
  BY <1>5, <1>6 DEF Send

(* A call that is answered without being run. *)
LEMMA ResponseTyped ==
  ASSUME LoopTypeOK, Respond
  PROVE  /\ turn' \in [asked : Nat, answered : Nat]
         /\ turn'.asked = turn.asked /\ turn'.answered = turn.answered + 1
BY DEF LoopTypeOK, Respond

LEMMA AcceptedTyped ==
  ASSUME NEW c, NEW result \in ToolResult, Accept(c, result), proposal = {},
         c.name = "propose_outfit" /\ ~result.error => result.ids \subseteq Mine
  PROVE  proposal' \subseteq Mine
BY DEF Accept

LEMMA HandleCallStep ==
  ASSUME LoopInv, HandleCall
  PROVE  LoopInv'
<1> USE ToolLoopAssumption DEF LoopInv
<1> DEFINE c == Head(calls)
<1>1. /\ step = "calls" /\ calls # <<>> /\ calls' = Tail(calls)
      /\ UNCHANGED <<owned, step, round, sends, outcome, outfit>>
  BY DEF HandleCall
<1>2. c \in Calls /\ calls' \in Seq(Calls) /\ Len(calls') = Len(calls) - 1 /\ Len(calls) \in Nat
  BY <1>1, CallTyped
<1> HIDE DEF c
<1>3. CASE IgnoreCall
  <2>1. LoopTypeOK'
    BY <1>1, <1>2, <1>3 DEF LoopTypeOK, IgnoreCall
  <2>2. Accounted'
    BY <1>1, <1>3 DEF Accounted, IgnoreCall, Ran, Cached
  <2>3. Outstanding' /\ Checked'
    BY <1>1, <1>3 DEF Outstanding, CallsAnswered, Checked, IgnoreCall
  <2> QED
    BY <2>1, <2>2, <2>3
<1>4. ASSUME Respond, proposal = {}, proposal' \subseteq Mine,
             callsUsed' \in Nat, exhausted' \in BOOLEAN,
             cache' \in [Calls -> ToolResult], executed' \in [Calls -> Nat]
      PROVE  LoopTypeOK' /\ Outstanding'
  <2>1. LoopTypeOK'
    BY <1>1, <1>2, <1>4, ResponseTyped DEF LoopTypeOK
  <2>2. turn'.asked = turn'.answered + Len(calls')
    BY <1>1, <1>2, <1>4, ResponseTyped DEF Outstanding, LoopTypeOK
  <2> QED
    BY <1>1, <2>1, <2>2 DEF Outstanding, CallsAnswered
<1>5. CASE RefuseCall
  <2>1. LoopTypeOK' /\ Outstanding'
    BY <1>4, <1>5 DEF RefuseCall, LoopTypeOK
  <2>2. Accounted'
    BY <1>1, <1>5 DEF Accounted, RefuseCall, Ran, Cached
  <2>3. Checked'
    BY <1>1, <1>5 DEF Checked, RefuseCall
  <2> QED
    BY <2>1, <2>2, <2>3
<1>6. CASE RepeatCall(c)
  <2>1. cache[c] \in ToolResult
    BY <1>2 DEF LoopTypeOK
  <2>2. proposal' \subseteq Mine
    BY <1>2, <1>6, <2>1, AcceptedTyped DEF RepeatCall, Checked
  <2>3. callsUsed' = callsUsed + 1 /\ callsUsed' \in Nat /\ callsUsed' <= MaxCalls
    BY <1>6 DEF RepeatCall, Charge, Unaffordable, LoopTypeOK
  <2>4. LoopTypeOK' /\ Outstanding'
    BY <1>4, <1>6, <2>2, <2>3 DEF RepeatCall, LoopTypeOK
  <2>5. Accounted'
    <3>1. Cardinality(Ran) \in Nat
      BY FS_CardinalityType DEF Accounted
    <3> QED
      BY <1>1, <1>6, <2>3, <3>1 DEF Accounted, RepeatCall, Ran, Cached, LoopTypeOK
  <2>6. Checked'
    BY <1>1, <1>6, <2>2 DEF Checked, RepeatCall
  <2> QED
    BY <2>4, <2>5, <2>6
<1>7. CASE RunCall(c)
  <2>1. PICK result \in ExecuteTool(c) :
          cache' = [cache EXCEPT ![c] = result] /\ Accept(c, result)
    BY <1>7 DEF RunCall
  <2>2. /\ result \in ToolResult \ {NotCached}
        /\ c.name = "propose_outfit" /\ ~result.error => result.ids \subseteq Mine
    BY <1>2, ToolResults
  <2>3. executed[c] = 0 /\ executed' = [executed EXCEPT ![c] = 1]
    <3>1. ~Cached(c) /\ executed' = [executed EXCEPT ![c] = @ + 1]
      BY <1>7 DEF RunCall
    <3>2. executed[c] = 0
      BY <1>2, <3>1 DEF Accounted
    <3> QED
      BY <3>1, <3>2
  <2>4. callsUsed' = callsUsed + 1 /\ callsUsed' \in Nat /\ callsUsed' <= MaxCalls
    BY <1>7 DEF RunCall, Charge, Unaffordable, LoopTypeOK
  <2>5. proposal' \subseteq Mine
    BY <1>7, <2>1, <2>2, AcceptedTyped DEF RunCall
  <2>6. cache' \in [Calls -> ToolResult] /\ executed' \in [Calls -> Nat]
    BY <1>2, <2>1, <2>2, <2>3 DEF LoopTypeOK
  <2>7. LoopTypeOK' /\ Outstanding'
    BY <1>4, <1>7, <2>4, <2>5, <2>6 DEF RunCall, LoopTypeOK
  <2>8. Accounted'
    <3>1. Ran' = Ran \cup {c} /\ c \notin Ran
      BY <1>2, <2>3 DEF Ran, LoopTypeOK
    <3>2. IsFiniteSet(Ran') /\ Cardinality(Ran') = Cardinality(Ran) + 1
      BY <3>1, FS_AddElement DEF Accounted
    <3>3. Cardinality(Ran) \in Nat
      BY FS_CardinalityType DEF Accounted
    <3>4. \A d \in Calls : executed'[d] = IF Cached(d)' THEN 1 ELSE 0
      BY <1>2, <2>1, <2>2, <2>3 DEF Accounted, Cached, LoopTypeOK
    <3>5. sends' <= round' + (IF step' = "done" THEN 1 ELSE 0)
      BY <1>1 DEF Accounted
    <3>6. Cardinality(Ran') <= callsUsed'
      BY <2>4, <3>2, <3>3 DEF Accounted, LoopTypeOK
    <3> QED
      BY <2>4, <3>2, <3>4, <3>5, <3>6 DEF Accounted
  <2>9. Checked'
    BY <1>1, <1>2, <2>1, <2>2, <2>5 DEF Checked, LoopTypeOK
  <2> QED
    BY <2>7, <2>8, <2>9
<1> QED
  BY <1>3, <1>5, <1>6, <1>7 DEF HandleCall, c

LEMMA EndRoundStep ==
  ASSUME LoopInv, EndRound
  PROVE  LoopInv'
<1> USE ToolLoopAssumption DEF LoopInv
<1>1. /\ step = "calls" /\ calls = <<>>
      /\ UNCHANGED <<owned, round, callsUsed, calls, turn, cache, exhausted, proposal,
                     executed, sends>>
  BY DEF EndRound
<1>2. Ran' = Ran /\ \A c \in Calls : Cached(c)' = Cached(c)
  BY <1>1 DEF Ran, Cached
<1>3. Accounted'
  BY <1>1, <1>2 DEF Accounted, LoopTypeOK
<1>4. CASE proposal # {}
  BY <1>1, <1>3, <1>4
     DEF EndRound, Finish, LoopTypeOK, Outstanding, CallsAnswered, Checked
<1>5. CASE proposal = {}
  <2>1. turn.asked = turn.answered
    BY <1>1, <1>5 DEF Outstanding, LoopTypeOK
  <2> QED
    BY <1>1, <1>3, <1>5, <2>1
       DEF EndRound, Continue, LoopTypeOK, Outstanding, CallsAnswered, Checked
<1> QED
  BY <1>4, <1>5

LEMMA FinalAnswerStep ==
  ASSUME LoopInv, FinalAnswer
  PROVE  LoopInv'
<1> USE ToolLoopAssumption DEF LoopInv
<1>1. PICK kind \in {"error", "text"} : Finish(kind, {})
  BY DEF FinalAnswer
<1>2. /\ step # "done" /\ sends' = sends + 1 /\ step' = "done"
      /\ UNCHANGED <<owned, round, callsUsed, calls, turn, cache, exhausted, proposal, executed>>
  BY <1>1 DEF FinalAnswer, Finish
<1>3. LoopTypeOK'
  BY <1>1, <1>2 DEF LoopTypeOK, Finish
<1>4. Accounted'
  <2>1. Ran' = Ran /\ \A c \in Calls : Cached(c)' = Cached(c)
    BY <1>2 DEF Ran, Cached
  <2> QED
    BY <1>2, <2>1 DEF Accounted, LoopTypeOK
<1>5. Outstanding' /\ Checked'
  BY <1>2 DEF Outstanding, CallsAnswered, Checked
<1> QED
  BY <1>3, <1>4, <1>5

LEMMA RemoveItemStep ==
  ASSUME LoopInv, RemoveItem
  PROVE  LoopInv'
<1> USE DEF LoopInv
<1>1. /\ owned' \subseteq owned
      /\ UNCHANGED <<step, round, callsUsed, calls, turn, cache, exhausted,
                     proposal, executed, sends, outcome, outfit>>
  BY DEF RemoveItem
<1>2. Ran' = Ran /\ \A c \in Calls : Cached(c)' = Cached(c)
  BY <1>1 DEF Ran, Cached
<1> QED
  BY <1>1, <1>2 DEF LoopTypeOK, Accounted, Outstanding, CallsAnswered, Checked

LEMMA LoopInvariant == LoopSpec => []LoopInv
<1>1. ASSUME LoopInv, UNCHANGED loopVars
      PROVE  LoopInv'
  BY <1>1 DEF LoopInv, LoopTypeOK, Accounted, Outstanding, CallsAnswered, Checked, Ran,
     Cached, loopVars
<1>2. LoopInv /\ [LoopNext]_loopVars => LoopInv'
  BY <1>1, SendStep, HandleCallStep, EndRoundStep, FinalAnswerStep, RemoveItemStep
     DEF LoopNext, Exchanging
<1> QED
  BY <1>2, LoopInitInv, PTL DEF LoopSpec

-------------------------------------------------------------------------------
(* The loop's variables have their types, whatever the model asks for.       *)
THEOREM LoopTypeCorrect == LoopSpec => []LoopTypeOK
<1>1. LoopInv => LoopTypeOK
  BY DEF LoopInv
<1> QED
  BY <1>1, LoopInvariant, PTL

(* No exchange costs more than its budgets, and no call is run twice.        *)
THEOREM BudgetsAreKept == LoopSpec => []BudgetsKept
<1>1. LoopInv => BudgetsKept
  BY ToolLoopAssumption DEF LoopInv, Accounted, BudgetsKept, Ran, LoopTypeOK
<1> QED
  BY <1>1, LoopInvariant, PTL

(* The model is never sent a transcript with a call left open.               *)
THEOREM NoCallLeftOpen == LoopSpec => []CallsAnswered
<1>1. LoopInv => CallsAnswered
  BY DEF LoopInv, Outstanding
<1> QED
  BY <1>1, LoopInvariant, PTL

(* The loop does what Exchange promises: it has one result, and an outfit    *)
(* names only the account's own items.  (That the exchange ends is left to   *)
(* TLC.)                                                                     *)
THEOREM LoopRefinesExchange ==
  LoopSpec => Promise!ExchangeInit /\ [][Promise!ExchangeNext]_(Promise!exchangeVars)
<1>1. LoopInit => Promise!ExchangeInit
  BY DEF LoopInit, Promise!ExchangeInit
<1>2. LoopInv /\ [LoopNext]_loopVars => [Promise!ExchangeNext]_(Promise!exchangeVars)
  <2> SUFFICES ASSUME LoopInv, LoopNext, ~UNCHANGED <<outcome, outfit>>
               PROVE  Promise!ExchangeNext
    BY DEF loopVars, Promise!exchangeVars
  <2>1. step # "done" /\ outcome = "none"
    BY DEF LoopInv, Checked, LoopNext, Exchanging, Send, HandleCall, EndRound, FinalAnswer,
       RemoveItem
  <2>2. CASE \E kind \in {"error", "text"} : Finish(kind, {})
    <3>1. [outcome |-> outcome', outfit |-> outfit'] \in Promise!Result
      BY <2>2 DEF Finish, Promise!Result
    <3> QED
      BY <2>1, <3>1 DEF Promise!ExchangeNext
  <2>3. CASE Finish("outfit", proposal) /\ proposal # {}
    <3>1. [outcome |-> outcome', outfit |-> outfit'] \in Promise!Result
      BY <2>3 DEF Finish, Promise!Result, LoopInv, Checked
    <3> QED
      BY <2>1, <3>1 DEF Promise!ExchangeNext
  <2> QED
    BY <2>2, <2>3
       DEF LoopNext, Exchanging, Send, Continue, HandleCall, EndRound, FinalAnswer, RemoveItem
<1> QED
  BY <1>1, <1>2, LoopInvariant, PTL DEF LoopSpec
===============================================================================
