------------------------------ MODULE MCServices ------------------------------
(***************************************************************************)
(* The services that share no state, each checked by itself in one run: an *)
(* exchange with the model, then, from the state its first error leaves,   *)
(* one of the others.                                                      *)
(***************************************************************************)
EXTENDS Conversation, ToolLoop, OutfitLog, UserAccounts, EmailMigration,
        ImageAnalysis, TLC

CONSTANTS ada, coat, scarf, boots

VARIABLE service

Wardrobes == ada :> {coat, scarf}

(* boots are somebody else's. *)
AllItems == {coat, scarf, boots}
OwnItems == {coat, scarf}
ACall(name, ids) == [name |-> name, ids |-> ids, usable |-> TRUE, limit |-> 0]
ModelCalls == {ACall("search_wardrobe", AllItems), ACall("propose_outfit", OwnItems),
               ACall("propose_outfit", {coat, boots}), ACall("get_weather", {})}

(* Marks a migration can meet: none, or one that looks like its own. *)
Marks == {<<>>, <<2>>, <<3>>}

ServicesInit ==
  /\ ConversationInit /\ LoopInit /\ LogInit /\ AccountsInit /\ MigrationInit
  /\ AnalysisInit
  /\ service = "model"

FirstCallFailed == outcome = "error" /\ sends = 1 /\ owned = Mine

ServicesNext ==
  \/ /\ service = "model"
     /\ LoopNext
     /\ UNCHANGED <<allVars, logVars, accountVars, migrationVars, analysisVars, service>>
  \/ /\ service = "model"
     /\ FirstCallFailed
     /\ service' \in {"assistant", "log", "accounts", "migration", "analysis"}
     /\ UNCHANGED <<allVars, loopVars, logVars, accountVars, migrationVars, analysisVars>>
  \/ /\ service = "assistant"
     /\ AssistantNext
     /\ UNCHANGED <<loopVars, logVars, accountVars, migrationVars, analysisVars, service>>
  \/ /\ service = "log"
     /\ LogNext
     /\ UNCHANGED <<allVars, loopVars, accountVars, migrationVars, analysisVars, service>>
  \/ /\ service = "accounts"
     /\ AccountsNext
     /\ UNCHANGED <<allVars, loopVars, logVars, migrationVars, analysisVars, service>>
  \/ /\ service = "migration"
     /\ MigrationNext
     /\ UNCHANGED <<allVars, loopVars, logVars, accountVars, analysisVars, service>>
  \/ /\ service = "analysis"
     /\ AnalysisNext
     /\ UNCHANGED <<allVars, loopVars, logVars, accountVars, migrationVars, service>>

serviceVars == <<allVars, loopVars, logVars, accountVars, migrationVars, analysisVars, service>>

ServicesSpec ==
  ServicesInit /\ [][ServicesNext]_serviceVars /\ LoopFairness /\ AssistantFairness

(* The variables of every service have their types. *)
ServicesTypeOK ==
  /\ ConversationTypeOK /\ LoopTypeOK /\ LogTypeOK /\ AccountsTypeOK /\ MigrationTypeOK
  /\ AnalysisTypeOK
===============================================================================
