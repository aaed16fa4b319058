----------------------------- MODULE UserAccounts -----------------------------
(***************************************************************************)
(* The rows of user_account and the requests that write them: sign-ups,    *)
(* profile and push-token updates in the auth service, webhook keys in the *)
(* ai-assistant service.  The services share the table, not a lock: a      *)
(* request interleaves with the others at every await.                     *)
(***************************************************************************)
EXTENDS EmailAddress

CONSTANTS
  MaxSettings,  (* Requests ever made: bounds the model.                     *)
  MaxOutages    (* Restarts of the services: bounds the model.               *)

ASSUME AccountsAssumption == MaxSettings \in Nat /\ MaxOutages \in Nat

(* A request writes its own number; 0 is a column never written.  The        *)
(* account of a sign-up has the number of the request.                       *)
SettingIds == 1..MaxSettings
Columns == {"name", "city", "push", "key"}
AccountRow == [email : Address, column : [Columns -> 0..MaxSettings]]

VARIABLES
  accounts,  (* user_account                                                 *)
  setting,   (* Requests made, and their progress.                           *)
  outages

accountVars == <<accounts, setting, outages>>

(* `email` is that of a sign-up, `columns` what the request sets, `copy` the *)
(* columns it has read.                                                      *)
Setting == [kind : {"signup", "profile", "push", "key"}, account : SettingIds,
            email : Address, columns : SUBSET Columns,
            pc : {"start", "save", "ack", "acked", "refused", "unacked"},
            copy : [Columns -> 0..MaxSettings]]

AccountsTypeOK ==
  /\ DOMAIN accounts \subseteq SettingIds
  /\ \A a \in DOMAIN accounts : accounts[a] \in AccountRow
  /\ setting \in Seq(Setting)
  /\ outages \in 0..MaxOutages

Blank == [c \in Columns |-> 0]

AccountsInit ==
  /\ accounts = <<>>
  /\ setting = <<>>
  /\ outages = 0

-------------------------------------------------------------------------------
Settle(s, pc) == setting' = [setting EXCEPT ![s].pc = pc]
Holding(s, pc) == s \in DOMAIN setting /\ setting[s].pc = pc

(* The columns a request of a kind may set; a profile update names some. *)
Settable(kind) ==
  CASE kind = "signup" -> {{"name"}}
    [] kind = "profile" -> SUBSET {"name", "city"}
    [] kind = "push" -> {{"push"}}
    [] kind = "key" -> {{"key"}}

Requested(kind, account, email, columns) ==
  setting' = Append(setting,
    [kind |-> kind, account |-> account, email |-> email, columns |-> columns,
     pc |-> "start", copy |-> Blank])

RequestSetting ==
  /\ Len(setting) < MaxSettings
  /\ \/ \E box \in Mailboxes, form \in Forms :
          Requested("signup", Len(setting) + 1,
                  [box |-> box, dup |-> <<>>, form |-> form], {"name"})
     \/ \E a \in DOMAIN accounts, kind \in {"profile", "push", "key"} :
          \E columns \in Settable(kind) : Requested(kind, a, accounts[a].email, columns)
  /\ UNCHANGED <<accounts, outages>>

(* Mistaken forms: the address is stored as it was typed; a profile update   *)
(* clears the city it was not given.                                         *)
AsTyped(e) == e
ProfileOrNothing(s) ==
  [c \in Columns |-> IF c \in setting[s].columns THEN s
                     ELSE IF setting[s].kind = "profile" /\ c = "city" THEN 0
                     ELSE setting[s].copy[c]]

Stored(e) == Folded(e)

(* The row a request saves: the one it read, with the columns it sets. *)
Changed(s) ==
  [c \in Columns |-> IF c \in setting[s].columns THEN s ELSE setting[s].copy[c]]

(* checkEmail and login look for the normalised address. *)
AccountsAt(e) == {a \in DOMAIN accounts : accounts[a].email = Folded(e)}

(* signup: a known address is refused, *)
CheckEmail(s) ==
  /\ Holding(s, "start")
  /\ setting[s].kind = "signup"
  /\ Settle(s, IF AccountsAt(setting[s].email) = {} THEN "save" ELSE "refused")
  /\ UNCHANGED <<accounts, outages>>

(* one that has become known since breaks the unique constraint, exact or    *)
(* by lower case: an error, and no ack.                                      *)
Taken(e) == \E a \in DOMAIN accounts : Lower(accounts[a].email) = Lower(e)

CreateUser(s) ==
  LET email == Stored(setting[s].email) IN
  /\ Holding(s, "save")
  /\ setting[s].kind = "signup"
  /\ IF Taken(email)
     THEN Settle(s, "unacked") /\ UNCHANGED accounts
     ELSE /\ Settle(s, "ack")
          /\ accounts' = [a \in DOMAIN accounts \cup {s} |->
               IF a = s THEN [email |-> email, column |-> Changed(s)] ELSE accounts[a]]
  /\ UNCHANGED outages

(* updateProfile and upsertWebhookKey read the row, change it and save it    *)
(* whole: the ORM writes each column that differs from the table's.          *)
ReadAccount(s) ==
  /\ Holding(s, "start")
  /\ setting[s].kind \in {"profile", "key"}
  /\ setting' = [setting EXCEPT ![s].pc = "save",
                                ![s].copy = accounts[setting[s].account].column]
  /\ UNCHANGED <<accounts, outages>>

SaveAccount(s) ==
  /\ Holding(s, "save")
  /\ setting[s].kind \in {"profile", "key"}
  /\ accounts' = [accounts EXCEPT ![setting[s].account].column = Changed(s)]
  /\ Settle(s, "ack")
  /\ UNCHANGED outages

(* upsertPushToken updates one column. *)
UpsertPushToken(s) ==
  /\ Holding(s, "start")
  /\ setting[s].kind = "push"
  /\ accounts' = [accounts EXCEPT ![setting[s].account].column["push"] = s]
  /\ Settle(s, "ack")
  /\ UNCHANGED outages

AckSetting(s) ==
  /\ Holding(s, "ack")
  /\ Settle(s, "acked")
  /\ UNCHANGED <<accounts, outages>>

(* A restart; what was not acked is delivered again. *)
Outage ==
  /\ outages < MaxOutages
  /\ outages' = outages + 1
  /\ setting' = [s \in DOMAIN setting |->
       IF setting[s].pc \in {"acked", "refused"} THEN setting[s]
       ELSE [setting[s] EXCEPT !.pc = "start", !.copy = Blank]]
  /\ UNCHANGED accounts

AccountsNext ==
  \/ RequestSetting
  \/ \E s \in SettingIds :
       \/ CheckEmail(s) \/ CreateUser(s) \/ ReadAccount(s) \/ SaveAccount(s)
       \/ UpsertPushToken(s) \/ AckSetting(s)
  \/ Outage

AccountsSpec == AccountsInit /\ [][AccountsNext]_accountVars

-------------------------------------------------------------------------------
(* However its address is typed, an account is found by it, and no other is, *)
(* whatever sign-ups race each other.                                        *)
LoginFindsOne ==
  \A a \in DOMAIN accounts : \A form \in Forms :
    AccountsAt([accounts[a].email EXCEPT !.form = form]) = {a}

(* A request changes a column it does not set only back to what it read: a   *)
(* write is undone by a request that was already under way, by no other.     *)
ColumnsKept ==
  [][\A a \in DOMAIN accounts : \A c \in Columns :
       accounts'[a].column[c] # accounts[a].column[c] =>
         \E s \in DOMAIN setting :
           /\ setting[s].account = a
           /\ setting[s].pc \in {"start", "save"} /\ setting'[s].pc = "ack"
           /\ \/ c \in setting[s].columns /\ accounts'[a].column[c] = s
              \/ /\ setting[s].pc = "save"
                 /\ accounts'[a].column[c] = setting[s].copy[c]]_accountVars

===============================================================================
