-------------------------------- MODULE MCVk --------------------------------
(***************************************************************************)
(* The VK bot, checked part by part: the dialogues, the paged lists and    *)
(* the intake of events share no state, so each behaviour is one of one of *)
(* them while the others stay in an initial state.                         *)
(***************************************************************************)
EXTENDS VkDialog, VkLists, VkIntake

VARIABLE part

vkVars == << part, dialogVars, listVars, intakeVars >>

DialogRests == budget.left = 5
IntakeRests == mode = "callback" /\ keeps

VkInit ==
  /\ part \in {"dialogs", "lists", "intake"}
  /\ DialogInit /\ ListInit /\ IntakeInit
  /\ part # "dialogs" => DialogRests
  /\ part # "intake" => IntakeRests

VkNext ==
  /\ UNCHANGED part
  /\ \/ part = "dialogs" /\ DialogNext /\ UNCHANGED << listVars, intakeVars >>
     \/ part = "lists" /\ ListNext /\ UNCHANGED << dialogVars, intakeVars >>
     \/ part = "intake" /\ IntakeNext /\ UNCHANGED << dialogVars, listVars >>

VkSpec ==
  /\ VkInit
  /\ [][VkNext]_vkVars
  /\ DialogFairness
  /\ IntakeFairness

AllAccess == Users \X Tickets
Budget(left, faults, texts) == [left |-> left, texts |-> texts, faults |-> faults]
AllBudgets ==
  { Budget(4, 1, {"section", "long", "short", "stay", "cancel"}),
    Budget(4, 2, {"section", "long", "stay"}),
    Budget(5, 0, {"section", "long", "more", "stay"}),
    Budget(3, 1, {"create", "no_dept", "partnership", "caps", "short", "long"}),
    Budget(3, 2, {"reply_start", "long", "short", "caps"}),
    Budget(3, 1, {"report", "today", "by_date", "by_period", "date", "long"}) }
SuggestionBudget == {Budget(4, 0, {"section", "long", "create"})}
=============================================================================
