--------------------------- MODULE MCConversation ---------------------------
(***************************************************************************)
(* What people see of the bot: its updates, its reviews, its settings, its *)
(* Labs and the hours of its schedule, which share no state here, in one   *)
(* run.  A behaviour moves the one in focus, which its initial state       *)
(* chooses; the others stay as they start.                                 *)
(***************************************************************************)
EXTENDS TelegramUpdates, ReviewSessions, Settings, Labs, NightPause

CONSTANT article_tags

VARIABLE focus

conversationVars == <<focus, updateVars, reviewVars, settingsVars, labsVars,
                      nightVars>>

(* An admin's update, one nobody handles and a malformed one. *)
MixedUpdates == [u \in Updates |->
  CASE u = 1 -> "control" [] u = 2 -> "foreign" [] OTHER -> "malformed"]

(* The flag that is not the first changes once more.                        *)
Changes == [f \in Features |-> IF f = article_tags THEN 2 ELSE 3]

ConversationInit ==
  /\ focus \in {"updates", "review", "settings", "labs", "night"}
  /\ UpdatesInit /\ ReviewInit /\ SettingsInit /\ LabsInit /\ NightInit
  /\ focus # "night" => /\ zone = [before |-> 1, after |-> 1]
                        /\ enabled /\ every = CHOOSE i \in Intervals : TRUE

ConversationNext ==
  /\ UNCHANGED focus
  /\ \/ /\ focus = "updates" /\ UpdatesNext
        /\ UNCHANGED <<reviewVars, settingsVars, labsVars, nightVars>>
     \/ /\ focus = "review" /\ ReviewNext
        /\ UNCHANGED <<updateVars, settingsVars, labsVars, nightVars>>
     \/ /\ focus = "settings" /\ SettingsNext
        /\ UNCHANGED <<updateVars, reviewVars, labsVars, nightVars>>
     \/ /\ focus = "labs" /\ LabsNext
        /\ UNCHANGED <<updateVars, reviewVars, settingsVars, nightVars>>
     \/ /\ focus = "night" /\ NightNext
        /\ UNCHANGED <<updateVars, reviewVars, settingsVars, labsVars>>

ConversationSpec == ConversationInit /\ [][ConversationNext]_conversationVars

(* An admin's press does what its own page showed: of /settings as Settings *)
(* promises, of /labs as Labs does (telegram-settings.js, telegram-labs.js), *)
(* and a schedule it sets is due when the night pause says                  *)
(* (db/migrations/20260807210000_add_news_night_pause.sql).                 *)
PanelsPromise ==
  /\ LabsPromise /\ SettingsPromise
  /\ [](PauseEndsWithTheNight /\ NothingDueAtNight /\ DeferredForOneNight)

(* The variables of every component keep their types.                       *)
ConversationTypeOK == UpdatesTypeOK /\ ReviewTypeOK /\ SettingsTypeOK
                      /\ LabsTypeOK /\ NightTypeOK
=============================================================================
