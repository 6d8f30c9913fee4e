------------------------------ MODULE Settings -------------------------------
(***************************************************************************)
(* The /settings panel: every menu carries the version of the row it was   *)
(* drawn from, a press reads the current row, checks it, and writes all of *)
(* it back if the version is still the menu's; a custom topic comes as the *)
(* reply to a prompt that is bound to its admin, once.                     *)
(*                                                                         *)
(* Panels are the executions of the panel's handlers, in any process; the  *)
(* scheduler pauses an unresolved schedule between any two of their steps. *)
(* A press that the checks refuse changes nothing and is not an action.    *)
(* Language, approval policy and night pause go the way of the schedule.   *)
(***************************************************************************)
EXTENDS Naturals, FiniteSets

CONSTANTS
  Presets, Customs,        \* topics of the catalogue, topics of the admins
  TopicLimit, CustomLimit, \* twelve topics in all, five of them custom
  Panels,
  MaxVersion, MaxPrompts   \* bounds on changes of the row and on prompts

ASSUME SettingsAssumption ==
  /\ IsFiniteSet(Presets) /\ Presets # {} /\ IsFiniteSet(Customs)
  /\ TopicLimit \in Nat \ {0} /\ CustomLimit \in Nat
  /\ MaxVersion \in Nat \ {0} /\ MaxPrompts \in Nat

VARIABLES
  row,         \* news_bot_settings
  runDraft,    \* status of the draft the schedule's last run stopped at
  prompt,      \* telegram_settings_inputs of the admin, 0 if there is none
  prompts,     \* prompts sent
  panel,
  drawn,       \* what the menus of each version show (history)
  saves,       \* topics saved by the replies to each prompt (history)
  reconciled   \* has the draft of the pause been reconciled (history)

settingsVars == <<row, runDraft, prompt, prompts, panel, drawn, saves, reconciled>>

Fields == [topics : SUBSET Presets, custom : SUBSET Customs,
           excluded : SUBSET Presets, schedule : BOOLEAN]

Shows(r) == [f \in {"topics", "custom", "excluded", "schedule"} |-> r[f]]

Chosen(r) == Cardinality(r.topics) + Cardinality(r.custom)

(* The checks of update_news_settings. *)
Valid(r) == Chosen(r) \in 1..TopicLimit /\ Cardinality(r.custom) <= CustomLimit

Presses ==
  ({"topic_add", "topic_remove", "excluded_toggle"} \X Presets)
    \cup ({"interval"} \X BOOLEAN)
    \cup {<<"topics_all", TRUE>>, <<"custom_clear", TRUE>>}

NoPanel == [at |-> "idle"]

SettingsInit ==
  /\ LET x == CHOOSE x \in Presets : TRUE
     IN row = [version |-> 1, topics |-> {x}, custom |-> {}, excluded |-> {},
              schedule |-> TRUE, run |-> "ok"]
  /\ runDraft = "none" /\ prompt = 0 /\ prompts = 0
  /\ panel = [p \in Panels |-> NoPanel]
  /\ drawn = [v \in 1..MaxVersion |-> Shows(row)]
  /\ saves = [n \in 1..MaxPrompts |-> 0] /\ reconciled = FALSE

(* A row changes together with its version, and menus show both. *)
Changed(r) ==
  /\ row.version < MaxVersion
  /\ row' = [r EXCEPT !.version = row.version + 1]
  /\ drawn' = [drawn EXCEPT ![row.version + 1] = Shows(r)]

-----------------------------------------------------------------------------
(* handleSettingsCallback *)

Toggled(set, x) == IF x \in set THEN set \ {x} ELSE set \cup {x}

(* The row as the press leaves it, the menu being drawn from r. *)
After(r, press) ==
  LET value == press[2]
  IN CASE press[1] = "topic_add" -> [r EXCEPT !.topics = @ \cup {value}]
       [] press[1] = "topic_remove" -> [r EXCEPT !.topics = @ \ {value}]
       [] press[1] = "topics_all" -> [r EXCEPT !.topics = Presets]
       [] press[1] = "custom_clear" -> [r EXCEPT !.custom = {}]
       [] press[1] = "interval" -> [r EXCEPT !.schedule = value]
       [] press[1] = "excluded_toggle" -> [r EXCEPT !.excluded = Toggled(@, value)]

(* Mutant: nothing is looked at. *)
RefusedNever(press) == FALSE

(* The limits are looked at before a press that could break them. *)
Refused(press) ==
  \/ /\ press[1] = "topic_add" /\ press[2] \notin row.topics
     /\ Chosen(row) >= TopicLimit
  \/ /\ press[1] \in {"topic_remove", "custom_clear"}
     /\ Chosen(After(row, press)) = 0
  \/ /\ press[1] = "topics_all"
     /\ Cardinality(Presets) + Cardinality(row.custom) > TopicLimit

(* Mutant: the schedule is switched on without a look at its last run. *)
AsksForDraftNever(press) == FALSE

AsksForDraft(press) ==
  press = <<"interval", TRUE>> /\ row.run = "publication_unresolved"

PressSettings(p, press, version) ==
  /\ panel[p] = NoPanel /\ version <= row.version /\ ~Refused(press)
  /\ panel' = [panel EXCEPT ![p] =
                 [at |-> IF AsksForDraft(press) THEN "draft" ELSE "save",
                  press |-> press, version |-> version, seen |-> row]]
  /\ UNCHANGED <<row, runDraft, prompt, prompts, drawn, saves, reconciled>>

ReadRunDraft(p) ==
  /\ panel[p].at = "draft"
  /\ panel' = [panel EXCEPT ![p] =
                 IF runDraft \in {"approved", "published"}
                 THEN [@ EXCEPT !.at = "save"] ELSE NoPanel]
  /\ UNCHANGED <<row, runDraft, prompt, prompts, drawn, saves, reconciled>>

(* update_news_settings and update_news_excluded_topics: the columns of the *)
(* statement come from the row that was read, if the version is unchanged.  *)
Written(seen, press) ==
  LET new == After(seen, press)
  IN IF press[1] = "excluded_toggle"
     THEN [row EXCEPT !.excluded = new.excluded]
     ELSE [new EXCEPT !.excluded = row.excluded, !.run = row.run]

(* Mutant: the version is that of the row which was read. *)
SavePressOnRow(p) ==
  /\ panel[p].at = "save"
  /\ IF row.version = panel[p].seen.version
     THEN Changed(Written(panel[p].seen, panel[p].press))
     ELSE UNCHANGED <<row, drawn>>
  /\ panel' = [panel EXCEPT ![p] = NoPanel]
  /\ UNCHANGED <<runDraft, prompt, prompts, saves, reconciled>>

SavePress(p) ==
  /\ panel[p].at = "save"
  /\ IF row.version = panel[p].version
     THEN Changed(Written(panel[p].seen, panel[p].press))
     ELSE UNCHANGED <<row, drawn>>
  /\ panel' = [panel EXCEPT ![p] = NoPanel]
  /\ UNCHANGED <<runDraft, prompt, prompts, saves, reconciled>>

-----------------------------------------------------------------------------
(* The custom topic: "custom_prompt" and handleSettingsInput *)

HasRoom(r) == Chosen(r) < TopicLimit /\ Cardinality(r.custom) < CustomLimit

AskTopic(p) ==
  /\ panel[p] = NoPanel /\ HasRoom(row) /\ prompts < MaxPrompts
  /\ prompts' = prompts + 1
  /\ panel' = [panel EXCEPT ![p] = [at |-> "bind", prompt |-> prompts + 1]]
  /\ UNCHANGED <<row, runDraft, prompt, drawn, saves, reconciled>>

BeginSettingsInput(p) ==
  /\ panel[p].at = "bind" /\ prompt' = panel[p].prompt
  /\ panel' = [panel EXCEPT ![p] = NoPanel]
  /\ UNCHANGED <<row, runDraft, prompts, drawn, saves, reconciled>>

(* Mutant: the binding is looked up and stays. *)
ConsumeSettingsInputKept(p, n, topic) ==
  /\ panel[p] = NoPanel /\ prompt = n
  /\ panel' = [panel EXCEPT ![p] = [at |-> "topic", prompt |-> n,
                                    topic |-> topic, attempt |-> 1]]
  /\ UNCHANGED <<row, runDraft, prompt, prompts, drawn, saves, reconciled>>

(* A reply to any prompt; the binding is deleted whether or not it is past  *)
(* its time, and one that is not gives the reply its turn.                  *)
ConsumeSettingsInput(p, n, topic) ==
  /\ panel[p] = NoPanel /\ prompt = n
  /\ prompt' = 0
  /\ \E expired \in BOOLEAN :
       panel' = IF expired THEN panel
                ELSE [panel EXCEPT ![p] = [at |-> "topic", prompt |-> n,
                                           topic |-> topic, attempt |-> 1]]
  /\ UNCHANGED <<row, runDraft, prompts, drawn, saves, reconciled>>

ReadTopics(p) ==
  /\ panel[p].at = "topic"
  /\ panel' = [panel EXCEPT ![p] =
                 IF @.topic \in row.custom \/ ~HasRoom(row) THEN NoPanel
                 ELSE [at |-> "saveTopic", prompt |-> @.prompt, topic |-> @.topic,
                       attempt |-> @.attempt, seen |-> row]]
  /\ UNCHANGED <<row, runDraft, prompt, prompts, drawn, saves, reconciled>>

WithTopic(r, topic) == [r EXCEPT !.custom = @ \cup {topic}]

(* Two attempts; then it throws, and the update is handled again. *)
SaveTopic(p) ==
  LET me == panel[p]
  IN /\ me.at = "saveTopic"
     /\ IF row.version = me.seen.version
        THEN /\ Changed([WithTopic(me.seen, me.topic) EXCEPT
                           !.excluded = row.excluded, !.run = row.run])
             /\ saves' = [saves EXCEPT ![me.prompt] = @ + 1]
             /\ panel' = [panel EXCEPT ![p] = NoPanel]
        ELSE /\ UNCHANGED <<row, drawn, saves>>
             /\ panel' = [panel EXCEPT ![p] =
                            IF me.attempt = 2 THEN NoPanel
                            ELSE [at |-> "topic", prompt |-> me.prompt,
                                  topic |-> me.topic, attempt |-> 2]]
     /\ UNCHANGED <<runDraft, prompt, prompts, reconciled>>

(* An error, an abort or a crash ends a handler between any two calls. *)
PanelEnds(p) ==
  /\ panel[p] # NoPanel /\ panel' = [panel EXCEPT ![p] = NoPanel]
  /\ UNCHANGED <<row, runDraft, prompt, prompts, drawn, saves, reconciled>>

-----------------------------------------------------------------------------
(* The scheduler and the publications *)

PauseNewsSchedule ==
  /\ row.run = "ok"
  /\ Changed([row EXCEPT !.schedule = FALSE, !.run = "publication_unresolved"])
  /\ runDraft' = "publishing" /\ reconciled' = FALSE
  /\ UNCHANGED <<prompt, prompts, panel, saves>>

(* A later run ends: finish_news_schedule leaves the version alone. *)
LaterRun ==
  /\ row.run = "publication_unresolved" /\ row.schedule
  /\ row' = [row EXCEPT !.run = "ok"] /\ runDraft' = "none"
  /\ UNCHANGED <<prompt, prompts, panel, drawn, saves, reconciled>>

ReconcileRun ==
  /\ runDraft = "publishing" /\ runDraft' \in {"approved", "published"}
  /\ reconciled' = TRUE
  /\ UNCHANGED <<row, prompt, prompts, panel, drawn, saves>>

PublishAgain ==
  /\ runDraft = "approved" /\ runDraft' = "publishing"
  /\ UNCHANGED <<row, prompt, prompts, panel, drawn, saves, reconciled>>

SettingsNext ==
  \/ \E p \in Panels :
       \/ \E press \in Presses, v \in 1..MaxVersion : PressSettings(p, press, v)
       \/ ReadRunDraft(p) \/ SavePress(p) \/ AskTopic(p) \/ BeginSettingsInput(p)
       \/ \E n \in 1..MaxPrompts, topic \in Customs : ConsumeSettingsInput(p, n, topic)
       \/ ReadTopics(p) \/ SaveTopic(p) \/ PanelEnds(p)
  \/ PauseNewsSchedule \/ LaterRun \/ ReconcileRun \/ PublishAgain

SettingsSpec == SettingsInit /\ [][SettingsNext]_settingsVars

-----------------------------------------------------------------------------
(* What the panel promises *)

(* The columns have their types, and no statement is sent that the checks   *)
(* of update_news_settings would reject.                                    *)
SettingsTypeOK ==
  /\ Shows(row) \in Fields /\ row.version \in 1..MaxVersion
  /\ row.run \in {"ok", "publication_unresolved"} /\ Valid(row)
  /\ runDraft \in {"none", "publishing", "approved", "published"}
  /\ prompts \in 0..MaxPrompts /\ prompt \in 0..prompts
  /\ \A p \in Panels :
       /\ panel[p].at \in {"idle", "draft", "save", "bind", "topic", "saveTopic"}
       /\ panel[p].at = "save" => Valid(Written(panel[p].seen, panel[p].press))
       /\ panel[p].at = "saveTopic" => Valid(WithTopic(panel[p].seen, panel[p].topic))

(* A press that is saved turns what its own menu showed into the same       *)
(* settings with the one change pressed, whoever else was changing them:    *)
(* nobody's change is undone, and no old menu is obeyed.                    *)
PressIsWhatWasShown ==
  [][\A p \in Panels :
       panel[p].at = "save" /\ panel'[p] = NoPanel /\ row'.version # row.version
         => Shows(row') = After(drawn[panel[p].version], panel[p].press)]_settingsVars

(* A schedule paused over an unresolved publication is switched on again    *)
(* only after the publication has been reconciled, although the panel looks *)
(* at the run and at its draft long before it writes.                       *)
UnresolvedStaysPaused ==
  row.run = "publication_unresolved" /\ row.schedule => reconciled

(* However often its reply is delivered or handled, and by however many     *)
(* processes, a prompt saves one topic.                                     *)
PromptSavesOnce == \A n \in 1..MaxPrompts : saves[n] <= 1

(* Old menus, old prompts and old looks at the last run change nothing.     *)
SettingsPromise ==
  [](UnresolvedStaysPaused /\ PromptSavesOnce) /\ PressIsWhatWasShown
=============================================================================
