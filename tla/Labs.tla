--------------------------------- MODULE Labs ---------------------------------
(***************************************************************************)
(* The /labs pages (telegram-labs.js): one row of news_feature_flags to a  *)
(* feature, each with a version of its own.  The page of a feature has a   *)
(* button to each of its states, and a button of any page ever drawn can   *)
(* be pressed and is handled by any process.                               *)
(*                                                                         *)
(* A refused press and "Done & close" change nothing and are no actions.   *)
(* Since /labs draws a home page of the current versions at any time, the  *)
(* buttons that lead to a page are not remembered.                         *)
(***************************************************************************)
EXTENDS Naturals

CONSTANTS
  Features, FirstFeature,   \* the feature of a press that names none
  LabHandlers,
  MaxFlagVersion            \* bound on the changes of each flag

ASSUME LabsAssumption ==
  FirstFeature \in Features /\ MaxFlagVersion \in [Features -> Nat \ {0}]

VARIABLES
  flags,       \* news_feature_flags
  buttons,     \* feature and version of the pages drawn, and the state shown there
  labHandler

labsVars == <<flags, buttons, labHandler>>

States == {"off", "collect", "enabled"}
FlagRow(f) == [state : States, version : 1..MaxFlagVersion[f]]
NoLab == [at |-> "idle"]

(* renderLabsText and renderLabsKeyboard of the page of a feature.          *)
Page(f, rows) ==
  [feature |-> f, version |-> rows[f].version, shown |-> rows[f].state]

LabsTypeOK ==
  /\ \A f \in Features : flags[f] \in FlagRow(f)
  /\ \A b \in buttons : /\ b.feature \in Features /\ b.shown \in States
                        /\ b.version \in 1..MaxFlagVersion[b.feature]
  /\ \A h \in LabHandlers :
       /\ labHandler[h].at \in {"idle", "update", "redraw"}
       /\ labHandler[h].at # "idle" =>
            \A f \in Features : labHandler[h].rows[f] \in FlagRow(f)

LabsInit ==
  /\ flags = [f \in Features |-> [state |-> "off", version |-> 1]]
  /\ buttons = {} /\ labHandler = [h \in LabHandlers |-> NoLab]

-----------------------------------------------------------------------------
(* /labs, then the page of a feature. *)
ShowLabs(h, f) ==
  /\ labHandler[h] = NoLab
  /\ labHandler' = [labHandler EXCEPT ![h] =
                      [at |-> "redraw", page |-> f, rows |-> flags]]
  /\ UNCHANGED <<flags, buttons>>

(* Mutant: the version of one row fences the buttons of all of them.        *)
FreshOfFirst(b) == b.version = flags[FirstFeature].version

Fresh(b) == b.version = flags[b.feature].version

PressState(h, b, s) ==
  /\ labHandler[h] = NoLab /\ b \in buttons /\ Fresh(b)
  /\ labHandler' = [labHandler EXCEPT ![h] =
                      [at |-> "update", button |-> b, state |-> s, rows |-> flags]]
  /\ UNCHANGED <<flags, buttons>>

(* The page is drawn again from the rows that were read, the changed one    *)
(* as the statement returned it.                                            *)
Updated(h) ==
  LET me == labHandler[h]
  IN  [state |-> me.state, version |-> flags[me.button.feature].version + 1]

(* Mutant: the row is drawn as it was read, under its new version. *)
RedrawnStale(h) ==
  LET me == labHandler[h] f == me.button.feature
  IN  [me.rows EXCEPT ![f].version = Updated(h).version]

Redrawn(h) ==
  [labHandler[h].rows EXCEPT ![labHandler[h].button.feature] = Updated(h)]

(* Mutant: the statement goes by the feature alone. *)
FencedByFeature(b) == TRUE

(* update_news_feature_flag *)
Fenced(b) == flags[b.feature].version = b.version

UpdateNewsFeatureFlag(h) ==
  /\ labHandler[h].at = "update"
  /\ LET me == labHandler[h] f == me.button.feature
     IN  IF Fenced(me.button)
         THEN /\ flags[f].version < MaxFlagVersion[f]
              /\ flags' = [flags EXCEPT ![f] = Updated(h)]
              /\ labHandler' = [labHandler EXCEPT ![h] =
                                  [at |-> "redraw", page |-> f, rows |-> Redrawn(h)]]
         ELSE labHandler' = [labHandler EXCEPT ![h] = NoLab] /\ UNCHANGED flags
  /\ UNCHANGED buttons

Redraw(h) ==
  /\ labHandler[h].at = "redraw"
  /\ buttons' = buttons \cup {Page(labHandler[h].page, labHandler[h].rows)}
  /\ labHandler' = [labHandler EXCEPT ![h] = NoLab]
  /\ UNCHANGED flags

(* A failing call, an abort or a crash ends the handler.                    *)
LabEnds(h) ==
  /\ labHandler[h] # NoLab /\ labHandler' = [labHandler EXCEPT ![h] = NoLab]
  /\ UNCHANGED <<flags, buttons>>

LabsNext ==
  \E h \in LabHandlers :
    \/ \E f \in Features : ShowLabs(h, f)
    \/ \E b \in buttons, s \in States : PressState(h, b, s)
    \/ UpdateNewsFeatureFlag(h) \/ Redraw(h) \/ LabEnds(h)

LabsSpec == LabsInit /\ [][LabsNext]_labsVars

-----------------------------------------------------------------------------
(* What the pages promise *)

(* A button that is still obeyed stands next to the state the feature has,  *)
(* although a page is drawn from rows that were read at different times.    *)
ObeyedButtonsAreCurrent ==
  \A b \in buttons : Fresh(b) => b.shown = flags[b.feature].state

(* A flag changes from the state the pressed page showed, and no other flag *)
(* changes with it.                                                         *)
FlagIsWhatWasShown ==
  [][\A h \in LabHandlers :
       labHandler[h].at = "update" /\ flags' # flags /\ labHandler'[h] # labHandler[h] =>
         LET b == labHandler[h].button
         IN  /\ flags[b.feature].state = b.shown
             /\ \A f \in Features \ {b.feature} : flags'[f] = flags[f]]_labsVars

(* No page, however old, sets a feature to what its reader did not see.     *)
LabsPromise == []ObeyedButtonsAreCurrent /\ FlagIsWhatWasShown
=============================================================================
