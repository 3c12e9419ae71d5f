-------------------------------- MODULE Tab --------------------------------
(***************************************************************************)
(* A tab of the browser, and the screen somebody works on in it: the form  *)
(* builder, the task board, the drawer that moves a person between teams,  *)
(* or a form with a picker.  The screens share the rules of the query      *)
(* cache and no state, so the tab is the sum of them: whichever is open    *)
(* takes all the steps, and the others stay as they were loaded.           *)
(***************************************************************************)
EXTENDS FormBuilder, TaskBoard, TeamDrawer, SuggestionPicker

VARIABLE open  \* the screen somebody works on

Screens == {"builder", "board", "drawer", "picker"}

vars == <<open, formVars, boardVars, drawerVars, pickerVars>>

\* Only the open screen starts from any state it may be loaded in.
Init ==
  /\ open \in Screens
  /\ FormInit
  /\ BoardInit /\ (open /= "board" => range = CHOOSE r \in Ranges : TRUE)
  /\ DrawerInit /\ (open /= "drawer" => \A u \in UserIds : place[u] = NoTeam)
  /\ PickerInit /\ (open /= "picker" => value = Nothing)

Builder == open = "builder" /\ FormNext /\ UNCHANGED <<open, boardVars, drawerVars, pickerVars>>
Board == open = "board" /\ BoardNext /\ UNCHANGED <<open, formVars, drawerVars, pickerVars>>
Drawer == open = "drawer" /\ DrawerNext /\ UNCHANGED <<open, formVars, boardVars, pickerVars>>
Picker == open = "picker" /\ PickerNext /\ UNCHANGED <<open, formVars, boardVars, drawerVars>>

Next == Builder \/ Board \/ Drawer \/ Picker

Spec == Init /\ [][Next]_vars
=============================================================================
