------------------------------ MODULE MCClient ------------------------------
(***************************************************************************)
(* Instances of the client's modules for TLC.  A board, a wizard, the grid  *)
(* of a day and a form are looked at in different browsers, which meet in   *)
(* the server only, and each of the modules takes that as its environment:  *)
(* so the model is their sum, and a behaviour is of one, in one scene,      *)
(* while the others rest.                                                   *)
(***************************************************************************)
EXTENDS Board, Wizard, Grid, Forms, TLC

CONSTANTS j, t, k, m1, m2, t1, t2, a, b, x, y

VARIABLE scene

-----------------------------------------------------------------------------
\* Board: a job and a task in the two lists of the board; the job has a drawer and a page.
DayLists == j :> "jobs" @@ t :> "tasks"

\* One job is completed while something else is done to it, on the board with the drawer and
\* on the page of the job; or other users change it as well, and another page is opened.
AnyKind == {"drag", "complete", "comment", "cancel", "reopen", "edit", "delete"}
JobPages == {{}, {"jobs", j}, {j}}
JobBoard == [views |-> JobPages \ {{}},
             kinds |-> m1 :> {"complete"} @@ m2 :> {"drag", "comment", "cancel", "edit"},
             statuses |-> {}, others |-> 0, faults |-> 0]
OthersBoard == [views |-> JobPages, kinds |-> m1 :> AnyKind @@ m2 :> {},
                statuses |-> {"GONE"}, others |-> 1, faults |-> 1]

\* A drag with another mutation of a list; two drags, of which one may fail.
DayPages == {{}, {"jobs", "tasks"}}
DayBoard == [views |-> DayPages,
             kinds |-> m1 :> {"drag"} @@ m2 :> {"editTask", "deleteTask"},
             statuses |-> {}, others |-> 0, faults |-> 0]
DragsBoard == [views |-> DayPages, kinds |-> m1 :> {"drag"} @@ m2 :> {"drag"},
               statuses |-> {}, others |-> 0, faults |-> 1]

Pages == JobPages \cup DayPages
Boards == {JobBoard, OthersBoard, DayBoard, DragsBoard}
BoardRests == BoardInit /\ boardLimit = DayBoard /\ view = {}

-----------------------------------------------------------------------------
\* Wizard: one tab and two services, and whatever a customer may do, or one service, and
\* payments may fail as well; two tabs, of which one goes to two companies.
Services == a :> {"cut", "wash"} @@ b :> {"dye"}
Offered == "cut" :> {"nine"} @@ "wash" :> {"ten"} @@ "dye" :> {"ten"}
AloneWizard == [pages |-> {<<t1, a>>}, services |-> {"cut", "wash"}, whims |-> Whim \ {"fail"}]
PaysWizard == [pages |-> {<<t1, a>>}, services |-> {"cut"}, whims |-> Whim]
TabsWizard == [pages |-> {<<t1, a>>, <<t2, a>>, <<t2, b>>}, services |-> {"cut", "dye"},
               whims |-> {"reload", "refused"}]

Wizards == {AloneWizard, PaysWizard, TabsWizard}
WizardRests == WizardInit /\ wizardLimit = AloneWizard

-----------------------------------------------------------------------------
\* Grid: drags of a card in or across the day, whose clock may be put on or back by one unit;
\* a worker's cards inside a day.
SpansOf(S, lengths) == {[start |-> s, end |-> s + l] : s \in S, l \in lengths}
ClockChanges == [at : {7, 8}, before : {1, 2}, after : {1, 2}]
DragSpans == SpansOf({2, 7}, {1, 3}) \cup SpansOf({5, 10}, {1})
Moves == {-3, -1, 2, 5}

LanesGrid == INSTANCE Grid WITH
  GridJob <- {j}, GridTask <- {t, k}, Day <- 6, Step <- 2,
  Zones <- {[at |-> 0, before |-> 2, after |-> 2]},
  Spans <- SpansOf({2, 4, 5, 7, 8, 9}, {1, 2, 4}), Lengths <- {2},
  ServerAgrees <- TRUE, Pointer <- {}, MaxDrops <- 0

GridRests == /\ zone = 0 /\ item = 0 /\ drops = 0 /\ drag = NoCard
             /\ shown = [i \in GridItem |-> NoCard]

-----------------------------------------------------------------------------
\* Forms: two rows that no other scene has, and so in any order.  One value and a fault, or
\* two values, one of them perhaps another user's.
LostForms == {[kind |-> f, values |-> 1, losses |-> 1] : f \in FormKind}
SharedForms == {[kind |-> f, values |-> 2, losses |-> 0] : f \in FormKind \ {"job"}}

ClientForms == LostForms \cup SharedForms
RowsAlike == Permutations({x, y})
FormsRest == FormsInit /\ kind = "task" /\ formsLimit \in LostForms

-----------------------------------------------------------------------------
ASSUME ClientAssumption ==
  /\ BoardAssumption /\ WizardAssumption /\ GridAssumption /\ FormsAssumption
  /\ LanesGrid!GridAssumption

Init ==
  \/ scene = "board" /\ BoardInit /\ WizardRests /\ GridRests /\ FormsRest
  \/ scene = "wizard" /\ WizardInit /\ BoardRests /\ GridRests /\ FormsRest
  \/ scene = "lanes" /\ LanesGrid!GridInit /\ BoardRests /\ WizardRests /\ FormsRest
  \/ scene = "drags" /\ GridInit /\ BoardRests /\ WizardRests /\ FormsRest
  \/ scene = "form" /\ FormsInit /\ BoardRests /\ WizardRests /\ GridRests

Next ==
  /\ UNCHANGED scene
  /\ \/ scene = "board" /\ BoardNext /\ UNCHANGED <<wizardVars, gridVars, formsVars>>
     \/ scene = "wizard" /\ WizardNext /\ UNCHANGED <<boardVars, gridVars, formsVars>>
     \/ scene = "lanes" /\ LanesGrid!GridNext /\ UNCHANGED <<boardVars, wizardVars, formsVars>>
     \/ scene = "drags" /\ GridNext /\ UNCHANGED <<boardVars, wizardVars, formsVars>>
     \/ scene = "form" /\ FormsNext /\ UNCHANGED <<boardVars, wizardVars, gridVars>>

Spec == Init /\ [][Next]_<<scene, boardVars, wizardVars, gridVars, formsVars>>

-----------------------------------------------------------------------------
\* OverlapsAreApart of a day without a change of the clock: cards of overlapping items are in different lanes
\* (schedule-row-layout.ts).
LanesAreApart == scene = "lanes" => LanesGrid!OverlapsAreApart
=============================================================================
