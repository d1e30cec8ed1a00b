-------------------------------- MODULE Forms --------------------------------
(***************************************************************************)
(* The forms in which a manager edits what is there: a job in the board's   *)
(* drawer, a task on the board, a client, a worker, a service, the company. *)
(* Each is filled from rows the page has loaded, sends all its fields, also *)
(* those nobody typed in, and the last write wins; so what it was filled    *)
(* from, and when, decides what a save puts into the row.                   *)
(*                                                                          *)
(* A behaviour is of one kind of form, in one page that stays open.  React  *)
(* Query and React are external: an effect runs before the next event, and  *)
(* the callbacks of a pending mutation are those of the last render.        *)
(* Deleting is in Board and Office; nothing is gone here.                   *)
(***************************************************************************)
EXTENDS Naturals

CONSTANTS
  Record,      \* the rows of a list
  MaxSaves,    \* bound: saves
  FormsLimits  \* bounds: the kind of form looked at, how many values are typed or written
               \* by others, and how many refusals, lost answers and failed loads there are

NoRecord == "none"
FormKind == {"job", "task", "client", "company", "worker", "service"}

FormsAssumption ==
  /\ FormsLimits \subseteq [kind : FormKind, values : Nat, losses : Nat]
  /\ {"list", NoRecord} \cap Record = {}
  /\ MaxSaves \in Nat

\* A text and a choice (completed, active, or a role) stand for a form's fields, and for the
\* columns of a row.  Values are told apart by when they were made.
Input == {"text", "choice"}

VARIABLES
  kind,
  columns, \* the server's rows
  kept,    \* row -> the data kept under its id: whose it is, and the columns
  reload,  \* query -> the load in progress
  sel,     \* the row of the drawer or of the page
  form,    \* the dialog
  save,    \* the mutation under way
  mine,    \* history: what this user has last saved in a field
  loose,   \* rows of which the cache is known to be behind
  clock, saves, losses,
  formsLimit  \* the bounds of this behaviour

formsVars == <<kind, columns, kept, reload, sel, form, save, mine, loose, clock, saves, losses,
              formsLimit>>

InList == kind \in {"task", "worker", "service"}
Source(r) == IF InList THEN "list" ELSE r
Fills(q) == IF q = "list" THEN Record ELSE {q}
Mounted == Source(sel)

\* A query that failed counts as failed, whatever it still has, until a load succeeds.
NotLoading == [stage |-> "idle", data |-> << >>, missed |-> {}, failed |-> FALSE]
Loading == [NotLoading EXCEPT !.stage = "sent"]
Again(l) == [Loading EXCEPT !.failed = l.failed]
Blank == [f \in Input |-> 0]
NoDialog == [open |-> FALSE, key |-> NoRecord, from |-> NoRecord, values |-> Blank,
             typed |-> {}, early |-> FALSE]
NoSave == [stage |-> "none", row |-> NoRecord, from |-> NoRecord, values |-> Blank,
           sent |-> {}, typed |-> {}, early |-> FALSE, answer |-> Blank]

FormsTypeOK ==
  /\ kind \in FormKind /\ columns \in [Record -> [Input -> Nat]]
  /\ kept \in [Record -> [of : Record, val : [Input -> Nat]]]
  /\ \A q \in Record \cup {"list"} : reload[q].stage \in {"idle", "sent", "served"}
  /\ sel \in Record /\ (form.open <=> form.key \in Record) /\ form.typed \subseteq Input
  /\ form.values \in [Input -> Nat]
  /\ save.stage \in {"none", "sent", "half", "committed", "refused", "reloading"}
  /\ save.typed \subseteq save.sent /\ save.sent \subseteq Input
  /\ mine \in [Record -> [Input -> Nat]] /\ loose \subseteq Record
  /\ clock \in Nat /\ saves \in 0..MaxSaves /\ losses \in Nat /\ formsLimit \in FormsLimits

\* The page is opened from what an earlier visit has left, and loads.
FormsInit ==
  /\ formsLimit \in FormsLimits /\ kind = formsLimit.kind /\ sel \in Record
  /\ columns = [r \in Record |-> Blank]
  /\ kept = [r \in Record |-> [of |-> r, val |-> columns[r]]]
  /\ reload = [q \in Record \cup {"list"} |-> IF q = Mounted THEN Loading ELSE NotLoading]
  /\ form = IF kind = "company" THEN [NoDialog EXCEPT !.open = TRUE, !.key = sel, !.from = sel]
            ELSE NoDialog
  /\ save = NoSave /\ mine = [r \in Record |-> Blank] /\ loose = {}
  /\ clock = 0 /\ saves = 0 /\ losses = 0

Loss == losses < formsLimit.losses /\ losses' = losses + 1
Fresh == clock < formsLimit.values /\ clock' = clock + 1

-----------------------------------------------------------------------------
\* Filling.  Mistaken: the effect does not depend on the row.
RefilledNot(c) == form

\* After a failed load the pages of a client and of the company show that, and no form; the
\* drawer and the lists of workers and services do, and no buttons.
Gone(q) == kind \in {"client", "company"} /\ reload[q].failed
Offers(q) == reload[q].failed => kind = "task"

\* The effects of the job, task, client and company forms: what is typed is dropped whenever
\* anything of the row shown changes.  A worker's and a service's form keep the row that the
\* list had when they were opened.
Follows == kind \in {"job", "task", "client", "company"}
Refilled(c) ==
  IF Follows /\ form.open /\ (c[form.key] # kept[form.key] \/ Gone(form.key))
  THEN [form EXCEPT !.values = c[form.key].val, !.from = c[form.key].of, !.typed = {}]
  ELSE form

\* History: an own save of the row is under way, or its reload is.
Unsettled(r) == save.stage # "none" \/ reload[Source(r)].stage # "idle"

Opened(r) ==
  [open |-> TRUE, key |-> r, from |-> kept[r].of, values |-> kept[r].val, typed |-> {},
   early |-> Unsettled(r) \/ r \in loose]
Opens(r) ==
  /\ ~form.open /\ Offers(Source(r))
  /\ form' = Opened(r)
  /\ UNCHANGED <<kind, columns, kept, reload, sel, save, mine, loose, clock, saves, losses>>

OpenJob == kind = "job" /\ Opens(sel)
OpenTask(r) == kind = "task" /\ Opens(r)
OpenClient == kind = "client" /\ Opens(sel)
OpenWorker(r) == kind = "worker" /\ Opens(r)
OpenService(r) == kind = "service" /\ Opens(r)

\* Every dialog can be closed while it is saving.
CloseDialog ==
  /\ form.open /\ kind # "company" /\ ~Gone(form.key)
  /\ form' = NoDialog
  /\ UNCHANGED <<kind, columns, kept, reload, sel, save, mine, loose, clock, saves, losses>>

\* Another job is chosen on the board: its details are shown, and loaded again.
Select(r) ==
  /\ kind = "job" /\ r # sel
  /\ sel' = r
  /\ form' = NoDialog
  /\ reload' = IF reload[r].stage = "idle" THEN [reload EXCEPT ![r] = Again(@)] ELSE reload
  /\ UNCHANGED <<kind, columns, kept, save, mine, loose, clock, saves, losses>>

Type(f) ==
  /\ form.open /\ Fresh /\ ~Gone(form.key)
  /\ form' = [form EXCEPT !.values[f] = clock', !.typed = @ \cup {f}]
  /\ UNCHANGED <<kind, columns, kept, reload, sel, save, mine, loose, saves, losses>>

-----------------------------------------------------------------------------
\* Sending.  Which row a form writes to: the job whose details are shown, wherever they
\* are kept; the task found in the list; the client of the page's address; the worker or
\* the service that was chosen.
\* Mistaken: the job that is selected.
JobSelected == sel
JobWritten == kept[sel].of

Sends(r, fs, early) ==
  /\ form.open /\ save.stage = "none" /\ saves < MaxSaves /\ ~Gone(form.key)
  /\ form.typed \subseteq fs
  /\ save' = [NoSave EXCEPT !.stage = "sent", !.row = r, !.from = form.from, !.values = form.values,
                            !.sent = fs, !.typed = form.typed, !.early = early]
  /\ saves' = saves + 1
  /\ UNCHANGED <<kind, columns, kept, reload, sel, form, mine, loose, clock, losses>>

\* History, of a form that follows its row: the save is sent before the row is reloaded.
Early == form.key \in loose \/ reload[Source(form.key)].stage # "idle"

SubmitJob == kind = "job" /\ Sends(JobWritten, Input, sel \in loose \/ kept[sel].of # sel)
SubmitTask == kind = "task" /\ Sends(form.key, Input, Early)
SubmitClient == kind = "client" /\ Sends(sel, Input, Early)
SubmitCompany == kind = "company" /\ Sends(sel, Input, Early)
\* The role of an account that is not linked, or is an admin's, is not sent.
SubmitWorker == kind = "worker" /\ \E fs \in {{"text"}, Input} : Sends(form.key, fs, form.early)
SubmitService == kind = "service" /\ Sends(form.key, Input, form.early)

\* The list's button turns a service on or off, from what the list shows of it.
Toggle(r) ==
  /\ kind = "service" /\ save.stage = "none" /\ saves < MaxSaves /\ ~form.open /\ Fresh
  /\ Offers("list")
  /\ save' = [NoSave EXCEPT !.stage = "sent", !.row = r, !.from = r, !.values["choice"] = clock',
                            !.sent = {"choice"}, !.typed = {"choice"}]
  /\ saves' = saves + 1
  /\ UNCHANGED <<kind, columns, kept, reload, sel, form, mine, loose, losses>>

-----------------------------------------------------------------------------
\* The server.
Served(q) ==
  /\ reload[q].stage = "sent"
  /\ reload' = [reload EXCEPT ![q].stage = "served", ![q].data = [r \in Fills(q) |-> columns[r]]]
  /\ UNCHANGED <<kind, columns, kept, sel, form, save, mine, loose, clock, saves, losses>>

\* The columns fs of the row are written.  History: the loads that did not see it.
Writes(fs, stage) ==
  LET r == save.row
      new == [f \in Input |-> IF f \in fs THEN save.values[f] ELSE columns[r][f]]
  IN
  /\ columns' = [columns EXCEPT ![r] = new]
  /\ save' = [save EXCEPT !.stage = stage, !.answer = new]
  /\ mine' = [mine EXCEPT ![r] = [f \in Input |-> IF f \in fs THEN save.values[f] ELSE @[f]]]
  /\ reload' = [q \in DOMAIN reload |-> IF r \in Fills(q) /\ reload[q].stage = "served"
                                    THEN [reload[q] EXCEPT !.missed = @ \cup {r}] ELSE reload[q]]
  /\ UNCHANGED <<kind, kept, sel, form, loose, clock, saves, losses>>

Saving(k, stage) == kind = k /\ save.stage = stage

UpdateJob == Saving("job", "sent") /\ Writes(save.sent, "committed")
UpdateTask == Saving("task", "sent") /\ Writes(save.sent, "committed")
UpdateClient == Saving("client", "sent") /\ Writes(save.sent, "committed")
UpdateCompany == Saving("company", "sent") /\ Writes(save.sent, "committed")
UpdateService == Saving("service", "sent") /\ Writes(save.sent, "committed")
\* A worker's role and the other columns are written one after the other.
UpdateRole == Saving("worker", "sent") /\ "choice" \in save.sent /\ Writes({"choice"}, "half")
UpdateWorker ==
  /\ \/ Saving("worker", "sent") /\ "choice" \notin save.sent
     \/ Saving("worker", "half")
  /\ Writes({"text"}, "committed")

\* A name that is missing, an address or a slug that is taken, an own role, or an error: of
\* a worker also between the two.
RefuseSave ==
  /\ save.stage \in {"sent", "half"} /\ Loss
  /\ save' = [save EXCEPT !.stage = "refused"]
  /\ loose' = IF save.stage = "half" THEN loose \cup {save.row} ELSE loose
  /\ UNCHANGED <<kind, columns, kept, reload, sel, form, mine, clock, saves>>

OtherWrites(r, f) ==
  /\ Fresh
  /\ columns' = [columns EXCEPT ![r][f] = clock']
  /\ UNCHANGED <<kind, kept, reload, sel, form, save, mine, loose, saves, losses>>

-----------------------------------------------------------------------------
\* Answers.  A load replaces what is kept, also by what is older: a job's answer leaves a load
\* in progress that has not seen the save.
ReloadArrives(q) ==
  LET c == [r \in Record |-> IF r \in Fills(q) THEN [of |-> r, val |-> reload[q].data[r]] ELSE kept[r]]
  IN
  /\ reload[q].stage = "served"
  /\ kept' = c
  /\ form' = Refilled(c)
  /\ reload' = [reload EXCEPT ![q] = NotLoading]
  /\ loose' = IF reload[q].missed = {} THEN loose \ Fills(q) ELSE loose \cup reload[q].missed
  /\ UNCHANGED <<kind, columns, sel, save, mine, clock, saves, losses>>

ReloadFails(q) ==
  /\ reload[q].stage = "sent" /\ Loss
  /\ reload' = [reload EXCEPT ![q] = [NotLoading EXCEPT !.failed = TRUE]]
  /\ loose' = loose \cup Fills(q)
  /\ UNCHANGED <<kind, columns, kept, sel, form, save, mine, clock, saves>>

\* The button on the page of services.
Retry ==
  /\ kind = "service" /\ reload["list"].failed /\ reload["list"].stage = "idle"
  /\ reload' = [reload EXCEPT !["list"] = Again(@)]
  /\ UNCHANGED <<kind, columns, kept, sel, form, save, mine, loose, clock, saves, losses>>

\* A job's answer is its new details, kept under the id the drawer shows by now; the dialog
\* that is open by now is closed.
AnswerJob ==
  LET key == JobWritten
      c == [kept EXCEPT ![key] = [of |-> save.row, val |-> save.answer]]
  IN
  /\ Saving("job", "committed")
  /\ kept' = c
  /\ form' = NoDialog
  /\ loose' = IF key = save.row THEN loose \ {key} ELSE loose \cup {save.row}
  /\ reload' = [reload EXCEPT ![key].failed = FALSE]
  /\ save' = NoSave
  /\ UNCHANGED <<kind, columns, sel, mine, clock, saves, losses>>

\* The others' answers are dropped, and what is shown is loaded anew, without waiting for
\* it; a load in progress is given up.
Reloads == reload' = [reload EXCEPT ![Mounted] = Again(@)]
Answers(stays) ==
  /\ save.stage = "committed"
  /\ Reloads
  /\ form' = IF stays THEN form ELSE NoDialog
  /\ save' = NoSave
  /\ UNCHANGED <<kind, columns, kept, sel, mine, loose, clock, saves, losses>>
AnswerTask == kind = "task" /\ Answers(FALSE)
AnswerClient == kind = "client" /\ Answers(FALSE)
AnswerWorker == kind = "worker" /\ Answers(FALSE)
AnswerCompany == kind = "company" /\ Answers(TRUE)

\* A service's mutation is over, and its dialog closed, when the list has been loaded.
AnswerService ==
  /\ Saving("service", "committed")
  /\ Reloads
  /\ save' = [save EXCEPT !.stage = "reloading"]
  /\ UNCHANGED <<kind, columns, kept, sel, form, mine, loose, clock, saves, losses>>
ServiceEnds ==
  /\ save.stage = "reloading" /\ reload["list"].stage = "idle"
  /\ form' = IF save.sent = Input THEN NoDialog ELSE form
  /\ save' = NoSave
  /\ UNCHANGED <<kind, columns, kept, reload, sel, mine, loose, clock, saves, losses>>

\* A refusal, or a lost answer: the form stays as it is, and nothing is loaded.
Fails ==
  /\ \/ save.stage = "refused" /\ UNCHANGED <<loose, losses>>
     \/ save.stage = "committed" /\ Loss /\ loose' = loose \cup {save.row}
  /\ save' = NoSave
  /\ UNCHANGED <<kind, columns, kept, reload, sel, form, mine, clock, saves>>

-----------------------------------------------------------------------------
FormsStep ==
  \/ OpenJob \/ OpenClient \/ CloseDialog
  \/ \E r \in Record : OpenTask(r) \/ OpenWorker(r) \/ OpenService(r) \/ Select(r) \/ Toggle(r)
  \/ \E f \in Input : Type(f)
  \/ SubmitJob \/ SubmitTask \/ SubmitClient \/ SubmitCompany \/ SubmitWorker \/ SubmitService
  \/ \E q \in Record \cup {"list"} : Served(q) \/ ReloadArrives(q) \/ ReloadFails(q)
  \/ Retry
  \/ UpdateJob \/ UpdateTask \/ UpdateClient \/ UpdateCompany \/ UpdateService
  \/ UpdateRole \/ UpdateWorker \/ RefuseSave
  \/ \E r \in Record, f \in Input : OtherWrites(r, f)
  \/ AnswerJob \/ AnswerTask \/ AnswerClient \/ AnswerWorker \/ AnswerCompany
  \/ AnswerService \/ ServiceEnds \/ Fails

FormsNext == FormsStep /\ UNCHANGED formsLimit

FormsSpec == FormsInit /\ [][FormsNext]_formsVars

-----------------------------------------------------------------------------
\* A save never puts back, into a field that nobody typed in, something older than what
\* the same user has last saved there; unless it is sent (or, where the form keeps the row,
\* its form is opened) before that save has been answered and shown, or after an answer or
\* a load has been lost, or a load has come in that had not seen the save (the effects of
\* EditJobDialog.tsx and its like, and the invalidations of the mutations).
OwnSavesSurvive ==
  save.stage = "sent" /\ ~save.early =>
    \A f \in save.sent \ save.typed : save.values[f] >= mine[save.row][f]

\* A save goes to the row that the form was filled from, whatever was selected, answered
\* or loaded since (EditJobDialog.tsx, ServiceAdminPage.tsx, WorkersSettingsPage.tsx).
SavesFitTheirRow == save.stage # "none" => save.from = save.row
=============================================================================
