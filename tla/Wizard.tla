------------------------------- MODULE Wizard -------------------------------
(***************************************************************************)
(* The customer's side of a booking: the wizard, whose draft is kept in     *)
(* the browser's local storage, one for each company, and the pages Stripe  *)
(* returns to (useBookingWizard.ts, draft.utils.ts, StepConfirm.tsx,        *)
(* BookingSuccessPage.tsx).                                                 *)
(*                                                                          *)
(* Tabs share the storage and nothing else.  A page writes its draft on     *)
(* every change; the success page does not know which draft was paid and    *)
(* takes the one whose key was stored last.  The server and Stripe are      *)
(* external: a post is answered with a checkout session, or refused.        *)
(***************************************************************************)
EXTENDS Naturals

CONSTANTS
  Tab, Company,
  ServicesOf, SlotsOf,  \* company -> its services, service -> the slots offered for it
  MaxIntents,           \* bound: drafts begun
  WizardLimits          \* bounds: the wizards each tab opens, the services that are picked, and
                        \* what customers do besides booking

None == "none"
Intent == 1..MaxIntents
Service == UNION {ServicesOf[c] : c \in Company}
Slot == UNION {SlotsOf[s] : s \in Service}

Whim == {"back", "day", "typing", "refused", "cancel", "fail", "close", "reload", "restore",
         "wait"}

WizardAssumption ==
  /\ MaxIntents \in Nat /\ Company # {} /\ None \notin Company
  /\ WizardLimits \subseteq [pages : SUBSET (Tab \X Company), services : SUBSET Service,
                             whims : SUBSET Whim]

\* A draft.  Of the client's details only what the schemas tell apart: "typing" is an
\* address that is no e-mail yet.  Steps: service, datetime, client, confirm.
Draft == [intent : Intent, service : Service \cup {None}, slot : Slot \cup {None},
          client : {"empty", "typing", "valid"}, step : 0..3, status : {"active", "completed"}]
Nothing == [none |-> TRUE]
Session == [intent : Intent, company : Company, slot : Slot]

VARIABLES
  store,    \* company -> the draft stored for it, or Nothing
  fresh,    \* companies whose stored draft is less than a day old
  lastKey,  \* bookingDraft:lastActiveKey, as the company it names, or None
  tab,      \* the page of each tab, its draft, the stored draft it found, posts and session
  intents,  \* booking intents made so far
  paid, failed, \* sessions that were paid, and that will not be
  begun,    \* history: the intent of the checkout begun last
  shared,   \* history: companies worked on in two tabs at once
  seen,     \* history: intents whose success page has completed its draft
  wizardLimit \* the bounds of this behaviour

wizardVars == <<store, fresh, lastKey, tab, intents, paid, failed, begun, shared, seen,
                wizardLimit>>
storage == <<store, fresh, lastKey>>

ClosedTab == [page |-> "closed", company |-> CHOOSE c \in Company : TRUE, draft |-> Nothing,
           saved |-> Nothing, pending |-> FALSE, posts |-> {}, session |-> Nothing]
Initial(n) == [intent |-> n, service |-> None, slot |-> None, client |-> "empty", step |-> 0,
               status |-> "active"]

WizardTypeOK ==
  /\ store \in [Company -> Draft \cup {Nothing}] /\ fresh \subseteq Company
  /\ lastKey \in Company \cup {None}
  /\ \A t \in Tab :
       /\ tab[t].page \in {"closed", "choice", "wizard", "stripe", "success", "settled", "cancel"}
       /\ tab[t].company \in Company
       /\ tab[t].page = "choice" => /\ tab[t].saved \in Draft /\ tab[t].saved.status = "active"
                                   /\ tab[t].saved.client # "typing"
       /\ tab[t].page = "wizard" => tab[t].draft \in Draft /\ tab[t].draft.status = "active"
       /\ tab[t].posts \subseteq Draft /\ tab[t].pending \in BOOLEAN
       /\ tab[t].page \in {"stripe", "success", "settled"} => tab[t].session \in Session
  /\ intents \in 0..MaxIntents /\ begun \in 0..intents
  /\ paid \subseteq Session /\ failed \subseteq Session /\ paid \cap failed = {}
  /\ shared \subseteq Company /\ seen \subseteq Intent /\ wizardLimit \in WizardLimits

WizardInit ==
  /\ wizardLimit \in WizardLimits
  /\ store = [c \in Company |-> Nothing] /\ fresh = {} /\ lastKey = None
  /\ tab = [t \in Tab |-> ClosedTab]
  /\ intents = 0 /\ paid = {} /\ failed = {} /\ begun = 0 /\ shared = {} /\ seen = {}

\* History: a tab that works on a company while another has a page of it under way.
Working(c) == {t \in Tab : /\ tab[t].company = c
                           /\ tab[t].page \in {"choice", "wizard", "stripe", "success"}}
Sharing(t, c) == IF Working(c) \subseteq {t} THEN shared ELSE shared \cup {c}

\* clearBookingDraft drops the key as well when it is the company's.
KeyWithout(c) == IF lastKey = c THEN None ELSE lastKey

\* The effect after every change of the draft: it is stored, unless the choice is pending.
Save(c, d) == store' = [store EXCEPT ![c] = d] /\ fresh' = fresh \cup {c}

-----------------------------------------------------------------------------
\* loadBookingDraft: a draft of more than a day is removed, one that
\* does not fit the schema is ignored.
Loaded(c) == IF c \in fresh /\ store[c].client # "typing" THEN store[c] ELSE Nothing

CanResume(d) == d # Nothing /\ d.status = "active"

\* A new draft in the place of what was stored, and the stored one if it is of no use.
Begin(t, c, key) ==
  /\ intents < MaxIntents /\ intents' = intents + 1
  /\ tab' = [tab EXCEPT ![t] = [ClosedTab EXCEPT !.page = "wizard", !.company = c,
                                              !.draft = Initial(intents + 1)]]
  /\ lastKey' = key
  /\ Save(c, Initial(intents + 1))

Open(t, c) ==
  LET found == Loaded(c)
      dropped == found # Nothing \/ (store[c] # Nothing /\ c \notin fresh)
  IN
  /\ <<t, c>> \in wizardLimit.pages /\ tab[t].page \notin {"choice", "wizard"}
  /\ shared' = Sharing(t, c)
  /\ IF CanResume(found)
     THEN /\ tab' = [tab EXCEPT ![t] = [ClosedTab EXCEPT !.page = "choice", !.company = c,
                                                      !.saved = [found EXCEPT !.status = "active"]]]
          /\ UNCHANGED <<storage, intents>>
     ELSE Begin(t, c, IF dropped THEN KeyWithout(c) ELSE lastKey)
  /\ UNCHANGED <<paid, failed, begun, seen>>

\* The draft found is taken up as it was when the page was opened.
Continue(t) ==
  LET c == tab[t].company IN
  /\ tab[t].page = "choice"
  /\ tab' = [tab EXCEPT ![t].page = "wizard", ![t].draft = tab[t].saved]
  /\ Save(c, tab[t].saved)
  /\ shared' = Sharing(t, c)
  /\ UNCHANGED <<lastKey, intents, paid, failed, begun, seen>>

StartFresh(t) ==
  /\ tab[t].page = "choice"
  /\ Begin(t, tab[t].company, KeyWithout(tab[t].company))
  /\ shared' = Sharing(t, tab[t].company)
  /\ UNCHANGED <<paid, failed, begun, seen>>

-----------------------------------------------------------------------------
\* The steps.  Every action of the reducer makes the draft active again.
Change(t, d) ==
  /\ tab[t].page = "wizard"
  /\ tab' = [tab EXCEPT ![t].draft = d]
  /\ Save(tab[t].company, d)
  /\ shared' = Sharing(t, tab[t].company)
  /\ UNCHANGED <<lastKey, intents, paid, failed, begun, seen>>

AtStep(t, step) == tab[t].page = "wizard" /\ tab[t].draft.step = step

\* Mistaken: the slot chosen for another service is kept.
WithServiceOnly(d, s) == [d EXCEPT !.service = s, !.step = 1]

\* SET_SERVICE drops the day and the slot.
WithService(d, s) == [d EXCEPT !.service = s, !.slot = None, !.step = 1]

PickService(t) ==
  AtStep(t, 0) /\ \E s \in ServicesOf[tab[t].company] \cap wizardLimit.services :
                     Change(t, WithService(tab[t].draft, s))
PickDay(t) == "day" \in wizardLimit.whims /\ AtStep(t, 1) /\ Change(t, [tab[t].draft EXCEPT !.slot = None])
PickSlot(t) ==
  AtStep(t, 1) /\ \E s \in SlotsOf[tab[t].draft.service] : Change(t, [tab[t].draft EXCEPT !.slot = s])
TypeClient(t) ==
  AtStep(t, 2) /\ \E v \in {"valid"} \cup ({"typing"} \cap wizardLimit.whims) : Change(t, [tab[t].draft EXCEPT !.client = v])

\* Forward from a slot, or from details that the schema accepts.
Forward(t) ==
  /\ \/ AtStep(t, 1) /\ tab[t].draft.slot # None
     \/ AtStep(t, 2) /\ tab[t].draft.client = "valid"
  /\ Change(t, [tab[t].draft EXCEPT !.step = @ + 1])

\* Back.  The confirmation that is left forgets that it is waiting for an answer.
Back(t) ==
  /\ "back" \in wizardLimit.whims /\ tab[t].page = "wizard" /\ tab[t].draft.step > 0
  /\ LET d == [tab[t].draft EXCEPT !.step = @ - 1] IN
       /\ tab' = [tab EXCEPT ![t].draft = d, ![t].pending = FALSE]
       /\ Save(tab[t].company, d)
  /\ shared' = Sharing(t, tab[t].company)
  /\ UNCHANGED <<lastKey, intents, paid, failed, begun, seen>>

-----------------------------------------------------------------------------
\* onPayAndBook: the draft of the moment is posted.
Post(t) ==
  /\ AtStep(t, 3) /\ tab[t].draft.slot # None /\ ~tab[t].pending
  /\ tab' = [tab EXCEPT ![t].posts = @ \cup {tab[t].draft}, ![t].pending = TRUE]
  /\ UNCHANGED <<storage, intents, paid, failed, begun, shared, seen>>

\* The server answers with a checkout, the key is stored and the tab goes to Stripe.  A
\* booking that is paid is not charged again.
Answer(t, p) ==
  LET c == tab[t].company IN
  /\ tab[t].page = "wizard" /\ p \in tab[t].posts
  /\ \A s \in paid : s.intent # p.intent
  /\ tab' = [tab EXCEPT ![t] = [ClosedTab EXCEPT !.page = "stripe", !.company = c, !.draft = tab[t].draft,
                                  !.session = [intent |-> p.intent, company |-> c, slot |-> p.slot]]]
  /\ lastKey' = c /\ begun' = p.intent
  /\ shared' = Sharing(t, c)
  /\ UNCHANGED <<store, fresh, intents, paid, failed, seen>>

Refused(t, p) ==
  /\ "refused" \in wizardLimit.whims /\ tab[t].page = "wizard" /\ p \in tab[t].posts
  /\ tab' = [tab EXCEPT ![t].posts = @ \ {p}, ![t].pending = FALSE]
  /\ UNCHANGED <<storage, intents, paid, failed, begun, shared, seen>>

\* Stripe sends the customer on when the payment is made or under way, or back.
Leave(t) ==
  /\ tab[t].page = "stripe"
  /\ \E page \in {"success"} \cup ({"cancel"} \cap wizardLimit.whims) : tab' = [tab EXCEPT ![t].page = page]
  /\ UNCHANGED <<storage, intents, paid, failed, begun, shared, seen>>

\* A payment is made, or fails, once a customer has gone through with it.
Settles(s) ==
  /\ s \notin paid \cup failed
  /\ \E t \in Tab : tab[t].page = "success" /\ tab[t].session = s
  /\ \/ paid' = paid \cup {s} /\ UNCHANGED failed
     \/ "fail" \in wizardLimit.whims /\ failed' = failed \cup {s} /\ UNCHANGED paid
  /\ UNCHANGED <<storage, tab, intents, begun, shared, seen>>

\* Mistaken: the draft is left as it is.
CompleteNothing(s) == lastKey' = None /\ UNCHANGED <<store, fresh>>

\* markBookingDraftCompleted, with clearLastActiveBookingDraftKey.
CompleteDraft(s) ==
  /\ IF lastKey = None THEN UNCHANGED <<store, fresh>>
     ELSE IF store[lastKey] = Nothing THEN UNCHANGED <<store, fresh>>
     ELSE Save(lastKey, [store[lastKey] EXCEPT !.status = "completed"])
  /\ lastKey' = None

\* The success page asks until the payment has succeeded or failed.
Terminal(s) == s \in paid \cup failed

Poll(t) ==
  LET s == tab[t].session IN
  /\ tab[t].page = "success" /\ Terminal(s)
  /\ tab' = [tab EXCEPT ![t].page = "settled"]
  /\ IF s \in paid
     THEN /\ CompleteDraft(s)
          /\ seen' = IF begun = s.intent THEN seen \cup {s.intent} ELSE seen
     ELSE UNCHANGED <<storage, seen>>
  /\ UNCHANGED <<intents, paid, failed, begun, shared>>

-----------------------------------------------------------------------------
\* The browser: a page is closed; the success page is loaded again; the wizard comes back
\* from Stripe as it was left (its draft still in memory); a day passes.
CloseTab(t) ==
  /\ "close" \in wizardLimit.whims /\ tab[t].page # "closed"
  /\ tab' = [tab EXCEPT ![t] = ClosedTab]
  /\ UNCHANGED <<storage, intents, paid, failed, begun, shared, seen>>
Reload(t) ==
  /\ "reload" \in wizardLimit.whims /\ tab[t].page = "settled"
  /\ tab' = [tab EXCEPT ![t].page = "success"]
  /\ shared' = Sharing(t, tab[t].company)
  /\ UNCHANGED <<storage, intents, paid, failed, begun, seen>>
Restore(t) ==
  /\ "restore" \in wizardLimit.whims /\ tab[t].page = "stripe" /\ tab[t].draft # Nothing
  /\ tab' = [tab EXCEPT ![t].page = "wizard", ![t].session = Nothing]
  /\ UNCHANGED <<storage, intents, paid, failed, begun, shared, seen>>
DayPasses(c) ==
  /\ "wait" \in wizardLimit.whims /\ c \in fresh /\ fresh' = fresh \ {c}
  /\ UNCHANGED <<store, lastKey, tab, intents, paid, failed, begun, shared, seen>>

WizardStep ==
  \/ \E t \in Tab : \/ \E c \in Company : Open(t, c)
                    \/ Continue(t) \/ StartFresh(t) \/ PickService(t) \/ PickDay(t) \/ PickSlot(t)
                    \/ TypeClient(t) \/ Forward(t) \/ Back(t) \/ Post(t)
                    \/ \E p \in tab[t].posts : Answer(t, p) \/ Refused(t, p)
                    \/ Leave(t) \/ Poll(t) \/ CloseTab(t) \/ Reload(t) \/ Restore(t)
  \/ \E s \in Session : Settles(s)
  \/ \E c \in Company : DayPasses(c)

WizardNext == WizardStep /\ UNCHANGED wizardLimit

WizardSpec == WizardInit /\ [][WizardNext]_wizardVars

-----------------------------------------------------------------------------
\* What is posted is complete: a slot that was offered for the service posted, and details
\* that the server's schema accepts, however often the customer went back (StepConfirm.tsx
\* sends the draft without another look).
PostsAreComplete ==
  \A t \in Tab : \A p \in tab[t].posts :
    /\ p.service \in ServicesOf[tab[t].company] /\ p.slot \in SlotsOf[p.service]
    /\ p.client = "valid"

\* What has been paid is not offered again, unless its company was worked on in two tabs.
PaidIsNotOffered ==
  \A t \in Tab : tab[t].page = "choice" /\ tab[t].saved.intent \in seen
                   => tab[t].company \in shared
=============================================================================
