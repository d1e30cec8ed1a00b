---------------------------- MODULE FormsProofs -----------------------------
(***************************************************************************)
(* Proofs about the forms of the web client: the wizard a customer books   *)
(* with, whose draft is kept in the browser's storage (Wizard), and the    *)
(* dialogs in which an office edits a row (Forms).                         *)
(***************************************************************************)
EXTENDS Wizard, Forms, TLAPS

-----------------------------------------------------------------------------
(***************************************************************************)
(* Wizard: a draft has what the steps behind it ask for, in a tab and in   *)
(* the storage alike; and an intent that has been seen paid is left in no  *)
(* tab and no store from which it could be taken up, since the success     *)
(* page completes the draft of the checkout begun last.                    *)
(***************************************************************************)

\* A draft as the steps of the wizard leave it: what a step asks for is there once the step
\* has been left, and a slot is one of the service chosen.
Fits(d, c) ==
  /\ d \in Draft
  /\ d.step >= 1 => d.service \in ServicesOf[c]
  /\ d.slot # None => d.service \in ServicesOf[c] /\ d.slot \in SlotsOf[d.service]
  /\ d.step >= 2 => d.slot # None
  /\ d.step = 3 => d.client = "valid"

Offerable(p, c) ==
  /\ p \in Draft /\ p.service \in ServicesOf[c] /\ p.slot \in SlotsOf[p.service]
  /\ p.client = "valid"

Page == {"closed", "choice", "wizard", "stripe", "success", "settled", "cancel"}
TabRecord == [page : Page, company : Company, draft : Draft \cup {Nothing},
              saved : Draft \cup {Nothing}, pending : BOOLEAN, posts : SUBSET Draft,
              session : Session \cup {Nothing}]

IsTab(r) ==
  /\ r \in TabRecord
  /\ r.draft # Nothing => Fits(r.draft, r.company) /\ r.draft.status = "active"
  /\ \A p \in r.posts : Offerable(p, r.company)
  /\ r.page = "choice" => /\ r.saved # Nothing /\ Fits(r.saved, r.company)
                          /\ r.saved.status = "active" /\ r.saved.client # "typing"
  /\ r.page = "wizard" => r.draft # Nothing
  /\ r.page \in {"stripe", "success", "settled"} =>
       r.session # Nothing /\ r.session.company = r.company

Typed ==
  /\ tab \in [Tab -> TabRecord] /\ store \in [Company -> Draft \cup {Nothing}]
  /\ fresh \subseteq Company /\ lastKey \in Company \cup {None}
  /\ intents \in 0..MaxIntents /\ begun \in 0..intents
  /\ paid \subseteq Session /\ failed \subseteq Session /\ paid \cap failed = {}
  /\ shared \subseteq Company /\ seen \subseteq 1..intents /\ wizardLimit \in WizardLimits

TabsAreSound == \A t \in Tab : IsTab(tab[t])
StoredFit == \A c \in Company : store[c] # Nothing => Fits(store[c], c)

\* What a company's store, and a tab on a page of it, know of.
Has(r, i) ==
  \/ r.page = "choice" /\ r.saved.intent = i
  \/ r.draft # Nothing /\ r.draft.intent = i
  \/ \E p \in r.posts : p.intent = i
  \/ r.page \in {"stripe", "success", "settled"} /\ r.session.intent = i
Held(c, i) ==
  \/ store[c] # Nothing /\ store[c].intent = i
  \/ \E t \in Tab : tab[t].company = c /\ Has(tab[t], i)

\* An intent is of one company.
OneOwner ==
  \A c \in Company, i \in Intent : Held(c, i) =>
    i <= intents /\ \A d \in Company : Held(d, i) => c = d

\* A company that is not shared is worked on in one tab.
OneWorks == \A c \in Company \ shared : \A t, u \in Working(c) : t = u

\* Nothing that has been seen paid is left to be taken up.
OfferedUnseen ==
  /\ \A t \in Tab : tab[t].page = "choice" /\ tab[t].saved.intent \in seen
                      => tab[t].company \in shared
  /\ \A t \in Tab : (/\ tab[t].page \in {"wizard", "stripe"} /\ tab[t].draft # Nothing
                     /\ tab[t].draft.intent \in seen)
                      => tab[t].company \in shared
  /\ \A c \in Company : store[c] # Nothing /\ store[c].status = "active" /\ store[c].intent \in seen
                          => c \in shared

\* The checkout begun last, if its payment can still be seen, has the key, or there is
\* nothing of it to be completed.
Unseen(t) ==
  /\ tab[t].page \in {"stripe", "success"} /\ tab[t].session.intent = begun
  /\ begun \notin seen /\ tab[t].session \notin failed /\ tab[t].company \notin shared
BegunHasKey ==
  \A t \in Tab : Unseen(t) =>
    LET c == tab[t].company IN
    \/ lastKey = c \/ store[c] = Nothing \/ store[c].intent # begun
    \/ store[c].status = "completed"

\* A page that has settled has seen the end of its session.
SettledIsSeen ==
  \A t \in Tab : tab[t].page = "settled" =>
    /\ Terminal(tab[t].session)
    /\ tab[t].session \in paid /\ tab[t].session.intent = begun => begun \in seen

WizardInv ==
  /\ Typed /\ TabsAreSound /\ StoredFit /\ OneOwner /\ OneWorks /\ OfferedUnseen
  /\ BegunHasKey /\ SettledIsSeen

-----------------------------------------------------------------------------
LEMMA NothingIsNothing == Nothing \notin Draft /\ Nothing \notin Session
<1>1. Nothing \notin Draft
  <2> SUFFICES ASSUME Nothing \in Draft PROVE FALSE
    OBVIOUS
  <2>1. DOMAIN Nothing = {"none"}
    BY DEF Nothing
  <2>2. DOMAIN Nothing = {"intent", "service", "slot", "client", "step", "status"}
    BY DEF Draft
  <2> QED BY <2>1, <2>2
<1>2. Nothing \notin Session
  <2> SUFFICES ASSUME Nothing \in Session PROVE FALSE
    OBVIOUS
  <2>1. DOMAIN Nothing = {"none"}
    BY DEF Nothing
  <2>2. DOMAIN Nothing = {"intent", "company", "slot"}
    BY DEF Session
  <2> QED BY <2>1, <2>2
<1> QED BY <1>1, <1>2

Work == {"choice", "wizard", "stripe", "success"}

\* A tab goes on: its record becomes r, and with it what is stored and who shares a company.
Shares(t, r) ==
  \/ shared' = Sharing(t, r.company)
  \/ shared' = shared /\ (r.page \in Work => tab[t].page \in Work /\ tab[t].company = r.company)

Stores(r) ==
  \/ UNCHANGED <<store, fresh>>
  \/ r.page = "wizard" /\ Save(r.company, r.draft)

Knows(r) ==
  \/ intents' = intents /\ \A i \in Intent : Has(r, i) => Held(r.company, i)
  \/ /\ intents < MaxIntents /\ intents' = intents + 1
     /\ \A i \in Intent : Has(r, i) => i = intents + 1

HasOffered(r) ==
  /\ r.page = "choice" /\ r.saved.intent \in seen => r.company \in shared'
  /\ r.page \in {"wizard", "stripe"} /\ r.draft # Nothing /\ r.draft.intent \in seen
       => r.company \in shared'

Moves(t, r) ==
  /\ tab' = [tab EXCEPT ![t] = r] /\ IsTab(r)
  /\ Shares(t, r) /\ Stores(r) /\ Knows(r) /\ HasOffered(r)
  /\ lastKey' \in Company \cup {None} /\ begun' \in 0..intents'
  /\ UNCHANGED <<paid, failed, seen, wizardLimit>>

LEMMA MovesTyped ==
  ASSUME WizardAssumption, WizardInv, NEW t \in Tab, NEW r, Moves(t, r)
  PROVE  Typed' /\ TabsAreSound' /\ StoredFit' /\ shared \subseteq shared'
<1>1. r \in TabRecord /\ r.company \in Company
  BY DEF Moves, IsTab, TabRecord
<1>2. tab' \in [Tab -> TabRecord]
  BY <1>1 DEF Moves, WizardInv, Typed
<1>3. store' \in [Company -> Draft \cup {Nothing}] /\ fresh' \subseteq Company
  <2>1. CASE UNCHANGED <<store, fresh>>
    BY <2>1 DEF WizardInv, Typed
  <2>2. CASE r.page = "wizard" /\ Save(r.company, r.draft)
    <3>1. r.draft \in Draft
      BY <2>2, <1>1 DEF Moves, IsTab, Fits
    <3> QED BY <2>2, <3>1, <1>1 DEF WizardInv, Typed, Save
  <2> QED BY <2>1, <2>2 DEF Moves, Stores
<1>4. shared' \subseteq Company /\ shared \subseteq shared'
  BY <1>1 DEF Moves, Shares, Sharing, WizardInv, Typed
<1>5. intents' \in 0..MaxIntents /\ intents <= intents'
  BY DEF Moves, Knows, WizardInv, Typed, WizardAssumption
<1>6. seen' \subseteq 1..intents'
  BY <1>5 DEF Moves, WizardInv, Typed
<1>7. Typed'
  BY <1>2, <1>3, <1>4, <1>5, <1>6 DEF Moves, WizardInv, Typed
<1>8. TabsAreSound'
  BY DEF Moves, WizardInv, TabsAreSound, Typed, IsTab, Fits, Offerable
<1>9. StoredFit'
  <2>1. CASE UNCHANGED <<store, fresh>>
    BY <2>1 DEF WizardInv, StoredFit, Fits
  <2>2. CASE r.page = "wizard" /\ Save(r.company, r.draft)
    <3>1. Fits(r.draft, r.company)
      BY <2>2, <1>1 DEF Moves, IsTab
    <3> QED BY <2>2, <3>1, <1>1 DEF WizardInv, Typed, Save, StoredFit, Fits
  <2> QED BY <2>1, <2>2 DEF Moves, Stores
<1> QED BY <1>4, <1>7, <1>8, <1>9

LEMMA MovesOwner ==
  ASSUME WizardAssumption, WizardInv, NEW t \in Tab, NEW r, Moves(t, r)
  PROVE  OneOwner'
<1>1. r \in TabRecord /\ r.company \in Company
  BY DEF Moves, IsTab, TabRecord
<1>2. \A u \in Tab : tab'[u] = IF u = t THEN r ELSE tab[u]
  BY DEF Moves, WizardInv, Typed
<1>3. \A c \in Company, i \in Intent : Held(c, i)' => Held(c, i) \/ (c = r.company /\ Has(r, i))
  <2> SUFFICES ASSUME NEW c \in Company, NEW i \in Intent, Held(c, i)'
               PROVE  Held(c, i) \/ (c = r.company /\ Has(r, i))
    OBVIOUS
  <2>1. CASE store'[c] # Nothing /\ store'[c].intent = i
    <3>1. store'[c] = store[c] \/ (c = r.company /\ r.page = "wizard" /\ store'[c] = r.draft)
      BY <1>1 DEF Moves, Stores, Save, WizardInv, Typed
    <3> QED BY <2>1, <3>1 DEF Held, Has
  <2>2. ASSUME NEW u \in Tab, tab'[u].company = c, Has(tab'[u], i)
        PROVE  Held(c, i) \/ (c = r.company /\ Has(r, i))
    BY <2>2, <1>2 DEF Held
  <2>3. (store'[c] # Nothing /\ store'[c].intent = i)
          \/ \E u \in Tab : tab'[u].company = c /\ Has(tab'[u], i)
    BY DEF Held, Has
  <2> QED BY <2>1, <2>2, <2>3
<1> SUFFICES ASSUME NEW c \in Company, NEW i \in Intent, Held(c, i)'
             PROVE  i <= intents' /\ \A d \in Company : Held(d, i)' => c = d
  BY DEF OneOwner
<1>4. intents \in Nat
  BY DEF WizardInv, Typed
<1>5. \A d \in Company : Held(d, i) => i <= intents
  BY DEF WizardInv, OneOwner
<1>6. CASE intents' = intents /\ \A k \in Intent : Has(r, k) => Held(r.company, k)
  <2>1. \A d \in Company : Held(d, i)' => Held(d, i)
    BY <1>3, <1>6
  <2> QED BY <2>1, <1>6 DEF WizardInv, OneOwner
<1>7. CASE /\ intents < MaxIntents /\ intents' = intents + 1
           /\ \A k \in Intent : Has(r, k) => k = intents + 1
  <2>1. CASE i = intents + 1
    <3>1. \A d \in Company : ~Held(d, i)
      BY <1>4, <1>5, <2>1
    <3> QED BY <3>1, <1>3, <1>7, <2>1, <1>4
  <2>2. CASE i # intents + 1
    <3>1. \A d \in Company : Held(d, i)' => Held(d, i)
      BY <1>3, <1>7, <2>2
    <3>2. i <= intents /\ \A d \in Company : Held(d, i) => c = d
      BY <3>1 DEF WizardInv, OneOwner
    <3> QED BY <3>1, <3>2, <1>7, <1>4 DEF Intent
  <2> QED BY <2>1, <2>2
<1> QED BY <1>6, <1>7 DEF Moves, Knows

LEMMA MovesWorks ==
  ASSUME WizardAssumption, WizardInv, NEW t \in Tab, NEW r, Moves(t, r)
  PROVE  OneWorks'
<1>1. r \in TabRecord /\ r.company \in Company
  BY DEF Moves, IsTab, TabRecord
<1>2. \A u \in Tab : tab'[u] = IF u = t THEN r ELSE tab[u]
  BY DEF Moves, WizardInv, Typed
<1> SUFFICES ASSUME NEW c \in Company, c \notin shared', NEW u \in Tab, NEW v \in Tab,
                    tab'[u].company = c, tab'[u].page \in Work,
                    tab'[v].company = c, tab'[v].page \in Work
             PROVE  u = v
  BY DEF OneWorks, Working, Work
<1>3. \A w \in Tab : w # t /\ tab'[w].company = c /\ tab'[w].page \in Work => w \in Working(c)
  BY <1>2 DEF Working, Work
<1>4. c \notin shared
  BY MovesTyped
<1>5. CASE r.company = c /\ r.page \in Work
  <2>1. CASE shared' = Sharing(t, r.company)
    BY <2>1, <1>3, <1>5 DEF Sharing
  <2>2. CASE shared' = shared /\ tab[t].page \in Work /\ tab[t].company = c
    <3>1. t \in Working(c)
      BY <2>2 DEF Working, Work
    <3> QED BY <3>1, <1>3, <1>4 DEF WizardInv, OneWorks
  <2> QED BY <1>5, <2>1, <2>2 DEF Moves, Shares
<1>6. CASE ~(r.company = c /\ r.page \in Work)
  BY <1>2, <1>3, <1>4, <1>6 DEF WizardInv, OneWorks
<1> QED BY <1>5, <1>6

LEMMA MovesOffered ==
  ASSUME WizardAssumption, WizardInv, NEW t \in Tab, NEW r, Moves(t, r)
  PROVE  OfferedUnseen'
<1>1. r \in TabRecord /\ r.company \in Company
  BY DEF Moves, IsTab, TabRecord
<1>2. \A u \in Tab : tab'[u] = IF u = t THEN r ELSE tab[u]
  BY DEF Moves, WizardInv, Typed
<1>3. shared \subseteq shared' /\ seen' = seen
  BY MovesTyped DEF Moves
<1>4. \A c \in Company : store'[c] = store[c] \/ (c = r.company /\ r.page = "wizard" /\ store'[c] = r.draft)
  BY <1>1 DEF Moves, Stores, Save, WizardInv, Typed
<1> QED BY <1>2, <1>3, <1>4 DEF WizardInv, OfferedUnseen, Moves, HasOffered

\* A tab goes on without a new checkout: no page shows a session it did not show before, and
\* the key is changed only for a company whose draft is begun anew.
Goes(t, r) ==
  /\ Moves(t, r) /\ begun' = begun /\ r.page # "settled"
  /\ lastKey' = lastKey \/ (lastKey' = KeyWithout(r.company) /\ r.page = "wizard")
  /\ r.page \in {"stripe", "success"} =>
       /\ tab[t].company = r.company /\ tab[t].session = r.session
       /\ tab[t].page \in {"stripe", "success"} \/ (Terminal(r.session) /\ tab[t].page = "settled")

LEMMA GoesKeepsKey ==
  ASSUME WizardAssumption, WizardInv, NEW t \in Tab, NEW r, Goes(t, r)
  PROVE  BegunHasKey' /\ SettledIsSeen'
<1>1. r \in TabRecord /\ r.company \in Company /\ Moves(t, r)
  BY DEF Goes, Moves, IsTab, TabRecord
<1>2. \A u \in Tab : tab'[u] = IF u = t THEN r ELSE tab[u]
  BY <1>1 DEF Moves, WizardInv, Typed
<1>3. shared \subseteq shared' /\ UNCHANGED <<seen, begun, paid, failed>>
  BY MovesTyped, <1>1 DEF Goes, Moves
<1>4. SettledIsSeen'
  BY <1>2, <1>3 DEF Goes, SettledIsSeen, WizardInv, Terminal
<1>5. ASSUME NEW u \in Tab, Unseen(u)'
      PROVE  \/ lastKey' = tab'[u].company \/ store'[tab'[u].company] = Nothing
             \/ store'[tab'[u].company].intent # begun
             \/ store'[tab'[u].company].status = "completed"
  <2> DEFINE c == tab'[u].company
  <2>1. c \in Company /\ c \notin shared /\ c \notin shared' /\ tab'[u].page \in {"stripe", "success"}
    BY <1>5, <1>2, <1>3, <1>1 DEF Unseen, WizardInv, Typed, TabRecord
  <2>2. tab[u].page \in {"stripe", "success"} /\ tab[u].company = c /\ tab[u].session = tab'[u].session
    <3>1. CASE u = t
      <4>1. r.page \in {"stripe", "success"} /\ r.session = tab'[u].session
        BY <2>1, <3>1, <1>2
      <4>2. ASSUME Terminal(r.session), tab[t].page = "settled", tab[t].session = r.session PROVE FALSE
        BY <4>2, <4>1, <1>5, <1>3 DEF WizardInv, SettledIsSeen, Terminal, Unseen
      <4> QED BY <4>1, <4>2, <1>2, <3>1 DEF Goes
    <3>2. CASE u # t
      BY <2>1, <3>2, <1>2
    <3> QED BY <3>1, <3>2
  <2>3. Unseen(u)
    BY <2>1, <2>2, <1>3, <1>5 DEF Unseen
  <2>4. \/ lastKey = c \/ store[c] = Nothing \/ store[c].intent # begun
        \/ store[c].status = "completed"
    BY <2>2, <2>3 DEF WizardInv, BegunHasKey
  <2>5. ~(r.page = "wizard" /\ r.company = c)
    <3> SUFFICES ASSUME r.page = "wizard", r.company = c PROVE FALSE
      OBVIOUS
    <3>1. u # t /\ tab'[t].page \in Work /\ tab'[t].company = c /\ tab'[u].page \in Work
      BY <2>1, <1>2 DEF Work
    <3>2. OneWorks'
      BY MovesWorks, <1>1
    <3> QED BY <3>1, <3>2, <2>1 DEF OneWorks, Working, Work
  <2>6. store'[c] = store[c]
    BY <1>1, <2>1, <2>5 DEF Moves, Stores, Save, WizardInv, Typed
  <2>7. lastKey = c => lastKey' = c
    BY <2>5 DEF Goes, KeyWithout
  <2> QED BY <2>4, <2>6, <2>7
<1>6. BegunHasKey'
  BY <1>5, <1>3 DEF BegunHasKey, Unseen
<1> QED BY <1>4, <1>6

LEMMA MovesKeeps ==
  ASSUME WizardAssumption, WizardInv, NEW t \in Tab, NEW r, Moves(t, r),
         BegunHasKey' /\ SettledIsSeen'
  PROVE  WizardInv'
BY MovesTyped, MovesOwner, MovesWorks, MovesOffered DEF WizardInv

LEMMA GoesKeeps ==
  ASSUME WizardAssumption, WizardInv, NEW t \in Tab, NEW r, Goes(t, r)
  PROVE  WizardInv'
BY GoesKeepsKey, MovesKeeps DEF Goes

-----------------------------------------------------------------------------
LEMMA TabSound ==
  ASSUME WizardInv, NEW t \in Tab
  PROVE  IsTab(tab[t]) /\ tab[t] \in TabRecord /\ tab[t].company \in Company
BY DEF WizardInv, TabsAreSound, IsTab, TabRecord

LEMMA TabHeld ==
  ASSUME NEW t \in Tab, NEW i
  PROVE  Has(tab[t], i) => Held(tab[t].company, i)
BY DEF Held

LEMMA ClosedIsTab ==
  ASSUME WizardAssumption
  PROVE  ClosedTab \in TabRecord /\ IsTab(ClosedTab)
<1>1. ClosedTab \in TabRecord
  BY DEF WizardAssumption, ClosedTab, TabRecord, Page
<1> QED BY <1>1 DEF IsTab, ClosedTab

LEMMA BeginKeeps ==
  ASSUME WizardAssumption, WizardInv, NEW t \in Tab, NEW c \in Company,
         NEW key \in {lastKey, KeyWithout(c)}, Begin(t, c, key), shared' = Sharing(t, c),
         UNCHANGED <<paid, failed, begun, seen, wizardLimit>>
  PROVE  WizardInv'
<1> DEFINE d == Initial(intents + 1)
           r == [ClosedTab EXCEPT !.page = "wizard", !.company = c, !.draft = d]
<1>1. intents \in Nat /\ intents + 1 \in Intent /\ begun \in 0..intents
  BY DEF Begin, WizardInv, Typed, WizardAssumption, Intent
<1>2. d \in Draft /\ d.intent = intents + 1 /\ d.status = "active" /\ Fits(d, c) /\ d # Nothing
  <2>1. d \in Draft /\ d.intent = intents + 1 /\ d.status = "active" /\ d.step = 0 /\ d.slot = None
    BY <1>1 DEF Initial, Draft
  <2> QED BY <2>1, NothingIsNothing DEF Fits
<1> HIDE DEF d
<1>3. /\ r \in TabRecord /\ r.page = "wizard" /\ r.company = c /\ r.draft = d
      /\ r.posts = {} /\ r.saved = Nothing /\ r.session = Nothing
  BY <1>2, ClosedIsTab DEF TabRecord, Page, ClosedTab
<1>4. tab' = [tab EXCEPT ![t] = r] /\ lastKey' = key /\ Save(c, d)
  BY DEF Begin, d
<1> HIDE DEF r
<1>5. IsTab(r)
  BY <1>2, <1>3 DEF IsTab
<1>6. Shares(t, r) /\ Stores(r)
  BY <1>3, <1>4 DEF Shares, Stores
<1>7. Knows(r)
  BY <1>2, <1>3 DEF Knows, Has, Begin
<1>8. HasOffered(r)
  BY <1>1, <1>2, <1>3 DEF HasOffered, WizardInv, Typed
<1>9. lastKey' \in Company \cup {None} /\ begun' \in 0..intents'
  BY <1>1, <1>4 DEF KeyWithout, WizardInv, Typed, Begin
<1>10. Goes(t, r)
  BY <1>3, <1>4, <1>5, <1>6, <1>7, <1>8, <1>9 DEF Goes, Moves
<1> QED BY <1>10, GoesKeeps

LEMMA OpenKeeps ==
  ASSUME WizardAssumption, WizardInv, UNCHANGED wizardLimit,
         NEW t \in Tab, NEW c \in Company, Open(t, c)
  PROVE  WizardInv'
<1> DEFINE found == Loaded(c)
           r == [ClosedTab EXCEPT !.page = "choice", !.company = c,
                                  !.saved = [found EXCEPT !.status = "active"]]
<1>1. CASE CanResume(found)
  <2>1. found = store[c] /\ found # Nothing /\ found.status = "active" /\ found.client # "typing"
    BY <1>1 DEF CanResume, Loaded
  <2>2. found \in Draft /\ Fits(found, c)
    BY <2>1 DEF WizardInv, Typed, StoredFit
  <2>3. [found EXCEPT !.status = "active"] = found
    BY <2>1, <2>2 DEF Draft
  <2>4. tab' = [tab EXCEPT ![t] = r] /\ UNCHANGED <<storage, intents>> /\ shared' = Sharing(t, c)
        /\ UNCHANGED <<paid, failed, begun, seen, wizardLimit>>
    BY <1>1 DEF Open
  <2>5. /\ r \in TabRecord /\ r.page = "choice" /\ r.company = c /\ r.saved = found
        /\ r.posts = {} /\ r.draft = Nothing /\ r.session = Nothing
    BY <2>2, <2>3, ClosedIsTab DEF TabRecord, Page, ClosedTab
  <2> HIDE DEF r, found
  <2>6. IsTab(r)
    BY <2>1, <2>2, <2>5 DEF IsTab
  <2>7. Shares(t, r) /\ Stores(r)
    BY <2>4, <2>5 DEF Shares, Stores, storage
  <2>8. Knows(r)
    BY <2>1, <2>4, <2>5 DEF Knows, Has, Held
  <2>9. HasOffered(r)
    BY <2>1, <2>4, <2>5 DEF HasOffered, WizardInv, OfferedUnseen, Sharing
  <2>10. lastKey' \in Company \cup {None} /\ begun' \in 0..intents'
    BY <2>4 DEF storage, WizardInv, Typed
  <2>11. Goes(t, r)
    BY <2>4, <2>5, <2>6, <2>7, <2>8, <2>9, <2>10 DEF Goes, Moves, storage
  <2> QED BY <2>11, GoesKeeps
<1>2. CASE ~CanResume(found)
  <2> DEFINE dropped == found # Nothing \/ (store[c] # Nothing /\ c \notin fresh)
             key == IF dropped THEN KeyWithout(c) ELSE lastKey
  <2>1. Begin(t, c, key) /\ key \in {lastKey, KeyWithout(c)}
    BY <1>2 DEF Open
  <2> QED BY <2>1, BeginKeeps DEF Open
<1> QED BY <1>1, <1>2

LEMMA StartFreshKeeps ==
  ASSUME WizardAssumption, WizardInv, UNCHANGED wizardLimit,
         NEW t \in Tab, StartFresh(t)
  PROVE  WizardInv'
BY BeginKeeps, TabSound DEF StartFresh

LEMMA ContinueKeeps ==
  ASSUME WizardAssumption, WizardInv, UNCHANGED wizardLimit,
         NEW t \in Tab, Continue(t)
  PROVE  WizardInv'
<1> DEFINE r == [tab[t] EXCEPT !.page = "wizard", !.draft = tab[t].saved]
<1>1. IsTab(tab[t]) /\ tab[t] \in TabRecord /\ tab[t].company \in Company /\ tab[t].page = "choice"
  BY TabSound DEF Continue
<1>2. tab' = [tab EXCEPT ![t] = r] /\ Save(tab[t].company, tab[t].saved)
      /\ shared' = Sharing(t, tab[t].company)
      /\ UNCHANGED <<lastKey, intents, paid, failed, begun, seen, wizardLimit>>
  BY DEF Continue
<1>3. /\ r \in TabRecord /\ r.page = "wizard" /\ r.company = tab[t].company
      /\ r.draft = tab[t].saved /\ r.posts = tab[t].posts
  BY <1>1 DEF TabRecord, Page
<1> HIDE DEF r
<1>4. IsTab(r)
  BY <1>1, <1>3 DEF IsTab
<1>5. Shares(t, r) /\ Stores(r)
  BY <1>2, <1>3 DEF Shares, Stores
<1>6. Knows(r)
  BY <1>1, <1>2, <1>3, TabHeld DEF Knows, Has
<1>7. HasOffered(r)
  BY <1>1, <1>2, <1>3 DEF HasOffered, WizardInv, OfferedUnseen, Sharing
<1>8. lastKey' \in Company \cup {None} /\ begun' \in 0..intents'
  BY <1>2 DEF WizardInv, Typed
<1>9. Goes(t, r)
  BY <1>2, <1>3, <1>4, <1>5, <1>6, <1>7, <1>8 DEF Goes, Moves
<1> QED BY <1>9, GoesKeeps

-----------------------------------------------------------------------------
\* The draft of a page of the wizard is edited.
LEMMA EditKeeps ==
  ASSUME WizardAssumption, WizardInv, NEW t \in Tab, NEW d, NEW waits \in BOOLEAN,
         tab[t].page = "wizard",
         Fits(d, tab[t].company), d.status = "active", d.intent = tab[t].draft.intent,
         tab' = [tab EXCEPT ![t] = [tab[t] EXCEPT !.draft = d, !.pending = waits]],
         Save(tab[t].company, d), shared' = Sharing(t, tab[t].company),
         UNCHANGED <<lastKey, intents, paid, failed, begun, seen, wizardLimit>>
  PROVE  WizardInv'
<1> DEFINE r == [tab[t] EXCEPT !.draft = d, !.pending = waits]
<1>1. IsTab(tab[t]) /\ tab[t] \in TabRecord /\ tab[t].company \in Company
  BY TabSound
<1>2. tab[t].draft # Nothing /\ d \in Draft /\ d # Nothing
  BY <1>1, NothingIsNothing DEF IsTab, Fits
<1>3. /\ r \in TabRecord /\ r.page = "wizard" /\ r.company = tab[t].company
      /\ r.draft = d /\ r.posts = tab[t].posts
  BY <1>1, <1>2 DEF TabRecord
<1>4. tab' = [tab EXCEPT ![t] = r]
  OBVIOUS
<1> HIDE DEF r
<1>5. IsTab(r)
  BY <1>1, <1>2, <1>3 DEF IsTab
<1>6. Shares(t, r) /\ Stores(r)
  BY <1>3 DEF Shares, Stores
<1>7. Knows(r)
  BY <1>1, <1>2, <1>3, TabHeld DEF Knows, Has
<1>8. HasOffered(r)
  BY <1>1, <1>2, <1>3 DEF HasOffered, WizardInv, OfferedUnseen, Sharing
<1>9. lastKey' \in Company \cup {None} /\ begun' \in 0..intents'
  BY DEF WizardInv, Typed
<1>10. Goes(t, r)
  BY <1>3, <1>4, <1>5, <1>6, <1>7, <1>8, <1>9 DEF Goes, Moves
<1> QED BY <1>10, GoesKeeps

LEMMA ChangeKeeps ==
  ASSUME WizardAssumption, WizardInv, UNCHANGED wizardLimit, NEW t \in Tab, NEW d, Change(t, d),
         Fits(d, tab[t].company), d.status = "active", d.intent = tab[t].draft.intent
  PROVE  WizardInv'
<1>1. tab[t] \in TabRecord /\ tab[t].pending \in BOOLEAN
  BY TabSound DEF TabRecord
<1>2. [tab[t] EXCEPT !.draft = d, !.pending = tab[t].pending] = [tab[t] EXCEPT !.draft = d]
  BY <1>1 DEF TabRecord
<1>3. tab' = [tab EXCEPT ![t] = [tab[t] EXCEPT !.draft = d, !.pending = tab[t].pending]]
  BY <1>1, <1>2 DEF Change
<1> QED BY <1>1, <1>3, EditKeeps DEF Change

LEMMA DraftSound ==
  ASSUME WizardInv, NEW t \in Tab, tab[t].page = "wizard"
  PROVE  /\ tab[t].draft \in Draft /\ Fits(tab[t].draft, tab[t].company)
         /\ tab[t].draft.status = "active" /\ tab[t].company \in Company
BY TabSound DEF IsTab, Fits

LEMMA WithServiceDraft ==
  ASSUME NEW d \in Draft, NEW s \in Service
  PROVE  /\ WithService(d, s) \in Draft /\ WithService(d, s).service = s
         /\ WithService(d, s).slot = None /\ WithService(d, s).step = 1
         /\ WithService(d, s).status = d.status /\ WithService(d, s).intent = d.intent
<1> DEFINE e == [d EXCEPT !.service = s, !.slot = None, !.step = 1]
<1>1. /\ e.service = s /\ e.slot = None /\ e.step = 1 /\ e.status = d.status
      /\ e.intent = d.intent /\ e.client = d.client
  BY DEF Draft
<1>2. e \in Draft
  <2>1. [d EXCEPT !.service = s] \in Draft
    BY DEF Draft
  <2>2. [[d EXCEPT !.service = s] EXCEPT !.slot = None] \in Draft
    BY <2>1 DEF Draft
  <2>3. \A f \in Draft : [f EXCEPT !.step = 1] \in Draft
    BY DEF Draft
  <2>4. e = [[[d EXCEPT !.service = s] EXCEPT !.slot = None] EXCEPT !.step = 1]
    OBVIOUS
  <2> HIDE DEF e
  <2> QED BY <2>2, <2>3, <2>4
<1> HIDE DEF e
<1>3. WithService(d, s) = e
  BY DEF WithService, e
<1> QED BY <1>1, <1>2, <1>3

LEMMA PickServiceKeeps ==
  ASSUME WizardAssumption, WizardInv, UNCHANGED wizardLimit, NEW t \in Tab, PickService(t)
  PROVE  WizardInv'
<1>1. PICK s \in ServicesOf[tab[t].company] \cap wizardLimit.services :
         Change(t, WithService(tab[t].draft, s))
  BY DEF PickService
<1> DEFINE d == WithService(tab[t].draft, s)
<1>a. tab[t].page = "wizard" /\ tab[t].draft \in Draft /\ tab[t].draft.status = "active"
  BY DraftSound DEF PickService, AtStep
<1>b. s \in Service
  BY <1>a, DraftSound DEF Service
<1>2. /\ d \in Draft /\ d.service = s /\ d.slot = None /\ d.step = 1
      /\ d.status = "active" /\ d.intent = tab[t].draft.intent
  BY <1>a, <1>b, WithServiceDraft
<1>3. Fits(d, tab[t].company)
  BY <1>2 DEF Fits
<1> QED BY <1>a, <1>1, <1>2, <1>3, ChangeKeeps

LEMMA PickDayKeeps ==
  ASSUME WizardAssumption, WizardInv, UNCHANGED wizardLimit, NEW t \in Tab, PickDay(t)
  PROVE  WizardInv'
<1> DEFINE d == [tab[t].draft EXCEPT !.slot = None]
<1>1. tab[t].page = "wizard" /\ tab[t].draft.step = 1 /\ Change(t, d)
  BY DEF PickDay, AtStep
<1>2. /\ d \in Draft /\ d.service = tab[t].draft.service /\ d.slot = None /\ d.step = 1
      /\ d.status = "active" /\ d.intent = tab[t].draft.intent
  BY DraftSound, <1>1 DEF Draft
<1>3. Fits(d, tab[t].company)
  BY <1>1, <1>2, DraftSound DEF Fits
<1> QED BY <1>1, <1>2, <1>3, ChangeKeeps

LEMMA PickSlotKeeps ==
  ASSUME WizardAssumption, WizardInv, UNCHANGED wizardLimit, NEW t \in Tab, PickSlot(t)
  PROVE  WizardInv'
<1>1. PICK s \in SlotsOf[tab[t].draft.service] : Change(t, [tab[t].draft EXCEPT !.slot = s])
  BY DEF PickSlot
<1> DEFINE d == [tab[t].draft EXCEPT !.slot = s]
<1>2. tab[t].page = "wizard" /\ tab[t].draft.step = 1 /\ Change(t, d)
  BY <1>1 DEF PickSlot, AtStep
<1>3. tab[t].draft.service \in ServicesOf[tab[t].company]
  BY <1>2, DraftSound DEF Fits
<1>4. s \in Slot
  BY <1>3, <1>2, DraftSound DEF Slot, Service
<1>5. /\ d \in Draft /\ d.service = tab[t].draft.service /\ d.slot = s /\ d.step = 1
      /\ d.status = "active" /\ d.intent = tab[t].draft.intent
  BY DraftSound, <1>2, <1>4 DEF Draft
<1>6. Fits(d, tab[t].company)
  BY <1>3, <1>5, <1>1 DEF Fits
<1> QED BY <1>2, <1>5, <1>6, ChangeKeeps

LEMMA TypeClientKeeps ==
  ASSUME WizardAssumption, WizardInv, UNCHANGED wizardLimit, NEW t \in Tab, TypeClient(t)
  PROVE  WizardInv'
<1>1. PICK v \in {"valid"} \cup ({"typing"} \cap wizardLimit.whims) :
         Change(t, [tab[t].draft EXCEPT !.client = v])
  BY DEF TypeClient
<1> DEFINE d == [tab[t].draft EXCEPT !.client = v]
<1>2. tab[t].page = "wizard" /\ tab[t].draft.step = 2 /\ Change(t, d)
  BY <1>1 DEF TypeClient, AtStep
<1>3. v \in {"empty", "typing", "valid"}
  BY <1>1
<1>4. /\ d \in Draft /\ d.service = tab[t].draft.service /\ d.slot = tab[t].draft.slot
      /\ d.step = 2 /\ d.status = "active" /\ d.intent = tab[t].draft.intent
  BY DraftSound, <1>2, <1>3 DEF Draft
<1>5. Fits(d, tab[t].company)
  BY <1>2, <1>4, DraftSound DEF Fits
<1> QED BY <1>2, <1>4, <1>5, ChangeKeeps

LEMMA ForwardKeeps ==
  ASSUME WizardAssumption, WizardInv, UNCHANGED wizardLimit, NEW t \in Tab, Forward(t)
  PROVE  WizardInv'
<1> DEFINE d == [tab[t].draft EXCEPT !.step = @ + 1]
<1>1. tab[t].page = "wizard" /\ Change(t, d)
      /\ ((tab[t].draft.step = 1 /\ tab[t].draft.slot # None)
            \/ (tab[t].draft.step = 2 /\ tab[t].draft.client = "valid"))
  BY DEF Forward, AtStep
<1>2. /\ d \in Draft /\ d.service = tab[t].draft.service /\ d.slot = tab[t].draft.slot
      /\ d.step = tab[t].draft.step + 1 /\ d.client = tab[t].draft.client
      /\ d.status = "active" /\ d.intent = tab[t].draft.intent
  BY DraftSound, <1>1 DEF Draft
<1>3. Fits(d, tab[t].company)
  BY <1>1, <1>2, DraftSound DEF Fits
<1> QED BY <1>1, <1>2, <1>3, ChangeKeeps

LEMMA BackKeeps ==
  ASSUME WizardAssumption, WizardInv, UNCHANGED wizardLimit, NEW t \in Tab, Back(t)
  PROVE  WizardInv'
<1> DEFINE d == [tab[t].draft EXCEPT !.step = @ - 1]
<1>1. /\ tab[t].page = "wizard" /\ tab[t].draft.step > 0
      /\ tab' = [tab EXCEPT ![t].draft = d, ![t].pending = FALSE]
      /\ Save(tab[t].company, d) /\ shared' = Sharing(t, tab[t].company)
      /\ UNCHANGED <<lastKey, intents, paid, failed, begun, seen>>
  BY DEF Back
<1>2. /\ d \in Draft /\ d.service = tab[t].draft.service /\ d.slot = tab[t].draft.slot
      /\ d.step = tab[t].draft.step - 1 /\ d.client = tab[t].draft.client
      /\ d.status = "active" /\ d.intent = tab[t].draft.intent
  BY DraftSound, <1>1 DEF Draft
<1>3. Fits(d, tab[t].company)
  <2>1. tab[t].draft.step \in 0..3
    BY <1>1, DraftSound DEF Draft
  <2> QED BY <2>1, <1>1, <1>2, DraftSound DEF Fits
<1> HIDE DEF d
<1>4. tab \in [Tab -> TabRecord]
  BY DEF WizardInv, Typed
<1>5. tab' = [tab EXCEPT ![t] = [tab[t] EXCEPT !.draft = d, !.pending = FALSE]]
  BY <1>1, <1>4
<1> QED BY <1>1, <1>2, <1>3, <1>5, EditKeeps

-----------------------------------------------------------------------------
\* A tab goes on with what it has, and nothing else is changed.
LEMMA StepKeeps ==
  ASSUME WizardAssumption, WizardInv, NEW t \in Tab, NEW r,
         tab' = [tab EXCEPT ![t] = r], IsTab(r), Shares(t, r), Knows(r), HasOffered(r),
         r.page # "settled",
         r.page \in {"stripe", "success"} =>
           /\ tab[t].company = r.company /\ tab[t].session = r.session
           /\ tab[t].page \in {"stripe", "success"} \/ (Terminal(r.session) /\ tab[t].page = "settled"),
         UNCHANGED <<storage, intents, paid, failed, begun, seen, wizardLimit>>
  PROVE  WizardInv'
<1>1. lastKey' \in Company \cup {None} /\ begun' \in 0..intents' /\ Stores(r)
  BY DEF WizardInv, Typed, storage, Stores
<1>2. Goes(t, r)
  BY <1>1 DEF Goes, Moves, storage
<1> QED BY <1>2, GoesKeeps

LEMMA PostKeeps ==
  ASSUME WizardAssumption, WizardInv, UNCHANGED wizardLimit, NEW t \in Tab, Post(t)
  PROVE  WizardInv'
<1> DEFINE d == tab[t].draft
           r == [tab[t] EXCEPT !.posts = @ \cup {d}, !.pending = TRUE]
<1>1. tab \in [Tab -> TabRecord] /\ tab[t] \in TabRecord /\ IsTab(tab[t])
  BY TabSound DEF WizardInv, Typed
<1>2. tab[t].page = "wizard" /\ d.step = 3 /\ d.slot # None
  BY DEF Post, AtStep
<1>3. d \in Draft /\ Offerable(d, tab[t].company) /\ d # Nothing
  BY <1>2, DraftSound, NothingIsNothing DEF Fits, Offerable
<1>4. tab' = [tab EXCEPT ![t] = r]
  BY <1>1 DEF Post
<1> HIDE DEF d
<1>5. /\ r \in TabRecord /\ r.page = "wizard" /\ r.company = tab[t].company
      /\ r.draft = tab[t].draft /\ r.posts = tab[t].posts \cup {d}
  BY <1>1, <1>2, <1>3 DEF TabRecord
<1> HIDE DEF r
<1>6. IsTab(r)
  BY <1>1, <1>2, <1>3, <1>5 DEF IsTab
<1>7. Knows(r)
  BY <1>2, <1>3, <1>5, TabHeld DEF Knows, Has, Post, d
<1>8. HasOffered(r)
  BY <1>2, <1>5 DEF HasOffered, WizardInv, OfferedUnseen, Post
<1>9. Shares(t, r)
  BY <1>2, <1>5 DEF Shares, Work, Post
<1> QED BY <1>4, <1>5, <1>6, <1>7, <1>8, <1>9, StepKeeps DEF Post

LEMMA RefusedKeeps ==
  ASSUME WizardAssumption, WizardInv, UNCHANGED wizardLimit, NEW t \in Tab, NEW p, Refused(t, p)
  PROVE  WizardInv'
<1> DEFINE r == [tab[t] EXCEPT !.posts = @ \ {p}, !.pending = FALSE]
<1>1. tab \in [Tab -> TabRecord] /\ tab[t] \in TabRecord /\ IsTab(tab[t]) /\ tab[t].page = "wizard"
  BY TabSound DEF WizardInv, Typed, Refused
<1>2. tab' = [tab EXCEPT ![t] = r]
  BY <1>1 DEF Refused
<1>3. /\ r \in TabRecord /\ r.page = "wizard" /\ r.company = tab[t].company
      /\ r.draft = tab[t].draft /\ r.posts = tab[t].posts \ {p}
  BY <1>1 DEF TabRecord
<1> HIDE DEF r
<1>4. IsTab(r)
  BY <1>1, <1>3 DEF IsTab
<1>5. Knows(r)
  BY <1>1, <1>3, TabHeld DEF Knows, Has, Refused
<1>6. HasOffered(r)
  BY <1>1, <1>3 DEF HasOffered, WizardInv, OfferedUnseen, Refused
<1>7. Shares(t, r)
  BY <1>1, <1>3 DEF Shares, Work, Refused
<1> QED BY <1>2, <1>3, <1>4, <1>5, <1>6, <1>7, StepKeeps DEF Refused

LEMMA LeaveKeeps ==
  ASSUME WizardAssumption, WizardInv, UNCHANGED wizardLimit, NEW t \in Tab, Leave(t)
  PROVE  WizardInv'
<1>1. PICK page \in {"success"} \cup ({"cancel"} \cap wizardLimit.whims) :
         tab' = [tab EXCEPT ![t].page = page]
  BY DEF Leave
<1> DEFINE r == [tab[t] EXCEPT !.page = page]
<1>2. tab \in [Tab -> TabRecord] /\ tab[t] \in TabRecord /\ IsTab(tab[t]) /\ tab[t].page = "stripe"
  BY TabSound DEF WizardInv, Typed, Leave
<1>3. tab' = [tab EXCEPT ![t] = r]
  BY <1>1, <1>2
<1>4. page \in {"success", "cancel"}
  BY <1>1
<1>5. /\ r \in TabRecord /\ r.page \in {"success", "cancel"} /\ r.company = tab[t].company
      /\ r.draft = tab[t].draft /\ r.posts = tab[t].posts /\ r.session = tab[t].session
  BY <1>2, <1>4 DEF TabRecord, Page
<1> HIDE DEF r
<1>6. IsTab(r)
  BY <1>2, <1>5 DEF IsTab
<1>7. Knows(r)
  BY <1>2, <1>5, TabHeld DEF Knows, Has, Leave
<1>8. HasOffered(r)
  BY <1>5 DEF HasOffered
<1>9. Shares(t, r)
  BY <1>2, <1>5 DEF Shares, Work, Leave
<1>10. UNCHANGED <<storage, intents, paid, failed, begun, seen, wizardLimit>>
  BY DEF Leave
<1>11. /\ r.page # "settled" /\ tab[t].company = r.company /\ tab[t].session = r.session
       /\ tab[t].page \in {"stripe", "success"}
  BY <1>2, <1>5
<1>12. r.page \in {"stripe", "success"} =>
          /\ tab[t].company = r.company /\ tab[t].session = r.session
          /\ tab[t].page \in {"stripe", "success"} \/ (Terminal(r.session) /\ tab[t].page = "settled")
  BY <1>11
<1> QED BY <1>3, <1>6, <1>7, <1>8, <1>9, <1>10, <1>11, <1>12, StepKeeps

LEMMA CloseTabKeeps ==
  ASSUME WizardAssumption, WizardInv, UNCHANGED wizardLimit, NEW t \in Tab, CloseTab(t)
  PROVE  WizardInv'
<1>1. ClosedTab.page = "closed" /\ ClosedTab.draft = Nothing /\ ClosedTab.posts = {}
  BY DEF ClosedTab
<1>2. Knows(ClosedTab) /\ HasOffered(ClosedTab) /\ Shares(t, ClosedTab)
  BY <1>1 DEF Knows, Has, HasOffered, Shares, Work, CloseTab
<1>3. IsTab(ClosedTab)
  BY ClosedIsTab
<1> QED BY <1>1, <1>2, <1>3, StepKeeps DEF CloseTab

LEMMA ReloadKeeps ==
  ASSUME WizardAssumption, WizardInv, UNCHANGED wizardLimit, NEW t \in Tab, Reload(t)
  PROVE  WizardInv'
<1> DEFINE r == [tab[t] EXCEPT !.page = "success"]
<1>1. tab \in [Tab -> TabRecord] /\ tab[t] \in TabRecord /\ IsTab(tab[t]) /\ tab[t].page = "settled"
  BY TabSound DEF WizardInv, Typed, Reload
<1>2. tab' = [tab EXCEPT ![t] = r]
  BY <1>1 DEF Reload
<1>3. /\ r \in TabRecord /\ r.page = "success" /\ r.company = tab[t].company
      /\ r.draft = tab[t].draft /\ r.posts = tab[t].posts /\ r.session = tab[t].session
  BY <1>1 DEF TabRecord, Page
<1> HIDE DEF r
<1>4. IsTab(r)
  BY <1>1, <1>3 DEF IsTab
<1>5. Knows(r)
  BY <1>1, <1>3, TabHeld DEF Knows, Has, Reload
<1>6. HasOffered(r)
  BY <1>3 DEF HasOffered
<1>7. Shares(t, r)
  BY <1>3 DEF Shares, Reload
<1>8. Terminal(r.session)
  BY <1>1, <1>3 DEF WizardInv, SettledIsSeen
<1> QED BY <1>1, <1>2, <1>3, <1>4, <1>5, <1>6, <1>7, <1>8, StepKeeps DEF Reload

LEMMA RestoreKeeps ==
  ASSUME WizardAssumption, WizardInv, UNCHANGED wizardLimit, NEW t \in Tab, Restore(t)
  PROVE  WizardInv'
<1> DEFINE r == [tab[t] EXCEPT !.page = "wizard", !.session = Nothing]
<1>1. tab \in [Tab -> TabRecord] /\ tab[t] \in TabRecord /\ IsTab(tab[t])
      /\ tab[t].page = "stripe" /\ tab[t].draft # Nothing
  BY TabSound DEF WizardInv, Typed, Restore
<1>2. tab' = [tab EXCEPT ![t] = r]
  BY <1>1 DEF Restore
<1>3. /\ r \in TabRecord /\ r.page = "wizard" /\ r.company = tab[t].company
      /\ r.draft = tab[t].draft /\ r.posts = tab[t].posts
  BY <1>1 DEF TabRecord, Page
<1> HIDE DEF r
<1>4. IsTab(r)
  BY <1>1, <1>3 DEF IsTab
<1>5. Knows(r)
  BY <1>1, <1>3, TabHeld DEF Knows, Has, Restore
<1>6. HasOffered(r)
  BY <1>1, <1>3 DEF HasOffered, WizardInv, OfferedUnseen, Restore
<1>7. Shares(t, r)
  BY <1>1, <1>3 DEF Shares, Work, Restore
<1> QED BY <1>1, <1>2, <1>3, <1>4, <1>5, <1>6, <1>7, StepKeeps DEF Restore

-----------------------------------------------------------------------------
LEMMA AnswerKeeps ==
  ASSUME WizardAssumption, WizardInv, UNCHANGED wizardLimit,
         NEW t \in Tab, NEW p \in tab[t].posts, Answer(t, p)
  PROVE  WizardInv'
<1> DEFINE c == tab[t].company
           session == [intent |-> p.intent, company |-> c, slot |-> p.slot]
           r == [ClosedTab EXCEPT !.page = "stripe", !.company = c, !.draft = tab[t].draft,
                                  !.session = session]
<1>1. /\ tab \in [Tab -> TabRecord] /\ tab[t] \in TabRecord /\ IsTab(tab[t])
      /\ tab[t].page = "wizard" /\ c \in Company
  BY TabSound DEF WizardInv, Typed, Answer
<1>2. p \in Draft /\ Offerable(p, c)
  BY <1>1 DEF IsTab, Offerable
<1>3. p.slot \in Slot
  BY <1>1, <1>2 DEF Offerable, Slot, Service
<1>4. session \in Session /\ session.intent = p.intent /\ session.company = c /\ session # Nothing
  <2>1. session \in Session /\ session.intent = p.intent /\ session.company = c
    BY <1>1, <1>2, <1>3 DEF Session, Draft
  <2> QED BY <2>1, NothingIsNothing
<1>5. /\ tab' = [tab EXCEPT ![t] = r] /\ lastKey' = c /\ begun' = p.intent
      /\ shared' = Sharing(t, c) /\ \A s \in paid : s.intent # p.intent
      /\ UNCHANGED <<store, fresh, intents, paid, failed, seen>>
  BY DEF Answer
<1> HIDE DEF session
<1>6. /\ r \in TabRecord /\ r.page = "stripe" /\ r.company = c /\ r.draft = tab[t].draft
      /\ r.posts = {} /\ r.saved = Nothing /\ r.session = session
  BY <1>1, <1>4, ClosedIsTab DEF TabRecord, Page, ClosedTab
<1> HIDE DEF r
<1>7. IsTab(r)
  BY <1>1, <1>4, <1>6 DEF IsTab
<1>8. Knows(r)
  BY <1>1, <1>4, <1>5, <1>6, TabHeld DEF Knows, Has
<1>9. HasOffered(r)
  BY <1>1, <1>5, <1>6 DEF HasOffered, WizardInv, OfferedUnseen, Sharing
<1>10. Held(c, p.intent) /\ p.intent \in Intent
  BY <1>1, <1>2, TabHeld DEF Has, Draft
<1>11. begun' \in 0..intents'
  BY <1>1, <1>5, <1>10 DEF WizardInv, OneOwner, Intent, Typed
<1>12. Moves(t, r)
  BY <1>1, <1>5, <1>6, <1>7, <1>8, <1>9, <1>11 DEF Moves, Shares, Stores
<1>13. \A u \in Tab : tab'[u] = IF u = t THEN r ELSE tab[u]
  BY <1>1, <1>5
<1>14. SettledIsSeen'
  BY <1>5, <1>6, <1>13 DEF SettledIsSeen, WizardInv, Terminal
<1>15. BegunHasKey'
  <2> SUFFICES ASSUME NEW u \in Tab, Unseen(u)' PROVE lastKey' = tab'[u].company
    BY DEF BegunHasKey
  <2>1. CASE u = t
    BY <2>1, <1>5, <1>6, <1>13
  <2>2. CASE u # t
    <3>1. /\ tab[u] \in TabRecord /\ tab[u].company \in Company /\ tab'[u] = tab[u]
          /\ tab[u].page \in {"stripe", "success"} /\ tab[u].session.intent = p.intent
      BY <2>2, <1>5, <1>13, TabSound DEF Unseen
    <3>2. Held(tab[u].company, p.intent)
      BY <3>1, TabHeld DEF Has
    <3>3. tab[u].company = c
      BY <3>1, <3>2, <1>1, <1>10 DEF WizardInv, OneOwner
    <3> QED BY <3>1, <3>3, <1>5
  <2> QED BY <2>1, <2>2
<1> QED BY <1>12, <1>14, <1>15, MovesKeeps

LEMMA SettlesKeeps ==
  ASSUME WizardAssumption, WizardInv, UNCHANGED wizardLimit, NEW s \in Session, Settles(s)
  PROVE  WizardInv'
<1>1. /\ UNCHANGED <<storage, tab, intents, begun, shared, seen>>
      /\ s \notin paid \cup failed /\ paid \subseteq paid' /\ failed \subseteq failed'
      /\ paid' \subseteq Session /\ failed' \subseteq Session /\ paid' \cap failed' = {}
      /\ paid' \subseteq paid \cup {s} /\ failed' \subseteq failed \cup {s}
  BY DEF Settles, WizardInv, Typed
<1>2. Typed' /\ TabsAreSound' /\ StoredFit'
  BY <1>1 DEF WizardInv, Typed, TabsAreSound, StoredFit, storage, IsTab, Fits, Offerable
<1>3. OneOwner' /\ OneWorks' /\ OfferedUnseen'
  BY <1>1 DEF WizardInv, OneOwner, OneWorks, OfferedUnseen, Held, Has, Working, storage
<1>4. BegunHasKey'
  BY <1>1 DEF WizardInv, BegunHasKey, Unseen, storage
<1>5. SettledIsSeen'
  BY <1>1 DEF WizardInv, SettledIsSeen, Terminal
<1> QED BY <1>2, <1>3, <1>4, <1>5 DEF WizardInv

LEMMA DayPassesKeeps ==
  ASSUME WizardAssumption, WizardInv, UNCHANGED wizardLimit, NEW c \in Company, DayPasses(c)
  PROVE  WizardInv'
<1>1. /\ UNCHANGED <<store, lastKey, tab, intents, paid, failed, begun, shared, seen>>
      /\ fresh' \subseteq Company
  BY DEF DayPasses, WizardInv, Typed
<1>2. Typed' /\ TabsAreSound' /\ StoredFit'
  BY <1>1 DEF WizardInv, Typed, TabsAreSound, StoredFit, IsTab, Fits, Offerable
<1>3. OneOwner' /\ OneWorks' /\ OfferedUnseen'
  BY <1>1 DEF WizardInv, OneOwner, OneWorks, OfferedUnseen, Held, Has, Working
<1>4. BegunHasKey' /\ SettledIsSeen'
  BY <1>1 DEF WizardInv, BegunHasKey, Unseen, SettledIsSeen, Terminal
<1> QED BY <1>2, <1>3, <1>4 DEF WizardInv

LEMMA UnchangedKeeps ==
  ASSUME WizardAssumption, WizardInv, UNCHANGED wizardVars
  PROVE  WizardInv'
<1>1. UNCHANGED <<store, fresh, lastKey, tab, intents, paid, failed, begun, shared, seen, wizardLimit>>
  BY DEF wizardVars
<1>2. Typed' /\ TabsAreSound' /\ StoredFit'
  BY <1>1 DEF WizardInv, Typed, TabsAreSound, StoredFit, IsTab, Fits, Offerable
<1>3. OneOwner' /\ OneWorks' /\ OfferedUnseen'
  BY <1>1 DEF WizardInv, OneOwner, OneWorks, OfferedUnseen, Held, Has, Working
<1>4. BegunHasKey' /\ SettledIsSeen'
  BY <1>1 DEF WizardInv, BegunHasKey, Unseen, SettledIsSeen, Terminal
<1> QED BY <1>2, <1>3, <1>4 DEF WizardInv

-----------------------------------------------------------------------------
\* The success page sees the end of a payment.
LEMMA CompleteDraftStore ==
  ASSUME WizardAssumption, WizardInv, NEW s, CompleteDraft(s)
  PROVE  /\ store' \in [Company -> Draft \cup {Nothing}] /\ fresh' \subseteq Company /\ lastKey' = None
         /\ \A c \in Company : store[c] = Nothing => store'[c] = Nothing
         /\ \A c \in Company : store[c] # Nothing =>
              /\ store'[c] # Nothing /\ store'[c].intent = store[c].intent
              /\ Fits(store[c], c) => Fits(store'[c], c)
              /\ store'[c].status = store[c].status \/ store'[c].status = "completed"
         /\ lastKey \in Company /\ store[lastKey] # Nothing => store'[lastKey].status = "completed"
<1>1. /\ store \in [Company -> Draft \cup {Nothing}] /\ fresh \subseteq Company
      /\ lastKey \in Company \cup {None} /\ None \notin Company /\ lastKey' = None
  BY DEF WizardInv, Typed, WizardAssumption, CompleteDraft
<1>2. CASE UNCHANGED <<store, fresh>> /\ (lastKey = None \/ store[lastKey] = Nothing)
  BY <1>1, <1>2
<1> DEFINE d == [store[lastKey] EXCEPT !.status = "completed"]
<1>3. CASE lastKey # None /\ store[lastKey] # Nothing
  <2>1. store[lastKey] \in Draft /\ lastKey \in Company
    BY <1>1, <1>3
  <2>2. d \in Draft /\ d.intent = store[lastKey].intent /\ d.service = store[lastKey].service
        /\ d.slot = store[lastKey].slot /\ d.client = store[lastKey].client
        /\ d.step = store[lastKey].step /\ d.status = "completed" /\ d # Nothing
    <3>1. d \in Draft /\ d.intent = store[lastKey].intent /\ d.service = store[lastKey].service
          /\ d.slot = store[lastKey].slot /\ d.client = store[lastKey].client
          /\ d.step = store[lastKey].step /\ d.status = "completed"
      BY <2>1 DEF Draft
    <3> QED BY <3>1, NothingIsNothing
  <2>3. store' = [store EXCEPT ![lastKey] = d] /\ fresh' = fresh \cup {lastKey} /\ lastKey' = None
    BY <1>3 DEF CompleteDraft, Save
  <2> HIDE DEF d
  <2>4. Fits(store[lastKey], lastKey) => Fits(d, lastKey)
    BY <2>2 DEF Fits
  <2>5. \A c \in Company : store'[c] = IF c = lastKey THEN d ELSE store[c]
    BY <1>1, <2>3
  <2>6. store' \in [Company -> Draft \cup {Nothing}] /\ fresh' \subseteq Company
    BY <1>1, <2>1, <2>2, <2>3
  <2> QED BY <1>1, <1>3, <2>1, <2>2, <2>4, <2>5, <2>6
<1> QED BY <1>2, <1>3 DEF CompleteDraft

LEMMA PollKeeps ==
  ASSUME WizardAssumption, WizardInv, UNCHANGED wizardLimit, NEW t \in Tab, Poll(t)
  PROVE  WizardInv'
<1> DEFINE s == tab[t].session
           r == [tab[t] EXCEPT !.page = "settled"]
<1>1. /\ tab \in [Tab -> TabRecord] /\ tab[t] \in TabRecord /\ IsTab(tab[t])
      /\ tab[t].page = "success" /\ Terminal(s) /\ tab[t].company \in Company
      /\ s \in Session /\ s.company = tab[t].company
      /\ UNCHANGED <<intents, paid, failed, begun, shared, wizardLimit>>
  BY TabSound DEF WizardInv, Typed, Poll, IsTab, TabRecord
<1>2. tab' = [tab EXCEPT ![t] = r]
  BY <1>1 DEF Poll
<1>3. /\ r \in TabRecord /\ r.page = "settled" /\ r.company = tab[t].company
      /\ r.draft = tab[t].draft /\ r.posts = tab[t].posts /\ r.session = s
  BY <1>1 DEF TabRecord, Page
<1> HIDE DEF r
<1>4. \A u \in Tab : tab'[u] = IF u = t THEN r ELSE tab[u]
  BY <1>1, <1>2
<1>5. /\ store \in [Company -> Draft \cup {Nothing}] /\ fresh \subseteq Company
      /\ lastKey \in Company \cup {None}
  BY DEF WizardInv, Typed
<1>6. /\ store' \in [Company -> Draft \cup {Nothing}] /\ fresh' \subseteq Company
      /\ lastKey' \in {lastKey, None}
      /\ \A c \in Company : store[c] = Nothing => store'[c] = Nothing
      /\ \A c \in Company : store[c] # Nothing =>
           /\ store'[c] # Nothing /\ store'[c].intent = store[c].intent
           /\ Fits(store[c], c) => Fits(store'[c], c)
           /\ store'[c].status = store[c].status \/ store'[c].status = "completed"
  <2>1. CASE s \in paid
    <3>1. CompleteDraft(s)
      BY <2>1 DEF Poll
    <3> QED BY <3>1, CompleteDraftStore
  <2>2. CASE s \notin paid
    BY <2>2, <1>5 DEF Poll, storage
  <2> QED BY <2>1, <2>2
<1>7. s \in paid /\ lastKey \in Company /\ store[lastKey] # Nothing
        => store'[lastKey].status = "completed"
  BY CompleteDraftStore DEF Poll
<1>8. /\ seen \subseteq seen' /\ seen' \subseteq seen \cup {begun}
      /\ s \in paid /\ s.intent = begun => begun \in seen'
      /\ seen' # seen => s \in paid /\ s.intent = begun
  BY DEF Poll
<1>9. s.intent \in Intent /\ s.intent <= intents
  <2>1. s.intent \in Intent
    BY <1>1 DEF Session
  <2>2. Held(tab[t].company, s.intent)
    BY <1>1, TabHeld DEF Has
  <2> QED BY <2>1, <2>2, <1>1 DEF WizardInv, OneOwner
<1>10. seen' \subseteq 1..intents'
  BY <1>1, <1>8, <1>9 DEF WizardInv, Typed, Intent
<1>11. Typed'
  BY <1>1, <1>2, <1>3, <1>5, <1>6, <1>10 DEF WizardInv, Typed
<1>12. TabsAreSound'
  <2>1. IsTab(r)
    BY <1>1, <1>3 DEF IsTab
  <2> QED BY <1>4, <2>1 DEF WizardInv, TabsAreSound, IsTab, Fits, Offerable
<1>13. StoredFit'
  BY <1>6 DEF WizardInv, StoredFit, Fits
<1>14. \A u \in Tab, i \in Intent : Has(tab'[u], i) => Has(tab[u], i) /\ tab'[u].company = tab[u].company
  BY <1>1, <1>3, <1>4 DEF Has
<1>15. OneOwner'
  <2>1. \A c \in Company, i \in Intent : Held(c, i)' => Held(c, i)
    BY <1>6, <1>14, <1>4, <1>3 DEF Held
  <2> QED BY <2>1, <1>1 DEF WizardInv, OneOwner
<1>16. \A u \in Tab : tab'[u].page \in Work =>
         tab[u].page \in Work /\ tab'[u] = tab[u]
  BY <1>3, <1>4 DEF Work
<1>17. OneWorks'
  <2>1. \A c \in Company : (Working(c))' \subseteq Working(c)
    BY <1>16 DEF Working, Work
  <2> QED BY <2>1, <1>1 DEF WizardInv, OneWorks
\* Whoever works on the company of the intent that is seen now is this tab, or it is shared.
<1>18. ASSUME NEW u \in Tab, u # t, tab[u].page \in Work, NEW i \in Intent, Has(tab[u], i),
              i \in seen', i \notin seen
       PROVE  tab[u].company \in shared
  <2>1. i = s.intent
    BY <1>18, <1>8
  <2>2. Held(tab[u].company, i) /\ Held(tab[t].company, i)
    BY <1>18, <2>1, <1>1, TabHeld DEF Has
  <2>3. tab[u].company = tab[t].company
    BY <2>2, <1>1, TabSound DEF WizardInv, OneOwner
  <2> QED BY <2>3, <1>18, <1>1 DEF WizardInv, OneWorks, Working, Work
<1>19. OfferedUnseen'
  <2>1. ASSUME NEW u \in Tab, tab'[u].page = "choice", tab'[u].saved.intent \in seen'
        PROVE  tab'[u].company \in shared
    <3>1. tab'[u] = tab[u] /\ u # t
      BY <2>1, <1>3, <1>4
    <3>2. tab[u].saved.intent \in Intent
      BY <2>1, <3>1, TabSound DEF IsTab, Fits, Draft
    <3>3. Has(tab[u], tab[u].saved.intent) /\ tab[u].page \in Work
      BY <2>1, <3>1 DEF Has, Work
    <3>4. tab[u].saved.intent \in seen => tab[u].company \in shared
      BY <2>1, <3>1 DEF WizardInv, OfferedUnseen
    <3> QED BY <2>1, <3>1, <3>2, <3>3, <3>4, <1>18
  <2>2. ASSUME NEW u \in Tab, tab'[u].page \in {"wizard", "stripe"}, tab'[u].draft # Nothing,
               tab'[u].draft.intent \in seen'
        PROVE  tab'[u].company \in shared
    <3>1. tab'[u] = tab[u] /\ u # t
      BY <2>2, <1>3, <1>4
    <3>2. tab[u].draft.intent \in Intent
      BY <2>2, <3>1, TabSound DEF IsTab, Fits, Draft
    <3>3. Has(tab[u], tab[u].draft.intent) /\ tab[u].page \in Work
      BY <2>2, <3>1 DEF Has, Work
    <3>4. tab[u].draft.intent \in seen => tab[u].company \in shared
      BY <2>2, <3>1 DEF WizardInv, OfferedUnseen
    <3> QED BY <2>2, <3>1, <3>2, <3>3, <3>4, <1>18
  <2>3. ASSUME NEW c \in Company, store'[c] # Nothing, store'[c].status = "active",
               store'[c].intent \in seen'
        PROVE  c \in shared
    <3>1. store[c] # Nothing /\ store[c].status = "active" /\ store'[c].intent = store[c].intent
          /\ store[c] \in Draft
      BY <2>3, <1>6, <1>5
    <3>2. CASE store[c].intent \in seen
      BY <3>1, <3>2 DEF WizardInv, OfferedUnseen
    <3>3. CASE store[c].intent \notin seen
      <4>1. /\ s \in paid /\ s.intent = begun /\ store[c].intent = begun /\ begun \notin seen
        BY <3>1, <3>3, <2>3, <1>8
      <4>2. Held(c, begun) /\ Held(tab[t].company, begun) /\ begun \in Intent
        BY <3>1, <4>1, <1>1, <1>9, TabHeld DEF Held, Has
      <4>3. c = tab[t].company
        BY <4>2, <1>1 DEF WizardInv, OneOwner
      <4>4. s \notin failed
        BY <4>1 DEF WizardInv, Typed
      <4>5. CASE c \notin shared
        <5>1. Unseen(t)
          BY <4>1, <4>3, <4>4, <4>5, <1>1 DEF Unseen
        <5>2. lastKey = c
          BY <5>1, <4>1, <4>3, <3>1 DEF WizardInv, BegunHasKey
        <5> QED BY <5>2, <4>1, <3>1, <2>3, <1>7
      <4> QED BY <4>5
    <3> QED BY <3>2, <3>3
  <2> QED BY <2>1, <2>2, <2>3, <1>1 DEF OfferedUnseen
<1>20. BegunHasKey'
  <2> SUFFICES ASSUME NEW u \in Tab, Unseen(u)'
               PROVE  \/ lastKey' = tab'[u].company \/ store'[tab'[u].company] = Nothing
                      \/ store'[tab'[u].company].intent # begun
                      \/ store'[tab'[u].company].status = "completed"
    BY <1>1 DEF BegunHasKey
  <2>1. tab'[u] = tab[u] /\ u # t /\ tab[u].company \in Company
    BY <1>3, <1>4, TabSound DEF Unseen
  <2>2. Unseen(u)
    BY <2>1, <1>1, <1>8 DEF Unseen
  <2> DEFINE c == tab[u].company
  <2>3. \/ lastKey = c \/ store[c] = Nothing \/ store[c].intent # begun
        \/ store[c].status = "completed"
    BY <2>2 DEF WizardInv, BegunHasKey
  <2>4. lastKey = c => lastKey' = c \/ store'[c] = Nothing \/ store'[c].status = "completed"
    <3>1. CASE s \in paid
      BY <3>1, <2>1, <1>6, <1>7
    <3>2. CASE s \notin paid
      BY <3>2 DEF Poll, storage
    <3> QED BY <3>1, <3>2
  <2> QED BY <2>1, <2>3, <2>4, <1>6
<1>21. SettledIsSeen'
  <2> SUFFICES ASSUME NEW u \in Tab, tab'[u].page = "settled"
               PROVE  /\ Terminal(tab'[u].session)
                      /\ tab'[u].session \in paid /\ tab'[u].session.intent = begun => begun \in seen'
    BY <1>1 DEF SettledIsSeen, Terminal
  <2>1. CASE u = t
    BY <2>1, <1>1, <1>3, <1>4, <1>8
  <2>2. CASE u # t
    BY <2>2, <1>4, <1>8 DEF WizardInv, SettledIsSeen
  <2> QED BY <2>1, <2>2
<1> QED BY <1>11, <1>12, <1>13, <1>15, <1>17, <1>19, <1>20, <1>21 DEF WizardInv

-----------------------------------------------------------------------------
LEMMA WizardStarts == WizardAssumption /\ WizardInit => WizardInv
<1> SUFFICES ASSUME WizardAssumption, WizardInit PROVE WizardInv
  OBVIOUS
<1>1. \A t \in Tab : tab[t] = ClosedTab
  BY DEF WizardInit
<1>2. /\ ClosedTab \in TabRecord /\ IsTab(ClosedTab) /\ ClosedTab.page = "closed"
      /\ ClosedTab.draft = Nothing /\ ClosedTab.posts = {}
  BY ClosedIsTab DEF ClosedTab
<1>3. Typed
  BY <1>2 DEF WizardInit, Typed, WizardAssumption
<1>4. TabsAreSound /\ StoredFit
  BY <1>1, <1>2 DEF TabsAreSound, StoredFit, WizardInit
<1>5. OneOwner
  BY <1>1, <1>2 DEF OneOwner, Held, Has, WizardInit
<1>6. OneWorks /\ OfferedUnseen /\ BegunHasKey /\ SettledIsSeen
  BY <1>1, <1>2 DEF OneWorks, Working, OfferedUnseen, BegunHasKey, Unseen, SettledIsSeen, WizardInit
<1> QED BY <1>3, <1>4, <1>5, <1>6 DEF WizardInv

LEMMA WizardKeeps == WizardAssumption /\ WizardInv /\ [WizardNext]_wizardVars => WizardInv'
<1> SUFFICES ASSUME WizardAssumption, WizardInv, [WizardNext]_wizardVars PROVE WizardInv'
  OBVIOUS
<1>1. CASE UNCHANGED wizardVars
  BY <1>1, UnchangedKeeps
<1>2. CASE WizardNext
  <2>1. ASSUME NEW t \in Tab, NEW c \in Company, Open(t, c) PROVE WizardInv'
    BY <1>2, <2>1, OpenKeeps DEF WizardNext
  <2>2. ASSUME NEW t \in Tab,
               \/ Continue(t) \/ StartFresh(t) \/ PickService(t) \/ PickDay(t) \/ PickSlot(t)
               \/ TypeClient(t) \/ Forward(t) \/ Back(t) \/ Post(t)
        PROVE  WizardInv'
    BY <1>2, <2>2, ContinueKeeps, StartFreshKeeps, PickServiceKeeps, PickDayKeeps, PickSlotKeeps,
       TypeClientKeeps, ForwardKeeps, BackKeeps, PostKeeps DEF WizardNext
  <2>3. ASSUME NEW t \in Tab, NEW p \in tab[t].posts, Answer(t, p) \/ Refused(t, p)
        PROVE  WizardInv'
    BY <1>2, <2>3, AnswerKeeps, RefusedKeeps DEF WizardNext
  <2>4. ASSUME NEW t \in Tab, Leave(t) \/ Poll(t) \/ CloseTab(t) \/ Reload(t) \/ Restore(t)
        PROVE  WizardInv'
    BY <1>2, <2>4, LeaveKeeps, PollKeeps, CloseTabKeeps, ReloadKeeps, RestoreKeeps DEF WizardNext
  <2>5. ASSUME NEW s \in Session, Settles(s) PROVE WizardInv'
    BY <1>2, <2>5, SettlesKeeps DEF WizardNext
  <2>6. ASSUME NEW c \in Company, DayPasses(c) PROVE WizardInv'
    BY <1>2, <2>6, DayPassesKeeps DEF WizardNext
  <2> QED BY <1>2, <2>1, <2>2, <2>3, <2>4, <2>5, <2>6 DEF WizardNext, WizardStep
<1> QED BY <1>1, <1>2

LEMMA WizardInvariant == WizardAssumption => (WizardSpec => []WizardInv)
<1> SUFFICES ASSUME WizardAssumption PROVE WizardSpec => []WizardInv
  OBVIOUS
<1>1. WizardInit => WizardInv
  BY WizardStarts
<1>2. WizardInv /\ [WizardNext]_wizardVars => WizardInv'
  BY WizardKeeps
<1> QED BY <1>1, <1>2, PTL DEF WizardSpec

\* Tabs and stores hold drafts, sessions are of a company and a slot of its own, and no
\* session has both been paid and failed: for any tabs, companies, services and slots.
THEOREM WizardTypeCorrect == WizardAssumption => (WizardSpec => []WizardTypeOK)
<1> SUFFICES ASSUME WizardAssumption PROVE WizardSpec => []WizardTypeOK
  OBVIOUS
<1>1. WizardInv => WizardTypeOK
  <2> SUFFICES ASSUME WizardInv PROVE WizardTypeOK
    OBVIOUS
  <2>1. ASSUME NEW t \in Tab
        PROVE  /\ tab[t].page \in {"closed", "choice", "wizard", "stripe", "success", "settled", "cancel"}
               /\ tab[t].company \in Company
               /\ tab[t].page = "choice" => /\ tab[t].saved \in Draft /\ tab[t].saved.status = "active"
                                           /\ tab[t].saved.client # "typing"
               /\ tab[t].page = "wizard" => tab[t].draft \in Draft /\ tab[t].draft.status = "active"
               /\ tab[t].posts \subseteq Draft /\ tab[t].pending \in BOOLEAN
               /\ tab[t].page \in {"stripe", "success", "settled"} => tab[t].session \in Session
    BY TabSound DEF IsTab, Fits, TabRecord, Page
  <2>2. seen \subseteq Intent
    BY DEF WizardInv, Typed, Intent, WizardAssumption
  <2> QED BY <2>1, <2>2 DEF WizardInv, Typed, WizardTypeOK
<1> QED BY <1>1, WizardInvariant, PTL

\* Whatever a customer posts is a slot of the service posted with details that are valid,
\* after any number of steps back, reloads, tabs and drafts taken up again (StepConfirm.tsx,
\* booking.store.ts).
THEOREM PostsCorrect == WizardAssumption => (WizardSpec => []PostsAreComplete)
<1> SUFFICES ASSUME WizardAssumption PROVE WizardSpec => []PostsAreComplete
  OBVIOUS
<1>1. WizardInv => PostsAreComplete
  BY DEF WizardInv, TabsAreSound, IsTab, Offerable, PostsAreComplete
<1> QED BY <1>1, WizardInvariant, PTL

\* A page that asks whether to go on with a draft asks it of no booking that this browser has
\* seen paid, unless the company was worked on in two tabs (BookingSuccessPage.tsx).
THEOREM OfferedCorrect == WizardAssumption => (WizardSpec => []PaidIsNotOffered)
<1> SUFFICES ASSUME WizardAssumption PROVE WizardSpec => []PaidIsNotOffered
  OBVIOUS
<1>1. WizardInv => PaidIsNotOffered
  BY DEF WizardInv, OfferedUnseen, PaidIsNotOffered
<1> QED BY <1>1, WizardInvariant, PTL

-----------------------------------------------------------------------------
(***************************************************************************)
(* Forms: the rows, the loads that have seen the last save, its answer,    *)
(* and what is kept once it has been answered and loaded are none older    *)
(* than what the user has last saved; and so is a form filled from them.   *)
(***************************************************************************)

\* What is asked of the server, and what a load, a dialog and a save are made of.
Query == Record \cup {"list"}
Values == [Input -> Nat]
Data == {<< >>} \cup UNION {[S -> Values] : S \in SUBSET Record}
LoadRecord == [stage : {"idle", "sent", "served"}, data : Data, missed : SUBSET Record,
               failed : BOOLEAN]
FormRecord == [open : BOOLEAN, key : Record \cup {NoRecord}, from : Record \cup {NoRecord},
               values : Values, typed : SUBSET Input, early : BOOLEAN]
SaveRecord == [stage : {"none", "sent", "half", "committed", "refused", "reloading"},
               row : Record \cup {NoRecord}, from : Record \cup {NoRecord}, values : Values,
               sent : SUBSET Input, typed : SUBSET Input, early : BOOLEAN, answer : Values]

FormsTyped ==
  /\ kind \in FormKind /\ columns \in [Record -> Values]
  /\ kept \in [Record -> [of : Record, val : Values]]
  /\ reload \in [Query -> LoadRecord]
  /\ \A q \in Query : reload[q].stage = "served" => reload[q].data \in [Fills(q) -> Values]
  /\ sel \in Record /\ form \in FormRecord /\ (form.open <=> form.key \in Record)
  /\ save \in SaveRecord /\ (save.stage # "none" => save.row \in Record)
  /\ save.typed \subseteq save.sent
  /\ mine \in [Record -> Values] /\ loose \subseteq Record
  /\ clock \in Nat /\ saves \in 0..MaxSaves /\ losses \in Nat /\ formsLimit \in FormsLimits

\* A save goes to the row its values are of, and a form is of the row it was filled from.
SaveFits == save.stage # "none" => save.from = save.row
FormKeys ==
  /\ form.open => form.from = kept[form.key].of
  /\ form.open /\ ~InList => form.key = sel
  /\ kind # "job" => \A r \in Record : kept[r].of = r
  /\ kind \in {"client", "company"} /\ save.stage # "none" => save.row = sel

\* Nothing is older than what the user has last saved: the rows are not, nor a load that has
\* seen the save, nor the answer; nor what is kept, once the save has been answered and the
\* row been loaded.
Newer(v, r) == \A f \in Input : v[f] >= mine[r][f]
RowsAreNewer == \A r \in Record : Newer(columns[r], r)
LoadsAreNewer ==
  \A q \in Query : reload[q].stage = "served" =>
    \A r \in Fills(q) \ reload[q].missed : Newer(reload[q].data[r], r)
AnswersAreNewer == save.stage \in {"half", "committed"} => Newer(save.answer, save.row)
Written(r) == save.row = r /\ save.stage \in {"half", "committed"}
\* Nothing is known that would keep a row behind what the user has saved.
Settled(r) ==
  /\ r \notin loose /\ ~Written(r) /\ kept[r].of = r
  /\ kind = "job" \/ reload[Source(r)].stage = "idle"
KeptIsCurrent == \A r \in Record : Settled(r) => Newer(kept[r].val, r)

\* A form either follows what is kept, or keeps what it was filled with; then a save under way
\* while it is open is its own.
Keeps == kind \in {"worker", "service"}
FormFollows ==
  form.open /\ ~Keeps => \A f \in Input \ form.typed : form.values[f] = kept[form.key].val[f]
FormIsSent ==
  form.open /\ Keeps /\ ~form.early /\ save.stage # "none" =>
    save.row = form.key /\ \A f \in Input \ form.typed : save.values[f] = form.values[f]
FormIsNewer ==
  form.open /\ Keeps /\ ~form.early =>
    \A f \in Input \ form.typed : form.values[f] >= mine[form.key][f]

\* Values are stamped with the clock.
Old(v) == \A f \in Input : v[f] <= clock
Past ==
  /\ \A r \in Record : Old(columns[r]) /\ Old(kept[r].val)
  /\ Old(form.values) /\ Old(save.values) /\ Old(save.answer)
  /\ \A q \in Query : reload[q].stage = "served" => \A r \in Fills(q) : Old(reload[q].data[r])

FormsInv ==
  /\ FormsTyped /\ SaveFits /\ FormKeys /\ RowsAreNewer /\ LoadsAreNewer /\ AnswersAreNewer
  /\ KeptIsCurrent /\ FormFollows /\ FormIsSent /\ FormIsNewer /\ OwnSavesSurvive /\ Past

-----------------------------------------------------------------------------
\* What the queries fill, and what the records are.
LEMMA FormsFills ==
  ASSUME FormsAssumption
  PROVE  /\ \A q \in Query : Fills(q) \subseteq Record
         /\ \A r \in Record : Fills(r) = {r} /\ r # "list"
         /\ Fills("list") = Record
BY DEF FormsAssumption, Fills, Query

LEMMA FormsRecords ==
  /\ NotLoading \in LoadRecord /\ NotLoading.stage = "idle" /\ NotLoading.missed = {}
  /\ Loading \in LoadRecord /\ Loading.stage = "sent" /\ Loading.missed = {}
  /\ \A l \in LoadRecord : /\ Again(l) \in LoadRecord /\ Again(l).stage = "sent"
                           /\ Again(l).missed = {}
  /\ NoDialog \in FormRecord /\ ~NoDialog.open /\ NoDialog.key = NoRecord
  /\ NoSave \in SaveRecord /\ NoSave.stage = "none" /\ NoSave.typed = {} /\ NoSave.sent = {}
  /\ Blank \in Values /\ NoDialog.values = Blank /\ NoSave.values = Blank /\ NoSave.answer = Blank
  /\ NoSave.row = NoRecord
<1>1. Blank \in Values
  BY DEF Blank, Values
<1>2. << >> \in Data
  BY DEF Data
<1>3. NotLoading \in LoadRecord /\ NotLoading.stage = "idle" /\ NotLoading.missed = {}
  BY <1>2 DEF NotLoading, LoadRecord
<1>4. Loading \in LoadRecord /\ Loading.stage = "sent" /\ Loading.missed = {}
  BY <1>3 DEF Loading, LoadRecord
<1>5. ASSUME NEW l \in LoadRecord
      PROVE  Again(l) \in LoadRecord /\ Again(l).stage = "sent" /\ Again(l).missed = {}
  BY <1>4 DEF Again, LoadRecord
<1>6. NoDialog \in FormRecord /\ ~NoDialog.open /\ NoDialog.key = NoRecord /\ NoDialog.values = Blank
  BY <1>1 DEF NoDialog, FormRecord
<1>7. /\ NoSave \in SaveRecord /\ NoSave.stage = "none" /\ NoSave.typed = {} /\ NoSave.sent = {}
      /\ NoSave.values = Blank /\ NoSave.answer = Blank /\ NoSave.row = NoRecord
  BY <1>1 DEF NoSave, SaveRecord
<1> QED BY <1>1, <1>3, <1>4, <1>5, <1>6, <1>7

LEMMA FormsStarts == FormsAssumption /\ FormsInit => FormsInv
<1> SUFFICES ASSUME FormsAssumption, FormsInit PROVE FormsInv
  OBVIOUS
<1>1. /\ sel \in Record /\ kind \in FormKind /\ formsLimit \in FormsLimits
      /\ Mounted \in Query
  BY DEF FormsInit, FormsAssumption, Mounted, Source, Query
<1>2. reload \in [Query -> LoadRecord] /\ \A q \in Query : reload[q].stage # "served"
  BY FormsRecords DEF FormsInit, Query
<1>3. kept \in [Record -> [of : Record, val : Values]] /\ \A r \in Record : kept[r].of = r /\ kept[r].val = Blank
  BY FormsRecords DEF FormsInit
<1>4. /\ form \in FormRecord /\ (form.open <=> form.key \in Record) /\ form.values = Blank
      /\ form.open => kind = "company" /\ form.key = sel /\ form.from = sel
  <2> DEFINE d == [NoDialog EXCEPT !.open = TRUE, !.key = sel, !.from = sel]
  <2>1. /\ d \in FormRecord /\ d.open /\ d.key = sel /\ d.from = sel /\ d.values = Blank
    BY <1>1, FormsRecords DEF FormRecord, NoDialog
  <2>2. (form = d /\ kind = "company") \/ form = NoDialog
    BY DEF FormsInit
  <2> HIDE DEF d
  <2> QED BY <1>1, <2>1, <2>2, FormsRecords DEF FormsAssumption
<1>5. Blank \in Values /\ \A f \in Input : Blank[f] = 0
  BY DEF Blank, Values
<1>0. /\ columns = [r \in Record |-> Blank] /\ save = NoSave /\ mine = [r \in Record |-> Blank]
      /\ loose = {} /\ clock = 0 /\ saves = 0 /\ losses = 0
  BY DEF FormsInit
<1>6. FormsTyped
  BY <1>0, <1>1, <1>2, <1>3, <1>4, <1>5, FormsRecords DEF FormsTyped, FormsAssumption
<1>7. SaveFits /\ FormKeys /\ AnswersAreNewer /\ OwnSavesSurvive /\ FormIsSent /\ LoadsAreNewer
  BY <1>0, <1>2, <1>3, <1>4, FormsRecords
     DEF SaveFits, FormKeys, AnswersAreNewer, OwnSavesSurvive, FormIsSent, LoadsAreNewer
<1>8. RowsAreNewer /\ KeptIsCurrent
  BY <1>0, <1>3, <1>5 DEF RowsAreNewer, KeptIsCurrent, Newer
<1>9. FormFollows /\ FormIsNewer
  BY <1>0, <1>1, <1>3, <1>4, <1>5 DEF FormFollows, FormIsNewer, Keeps
<1>10. Past
  BY <1>0, <1>2, <1>3, <1>4, <1>5, FormsRecords DEF Past, Old
<1> QED BY <1>6, <1>7, <1>8, <1>9, <1>10 DEF FormsInv

-----------------------------------------------------------------------------
\* Only the dialog changes.
LEMMA DialogKeeps ==
  ASSUME FormsAssumption, FormsInv,
         UNCHANGED <<kind, columns, kept, reload, sel, save, mine, loose, saves, losses, formsLimit>>,
         clock' \in Nat, clock <= clock', form' \in FormRecord, form'.open <=> form'.key \in Record,
         FormKeys', FormFollows', FormIsSent', FormIsNewer', (Old(form.values))'
  PROVE  FormsInv'
<1>1. FormsTyped'
  BY DEF FormsInv, FormsTyped
<1>2. SaveFits' /\ RowsAreNewer' /\ LoadsAreNewer' /\ AnswersAreNewer' /\ OwnSavesSurvive'
  BY DEF FormsInv, SaveFits, RowsAreNewer, LoadsAreNewer, AnswersAreNewer, OwnSavesSurvive, Newer
<1>3. KeptIsCurrent'
  BY DEF FormsInv, KeptIsCurrent, Settled, Written, Source, InList, Newer
<1>4. Past'
  <2>1. \A v \in Values : Old(v) => (Old(v))'
    BY DEF Old, Values, FormsInv, FormsTyped
  <2>2. /\ \A r \in Record : columns[r] \in Values /\ kept[r].val \in Values
        /\ form.values \in Values /\ save.values \in Values /\ save.answer \in Values
    BY DEF FormsInv, FormsTyped, FormRecord, SaveRecord
  <2>3. \A q \in Query : reload[q].stage = "served" => \A r \in Fills(q) : reload[q].data[r] \in Values
    BY DEF FormsInv, FormsTyped
  <2>4. \A r \in Record : (Old(columns[r]))' /\ (Old(kept[r].val))'
    BY <2>1, <2>2 DEF FormsInv, Past
  <2>5. (Old(save.values))' /\ (Old(save.answer))'
    BY <2>1, <2>2 DEF FormsInv, Past
  <2>6. \A q \in Query : reload'[q].stage = "served" => \A r \in Fills(q) : (Old(reload[q].data[r]))'
    BY <2>1, <2>3 DEF FormsInv, Past
  <2> QED BY <2>4, <2>5, <2>6 DEF Past
<1> QED BY <1>1, <1>2, <1>3, <1>4 DEF FormsInv

LEMMA OpensKeeps ==
  ASSUME FormsAssumption, FormsInv, UNCHANGED formsLimit, NEW r \in Record, Opens(r),
         ~InList => r = sel
  PROVE  FormsInv'
<1>1. /\ form' = Opened(r)
      /\ UNCHANGED <<kind, columns, kept, reload, sel, save, mine, loose, clock, saves, losses, formsLimit>>
  BY DEF Opens
<1>2. kept[r].of \in Record /\ kept[r].val \in Values /\ clock \in Nat
  BY DEF FormsInv, FormsTyped
<1>3. /\ form' \in FormRecord /\ form'.open /\ form'.key = r /\ form'.from = kept[r].of
      /\ form'.values = kept[r].val /\ form'.typed = {}
      /\ form'.early = (Unsettled(r) \/ r \in loose)
  BY <1>1, <1>2 DEF Opened, FormRecord
<1>4. FormKeys'
  BY <1>1, <1>3 DEF FormsInv, FormKeys, InList
<1>5. FormFollows'
  BY <1>1, <1>3 DEF FormFollows, Keeps
<1>6. FormIsSent'
  BY <1>1, <1>3 DEF FormIsSent, Keeps, Unsettled
<1>7. FormIsNewer'
  <2> SUFFICES ASSUME Keeps, ~form'.early PROVE \A f \in Input : kept[r].val[f] >= mine[r][f]
    BY <1>1, <1>3 DEF FormIsNewer, Keeps
  <2>1. Settled(r)
    BY <1>3 DEF Settled, Written, Unsettled, Keeps, FormsInv, FormKeys
  <2> QED BY <2>1 DEF FormsInv, KeptIsCurrent, Newer
<1>8. (Old(form.values))'
  BY <1>1, <1>3 DEF FormsInv, Past, Old
<1> QED BY <1>1, <1>2, <1>3, <1>4, <1>5, <1>6, <1>7, <1>8, DialogKeeps

LEMMA CloseDialogKeeps ==
  ASSUME FormsAssumption, FormsInv, UNCHANGED formsLimit, CloseDialog
  PROVE  FormsInv'
<1>1. /\ form' = NoDialog /\ clock \in Nat
      /\ UNCHANGED <<kind, columns, kept, reload, sel, save, mine, loose, clock, saves, losses, formsLimit>>
  BY DEF CloseDialog, FormsInv, FormsTyped
<1>2. /\ form' \in FormRecord /\ ~form'.open /\ form'.key \notin Record /\ form'.values = Blank
  BY <1>1, FormsRecords DEF FormsAssumption
<1>3. FormKeys' /\ FormFollows' /\ FormIsSent' /\ FormIsNewer'
  BY <1>1, <1>2 DEF FormsInv, FormKeys, FormFollows, FormIsSent, FormIsNewer
<1>4. (Old(form.values))'
  BY <1>1, <1>2 DEF Old, Blank
<1> QED BY <1>1, <1>2, <1>3, <1>4, DialogKeeps

LEMMA TypeKeeps ==
  ASSUME FormsAssumption, FormsInv, UNCHANGED formsLimit, NEW f \in Input, Type(f)
  PROVE  FormsInv'
<1>1. /\ form' = [form EXCEPT !.values[f] = clock', !.typed = @ \cup {f}]
      /\ form.open /\ clock \in Nat /\ clock' = clock + 1
      /\ UNCHANGED <<kind, columns, kept, reload, sel, save, mine, loose, saves, losses, formsLimit>>
  BY DEF Type, Fresh, FormsInv, FormsTyped
<1>2. form \in FormRecord /\ form.values \in Values
  BY DEF FormsInv, FormsTyped, FormRecord
<1> DEFINE v == [form.values EXCEPT ![f] = clock']
<1>3. v \in Values /\ \A g \in Input : v[g] = IF g = f THEN clock' ELSE form.values[g]
  BY <1>1, <1>2 DEF Values
<1>4. form' = [[form EXCEPT !.values = v] EXCEPT !.typed = @ \cup {f}]
  BY <1>1, <1>2 DEF FormRecord
<1> HIDE DEF v
<1>5. /\ form' \in FormRecord /\ form'.open /\ form'.key = form.key /\ form'.from = form.from
      /\ form'.values = v /\ form'.typed = form.typed \cup {f} /\ form'.early = form.early
  <2> DEFINE e == [form EXCEPT !.values = v]
  <2>1. /\ e \in FormRecord /\ e.open = form.open /\ e.key = form.key /\ e.from = form.from
        /\ e.values = v /\ e.typed = form.typed /\ e.early = form.early
    BY <1>2, <1>3 DEF FormRecord
  <2> DEFINE fs == e.typed \cup {f}
  <2>2. form' = [e EXCEPT !.typed = fs]
    BY <1>4
  <2> HIDE DEF e
  <2>3. fs \in SUBSET Input /\ fs = form.typed \cup {f}
    BY <2>1 DEF FormRecord
  <2> HIDE DEF fs
  <2> QED BY <1>1, <2>1, <2>2, <2>3 DEF FormRecord
<1>6. form'.open <=> form'.key \in Record
  BY <1>1, <1>5 DEF FormsInv, FormsTyped
<1>7. FormKeys'
  BY <1>1, <1>5 DEF FormsInv, FormKeys, InList
<1>8. FormFollows' /\ FormIsSent' /\ FormIsNewer'
  BY <1>1, <1>3, <1>5 DEF FormsInv, FormFollows, FormIsSent, FormIsNewer, Keeps
<1>9. (Old(form.values))'
  BY <1>1, <1>2, <1>3, <1>5 DEF Old, FormsInv, Past, Values
<1> QED BY <1>1, <1>5, <1>6, <1>7, <1>8, <1>9, DialogKeeps

-----------------------------------------------------------------------------
LEMMA OldStays ==
  ASSUME FormsInv, clock' \in Nat, clock <= clock', NEW v \in Values, Old(v)
  PROVE  \A f \in Input : v[f] <= clock'
BY DEF Old, Values, FormsInv, FormsTyped

LEMMA FormsValues ==
  ASSUME FormsAssumption, FormsInv
  PROVE  /\ \A r \in Record : columns[r] \in Values /\ kept[r].val \in Values /\ mine[r] \in Values
         /\ form.values \in Values /\ save.values \in Values /\ save.answer \in Values
         /\ \A q \in Query : reload[q].stage = "served" =>
              \A r \in Fills(q) : reload[q].data[r] \in Values
         /\ clock \in Nat
BY DEF FormsInv, FormsTyped, FormRecord, SaveRecord

\* The mutation goes on, and what is known to be behind grows.
LEMMA MutationKeeps ==
  ASSUME FormsAssumption, FormsInv,
         UNCHANGED <<kind, columns, kept, reload, sel, form, mine, formsLimit>>,
         clock' \in Nat, clock <= clock', saves' \in 0..MaxSaves, losses' \in Nat,
         loose \subseteq loose', loose' \subseteq Record,
         save' \in SaveRecord, save'.stage # "none" => save'.row \in Record,
         save'.typed \subseteq save'.sent,
         \A r \in Record : Written(r) => (Written(r))' \/ r \in loose',
         SaveFits', kind \in {"client", "company"} /\ save'.stage # "none" => save'.row = sel,
         AnswersAreNewer', FormIsSent', OwnSavesSurvive',
         \A f \in Input : save'.values[f] <= clock' /\ save'.answer[f] <= clock'
  PROVE  FormsInv'
<1>1. FormsTyped'
  BY DEF FormsInv, FormsTyped
<1>2. FormKeys' /\ RowsAreNewer' /\ LoadsAreNewer' /\ FormFollows' /\ FormIsNewer'
  BY DEF FormsInv, FormKeys, InList, RowsAreNewer, LoadsAreNewer, FormFollows, FormIsNewer, Newer, Keeps
<1>3. KeptIsCurrent'
  <2>1. \A r \in Record : (Settled(r))' => Settled(r)
    BY DEF Settled, Source, InList
  <2> QED BY <2>1 DEF FormsInv, KeptIsCurrent, Newer
<1>4. Past'
  <2>1. \A r \in Record : (Old(columns[r]))' /\ (Old(kept[r].val))'
    BY OldStays, FormsValues DEF FormsInv, Past, Old
  <2>2. (Old(form.values))' /\ (Old(save.values))' /\ (Old(save.answer))'
    BY OldStays, FormsValues DEF FormsInv, Past, Old
  <2>3. \A q \in Query : reload'[q].stage = "served" => \A r \in Fills(q) : (Old(reload[q].data[r]))'
    BY OldStays, FormsValues DEF FormsInv, Past, Old
  <2> QED BY <2>1, <2>2, <2>3 DEF Past
<1> QED BY <1>1, <1>2, <1>3, <1>4 DEF FormsInv

LEMMA SendsKeeps ==
  ASSUME FormsAssumption, FormsInv, UNCHANGED formsLimit, NEW r \in Record, NEW fs \in SUBSET Input,
         NEW early \in BOOLEAN, Sends(r, fs, early), form.from = r,
         kind \in {"client", "company"} => r = sel,
         Keeps => r = form.key,
         ~early => \A f \in Input \ form.typed : form.values[f] >= mine[r][f]
  PROVE  FormsInv'
<1>1. /\ save' = [NoSave EXCEPT !.stage = "sent", !.row = r, !.from = form.from, !.values = form.values,
                              !.sent = fs, !.typed = form.typed, !.early = early]
      /\ save.stage = "none" /\ saves < MaxSaves /\ saves' = saves + 1 /\ form.typed \subseteq fs
      /\ UNCHANGED <<kind, columns, kept, reload, sel, form, mine, loose, clock, losses, formsLimit>>
  BY DEF Sends
<1>2. form.values \in Values /\ form.typed \in SUBSET Input
  BY DEF FormsInv, FormsTyped, FormRecord
<1>3. save' = [stage |-> "sent", row |-> r, from |-> r, values |-> form.values, sent |-> fs,
               typed |-> form.typed, early |-> early, answer |-> Blank]
  BY <1>1 DEF NoSave
<1>4. /\ save' \in SaveRecord /\ save'.stage = "sent" /\ save'.row = r /\ save'.from = r
      /\ save'.values = form.values /\ save'.sent = fs /\ save'.typed = form.typed
      /\ save'.early = early /\ save'.answer = Blank
  BY <1>2, <1>3, FormsRecords DEF SaveRecord
<1>5. clock \in Nat /\ saves' \in 0..MaxSaves /\ losses \in Nat /\ loose \subseteq Record
  BY <1>1 DEF FormsInv, FormsTyped, FormsAssumption
<1>6. SaveFits' /\ AnswersAreNewer'
  BY <1>4 DEF SaveFits, AnswersAreNewer
<1>7. FormIsSent'
  BY <1>1, <1>4 DEF FormIsSent, Keeps
<1>8. OwnSavesSurvive'
  BY <1>1, <1>4 DEF OwnSavesSurvive
<1>9. \A f \in Input : save'.values[f] <= clock' /\ save'.answer[f] <= clock'
  BY <1>1, <1>4, <1>5 DEF FormsInv, Past, Old, Blank
<1>10. \A k \in Record : ~Written(k)
  BY <1>1 DEF Written
<1> QED BY <1>1, <1>4, <1>5, <1>6, <1>7, <1>8, <1>9, <1>10, MutationKeeps

LEMMA ToggleKeeps ==
  ASSUME FormsAssumption, FormsInv, UNCHANGED formsLimit, NEW r \in Record, Toggle(r)
  PROVE  FormsInv'
<1> DEFINE v == [Blank EXCEPT !["choice"] = clock']
<1>1. /\ save' = [NoSave EXCEPT !.stage = "sent", !.row = r, !.from = r, !.values["choice"] = clock',
                                !.sent = {"choice"}, !.typed = {"choice"}]
      /\ kind = "service" /\ save.stage = "none" /\ saves < MaxSaves /\ saves' = saves + 1 /\ ~form.open
      /\ clock \in Nat /\ clock' = clock + 1 /\ losses \in Nat /\ loose \subseteq Record
      /\ UNCHANGED <<kind, columns, kept, reload, sel, form, mine, loose, losses, formsLimit>>
  BY DEF Toggle, Fresh, FormsInv, FormsTyped
<1>2. v \in Values /\ \A f \in Input : v[f] <= clock' /\ Blank[f] <= clock'
  BY <1>1 DEF Values, Blank, Input
<1>3. save' = [stage |-> "sent", row |-> r, from |-> r, values |-> v, sent |-> {"choice"},
               typed |-> {"choice"}, early |-> FALSE, answer |-> Blank]
  BY <1>1 DEF NoSave
<1> HIDE DEF v
<1>4. {"choice"} \in SUBSET Input
  BY DEF Input
<1>5. /\ save' \in SaveRecord /\ save'.stage = "sent" /\ save'.row = r /\ save'.from = r
      /\ save'.values = v /\ save'.sent = {"choice"} /\ save'.typed = {"choice"}
      /\ save'.early = FALSE /\ save'.answer = Blank
  BY <1>2, <1>3, <1>4, FormsRecords DEF SaveRecord
<1>6. saves' \in 0..MaxSaves
  BY <1>1 DEF FormsInv, FormsTyped, FormsAssumption
<1>7. SaveFits' /\ AnswersAreNewer' /\ FormIsSent' /\ OwnSavesSurvive'
  BY <1>1, <1>5 DEF SaveFits, AnswersAreNewer, FormIsSent, OwnSavesSurvive
<1>8. \A k \in Record : ~Written(k)
  BY <1>1 DEF Written
<1>9. /\ clock' \in Nat /\ clock <= clock' /\ losses' \in Nat /\ loose \subseteq loose'
      /\ loose' \subseteq Record /\ kind \notin {"client", "company"}
      /\ save'.row \in Record /\ save'.typed \subseteq save'.sent
  BY <1>1, <1>5
<1>10. \A f \in Input : save'.values[f] <= clock' /\ save'.answer[f] <= clock'
  BY <1>2, <1>5
<1>11. UNCHANGED <<kind, columns, kept, reload, sel, form, mine, formsLimit>>
  BY <1>1
<1> QED BY <1>5, <1>6, <1>7, <1>8, <1>9, <1>10, <1>11, MutationKeeps

LEMMA RefuseSaveKeeps ==
  ASSUME FormsAssumption, FormsInv, UNCHANGED formsLimit, RefuseSave
  PROVE  FormsInv'
<1>1. /\ save' = [save EXCEPT !.stage = "refused"] /\ save.stage \in {"sent", "half"}
      /\ loose' = IF save.stage = "half" THEN loose \cup {save.row} ELSE loose
      /\ losses' = losses + 1
      /\ UNCHANGED <<kind, columns, kept, reload, sel, form, mine, clock, saves, formsLimit>>
  BY DEF RefuseSave, Loss
<1>2. /\ save \in SaveRecord /\ save.row \in Record /\ loose \subseteq Record /\ clock \in Nat
      /\ losses \in Nat /\ saves \in 0..MaxSaves /\ save.typed \subseteq save.sent
  BY <1>1 DEF FormsInv, FormsTyped
<1>3. /\ save' \in SaveRecord /\ save'.stage = "refused" /\ save'.row = save.row /\ save'.from = save.from
      /\ save'.values = save.values /\ save'.sent = save.sent /\ save'.typed = save.typed
      /\ save'.answer = save.answer
  BY <1>1, <1>2 DEF SaveRecord
<1>4. loose \subseteq loose' /\ loose' \subseteq Record /\ losses' \in Nat
  BY <1>1, <1>2
<1>5. \A r \in Record : Written(r) => r \in loose'
  BY <1>1 DEF Written
<1>6. SaveFits' /\ AnswersAreNewer' /\ OwnSavesSurvive'
  BY <1>1, <1>3 DEF FormsInv, SaveFits, AnswersAreNewer, OwnSavesSurvive
<1>7. FormIsSent' /\ (kind \in {"client", "company"} => save'.row = sel)
  BY <1>1, <1>3 DEF FormsInv, FormIsSent, Keeps, FormKeys
<1>8. \A f \in Input : save'.values[f] <= clock' /\ save'.answer[f] <= clock'
  BY <1>1, <1>3 DEF FormsInv, Past, Old
<1> QED BY <1>1, <1>2, <1>3, <1>4, <1>5, <1>6, <1>7, <1>8, MutationKeeps

LEMMA FailsKeeps ==
  ASSUME FormsAssumption, FormsInv, UNCHANGED formsLimit, Fails
  PROVE  FormsInv'
<1>1. /\ save' = NoSave
      /\ \/ save.stage = "refused" /\ UNCHANGED <<loose, losses>>
         \/ save.stage = "committed" /\ losses' = losses + 1 /\ loose' = loose \cup {save.row}
      /\ UNCHANGED <<kind, columns, kept, reload, sel, form, mine, clock, saves, formsLimit>>
  BY DEF Fails, Loss
<1>2. /\ save.row \in Record /\ loose \subseteq Record /\ clock \in Nat
      /\ losses \in Nat /\ saves \in 0..MaxSaves
  BY <1>1 DEF FormsInv, FormsTyped
<1>3. loose \subseteq loose' /\ loose' \subseteq Record /\ losses' \in Nat
  BY <1>1, <1>2
<1>4. \A r \in Record : Written(r) => r \in loose'
  BY <1>1 DEF Written
<1>5. SaveFits' /\ AnswersAreNewer' /\ OwnSavesSurvive' /\ FormIsSent'
  BY <1>1, FormsRecords DEF SaveFits, AnswersAreNewer, OwnSavesSurvive, FormIsSent
<1>6. \A f \in Input : save'.values[f] <= clock' /\ save'.answer[f] <= clock'
  BY <1>1, <1>2, FormsRecords DEF Blank
<1> QED BY <1>1, <1>2, <1>3, <1>4, <1>5, <1>6, FormsRecords, MutationKeeps

-----------------------------------------------------------------------------
\* What a form that follows its row sends is what is kept.
LEMMA FollowsKept ==
  ASSUME FormsAssumption, FormsInv, form.open, ~Keeps, NEW r \in Record, form.key = r, Settled(r)
  PROVE  \A f \in Input \ form.typed : form.values[f] >= mine[r][f]
<1>1. \A f \in Input : kept[r].val[f] >= mine[r][f]
  BY DEF FormsInv, KeptIsCurrent, Newer
<1> QED BY <1>1 DEF FormsInv, FormFollows

LEMMA SubmitJobKeeps ==
  ASSUME FormsAssumption, FormsInv, UNCHANGED formsLimit, SubmitJob
  PROVE  FormsInv'
<1> DEFINE r == kept[sel].of
           early == sel \in loose \/ kept[sel].of # sel
<1>1. kind = "job" /\ Sends(r, Input, early) /\ form.open /\ save.stage = "none" /\ ~InList
  BY DEF SubmitJob, JobWritten, Sends, InList
<1>2. r \in Record /\ sel \in Record /\ form.key = sel /\ form.from = r /\ early \in BOOLEAN
  BY <1>1 DEF FormsInv, FormsTyped, FormKeys
<1>3. ~early => \A f \in Input \ form.typed : form.values[f] >= mine[r][f]
  <2> SUFFICES ASSUME ~early PROVE \A f \in Input \ form.typed : form.values[f] >= mine[r][f]
    OBVIOUS
  <2>1. r = sel /\ Settled(r) /\ ~Keeps
    BY <1>1 DEF Settled, Written, Keeps
  <2> QED BY <1>1, <1>2, <2>1, FollowsKept
<1>4. ~Keeps /\ kind \notin {"client", "company"}
  BY <1>1 DEF Keeps
<1> HIDE DEF early, r
<1> QED BY <1>1, <1>2, <1>3, <1>4, SendsKeeps

LEMMA SubmitFollowsKeeps ==
  ASSUME FormsAssumption, FormsInv, UNCHANGED formsLimit, SubmitTask \/ SubmitClient \/ SubmitCompany
  PROVE  FormsInv'
<1> DEFINE r == form.key
           early == Early
<1>1. /\ kind \in {"task", "client", "company"} /\ Sends(r, Input, early)
      /\ form.open /\ save.stage = "none" /\ (kind \in {"client", "company"} => r = sel)
  BY DEF SubmitTask, SubmitClient, SubmitCompany, Sends, FormsInv, FormKeys, InList
<1>2. r \in Record /\ kept[r].of = r /\ form.from = r /\ early \in BOOLEAN
  BY <1>1 DEF FormsInv, FormsTyped, FormKeys, Early
<1>3. ~early => \A f \in Input \ form.typed : form.values[f] >= mine[r][f]
  <2> SUFFICES ASSUME ~early PROVE \A f \in Input \ form.typed : form.values[f] >= mine[r][f]
    OBVIOUS
  <2>1. Settled(r) /\ ~Keeps
    BY <1>1, <1>2 DEF Settled, Written, Keeps, Early
  <2> QED BY <1>1, <1>2, <2>1, FollowsKept
<1>4. ~Keeps
  BY <1>1 DEF Keeps
<1> HIDE DEF early, r
<1> QED BY <1>1, <1>2, <1>3, <1>4, SendsKeeps

LEMMA SubmitKeptKeeps ==
  ASSUME FormsAssumption, FormsInv, UNCHANGED formsLimit, SubmitWorker \/ SubmitService
  PROVE  FormsInv'
<1> DEFINE r == form.key
<1>1. PICK fs \in {{"text"}, Input} : kind \in {"worker", "service"} /\ Sends(r, fs, form.early)
  BY DEF SubmitWorker, SubmitService
<1>2. fs \in SUBSET Input
  BY DEF Input
<1>3. form.open /\ save.stage = "none" /\ Keeps /\ kind \notin {"client", "company"}
  BY <1>1 DEF Sends, Keeps
<1>4. r \in Record /\ form.from = r /\ form.early \in BOOLEAN
  BY <1>1, <1>3 DEF FormsInv, FormsTyped, FormKeys, FormRecord
<1>5. ~form.early => \A f \in Input \ form.typed : form.values[f] >= mine[r][f]
  BY <1>3 DEF FormsInv, FormIsNewer
<1> HIDE DEF r
<1>6. r = form.key
  BY DEF r
<1> QED BY <1>1, <1>2, <1>3, <1>4, <1>5, <1>6, SendsKeeps

-----------------------------------------------------------------------------
\* A load goes on; one that ends without an answer leaves its rows behind.
LEMMA LoadKeeps ==
  ASSUME FormsAssumption, FormsInv, NEW q \in Query, NEW l \in LoadRecord,
         UNCHANGED <<kind, columns, kept, sel, form, save, mine, clock, saves, formsLimit>>,
         reload' = [reload EXCEPT ![q] = l], losses' \in Nat,
         loose \subseteq loose', loose' \subseteq Record,
         l.stage = "idle" => Fills(q) \subseteq loose',
         l.stage = "served" => l.data \in [Fills(q) -> Values]
                               /\ \A r \in Fills(q) : Newer(l.data[r], r) /\ Old(l.data[r])
  PROVE  FormsInv'
<1>1. reload' \in [Query -> LoadRecord] /\ \A p \in Query : reload'[p] = IF p = q THEN l ELSE reload[p]
  BY DEF FormsInv, FormsTyped
<1>2. FormsTyped'
  BY <1>1 DEF FormsInv, FormsTyped
<1>3. SaveFits' /\ FormKeys' /\ RowsAreNewer' /\ AnswersAreNewer' /\ FormFollows' /\ FormIsSent'
      /\ FormIsNewer' /\ OwnSavesSurvive'
  BY DEF FormsInv, SaveFits, FormKeys, InList, RowsAreNewer, AnswersAreNewer, FormFollows, FormIsSent,
     FormIsNewer, OwnSavesSurvive, Newer, Keeps
<1>4. LoadsAreNewer'
  BY <1>1 DEF FormsInv, LoadsAreNewer, Newer
<1>5. KeptIsCurrent'
  <2>1. \A r \in Record : Source(r) \in Query /\ (Source(r) = q => r \in Fills(q))
    BY FormsFills DEF Source, Query
  <2>2. \A r \in Record : (Settled(r))' => Settled(r)
    BY <1>1, <2>1 DEF Settled, Source, InList, Written
  <2> QED BY <2>2 DEF FormsInv, KeptIsCurrent, Newer
<1>6. Past'
  BY <1>1 DEF FormsInv, Past, Old
<1> QED BY <1>2, <1>3, <1>4, <1>5, <1>6 DEF FormsInv

LEMMA ServedKeeps ==
  ASSUME FormsAssumption, FormsInv, UNCHANGED formsLimit, NEW q \in Query, Served(q)
  PROVE  FormsInv'
<1> DEFINE d == [r \in Fills(q) |-> columns[r]]
           l == [reload[q] EXCEPT !.stage = "served", !.data = d]
<1>1. /\ reload[q] \in LoadRecord /\ reload \in [Query -> LoadRecord] /\ loose \subseteq Record
      /\ columns \in [Record -> Values] /\ losses \in Nat
      /\ UNCHANGED <<kind, columns, kept, sel, form, save, mine, loose, clock, saves, losses, formsLimit>>
  BY DEF FormsInv, FormsTyped, Served
<1>2. d \in [Fills(q) -> Values] /\ d \in Data
  BY <1>1, FormsFills DEF Data
<1>3. reload' = [reload EXCEPT ![q] = l]
  BY <1>1 DEF Served
<1>4. \A r \in Fills(q) : d[r] = columns[r] /\ r \in Record
  BY FormsFills
<1> HIDE DEF d
<1>5. l \in LoadRecord /\ l.stage = "served" /\ l.data = d
  BY <1>1, <1>2 DEF LoadRecord
<1> HIDE DEF l
<1>6. \A r \in Fills(q) : Newer(d[r], r) /\ Old(d[r])
  BY <1>4 DEF FormsInv, RowsAreNewer, Past
<1> QED BY <1>1, <1>2, <1>3, <1>5, <1>6, LoadKeeps

LEMMA ReloadFailsKeeps ==
  ASSUME FormsAssumption, FormsInv, UNCHANGED formsLimit, NEW q \in Query, ReloadFails(q)
  PROVE  FormsInv'
<1> DEFINE l == [NotLoading EXCEPT !.failed = TRUE]
<1>1. l \in LoadRecord /\ l.stage = "idle"
  BY FormsRecords DEF LoadRecord
<1>2. /\ reload' = [reload EXCEPT ![q] = l] /\ loose' = loose \cup Fills(q) /\ losses' = losses + 1
      /\ UNCHANGED <<kind, columns, kept, sel, form, save, mine, clock, saves, formsLimit>>
  BY DEF ReloadFails, Loss
<1>3. loose' \subseteq Record /\ losses' \in Nat
  BY <1>2, FormsFills DEF FormsInv, FormsTyped
<1> HIDE DEF l
<1> QED BY <1>1, <1>2, <1>3, LoadKeeps

LEMMA RetryKeeps ==
  ASSUME FormsAssumption, FormsInv, UNCHANGED formsLimit, Retry
  PROVE  FormsInv'
<1> DEFINE l == Again(reload["list"])
<1>1. /\ reload \in [Query -> LoadRecord] /\ loose \subseteq Record /\ losses \in Nat /\ "list" \in Query
  BY DEF FormsInv, FormsTyped, Query
<1>2. l \in LoadRecord /\ l.stage = "sent"
  BY <1>1, FormsRecords
<1>3. /\ reload' = [reload EXCEPT !["list"] = l]
      /\ UNCHANGED <<kind, columns, kept, sel, form, save, mine, loose, clock, saves, losses, formsLimit>>
  BY <1>1 DEF Retry
<1> HIDE DEF l
<1> QED BY <1>1, <1>2, <1>3, LoadKeeps

LEMMA SelectKeeps ==
  ASSUME FormsAssumption, FormsInv, UNCHANGED formsLimit, NEW r \in Record, Select(r)
  PROVE  FormsInv'
<1>1. /\ kind = "job" /\ sel' = r /\ form' = NoDialog /\ clock \in Nat
      /\ reload' = IF reload[r].stage = "idle" THEN [reload EXCEPT ![r] = Again(@)] ELSE reload
      /\ UNCHANGED <<kind, columns, kept, save, mine, loose, clock, saves, losses, formsLimit>>
  BY DEF Select, FormsInv, FormsTyped
<1>2. reload \in [Query -> LoadRecord] /\ r \in Query /\ Again(reload[r]) \in LoadRecord
      /\ Again(reload[r]).stage = "sent"
  BY FormsRecords DEF FormsInv, FormsTyped, Query
<1>3. /\ reload' \in [Query -> LoadRecord]
      /\ \A q \in Query : reload'[q] = reload[q] \/ reload'[q].stage = "sent"
  BY <1>1, <1>2
<1>4. /\ form' \in FormRecord /\ ~form'.open /\ form'.key \notin Record /\ form'.values = Blank
  BY <1>1, FormsRecords DEF FormsAssumption
<1>5. FormsTyped'
  BY <1>1, <1>3, <1>4 DEF FormsInv, FormsTyped
<1>6. SaveFits' /\ FormKeys' /\ RowsAreNewer' /\ AnswersAreNewer' /\ FormFollows' /\ FormIsSent'
      /\ FormIsNewer' /\ OwnSavesSurvive'
  BY <1>1, <1>4 DEF FormsInv, SaveFits, FormKeys, InList, RowsAreNewer, AnswersAreNewer, FormFollows, FormIsSent,
     FormIsNewer, OwnSavesSurvive, Newer, Keeps
<1>7. LoadsAreNewer'
  BY <1>1, <1>3 DEF FormsInv, LoadsAreNewer, Newer
<1>8. KeptIsCurrent'
  BY <1>1 DEF FormsInv, KeptIsCurrent, Newer, Settled, Written
<1>9. Past'
  BY <1>1, <1>3, <1>4 DEF FormsInv, Past, Old, Blank
<1> QED BY <1>5, <1>6, <1>7, <1>8, <1>9 DEF FormsInv

LEMMA ReloadArrivesKeeps ==
  ASSUME FormsAssumption, FormsInv, UNCHANGED formsLimit, NEW q \in Query, ReloadArrives(q)
  PROVE  FormsInv'
<1> DEFINE c == [r \in Record |-> IF r \in Fills(q) THEN [of |-> r, val |-> reload[q].data[r]] ELSE kept[r]]
           refilled == [form EXCEPT !.values = c[form.key].val, !.from = c[form.key].of, !.typed = {}]
<1>1. /\ reload[q].stage = "served" /\ kept' = c /\ form' = Refilled(c)
      /\ reload' = [reload EXCEPT ![q] = NotLoading]
      /\ loose' = IF reload[q].missed = {} THEN loose \ Fills(q) ELSE loose \cup reload[q].missed
      /\ UNCHANGED <<kind, columns, sel, save, mine, clock, saves, losses, formsLimit>>
  BY DEF ReloadArrives
<1>2. /\ reload \in [Query -> LoadRecord] /\ reload[q] \in LoadRecord
      /\ reload[q].data \in [Fills(q) -> Values] /\ reload[q].missed \in SUBSET Record
      /\ kept \in [Record -> [of : Record, val : Values]] /\ loose \subseteq Record
      /\ form \in FormRecord /\ (form.open <=> form.key \in Record) /\ kind \in FormKind
      /\ \A r \in Fills(q) : r \in Record
  BY <1>1, FormsFills DEF FormsInv, FormsTyped, LoadRecord
<1>3. /\ c \in [Record -> [of : Record, val : Values]]
      /\ \A r \in Record : r \in Fills(q) => c[r].of = r /\ c[r].val = reload[q].data[r]
      /\ \A r \in Record : r \notin Fills(q) => c[r] = kept[r]
  BY <1>2
<1> HIDE DEF c
<1>4. ASSUME form.open
      PROVE  /\ refilled \in FormRecord /\ refilled.open /\ refilled.key = form.key
             /\ refilled.from = c[form.key].of /\ refilled.values = c[form.key].val
             /\ refilled.typed = {} /\ refilled.early = form.early
  <2> DEFINE w == c[form.key].val
             k == c[form.key].of
             none == {}
  <2>1. w \in Values /\ k \in Record \cup {NoRecord} /\ none \in SUBSET Input
    BY <1>2, <1>3, <1>4
  <2>3. none = {}
    OBVIOUS
  <2> DEFINE d == [form EXCEPT !.values = w]
             e == [d EXCEPT !.from = k]
  <2>4. refilled = [e EXCEPT !.typed = none]
    OBVIOUS
  <2> HIDE DEF w, k, none, refilled
  <2>5. /\ d \in FormRecord /\ d.open = form.open /\ d.key = form.key /\ d.early = form.early
        /\ d.values = w
    BY <1>2, <2>1 DEF FormRecord
  <2> HIDE DEF d
  <2>6. /\ e \in FormRecord /\ e.open = form.open /\ e.key = form.key /\ e.early = form.early
        /\ e.values = w /\ e.from = k
    BY <2>1, <2>5 DEF FormRecord
  <2> HIDE DEF e
  <2>7. /\ refilled \in FormRecord /\ refilled.open = form.open /\ refilled.key = form.key
        /\ refilled.early = form.early /\ refilled.values = w /\ refilled.from = k
        /\ refilled.typed = none
    BY <2>1, <2>4, <2>6 DEF FormRecord
  <2> QED BY <1>4, <2>3, <2>7 DEF w, k
<1>5. \/ form' = form /\ (form.open /\ ~Keeps => c[form.key] = kept[form.key])
      \/ form' = refilled /\ form.open /\ ~Keeps
  BY <1>1, <1>2 DEF Refilled, Follows, Keeps, FormKind
<1> HIDE DEF refilled
<1>6. /\ form' \in FormRecord /\ form'.open = form.open /\ form'.key = form.key /\ form'.early = form.early
      /\ form'.open /\ ~Keeps => form'.from = c[form.key].of
                                 /\ \A f \in Input \ form'.typed : form'.values[f] = c[form.key].val[f]
  <2>1. CASE form' = form /\ (form.open /\ ~Keeps => c[form.key] = kept[form.key])
    BY <2>1, <1>2 DEF FormsInv, FormKeys, FormFollows
  <2>2. CASE form' = refilled /\ form.open /\ ~Keeps
    BY <2>2, <1>4
  <2> QED BY <1>5, <2>1, <2>2
<1>7. reload' \in [Query -> LoadRecord] /\ \A p \in Query : reload'[p] = IF p = q THEN NotLoading ELSE reload[p]
  BY <1>1, <1>2, FormsRecords
<1>8. FormsTyped'
  <2>1. loose' \subseteq Record
    BY <1>1, <1>2
  <2>2. \A p \in Query : reload'[p].stage = "served" => reload'[p].data \in [Fills(p) -> Values]
    BY <1>7, FormsRecords DEF FormsInv, FormsTyped
  <2>3. form'.open <=> form'.key \in Record
    BY <1>2, <1>6
  <2> QED BY <1>1, <1>3, <1>6, <1>7, <2>1, <2>2, <2>3 DEF FormsInv, FormsTyped
<1>9. FormKeys'
  <2>1. kind # "job" => \A r \in Record : c[r].of = r
    BY <1>3 DEF FormsInv, FormKeys
  <2>2. form'.open => form'.from = c[form'.key].of
    <3>1. CASE Keeps
      BY <3>1, <2>1, <1>2, <1>5 DEF FormsInv, FormKeys, Keeps
    <3>2. CASE ~Keeps
      BY <3>2, <1>6
    <3> QED BY <3>1, <3>2
  <2> QED BY <1>1, <1>6, <2>1, <2>2 DEF FormsInv, FormKeys, InList
<1>10. SaveFits' /\ RowsAreNewer' /\ AnswersAreNewer' /\ OwnSavesSurvive'
  BY <1>1 DEF FormsInv, SaveFits, RowsAreNewer, AnswersAreNewer, OwnSavesSurvive, Newer
<1>11. LoadsAreNewer'
  BY <1>1, <1>7, FormsRecords DEF FormsInv, LoadsAreNewer, Newer
<1>12. KeptIsCurrent'
  <2> SUFFICES ASSUME NEW r \in Record, (Settled(r))' PROVE Newer(c[r].val, r)
    BY <1>1 DEF KeptIsCurrent, Newer
  <2>1. CASE r \in Fills(q)
    <3>1. r \notin reload[q].missed
      BY <1>1, <2>1 DEF Settled
    <3> QED BY <3>1, <1>1, <1>3, <2>1 DEF FormsInv, LoadsAreNewer
  <2>2. CASE r \notin Fills(q)
    <3>1. Source(r) \in Query /\ Source(r) # q
      BY <2>2, FormsFills DEF Source, Query
    <3>2. Settled(r)
      BY <1>1, <1>3, <1>7, <2>2, <3>1 DEF Settled, Written, Source, InList
    <3> QED BY <3>2, <1>3, <2>2 DEF FormsInv, KeptIsCurrent
  <2> QED BY <2>1, <2>2
<1>13. FormFollows'
  BY <1>1, <1>6 DEF FormFollows, Keeps
<1>14. FormIsSent' /\ FormIsNewer'
  <2>1. CASE Keeps
    BY <2>1, <1>1, <1>5 DEF FormsInv, FormIsSent, FormIsNewer, Keeps
  <2>2. CASE ~Keeps
    BY <2>2, <1>1 DEF FormIsSent, FormIsNewer, Keeps
  <2> QED BY <2>1, <2>2
<1>15. Past'
  <2>1. \A r \in Record : Old(c[r].val)
    BY <1>1, <1>3 DEF FormsInv, Past
  <2>2. Old(form'.values)
    <3>1. CASE form' = form
      BY <3>1 DEF FormsInv, Past
    <3>2. CASE form' = refilled /\ form.open
      BY <3>2, <1>4, <1>2, <2>1
    <3> QED BY <1>5, <3>1, <3>2
  <2>3. \A p \in Query : reload'[p].stage = "served" => \A r \in Fills(p) : Old(reload'[p].data[r])
    BY <1>7, FormsRecords DEF FormsInv, Past
  <2> QED BY <1>1, <2>1, <2>2, <2>3 DEF FormsInv, Past, Old
<1> QED BY <1>8, <1>9, <1>10, <1>11, <1>12, <1>13, <1>14, <1>15 DEF FormsInv

-----------------------------------------------------------------------------
\* The columns of a save are written.  Loads that were served before have missed it.
LEMMA WritesKeeps ==
  ASSUME FormsAssumption, FormsInv, UNCHANGED formsLimit, save.stage \in {"sent", "half"},
         NEW fs \in SUBSET Input, NEW stage \in {"half", "committed"}, Writes(fs, stage)
  PROVE  FormsInv'
<1> DEFINE r == save.row
           new == [f \in Input |-> IF f \in fs THEN save.values[f] ELSE columns[r][f]]
           own == [f \in Input |-> IF f \in fs THEN save.values[f] ELSE mine[r][f]]
<1>1. /\ r \in Record /\ columns \in [Record -> Values] /\ mine \in [Record -> Values]
      /\ reload \in [Query -> LoadRecord] /\ save \in SaveRecord /\ save.values \in Values
      /\ columns[r] \in Values /\ mine[r] \in Values
  BY DEF FormsInv, FormsTyped, SaveRecord
<1>2. /\ columns' = [columns EXCEPT ![r] = new]
      /\ save' = [save EXCEPT !.stage = stage, !.answer = new]
      /\ mine' = [mine EXCEPT ![r] = own]
      /\ reload' = [q \in DOMAIN reload |-> IF r \in Fills(q) /\ reload[q].stage = "served"
                                    THEN [reload[q] EXCEPT !.missed = @ \cup {r}] ELSE reload[q]]
      /\ UNCHANGED <<kind, kept, sel, form, loose, clock, saves, losses, formsLimit>>
  BY <1>1 DEF Writes
<1>3. /\ new \in Values /\ own \in Values
      /\ \A f \in Input : new[f] = (IF f \in fs THEN save.values[f] ELSE columns[r][f])
                          /\ own[f] = (IF f \in fs THEN save.values[f] ELSE mine[r][f])
  BY <1>1 DEF Values
<1> HIDE DEF new, own
<1>4. \A f \in Input : new[f] >= own[f] /\ new[f] <= clock
  BY <1>1, <1>3 DEF FormsInv, Past, Old, RowsAreNewer, Newer, Values
<1>5. /\ save' \in SaveRecord /\ save'.stage = stage /\ save'.answer = new /\ save'.row = r
      /\ save'.from = save.from /\ save'.values = save.values /\ save'.sent = save.sent
      /\ save'.typed = save.typed /\ save'.early = save.early
  <2> DEFINE d == [save EXCEPT !.stage = stage]
  <2>1. /\ d \in SaveRecord /\ d.stage = stage /\ d.row = r
        /\ d.from = save.from /\ d.values = save.values /\ d.sent = save.sent
        /\ d.typed = save.typed /\ d.early = save.early
    BY <1>1 DEF SaveRecord
  <2>2. save' = [d EXCEPT !.answer = new]
    BY <1>2
  <2> HIDE DEF d
  <2> QED BY <1>3, <2>1, <2>2 DEF SaveRecord
<1>6. /\ reload' \in [Query -> LoadRecord]
      /\ \A q \in Query : /\ reload'[q].stage = reload[q].stage /\ reload'[q].data = reload[q].data
                          /\ reload[q].missed \subseteq reload'[q].missed
                          /\ reload[q].stage = "served" /\ r \in Fills(q) => r \in reload'[q].missed
  <2>1. ASSUME NEW q \in Query, NEW l, l = [reload[q] EXCEPT !.missed = @ \cup {r}]
        PROVE  /\ l \in LoadRecord /\ l.stage = reload[q].stage /\ l.data = reload[q].data
               /\ l.missed = reload[q].missed \cup {r}
    <3> DEFINE m == reload[q].missed \cup {r}
    <3>1. reload[q] \in LoadRecord /\ m \in SUBSET Record
      BY <1>1 DEF LoadRecord
    <3>2. l = [reload[q] EXCEPT !.missed = m]
      BY <2>1
    <3> HIDE DEF m
    <3>3. l \in LoadRecord /\ l.stage = reload[q].stage /\ l.data = reload[q].data /\ l.missed = m
      BY <3>1, <3>2 DEF LoadRecord
    <3> QED BY <3>3 DEF m
  <2>2. DOMAIN reload = Query
    BY <1>1
  <2>3. \A q \in Query : reload'[q] = IF r \in Fills(q) /\ reload[q].stage = "served"
                                      THEN [reload[q] EXCEPT !.missed = @ \cup {r}] ELSE reload[q]
    BY <1>2, <2>2
  <2>4. \A q \in Query : reload'[q] \in LoadRecord
    BY <1>1, <2>1, <2>3
  <2> QED BY <1>2, <2>1, <2>2, <2>3, <2>4
<1>7. /\ columns' \in [Record -> Values] /\ mine' \in [Record -> Values]
      /\ columns'[r] = new /\ mine'[r] = own
      /\ \A k \in Record : k # r => columns'[k] = columns[k] /\ mine'[k] = mine[k]
  BY <1>1, <1>2, <1>3
<1>8. FormsTyped'
  BY <1>1, <1>2, <1>5, <1>6, <1>7 DEF FormsInv, FormsTyped
<1>9. SaveFits' /\ FormKeys' /\ FormFollows' /\ OwnSavesSurvive'
  BY <1>2, <1>5 DEF FormsInv, SaveFits, FormKeys, InList, FormFollows, Keeps, OwnSavesSurvive
<1>10. RowsAreNewer' /\ AnswersAreNewer'
  BY <1>1, <1>4, <1>5, <1>7 DEF FormsInv, RowsAreNewer, AnswersAreNewer, Newer
<1>11. LoadsAreNewer'
  <2> SUFFICES ASSUME NEW q \in Query, reload'[q].stage = "served",
                      NEW k \in Fills(q), k \notin reload'[q].missed
               PROVE  \A f \in Input : reload'[q].data[k][f] >= mine'[k][f]
    BY DEF LoadsAreNewer, Newer
  <2>1. k # r /\ k \in Record /\ k \notin reload[q].missed /\ reload[q].stage = "served"
    BY <1>6, FormsFills
  <2> QED BY <1>6, <1>7, <2>1 DEF FormsInv, LoadsAreNewer, Newer
<1>12. KeptIsCurrent'
  <2> SUFFICES ASSUME NEW k \in Record, (Settled(k))' PROVE \A f \in Input : kept[k].val[f] >= mine'[k][f]
    BY <1>2 DEF KeptIsCurrent, Newer
  <2>1. k # r
    BY <1>5 DEF Settled, Written
  <2>2. Source(k) \in Query /\ (Source(k))' = Source(k)
    BY <1>2 DEF Source, Query, InList
  <2>3. Settled(k)
    BY <1>2, <1>6, <2>1, <2>2 DEF Settled, Written
  <2> QED BY <1>7, <2>1, <2>3 DEF FormsInv, KeptIsCurrent, Newer
<1>13. FormIsSent'
  BY <1>2, <1>5 DEF FormsInv, FormIsSent, Keeps
<1>14. FormIsNewer'
  <2> SUFFICES ASSUME form.open, Keeps, ~form.early, NEW f \in Input \ form.typed
               PROVE  form.values[f] >= mine'[form.key][f]
    BY <1>2 DEF FormIsNewer, Keeps
  <2>1. r = form.key /\ save.values[f] = form.values[f]
    BY DEF FormsInv, FormIsSent
  <2>2. form.values[f] >= mine[r][f] /\ form.values[f] \in Nat
    BY <1>1, <2>1 DEF FormsInv, FormIsNewer, Values
  <2> QED BY <1>3, <1>7, <2>1, <2>2
<1>15. Past'
  BY <1>2, <1>4, <1>5, <1>6, <1>7 DEF FormsInv, Past, Old
<1> QED BY <1>8, <1>9, <1>10, <1>11, <1>12, <1>13, <1>14, <1>15 DEF FormsInv

LEMMA UpdatesKeep ==
  ASSUME FormsAssumption, FormsInv, UNCHANGED formsLimit,
         \/ UpdateJob \/ UpdateTask \/ UpdateClient \/ UpdateCompany \/ UpdateService
         \/ UpdateRole \/ UpdateWorker
  PROVE  FormsInv'
<1>1. {"text"} \in SUBSET Input /\ {"choice"} \in SUBSET Input
  BY DEF Input
<1>2. save.sent \in SUBSET Input
  BY DEF FormsInv, FormsTyped, SaveRecord
<1>3. \E fs \in SUBSET Input, stage \in {"half", "committed"} :
        save.stage \in {"sent", "half"} /\ Writes(fs, stage)
  BY <1>1, <1>2 DEF UpdateJob, UpdateTask, UpdateClient, UpdateCompany, UpdateService, UpdateRole,
     UpdateWorker, Saving
<1> QED BY <1>3, WritesKeeps

LEMMA OtherWritesKeeps ==
  ASSUME FormsAssumption, FormsInv, UNCHANGED formsLimit, NEW r \in Record, NEW f \in Input,
         OtherWrites(r, f)
  PROVE  FormsInv'
<1> DEFINE v == [columns[r] EXCEPT ![f] = clock']
<1>1. /\ columns \in [Record -> Values] /\ columns[r] \in Values /\ mine[r] \in Values
      /\ clock \in Nat /\ clock' = clock + 1
      /\ columns' = [columns EXCEPT ![r] = v]
      /\ UNCHANGED <<kind, kept, reload, sel, form, save, mine, loose, saves, losses, formsLimit>>
  BY DEF OtherWrites, Fresh, FormsInv, FormsTyped
<1>2. v \in Values /\ \A g \in Input : v[g] = IF g = f THEN clock' ELSE columns[r][g]
  BY <1>1 DEF Values
<1> HIDE DEF v
<1>3. columns' \in [Record -> Values] /\ \A k \in Record : columns'[k] = IF k = r THEN v ELSE columns[k]
  BY <1>1, <1>2
<1>4. FormsTyped'
  BY <1>1, <1>3 DEF FormsInv, FormsTyped
<1>5. SaveFits' /\ FormKeys' /\ LoadsAreNewer' /\ AnswersAreNewer' /\ OwnSavesSurvive' /\ FormFollows'
      /\ FormIsSent' /\ FormIsNewer'
  BY <1>1 DEF FormsInv, SaveFits, FormKeys, InList, LoadsAreNewer, AnswersAreNewer, OwnSavesSurvive,
     FormFollows, FormIsSent, FormIsNewer, Keeps, Newer
<1>6. KeptIsCurrent'
  BY <1>1 DEF FormsInv, KeptIsCurrent, Settled, Written, Source, InList, Newer
<1>7. RowsAreNewer'
  <2>1. \A g \in Input : mine[r][g] <= clock
    BY <1>1 DEF FormsInv, RowsAreNewer, Newer, Past, Old, Values
  <2>2. \A g \in Input : v[g] >= mine[r][g]
    BY <1>1, <1>2, <2>1 DEF FormsInv, RowsAreNewer, Newer, Values
  <2> QED BY <1>1, <1>3, <2>2 DEF FormsInv, RowsAreNewer, Newer
<1>8. Past'
  <2>1. \A g \in Input : v[g] <= clock'
    BY <1>1, <1>2 DEF FormsInv, Past, Old, Values
  <2>2. \A k \in Record : (Old(columns[k]))' /\ (Old(kept[k].val))'
    BY <1>1, <1>3, <2>1, OldStays, FormsValues DEF FormsInv, Past, Old
  <2>3. (Old(form.values))' /\ (Old(save.values))' /\ (Old(save.answer))'
    BY <1>1, OldStays, FormsValues DEF FormsInv, Past, Old
  <2>4. \A q \in Query : reload'[q].stage = "served" => \A k \in Fills(q) : (Old(reload[q].data[k]))'
    BY <1>1, OldStays, FormsValues DEF FormsInv, Past, Old
  <2> QED BY <1>1, <2>2, <2>3, <2>4 DEF Past
<1> QED BY <1>4, <1>5, <1>6, <1>7, <1>8 DEF FormsInv

-----------------------------------------------------------------------------
\* Answers.  The mutation ends, and the dialog with it or not.
LEMMA AnswerJobKeeps ==
  ASSUME FormsAssumption, FormsInv, UNCHANGED formsLimit, AnswerJob
  PROVE  FormsInv'
<1> DEFINE key == kept[sel].of
           r == save.row
           new == [of |-> r, val |-> save.answer]
           l == [reload[key] EXCEPT !.failed = FALSE]
<1>1. /\ kind = "job" /\ save.stage = "committed" /\ form' = NoDialog /\ save' = NoSave
      /\ kept' = [kept EXCEPT ![key] = new]
      /\ loose' = IF key = r THEN loose \ {key} ELSE loose \cup {r}
      /\ reload' = [reload EXCEPT ![key].failed = FALSE]
      /\ UNCHANGED <<columns, kind, sel, mine, clock, saves, losses, formsLimit>>
  BY DEF AnswerJob, Saving, JobWritten
<1>2. /\ key \in Record /\ r \in Record /\ key \in Query /\ save.answer \in Values
      /\ kept \in [Record -> [of : Record, val : Values]] /\ reload \in [Query -> LoadRecord]
      /\ reload[key] \in LoadRecord /\ loose \subseteq Record /\ clock \in Nat
  BY <1>1 DEF FormsInv, FormsTyped, SaveRecord, Query
<1>3. new \in [of : Record, val : Values] /\ new.of = r /\ new.val = save.answer
  BY <1>2
<1>4. reload' = [reload EXCEPT ![key] = l]
  BY <1>1, <1>2
<1>5. /\ l \in LoadRecord /\ l.stage = reload[key].stage /\ l.data = reload[key].data
      /\ l.missed = reload[key].missed
  BY <1>2 DEF LoadRecord
<1> HIDE DEF new, l, key
<1>6. /\ kept' \in [Record -> [of : Record, val : Values]]
      /\ \A k \in Record : kept'[k] = IF k = key THEN new ELSE kept[k]
  BY <1>1, <1>2, <1>3
<1>7. /\ reload' \in [Query -> LoadRecord]
      /\ \A q \in Query : /\ reload'[q].stage = reload[q].stage /\ reload'[q].data = reload[q].data
                          /\ reload'[q].missed = reload[q].missed
  BY <1>2, <1>4, <1>5
<1>8. /\ form' \in FormRecord /\ ~form'.open /\ form'.key \notin Record /\ form'.values = Blank
      /\ save' \in SaveRecord /\ save'.stage = "none" /\ save'.typed \subseteq save'.sent
      /\ save'.values = Blank /\ save'.answer = Blank
  BY <1>1, FormsRecords DEF FormsAssumption
<1>9. FormsTyped'
  <2>1. loose' \subseteq Record
    BY <1>1, <1>2
  <2> QED BY <1>1, <1>6, <1>7, <1>8, <2>1 DEF FormsInv, FormsTyped
<1>10. SaveFits' /\ FormKeys' /\ RowsAreNewer' /\ AnswersAreNewer' /\ FormFollows' /\ FormIsSent'
       /\ FormIsNewer' /\ OwnSavesSurvive'
  BY <1>1, <1>8 DEF FormsInv, SaveFits, FormKeys, RowsAreNewer, AnswersAreNewer, FormFollows, FormIsSent,
     FormIsNewer, OwnSavesSurvive, Newer
<1>11. LoadsAreNewer'
  BY <1>1, <1>7 DEF FormsInv, LoadsAreNewer, Newer
<1>12. KeptIsCurrent'
  <2> SUFFICES ASSUME NEW k \in Record, (Settled(k))' PROVE Newer(kept'[k].val, k)
    BY <1>1 DEF KeptIsCurrent, Newer
  <2>1. k \notin loose' /\ kept'[k].of = k
    BY DEF Settled
  <2>2. CASE k = key
    <3>1. k = r
      BY <2>1, <2>2, <1>3, <1>6
    <3> QED BY <3>1, <2>2, <1>1, <1>3, <1>6 DEF FormsInv, AnswersAreNewer
  <2>3. CASE k # key
    <3>1. k # r
      BY <2>1, <2>3, <1>1
    <3>2. Settled(k)
      BY <2>1, <2>3, <3>1, <1>1, <1>6 DEF Settled, Written
    <3> QED BY <3>2, <2>3, <1>6 DEF FormsInv, KeptIsCurrent
  <2> QED BY <2>2, <2>3
<1>13. Past'
  <2>1. Old(new.val)
    BY <1>3 DEF FormsInv, Past
  <2> QED BY <1>1, <1>2, <1>6, <1>7, <1>8, <2>1 DEF FormsInv, Past, Old, Blank
<1> QED BY <1>9, <1>10, <1>11, <1>12, <1>13 DEF FormsInv

\* The others' answers start a load of what was written.
LEMMA ReloadedKeeps ==
  ASSUME FormsAssumption, FormsInv, kind # "job", save.stage = "committed",
         UNCHANGED <<kind, columns, kept, sel, mine, loose, clock, saves, losses, formsLimit>>,
         Reloads, form' = form \/ form' = NoDialog,
         \/ save' = NoSave /\ (form'.open => ~Keeps)
         \/ save' = [save EXCEPT !.stage = "reloading"]
  PROVE  FormsInv'
<1> DEFINE r == save.row
           q == Mounted
<1>1. r \in Record /\ q \in Query /\ reload \in [Query -> LoadRecord] /\ save \in SaveRecord
      /\ form \in FormRecord /\ clock \in Nat
  BY DEF FormsInv, FormsTyped, Mounted, Source, Query
<1>2. Source(r) = q
  BY DEF FormsInv, FormsTyped, FormKeys, Mounted, Source, InList, FormKind
<1>3. /\ reload' \in [Query -> LoadRecord]
      /\ reload'[q].stage = "sent" /\ \A p \in Query : p # q => reload'[p] = reload[p]
  BY <1>1, FormsRecords DEF Reloads
<1>4. /\ form' \in FormRecord /\ (form'.open <=> form'.key \in Record)
      /\ form'.open => form' = form
      /\ form'.values = form.values \/ form'.values = Blank
  BY <1>1, FormsRecords DEF FormsInv, FormsTyped, FormsAssumption
<1>5. /\ save' \in SaveRecord /\ save'.stage \in {"none", "reloading"} /\ save'.typed \subseteq save'.sent
      /\ save'.stage # "none" => save'.row = r /\ save'.from = save.from /\ save'.values = save.values
      /\ save'.values = save.values \/ save'.values = Blank
      /\ save'.answer = save.answer \/ save'.answer = Blank
      /\ save'.stage = "none" /\ form'.open => ~Keeps
  <2>1. CASE save' = NoSave /\ (form'.open => ~Keeps)
    BY <2>1, <1>4, FormsRecords
  <2>2. CASE save' = [save EXCEPT !.stage = "reloading"]
    <3>1. /\ save' \in SaveRecord /\ save'.stage = "reloading" /\ save'.row = r /\ save'.from = save.from
          /\ save'.values = save.values /\ save'.answer = save.answer /\ save'.typed = save.typed
          /\ save'.sent = save.sent
      BY <1>1, <2>2 DEF SaveRecord
    <3> QED BY <3>1 DEF FormsInv, FormsTyped
  <2> QED BY <2>1, <2>2
<1> HIDE DEF q, r
<1>6. r = save.row
  BY DEF r
<1>7. FormsTyped'
  <2>1. \A p \in Query : reload'[p].stage = "served" => reload'[p].data \in [Fills(p) -> Values]
    BY <1>3 DEF FormsInv, FormsTyped
  <2> QED BY <1>1, <1>3, <1>4, <1>5, <2>1 DEF FormsInv, FormsTyped
<1>8. SaveFits' /\ FormKeys' /\ FormFollows' /\ RowsAreNewer' /\ AnswersAreNewer' /\ OwnSavesSurvive'
  BY <1>4, <1>5, <1>6 DEF FormsInv, SaveFits, FormKeys, InList, FormFollows, Keeps, RowsAreNewer,
     AnswersAreNewer, OwnSavesSurvive, Newer
<1>9. FormIsSent' /\ FormIsNewer'
  BY <1>4, <1>5, <1>6 DEF FormsInv, FormIsSent, FormIsNewer, Keeps
<1>10. LoadsAreNewer'
  BY <1>3 DEF FormsInv, LoadsAreNewer, Newer
<1>11. KeptIsCurrent'
  <2> SUFFICES ASSUME NEW k \in Record, (Settled(k))' PROVE Newer(kept[k].val, k)
    BY DEF KeptIsCurrent, Newer
  <2>1. Source(k) \in Query /\ (Source(k))' = Source(k)
    BY DEF Source, Query, InList
  <2>2. Source(k) # q
    BY <1>3, <2>1 DEF Settled
  <2>3. Settled(k)
    BY <1>2, <1>3, <1>6, <2>1, <2>2 DEF Settled, Written
  <2> QED BY <2>3 DEF FormsInv, KeptIsCurrent
<1>12. Past'
  <2>1. Old(Blank)
    BY <1>1 DEF Old, Blank
  <2> QED BY <1>3, <1>4, <1>5, <2>1 DEF FormsInv, Past, Old
<1> QED BY <1>7, <1>8, <1>9, <1>10, <1>11, <1>12 DEF FormsInv

LEMMA ServiceEndsKeeps ==
  ASSUME FormsAssumption, FormsInv, UNCHANGED formsLimit, ServiceEnds
  PROVE  FormsInv'
<1>1. /\ save.stage = "reloading" /\ save' = NoSave /\ form' \in {form, NoDialog}
      /\ UNCHANGED <<kind, columns, kept, reload, sel, mine, loose, clock, saves, losses, formsLimit>>
  BY DEF ServiceEnds
<1>2. /\ form' \in FormRecord /\ (form'.open <=> form'.key \in Record)
      /\ form'.open => form' = form
      /\ form'.values = form.values \/ form'.values = Blank
  BY <1>1, FormsRecords DEF FormsInv, FormsTyped, FormsAssumption
<1>3. FormsTyped'
  BY <1>1, <1>2, FormsRecords DEF FormsInv, FormsTyped
<1>4. SaveFits' /\ FormKeys' /\ FormFollows' /\ RowsAreNewer' /\ AnswersAreNewer' /\ OwnSavesSurvive'
  BY <1>1, <1>2, FormsRecords DEF FormsInv, SaveFits, FormKeys, InList, FormFollows, Keeps, RowsAreNewer,
     AnswersAreNewer, OwnSavesSurvive, Newer
<1>5. FormIsSent' /\ FormIsNewer' /\ LoadsAreNewer'
  BY <1>1, <1>2, FormsRecords DEF FormsInv, FormIsSent, FormIsNewer, LoadsAreNewer, Keeps, Newer
<1>6. KeptIsCurrent'
  BY <1>1, FormsRecords DEF FormsInv, KeptIsCurrent, Settled, Written, Source, InList, Newer
<1>7. Past'
  <2>1. Old(Blank)
    BY DEF Old, Blank, FormsInv, FormsTyped
  <2> QED BY <1>1, <1>2, <2>1, FormsRecords DEF FormsInv, Past, Old
<1> QED BY <1>3, <1>4, <1>5, <1>6, <1>7 DEF FormsInv

LEMMA AnswersKeep ==
  ASSUME FormsAssumption, FormsInv, UNCHANGED formsLimit,
         \/ AnswerTask \/ AnswerClient \/ AnswerWorker \/ AnswerCompany \/ AnswerService
  PROVE  FormsInv'
<1>1. CASE AnswerTask \/ AnswerClient \/ AnswerWorker
  <2>1. kind # "job" /\ Answers(FALSE)
    BY <1>1 DEF AnswerTask, AnswerClient, AnswerWorker
  <2>2. form' = NoDialog /\ ~form'.open
    BY <2>1, FormsRecords DEF Answers
  <2> QED BY <2>1, <2>2, ReloadedKeeps DEF Answers
<1>2. CASE AnswerCompany
  <2>1. kind = "company" /\ kind # "job" /\ ~Keeps /\ Answers(TRUE)
    BY <1>2 DEF AnswerCompany, Keeps
  <2> QED BY <2>1, ReloadedKeeps DEF Answers
<1>3. CASE AnswerService
  <2>1. kind # "job"
    BY <1>3 DEF AnswerService, Saving
  <2> QED BY <1>3, <2>1, ReloadedKeeps DEF AnswerService, Saving
<1> QED BY <1>1, <1>2, <1>3

-----------------------------------------------------------------------------
LEMMA FormsRest ==
  ASSUME FormsAssumption, FormsInv, UNCHANGED formsVars
  PROVE  FormsInv'
<1>1. UNCHANGED <<kind, columns, kept, reload, sel, form, save, mine, loose, clock, saves, losses, formsLimit>>
  BY DEF formsVars
<1>2. form \in FormRecord /\ (form.open <=> form.key \in Record) /\ clock \in Nat
  BY DEF FormsInv, FormsTyped
<1>3. FormKeys' /\ FormFollows' /\ FormIsSent' /\ FormIsNewer' /\ (Old(form.values))'
  BY <1>1 DEF FormsInv, FormKeys, InList, FormFollows, FormIsSent, FormIsNewer, Keeps, Past, Old
<1> QED BY <1>1, <1>2, <1>3, DialogKeeps

LEMMA FormsKeeps == FormsAssumption /\ FormsInv /\ [FormsNext]_formsVars => FormsInv'
<1> SUFFICES ASSUME FormsAssumption, FormsInv, [FormsNext]_formsVars PROVE FormsInv'
  OBVIOUS
<1>1. CASE UNCHANGED formsVars
  BY <1>1, FormsRest
<1>2. CASE FormsNext
  <2>0. UNCHANGED formsLimit /\ sel \in Record
    BY <1>2 DEF FormsNext, FormsInv, FormsTyped
  <2>1. CASE OpenJob \/ OpenClient
    BY <2>0, <2>1, OpensKeeps DEF OpenJob, OpenClient
  <2>2. CASE CloseDialog
    BY <2>0, <2>2, CloseDialogKeeps
  <2>3. ASSUME NEW r \in Record, OpenTask(r) \/ OpenWorker(r) \/ OpenService(r) PROVE FormsInv'
    <3>1. InList /\ Opens(r)
      BY <2>3 DEF OpenTask, OpenWorker, OpenService, InList
    <3> QED BY <2>0, <3>1, OpensKeeps
  <2>4. ASSUME NEW r \in Record, Select(r) \/ Toggle(r) PROVE FormsInv'
    BY <2>0, <2>4, SelectKeeps, ToggleKeeps
  <2>5. ASSUME NEW f \in Input, Type(f) PROVE FormsInv'
    BY <2>0, <2>5, TypeKeeps
  <2>6. CASE SubmitJob \/ SubmitTask \/ SubmitClient \/ SubmitCompany \/ SubmitWorker \/ SubmitService
    BY <2>0, <2>6, SubmitJobKeeps, SubmitFollowsKeeps, SubmitKeptKeeps
  <2>7. ASSUME NEW q \in Query, Served(q) \/ ReloadArrives(q) \/ ReloadFails(q) PROVE FormsInv'
    BY <2>0, <2>7, ServedKeeps, ReloadArrivesKeeps, ReloadFailsKeeps
  <2>8. CASE Retry
    BY <2>0, <2>8, RetryKeeps
  <2>9. CASE \/ UpdateJob \/ UpdateTask \/ UpdateClient \/ UpdateCompany \/ UpdateService
             \/ UpdateRole \/ UpdateWorker
    BY <2>0, <2>9, UpdatesKeep
  <2>10. CASE RefuseSave
    BY <2>0, <2>10, RefuseSaveKeeps
  <2>11. ASSUME NEW r \in Record, NEW f \in Input, OtherWrites(r, f) PROVE FormsInv'
    BY <2>0, <2>11, OtherWritesKeeps
  <2>12. CASE AnswerJob
    BY <2>0, <2>12, AnswerJobKeeps
  <2>13. CASE AnswerTask \/ AnswerClient \/ AnswerWorker \/ AnswerCompany \/ AnswerService
    BY <2>0, <2>13, AnswersKeep
  <2>14. CASE ServiceEnds \/ Fails
    BY <2>0, <2>14, ServiceEndsKeeps, FailsKeeps
  <2> QED BY <1>2, <2>1, <2>2, <2>3, <2>4, <2>5, <2>6, <2>7, <2>8, <2>9, <2>10, <2>11, <2>12, <2>13, <2>14
          DEF FormsNext, FormsStep, Query
<1> QED BY <1>1, <1>2

LEMMA FormsInvariant == FormsAssumption => (FormsSpec => []FormsInv)
<1> SUFFICES ASSUME FormsAssumption PROVE FormsSpec => []FormsInv
  OBVIOUS
<1>1. FormsInit => FormsInv
  BY FormsStarts
<1>2. FormsInv /\ [FormsNext]_formsVars => FormsInv'
  BY FormsKeeps
<1> QED BY <1>1, <1>2, PTL DEF FormsSpec

\* A dialog that is open is of a row, a save is of a row and sends what was typed, and a load
\* is idle, sent or served: for any rows and fields, and for each of the dialogs.
THEOREM FormsTypeCorrect == FormsAssumption => (FormsSpec => []FormsTypeOK)
<1> SUFFICES ASSUME FormsAssumption PROVE FormsSpec => []FormsTypeOK
  OBVIOUS
<1>1. FormsInv => FormsTypeOK
  <2> SUFFICES ASSUME FormsInv PROVE FormsTypeOK
    OBVIOUS
  <2>1. \A q \in Record \cup {"list"} : reload[q].stage \in {"idle", "sent", "served"}
    BY DEF FormsInv, FormsTyped, LoadRecord, Query
  <2>2. form.typed \subseteq Input /\ form.values \in [Input -> Nat]
    BY DEF FormsInv, FormsTyped, FormRecord, Values
  <2>3. /\ save.stage \in {"none", "sent", "half", "committed", "refused", "reloading"}
        /\ save.typed \subseteq save.sent /\ save.sent \subseteq Input
    BY DEF FormsInv, FormsTyped, SaveRecord
  <2> QED BY <2>1, <2>2, <2>3 DEF FormsInv, FormsTyped, FormsTypeOK, Values
<1> QED BY <1>1, FormsInvariant, PTL

\* A save puts nothing back that is older than what the same user has last saved there,
\* whatever was loaded, answered, selected or written by others meanwhile (EditJobDialog.tsx
\* and its like), but for what the model knows to be early or behind.
THEOREM OwnSavesCorrect == FormsAssumption => (FormsSpec => []OwnSavesSurvive)
<1> SUFFICES ASSUME FormsAssumption PROVE FormsSpec => []OwnSavesSurvive
  OBVIOUS
<1>1. FormsInv => OwnSavesSurvive
  BY DEF FormsInv
<1> QED BY <1>1, FormsInvariant, PTL

\* A save goes to the row its values were filled from (EditJobDialog.tsx, ServiceAdminPage.tsx,
\* WorkersSettingsPage.tsx), whichever row is selected when it is sent or answered.
THEOREM SavesFitCorrect == FormsAssumption => (FormsSpec => []SavesFitTheirRow)
<1> SUFFICES ASSUME FormsAssumption PROVE FormsSpec => []SavesFitTheirRow
  OBVIOUS
<1>1. FormsInv => SavesFitTheirRow
  BY DEF FormsInv, SaveFits, SavesFitTheirRow
<1> QED BY <1>1, FormsInvariant, PTL
=============================================================================
