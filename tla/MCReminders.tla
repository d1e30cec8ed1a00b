----------------------------- MODULE MCReminders -----------------------------
EXTENDS Reminders
\* One kind of reminder: nothing in the code relates the entries of two kinds,
\* which are queued, removed and sent alike.
OneKind == <<"r1h">>
Offsets == [r1h |-> 1]
=============================================================================
