------------------------------ MODULE MCUpkeep ------------------------------
(* Four parts that share no state, checked side by side: a behaviour is one  *)
(* of one part, and the others stand still in it.  The calendar has nothing  *)
(* to do but to be one of many; the others take their steps.                 *)
EXTENDS NightCalendar, PastofiStore, PastofiReconcile, CollectionWatch

VARIABLES
    part,   \* the part this behaviour is about
    cal     \* the calendar

(* Eight days with a late one, up to two holidays, an ex-dividend date or    *)
(* none, and the coins of the week days.                                     *)
LastDay == 7
WeekDays == {d \in 0..LastDay : (d % 7) < 5}
LateDay == [open |-> 10 * Hour, close |-> 16 * Hour + 30 * Minute]
CalendarOf(off, ex, heads) ==
    [last |-> LastDay, holidays |-> off, special |-> [d \in {3} |-> LateDay],
     exDays |-> ex, requireEx |-> LastDay - 1,
     coin |-> [d \in 0..LastDay |-> IF d \in heads THEN 1 ELSE 0]]
Plain == CalendarOf({}, {}, {})

Init ==
    /\ StoreInit /\ ReconcileInit /\ WatchInit
    /\ \/ part \in {"store", "reconcile", "watch"} /\ cal = Plain
       \/ /\ part = "calendar"
          /\ \E off \in SUBSET WeekDays, ex \in {{}, {3}}, heads \in SUBSET WeekDays :
               Cardinality(off) <= 2 /\ cal = CalendarOf(off, ex, heads)

Next ==
    /\ UNCHANGED <<part, cal>>
    /\ \/ part = "store" /\ StoreNext /\ UNCHANGED <<reconcileVars, watchVars>>
       \/ part = "reconcile" /\ ReconcileNext /\ UNCHANGED <<storeVars, watchVars>>
       \/ part = "watch" /\ WatchNext /\ UNCHANGED <<storeVars, reconcileVars>>

\* spec.py: the timetable tries both methods equally often, whatever is
\* skipped, and lets no order time come before the one it follows.
Timetable == part = "calendar" => MethodsBalance(cal) /\ TimesInOrder(cal)
=============================================================================
