---------------------------- MODULE NightCalendar ----------------------------
(***************************************************************************)
(* The overnight strategy's calendar (src/src/overnight/spec.py): which    *)
(* days are sessions, which nights are traded, by which method, and at     *)
(* what times their orders are due.                                        *)
(*                                                                         *)
(* Days are numbered from a Monday, times are seconds from midnight of     *)
(* day 0 in Seoul, which keeps no summer time.  A calendar is a record:    *)
(*   last       the last day covered (the first is 0)                      *)
(*   holidays   week days without a session                                *)
(*   special    days with other hours, with their opening and close        *)
(*   exDays     the ex-dividend dates known                                *)
(*   requireEx  from this day on there must be some                        *)
(*   coin       the coin of every day: the hash of seed and date, modulo 2 *)
(* The other values are those of spec_v1.yaml, which v2 and v3 share.      *)
(***************************************************************************)
EXTENDS Integers, FiniteSets, Sequences, SequencesExt

Minute == 60
Hour == 60 * Minute
Day == 24 * Hour
SkipFrom == 4    \* nights.skip_if_calendar_days_gte

-----------------------------------------------------------------------------
(* Sessions.                                                               *)

Covered(cal) == 0..cal.last
IsSession(cal, d) == d \in Covered(cal) /\ (d % 7) < 5 /\ d \notin cal.holidays
Sessions(cal) == SetToSortSeq({d \in Covered(cal) : IsSession(cal, d)}, <)

Hours(cal, d) == IF d \in DOMAIN cal.special THEN cal.special[d]
                 ELSE [open |-> 9 * Hour, close |-> 15 * Hour + 30 * Minute]
OpenAt(cal, d) == Day * d + Hours(cal, d).open
CloseAt(cal, d) == Day * d + Hours(cal, d).close

-----------------------------------------------------------------------------
(* Nights.                                                                 *)

\* A night from one session to the next is skipped when it is long, around an
\* ex-dividend date, or while no such date is known.
IsSkipped(cal, d0, d1) ==
    \/ d1 - d0 >= SkipFrom
    \/ {d0, d1} \cap cal.exDays # {}
    \/ cal.exDays = {} /\ d0 >= cal.requireEx

Pairs(cal) == LET s == Sessions(cal) IN [i \in 1..Len(s) - 1 |-> <<s[i], s[i + 1]>>]
Traded(cal) == SelectSeq(Pairs(cal), LAMBDA p : ~IsSkipped(cal, p[1], p[2]))

\* Mutant of MethodOf: every night tosses its own coin.
MethodOfOwnCoin(cal, traded, i) ==
    IF (((i - 1) % 2) + cal.coin[traded[i][1]]) % 2 = 0 THEN "A" ELSE "B"
\* The i-th traded night: two in a row make a pair, whose first night tosses
\* the coin for both.
MethodOf(cal, traded, i) ==
    LET first == traded[i - ((i - 1) % 2)][1]
    IN  IF (((i - 1) % 2) + cal.coin[first]) % 2 = 0 THEN "A" ELSE "B"

\* Spec.nights; a night that is skipped has no method.
Night(cal, traded, p) ==
    [entry |-> p[1], exit |-> p[2], close |-> CloseAt(cal, p[1]), open |-> OpenAt(cal, p[2]),
     method |-> IF p \in ToSet(traded)
                THEN MethodOf(cal, traded, CHOOSE i \in DOMAIN traded : traded[i] = p)
                ELSE "none"]
NightsOf(cal) ==
    LET pairs == Pairs(cal) traded == Traded(cal)
    IN  [i \in DOMAIN pairs |-> Night(cal, traded, pairs[i])]

-----------------------------------------------------------------------------
(* Order times.                                                            *)

\* Spec.order_times as the sequence in which they come; a night of method A
\* has no limit orders.
EntryTimes(n) == (IF n.method = "B" THEN <<n.close, n.close + 90>> ELSE <<n.close>>)
                     \o <<n.close + 600>>
ExitTimes(n) == (IF n.method = "B" THEN <<n.open - 180, n.open - 30>> ELSE <<n.open - 60>>)
                    \o <<n.open - 10, n.open, n.open + 300>>
OrderTimes(n) == EntryTimes(n) \o ExitTimes(n)

-----------------------------------------------------------------------------
(* What the calendar promises.                                            *)

\* Both methods get the same number of nights, give or take one, at every
\* moment of the test, and a pair of traded nights tries each of them once,
\* whatever nights in between are skipped.
MethodsBalance(cal) ==
    LET traded == Traded(cal)
        method == [i \in DOMAIN traded |-> MethodOf(cal, traded, i)]
    IN  \A k \in DOMAIN traded :
            /\ (k % 2) = 0 => method[k - 1] # method[k]
            /\ Cardinality({i \in 1..k : method[i] = "A"})
                   - Cardinality({i \in 1..k : method[i] = "B"}) \in -1..1

\* The times of all traded nights, one night after the other, only go
\* forward.
TimesInOrder(cal) ==
    LET nights == SelectSeq(NightsOf(cal), LAMBDA n : n.method # "none")
        times == FlattenSeq([i \in DOMAIN nights |-> OrderTimes(nights[i])])
    IN  \A i \in 1..Len(times) - 1 : times[i] < times[i + 1]
=============================================================================
