------------------------------ MODULE TradeBook ------------------------------
(***************************************************************************)
(* What the trader's ledger promises, whatever threads, exchange and       *)
(* crashes do: a signal is accepted at most once and only while trading is *)
(* not halted, a symbol has at most one live trade, a live trade is        *)
(* dropped before it is held or booked after, exactly once, and the        *)
(* booking that takes the sum to the stop line halts trading.              *)
(***************************************************************************)
EXTENDS Integers

CONSTANTS Sym, Eps, StopLine, Results

VARIABLES
    stage,     \* the stage of every signal of every symbol
    sum,       \* the sum of the results booked
    stopped    \* trading is halted

Stages == {"unseen", "pending", "held", "booked", "dropped"}
IsLive(st) == st \in {"pending", "held"}
TypeOK == /\ stage \in [Sym -> [Eps -> Stages]]
          /\ sum \in Int /\ stopped \in BOOLEAN

Init == /\ stage = [s \in Sym |-> [ep \in Eps |-> "unseen"]]
        /\ sum = 0 /\ stopped = FALSE

\* A signal is taken or passed over.
Accept(s, ep) ==
    /\ ~stopped /\ stage[s][ep] = "unseen"
    /\ \A other \in Eps : ~IsLive(stage[s][other])
    /\ stage' = [stage EXCEPT ![s][ep] = "pending"]
    /\ UNCHANGED <<sum, stopped>>
Skip(s, ep) ==
    /\ stage[s][ep] = "unseen"
    /\ stage' = [stage EXCEPT ![s][ep] = "dropped"]
    /\ UNCHANGED <<sum, stopped>>

\* Pending trades turn out to be held or never opened; a restart finds out
\* about several at once.
Outcomes(st) == IF st = "pending" THEN {"pending", "held", "dropped"} ELSE {st}
Settled(t) == \A s \in Sym, ep \in Eps : t[s][ep] \in Outcomes(stage[s][ep])
Settle == /\ stage' \in [Sym -> [Eps -> Stages]] /\ Settled(stage')
          /\ UNCHANGED <<sum, stopped>>

\* A held trade is booked.
Close(s, ep) ==
    /\ stage[s][ep] = "held" /\ stage'[s][ep] = "booked"
    /\ stage' \in [Sym -> [Eps -> Stages]]
    /\ Settled([stage' EXCEPT ![s][ep] = "held"])
    /\ \E net \in Results : sum' = sum + net
    /\ stopped' = (stopped \/ sum' <= -StopLine)

\* The operator lifts the halt.
Resume == /\ stopped' = FALSE /\ sum' \in {sum, 0}
          /\ UNCHANGED stage

Next == \/ \E s \in Sym, ep \in Eps : Accept(s, ep) \/ Skip(s, ep) \/ Close(s, ep)
        \/ Settle \/ Resume
Spec == Init /\ [][Next]_<<stage, sum, stopped>>
=============================================================================
