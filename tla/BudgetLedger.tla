------------------------------ MODULE BudgetLedger ------------------------------
(***************************************************************************)
(* What a budget component promises: one book of reservations per mandate, *)
(* every operation atomic, and no reservation beyond the mandate's limit.  *)
(* BudgetEngine (threads) and BudgetStore (database sessions) are shown to *)
(* implement it.                                                           *)
(***************************************************************************)
EXTENDS Naturals, Functions

CONSTANTS Mandates, ResIds, Amounts, Limits

VARIABLES book,   \* the reservations, by id
          cap     \* the limit of each mandate: {} before it is opened, {limit} after

Free == [state |-> "FREE"]
Entry == [mandate : Mandates, amount : Amounts, state : {"RESERVED", "COMMITTED", "RELEASED"}]

Holds(entry, m, states) == entry # Free /\ entry.mandate = m /\ entry.state \in states

(* The amount of the reservations of m that are in one of the states. *)
Total(entries, m, states) ==
  SumFunction([i \in {j \in ResIds : Holds(entries[j], m, states)} |-> entries[i].amount])

Init ==
  /\ book = [i \in ResIds |-> Free]
  /\ cap = [m \in Mandates |-> {}]

Open(m, limit) ==
  /\ cap[m] = {}
  /\ cap' = [cap EXCEPT ![m] = {limit}]
  /\ UNCHANGED book

Reserve(m, i, a) ==
  /\ book[i] = Free
  /\ \E limit \in cap[m] : Total(book, m, {"RESERVED", "COMMITTED"}) + a <= limit
  /\ book' = [book EXCEPT ![i] = [mandate |-> m, amount |-> a, state |-> "RESERVED"]]
  /\ UNCHANGED cap

Settle(i, state) ==
  /\ book[i] # Free
  /\ book[i].state = "RESERVED"
  /\ book' = [book EXCEPT ![i].state = state]
  /\ UNCHANGED cap

Next ==
  \/ \E m \in Mandates, limit \in Limits : Open(m, limit)
  \/ \E m \in Mandates, i \in ResIds, a \in Amounts : Reserve(m, i, a)
  \/ \E i \in ResIds, state \in {"COMMITTED", "RELEASED"} : Settle(i, state)

Spec == Init /\ [][Next]_<<book, cap>>
=================================================================================
