--------------------------- MODULE ExecutionBook ---------------------------
(***************************************************************************)
(* What an order management system promises, whatever is delivered to it:  *)
(* every execution is booked at most once and against one working order,   *)
(* an order never books more than it asked for, an order that was          *)
(* completed or withdrawn never works again, and a replacement starts      *)
(* working in the very step that withdraws the order it replaces.  OMS.tla *)
(* implements this module; restarts, rejected fills, timeouts and broker   *)
(* acknowledgements are its stuttering steps.                              *)
(***************************************************************************)
EXTENDS Integers

CONSTANTS
  BookOrders,     \* the orders
  BookIdentities, \* what executions are told apart by
  Asked           \* the quantity each order asks for

VARIABLES
  phase,    \* "idle", "working", "complete" or "withdrawn", per order
  executed, \* quantity booked, per order
  booked    \* identities of the executions booked so far

bookVars == <<phase, executed, booked>>

BookInit ==
  /\ phase = [o \in BookOrders |-> "idle"]
  /\ executed = [o \in BookOrders |-> 0]
  /\ booked = {}

Place(o) ==
  /\ phase[o] = "idle"
  /\ phase' = [phase EXCEPT ![o] = "working"]
  /\ UNCHANGED <<executed, booked>>

Execute(o, q, i) ==
  /\ phase[o] = "working"
  /\ i \notin booked
  /\ executed[o] + q <= Asked[o]
  /\ executed' = [executed EXCEPT ![o] = @ + q]
  /\ booked' = booked \cup {i}
  /\ phase' = [phase EXCEPT ![o] = IF executed[o] + q = Asked[o] THEN "complete" ELSE @]

Withdraw(gone) ==
  /\ \A o \in gone : phase[o] = "working"
  /\ phase' = [o \in BookOrders |-> IF o \in gone THEN "withdrawn" ELSE phase[o]]
  /\ UNCHANGED <<executed, booked>>

Substitute(o, n) ==
  /\ phase[o] = "working" /\ phase[n] = "idle"
  /\ phase' = [phase EXCEPT ![o] = "withdrawn", ![n] = "working"]
  /\ UNCHANGED <<executed, booked>>

BookNext ==
  \/ \E o \in BookOrders : Place(o)
  \/ \E o \in BookOrders, i \in BookIdentities :
       \E q \in 1..Asked[o] : Execute(o, q, i)
  \/ \E gone \in SUBSET BookOrders : Withdraw(gone)
  \/ \E o, n \in BookOrders : Substitute(o, n)

BookSpec == BookInit /\ [][BookNext]_bookVars
=============================================================================
