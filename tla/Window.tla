------------------------------- MODULE Window -------------------------------
(***************************************************************************)
(* An observation window over the answers one client gets: it is opened at *)
(* an arbitrary moment, grows with the clock and counts admissions.  It is *)
(* a ghost: nothing in the code reads it, the properties do.               *)
(***************************************************************************)
EXTENDS LimiterConfig

CONSTANT MaxWindow     \* ticks after which an open window is abandoned

ASSUME MaxWindowAssumption == MaxWindow \in Nat

Closed == [open |-> FALSE, length |-> 0, admitted |-> 0]

Opened == [open |-> TRUE, length |-> 0, admitted |-> 0]

\* The window after one more tick of the clock.
Lengthened(w) ==
  IF ~w.open THEN w
  ELSE IF w.length = MaxWindow THEN Closed
  ELSE [w EXCEPT !.length = w.length + 1]

\* The window after one more admission of the observed client.
Counted(w) ==
  IF w.open THEN [w EXCEPT !.admitted = w.admitted + 1] ELSE w

WindowType == [open : BOOLEAN, length : Nat, admitted : Nat]
=============================================================================
