---------------------------- MODULE StatusBoard -----------------------------
(***************************************************************************)
(* What services/ecosystem_monitor.go promises those who read              *)
(* GetServiceStatuses, without callers, checks, goroutines or timers: a    *)
(* board with at most one status per service.  A status arrives at once,   *)
(* is at most MaxDelay old when it does and says what the service was at   *)
(* some moment of that delay; it never leaves, and is replaced before it   *)
(* is older than MaxAge.  A newer status may give way to an older one.     *)
(***************************************************************************)
EXTENDS Integers

CONSTANTS Services,
          MaxDelay,  \* how old a status may be when it arrives
          MaxAge,    \* how old it may become
          SinceCap   \* bound of the ghost sinceOther

VARIABLES up,          \* environment: up[s], whether s is healthy now
          sinceOther,  \* ghost: ticks since up[s] last was different
          board        \* the statuses: a partial function on Services

boardVars == <<up, sinceOther, board>>

Init ==
  /\ up \in [Services -> BOOLEAN]
  /\ sinceOther = [s \in Services |-> SinceCap]
  /\ DOMAIN board = {}

\* Whether s was as the verdict h says at most a ticks ago.
Was(s, h, a) == up[s] = h \/ sinceOther[s] <= a

\* A status of s arrives.
Post(s) ==
  \E a \in 0 .. MaxDelay, h \in BOOLEAN :
    /\ Was(s, h, a)
    /\ board' = [x \in DOMAIN board \cup {s} |->
                   IF x = s THEN [healthy |-> h, age |-> a] ELSE board[x]]
    /\ UNCHANGED <<up, sinceOther>>

\* A service fails or recovers.
Turn(s) ==
  /\ up' = [up EXCEPT ![s] = ~up[s]]
  /\ sinceOther' = [sinceOther EXCEPT ![s] = 0]
  /\ UNCHANGED board

Tick ==
  /\ \A s \in DOMAIN board : board[s].age < MaxAge
  /\ board' = [s \in DOMAIN board |-> [healthy |-> board[s].healthy,
                                       age |-> board[s].age + 1]]
  /\ sinceOther' = [s \in Services |->
                      IF sinceOther[s] = SinceCap THEN SinceCap
                      ELSE sinceOther[s] + 1]
  /\ UNCHANGED up

Next == Tick \/ \E s \in Services : Post(s) \/ Turn(s)

Spec == Init /\ [][Next]_boardVars
=============================================================================
