---------------------------- MODULE TokenBudget -----------------------------
(***************************************************************************)
(* What the rate limiter promises, with no buckets, locks or sweeps: every *)
(* client owns a credit, counted in units of 1/Minute of a token, that     *)
(* grows by at most RequestsPerMinute units per tick and never exceeds one *)
(* unit less than BurstSize + 1 tokens; an admission costs one token.      *)
(* Credit may be forfeited at any time, so a limiter that is stricter than *)
(* the budget still implements it.                                         *)
(***************************************************************************)
EXTENDS Window

VARIABLES credit,   \* credit[c]: what client c may still spend
          audit     \* the observation window over Audited

vars == <<credit, audit>>

Limit == (BurstSize + 1) * Minute - 1

TypeOK ==
  /\ credit \in [Clients -> 0 .. Limit]
  /\ audit \in WindowType

Init ==
  /\ credit = [c \in Clients |-> BurstSize * Minute]
  /\ audit = Closed

\* One admission costs at least one whole token.
Admit(c) ==
  /\ credit[c] >= Minute
  /\ \E left \in 0 .. credit[c] - Minute :
       credit' = [credit EXCEPT ![c] = left]
  /\ audit' = IF c = Audited THEN Counted(audit) ELSE audit

\* The clock advances: no client earns more than the configured rate.
Tick ==
  /\ credit' \in [Clients -> 0 .. Limit]
  /\ \A c \in Clients : credit'[c] <= credit[c] + RequestsPerMinute
  /\ audit' = Lengthened(audit)

\* Credit is dropped without an admission.
Forfeit ==
  /\ credit' \in [Clients -> 0 .. Limit]
  /\ \A c \in Clients : credit'[c] <= credit[c]
  /\ UNCHANGED audit

OpenWindow ==
  /\ MaxWindow > 0
  /\ ~audit.open
  /\ audit' = Opened
  /\ UNCHANGED credit

Next ==
  \/ \E c \in Clients : Admit(c)
  \/ Tick
  \/ Forfeit
  \/ OpenWindow

Spec == Init /\ [][Next]_vars

-----------------------------------------------------------------------------

(***************************************************************************)
(* However the admissions are spread, in any stretch of length ticks the   *)
(* observed client is admitted fewer than BurstSize + 1 times plus what    *)
(* the rate earns in that stretch (both sides multiplied by Minute): the   *)
(* promise behind TokenBucket.consume's refill and cap.                    *)
(***************************************************************************)
WindowBound ==
  audit.open =>
    Minute * audit.admitted
      < Minute * (BurstSize + 1) + RequestsPerMinute * audit.length
=============================================================================
