------------------------- MODULE TokenBudgetProofs --------------------------
(***************************************************************************)
(* TokenBudget keeps its window bound for every burst size, rate, number   *)
(* of ticks per minute and set of clients.                                 *)
(***************************************************************************)
EXTENDS TokenBudget, TLAPS

\* What the window has spent, plus what is left, never exceeds one full
\* credit plus what the rate has earned since the window was opened.
Spending ==
  audit.open =>
    Minute * audit.admitted + credit[Audited]
      <= Limit + RequestsPerMinute * audit.length

BudgetInv == TypeOK /\ Spending

\* The limit is a natural number that holds a full burst.
LEMMA LimitFacts == Limit \in Nat /\ BurstSize * Minute \in 0 .. Limit
<1>1. BurstSize * Minute \in Nat
  BY BudgetAssumption
<1>2. (BurstSize + 1) * Minute = BurstSize * Minute + Minute
  BY BudgetAssumption
<1> QED
  BY <1>1, <1>2, BudgetAssumption DEF Limit

\* The window operators keep the window's type.
LEMMA WindowOps ==
  ASSUME NEW w \in WindowType
  PROVE  /\ Closed \in WindowType /\ Opened \in WindowType
         /\ Lengthened(w) \in WindowType
         /\ Counted(w) \in WindowType
BY MaxWindowAssumption DEF WindowType, Closed, Opened, Lengthened, Counted

LEMMA BudgetInitial == Init => BudgetInv
BY LimitFacts, BudgetAssumption
   DEF Init, BudgetInv, TypeOK, Spending, Closed, WindowType

LEMMA BudgetStep == BudgetInv /\ [Next]_vars => BudgetInv'
<1> SUFFICES ASSUME BudgetInv, [Next]_vars PROVE BudgetInv'
  OBVIOUS
<1> USE DEF BudgetInv, TypeOK
<1>1. CASE \E c \in Clients : Admit(c)
  <2>1. PICK c \in Clients : Admit(c)
    BY <1>1
  <2>2. PICK left \in 0 .. credit[c] - Minute :
          credit' = [credit EXCEPT ![c] = left]
    BY <2>1 DEF Admit
  <2>3. credit[c] \in 0 .. Limit /\ credit[Audited] \in 0 .. Limit
    BY BudgetAssumption
  <2>4. TypeOK'
    BY <2>1, <2>2, <2>3, WindowOps, LimitFacts, BudgetAssumption DEF Admit
  <2>5. CASE c = Audited
    <3>1. CASE audit.open
      <4>1. audit'.admitted = audit.admitted + 1 /\ audit'.length = audit.length
        BY <2>1, <2>5, <3>1 DEF Admit, Counted, WindowType
      <4>2. Minute * (audit.admitted + 1) = Minute * audit.admitted + Minute
        BY BudgetAssumption DEF WindowType
      <4>3. credit'[Audited] + Minute <= credit[Audited]
        BY <2>2, <2>3, <2>5, BudgetAssumption
      <4>4. /\ Minute * audit.admitted \in Int
            /\ RequestsPerMinute * audit.length \in Int
        BY BudgetAssumption DEF WindowType
      <4> HIDE DEF Limit
      <4>5. credit'[Audited] \in Int /\ credit[Audited] \in Int /\ Limit \in Int
        BY <2>2, <2>3, <2>5, LimitFacts, BudgetAssumption
      <4> QED
        BY <2>4, <3>1, <4>1, <4>2, <4>3, <4>4, <4>5, BudgetAssumption
           DEF Spending
    <3>2. CASE ~audit.open
      BY <2>1, <2>4, <3>2 DEF Admit, Counted, Spending
    <3> QED
      BY <3>1, <3>2
  <2>6. CASE c # Audited
    <3>1. credit'[Audited] = credit[Audited] /\ audit' = audit
      BY <2>1, <2>2, <2>6, BudgetAssumption DEF Admit
    <3> QED
      BY <2>4, <3>1 DEF Spending, Limit
  <2> QED
    BY <2>5, <2>6
<1>2. CASE Tick
  <2>1. TypeOK'
    BY <1>2, WindowOps DEF Tick
  <2>2. CASE audit'.open
    <3>1. /\ audit.open
          /\ audit'.admitted = audit.admitted
          /\ audit'.length = audit.length + 1
      BY <1>2, <2>2 DEF Tick, Lengthened, Closed, WindowType
    <3>2. RequestsPerMinute * (audit.length + 1)
            = RequestsPerMinute * audit.length + RequestsPerMinute
      BY BudgetAssumption DEF WindowType
    <3>3. credit'[Audited] <= credit[Audited] + RequestsPerMinute
      BY <1>2, BudgetAssumption DEF Tick
    <3>4. /\ Minute * audit.admitted \in Int
          /\ RequestsPerMinute * audit.length \in Int
      BY BudgetAssumption DEF WindowType
    <3>5. credit'[Audited] \in Int /\ credit[Audited] \in Int /\ Limit \in Int
      BY <1>2, LimitFacts, BudgetAssumption DEF Tick
    <3> QED
      BY <2>1, <3>1, <3>2, <3>3, <3>4, <3>5, BudgetAssumption DEF Spending
  <2>3. CASE ~audit'.open
    BY <2>1, <2>3 DEF Spending
  <2> QED
    BY <2>2, <2>3
<1>3. CASE Forfeit
  <2>1. TypeOK'
    BY <1>3 DEF Forfeit
  <2>2. credit'[Audited] <= credit[Audited] /\ audit' = audit
    BY <1>3, BudgetAssumption DEF Forfeit
  <2>3. /\ Minute * audit.admitted \in Int
        /\ RequestsPerMinute * audit.length \in Int
    BY BudgetAssumption DEF WindowType
  <2>4. credit'[Audited] \in Int /\ credit[Audited] \in Int /\ Limit \in Int
    BY <1>3, LimitFacts, BudgetAssumption DEF Forfeit
  <2> QED
    BY <2>1, <2>2, <2>3, <2>4 DEF Spending
<1>4. CASE OpenWindow
  <2>1. TypeOK'
    BY <1>4, WindowOps DEF OpenWindow
  <2>2. audit'.admitted = 0 /\ audit'.length = 0 /\ credit' = credit
    BY <1>4 DEF OpenWindow, Opened
  <2>3. credit[Audited] \in 0 .. Limit
    BY BudgetAssumption
  <2> QED
    BY <2>1, <2>2, <2>3, LimitFacts, BudgetAssumption DEF Spending
<1>5. CASE UNCHANGED vars
  BY <1>5 DEF vars, Spending, Limit
<1> QED
  BY <1>1, <1>2, <1>3, <1>4, <1>5 DEF Next

LEMMA BudgetImplies == BudgetInv => WindowBound
<1> SUFFICES ASSUME BudgetInv, audit.open
             PROVE  Minute * audit.admitted
                      < Minute * (BurstSize + 1)
                          + RequestsPerMinute * audit.length
  BY DEF WindowBound
<1>1. Minute * audit.admitted + credit[Audited]
        <= Limit + RequestsPerMinute * audit.length
  BY DEF BudgetInv, Spending
<1>2. credit[Audited] \in Int /\ credit[Audited] >= 0
  BY LimitFacts, BudgetAssumption DEF BudgetInv, TypeOK
<1>3. Limit = Minute * (BurstSize + 1) - 1
  BY BudgetAssumption DEF Limit
<1>4. /\ Minute * audit.admitted \in Int
      /\ RequestsPerMinute * audit.length \in Int
      /\ Minute * (BurstSize + 1) \in Int
  BY BudgetAssumption DEF BudgetInv, TypeOK, WindowType
<1> QED
  BY <1>1, <1>2, <1>3, <1>4

(***************************************************************************)
(* The promise of the token budget: the window bound holds of every        *)
(* behaviour, for every burst, rate and clock resolution.                  *)
(***************************************************************************)
THEOREM BudgetWindowBound == Spec => []WindowBound
<1>1. Init => BudgetInv
  BY BudgetInitial
<1>2. BudgetInv /\ [Next]_vars => BudgetInv'
  BY BudgetStep
<1>3. BudgetInv => WindowBound
  BY BudgetImplies
<1> QED
  BY <1>1, <1>2, <1>3, PTL DEF Spec
=============================================================================
