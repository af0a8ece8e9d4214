--------------------------- MODULE JwtClockProofs ---------------------------
(***************************************************************************)
(* Proof that the margins of the App JWT suffice for every timeout and     *)
(* every skew that ClockAssumption allows.                                 *)
(***************************************************************************)
EXTENDS JwtClock, TLAPS

\* A JWT that an invocation made is accepted whenever it is sent.
LEMMA InTime ==
    ASSUME NEW signed \in Nat, NEW t \in Nat, NEW skew \in Skews,
           signed <= t, t <= Timeout,
           iat = signed - Backdate, exp = signed + jwtLifetime
    PROVE  Accepted(t + skew)
<1>1. skew \in Int /\ -60 <= skew /\ skew <= 60
    BY ClockAssumption DEF Backdate
<1>2. Timeout \in Nat /\ Timeout + 60 < 540
    BY ClockAssumption DEF Backdate, jwtLifetime
<1> QED
    BY <1>1, <1>2 DEF Accepted, Backdate, jwtLifetime, MaxLifetime

\* Both requests preserve the invariant: neither can be refused.
LEMMA RequestPreserves ==
    ASSUME IInv, NEW state \in {"validate", "exchange"},
           NEW next \in {"exchange", "minted"}, Request(state, next)
    PROVE  IInv'
<1>1. PICK signed \in 0..now : /\ iat = signed - Backdate
                               /\ exp = signed + jwtLifetime
    BY DEF IInv, ClaimsOfThisInvocation, Request
<1>2. PICK skew \in Skews :
         pc' = IF Accepted(now + skew) THEN next ELSE "unauthorized"
    BY DEF Request
<1>3. /\ now \in Nat /\ now <= Timeout
      /\ signed \in Nat /\ signed <= now
    BY <1>1, ClockAssumption DEF IInv, TypeOK
<1>4. Accepted(now + skew)
    BY <1>1, <1>3, InTime
<1>5. pc' = next
    BY <1>2, <1>4
<1>6. UNCHANGED <<now, iat, exp>>
    BY DEF Request
<1>7. TypeOK'
    BY <1>5, <1>6 DEF IInv, TypeOK, Running
<1>8. ClaimsOfThisInvocation'
    BY <1>1, <1>6 DEF ClaimsOfThisInvocation
<1>9. ClockNeverRefuses'
    BY <1>5 DEF ClockNeverRefuses
<1> QED
    BY <1>7, <1>8, <1>9 DEF IInv

\* The invariant is inductive.
LEMMA ClockInductive == IInv /\ [Next]_vars => IInv'
<1> SUFFICES ASSUME IInv, [Next]_vars
             PROVE  IInv'
    OBVIOUS
<1> USE ClockAssumption
<1>1. ASSUME NEW d \in Ticks, Tick(d)
      PROVE  IInv'
    <2>1. now' \in 0..Timeout /\ now <= now' /\ UNCHANGED <<pc, iat, exp>>
        BY <1>1 DEF Tick, IInv, TypeOK
    <2>2. ClaimsOfThisInvocation'
        <3>1. 0..now \subseteq 0..now'
            BY <2>1 DEF IInv, TypeOK
        <3> QED
            BY <2>1, <3>1 DEF IInv, ClaimsOfThisInvocation
    <2> QED
        BY <2>1, <2>2 DEF IInv, TypeOK, ClockNeverRefuses
<1>2. CASE SignJWT
    <2>1. /\ pc' = "validate" /\ now' = now /\ now \in 0..now
          /\ iat' = now - Backdate /\ exp' = now + jwtLifetime
        BY <1>2 DEF SignJWT, IInv, TypeOK
    <2>2. TypeOK'
        BY <2>1 DEF IInv, TypeOK, Running, Backdate, jwtLifetime
    <2>3. ClaimsOfThisInvocation'
        BY <2>1 DEF ClaimsOfThisInvocation
    <2> QED
        BY <2>1, <2>2, <2>3 DEF IInv, ClockNeverRefuses
<1>3. CASE Validate
    BY <1>3, RequestPreserves DEF Validate
<1>4. CASE Exchange
    BY <1>4, RequestPreserves DEF Exchange
<1>5. CASE Kill
    BY <1>5 DEF Kill, IInv, TypeOK, ClaimsOfThisInvocation, ClockNeverRefuses
<1>6. CASE UNCHANGED vars
    BY <1>6 DEF vars, IInv, TypeOK, ClaimsOfThisInvocation, ClockNeverRefuses
<1> QED
    BY <1>1, <1>2, <1>3, <1>4, <1>5, <1>6 DEF Next, Ended

\* The claims in use are always those of the invocation's own signature.
THEOREM ClockInvariant == Spec => []IInv
<1>1. Init => IInv
    BY ClockAssumption
    DEF Init, IInv, TypeOK, Running, ClaimsOfThisInvocation, ClockNeverRefuses
<1> QED
    BY <1>1, ClockInductive, PTL DEF Spec

\* signJWT's one minute of backdating and nine minutes of life make the clock
\* irrelevant to an invocation, if the timeout is under eight minutes and the
\* clocks agree to the minute.
THEOREM MarginsSuffice == Spec => []ClockNeverRefuses
<1>1. IInv => ClockNeverRefuses
    BY DEF IInv
<1> QED
    BY <1>1, ClockInvariant, PTL
=============================================================================
