------------------------------ MODULE JwtClock ------------------------------
(***************************************************************************)
(* The App JWT and the two clocks it lives between.  One invocation signs  *)
(* one JWT (signJWT) by Lambda's clock and sends it twice: with the        *)
(* preflight and with the token request.  GitHub verifies it each time by  *)
(* its own clock.  Nothing refreshes the JWT in between, and nothing but   *)
(* the function's timeout bounds how old it gets.                          *)
(*                                                                         *)
(* Times are whole seconds since the invocation began; the claims are      *)
(* whole seconds too (Unix()).                                             *)
(***************************************************************************)
EXTENDS Integers

CONSTANTS
    Timeout,    \* the Lambda's timeout
    Skews,      \* how far GitHub's clock may be ahead of Lambda's
    Ticks       \* steps in which time passes

\* The backdating of iat, by which GitHub's clock may be behind, and the nine
\* minutes, which leave as much of GitHub's ten for it to be ahead.
Backdate == 60
jwtLifetime == 540
MaxLifetime == 600

ASSUME ClockAssumption ==
    /\ Timeout \in Nat
    /\ Ticks \subseteq Nat \ {0}
    /\ Skews \subseteq (-Backdate)..Backdate
    /\ Timeout + Backdate < jwtLifetime

VARIABLES
    now,        \* Lambda's clock
    pc,         \* where the invocation is
    iat, exp    \* claims of its JWT

vars == <<now, pc, iat, exp>>

Running == {"sign", "validate", "exchange"}

Tick(d) ==
    /\ pc \in Running
    /\ now + d <= Timeout
    /\ now' = now + d
    /\ UNCHANGED <<pc, iat, exp>>

\* Mutants of SignJWT: the full ten minutes; no backdating.
SignForTenMinutes ==
    /\ pc = "sign"
    /\ pc' = "validate"
    /\ iat' = now - Backdate
    /\ exp' = now + MaxLifetime
    /\ UNCHANGED now

SignAsOfNow ==
    /\ pc = "sign"
    /\ pc' = "validate"
    /\ iat' = now
    /\ exp' = now + jwtLifetime
    /\ UNCHANGED now

SignJWT ==
    /\ pc = "sign"
    /\ pc' = "validate"
    /\ iat' = now - Backdate
    /\ exp' = now + jwtLifetime
    /\ UNCHANGED now

\* GitHub's verification of the claims at a time of its clock: not from the
\* future, not expired, and expiring within ten minutes.
Accepted(time) ==
    /\ iat <= time
    /\ time < exp
    /\ exp <= time + MaxLifetime

Request(state, next) ==
    /\ pc = state
    /\ \E skew \in Skews :
          pc' = IF Accepted(now + skew) THEN next ELSE "unauthorized"
    /\ UNCHANGED <<now, iat, exp>>

Validate == Request("validate", "exchange")
Exchange == Request("exchange", "minted")

Kill ==
    /\ pc \in Running
    /\ now = Timeout
    /\ pc' = "killed"
    /\ UNCHANGED <<now, iat, exp>>

Ended ==
    /\ pc \notin Running
    /\ UNCHANGED vars

Init ==
    /\ now = 0
    /\ pc = "sign"
    /\ iat = 0
    /\ exp = 0

Next ==
    \/ \E d \in Ticks : Tick(d)
    \/ SignJWT
    \/ Validate
    \/ Exchange
    \/ Kill
    \/ Ended

Spec == Init /\ [][Next]_vars

----------------------------------------------------------------------------

\* The variables have their types.
TypeOK ==
    /\ now \in 0..Timeout
    /\ pc \in Running \cup {"minted", "killed", "unauthorized"}
    /\ iat \in Int
    /\ exp \in Int

\* The margins of signJWT suffice: within the timeout and the skew assumed, no
\* request of an invocation is refused because of the clock, however late in
\* the invocation the JWT is signed and however long it waits for its answers.
ClockNeverRefuses == pc # "unauthorized"

\* The claims of a JWT in use were made within the invocation.
ClaimsOfThisInvocation ==
    pc \in {"validate", "exchange"} =>
        \E signed \in 0..now : /\ iat = signed - Backdate
                               /\ exp = signed + jwtLifetime

\* The inductive invariant.
IInv == TypeOK /\ ClaimsOfThisInvocation /\ ClockNeverRefuses
=============================================================================
