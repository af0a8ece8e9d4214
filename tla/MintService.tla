---------------------------- MODULE MintService ----------------------------
(***************************************************************************)
(* What the broker promises its callers, with no SSM, no JWT and no        *)
(* upstream calls: an invocation with an empty payload is bound to one     *)
(* scope, at most one token is ever issued for it and only in that scope,  *)
(* and its caller receives that token or an error, once.  An invocation    *)
(* with input gets an error and no token.  A token may outlive the error   *)
(* its caller saw: GitHub can serve a request the broker has given up on.  *)
(***************************************************************************)
EXTENDS Naturals, Sequences

CONSTANTS
    Invocations,    \* invocations of the function
    Scopes,         \* what the function may be deployed to grant
    NoScope         \* an invocation that has no scope yet

VARIABLES
    status,     \* "idle", "waiting", "given", "refused" or "rejected"
    scope,      \* the scope an invocation is bound to
    issued,     \* the tokens that exist, in the order they were issued
    given       \* the token an invocation returned, as an index, or 0

vars == <<status, scope, issued, given>>

Init ==
    /\ status = [i \in Invocations |-> "idle"]
    /\ scope = [i \in Invocations |-> NoScope]
    /\ issued = <<>>
    /\ given = [i \in Invocations |-> 0]

Accept(i) ==
    /\ status[i] = "idle"
    /\ status' = [status EXCEPT ![i] = "waiting"]
    /\ \E s \in Scopes : scope' = [scope EXCEPT ![i] = s]
    /\ UNCHANGED <<issued, given>>

Reject(i) ==
    /\ status[i] = "idle"
    /\ status' = [status EXCEPT ![i] = "rejected"]
    /\ UNCHANGED <<scope, issued, given>>

Issue(i) ==
    /\ status[i] \in {"waiting", "refused"}
    /\ \A k \in DOMAIN issued : issued[k].by # i
    /\ issued' = Append(issued, [by |-> i, scope |-> scope[i]])
    /\ UNCHANGED <<status, scope, given>>

Give(i) ==
    /\ status[i] = "waiting"
    /\ \E k \in DOMAIN issued :
          /\ issued[k].by = i
          /\ given' = [given EXCEPT ![i] = k]
    /\ status' = [status EXCEPT ![i] = "given"]
    /\ UNCHANGED <<scope, issued>>

Refuse(i) ==
    /\ status[i] = "waiting"
    /\ status' = [status EXCEPT ![i] = "refused"]
    /\ UNCHANGED <<scope, issued, given>>

Next == \E i \in Invocations :
    Accept(i) \/ Reject(i) \/ Issue(i) \/ Give(i) \/ Refuse(i)

Spec == Init /\ [][Next]_vars
=============================================================================
