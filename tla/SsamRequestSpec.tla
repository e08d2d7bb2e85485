--------------------------- MODULE SsamRequestSpec ---------------------------
(***************************************************************************)
(* What submit promises a client (spec.md section 5, "exactly one delivery *)
(* occurs per pending entry"): a call is accepted or rejected at once, an  *)
(* accepted call is answered exactly once, with a response or an error,    *)
(* and the caller then takes that answer.  Sequence numbers, frames,       *)
(* retries and the link do not appear here; SsamRequest implements this.  *)
(***************************************************************************)
CONSTANTS
    Clients,    \* callers of submit
    Results     \* "ok" and the error kinds of spec.md section 7

VARIABLES
    st,         \* st[c]: "idle", "busy" (inside submit) or "done"
    res         \* res[c]: the answer of c's last call, or "none"

vars == <<st, res>>

Init ==
    /\ st = [c \in Clients |-> "idle"]
    /\ res = [c \in Clients |-> "none"]

\* c calls submit and the call is accepted.
Call(c) ==
    /\ st[c] = "idle"
    /\ st' = [st EXCEPT ![c] = "busy"]
    /\ UNCHANGED res

\* c calls submit and the call fails fast with error r.
Reject(c, r) ==
    /\ st[c] = "idle"
    /\ st' = [st EXCEPT ![c] = "done"]
    /\ res' = [res EXCEPT ![c] = r]

\* The one answer to c's accepted call.
Answer(c, r) ==
    /\ st[c] = "busy"
    /\ st' = [st EXCEPT ![c] = "done"]
    /\ res' = [res EXCEPT ![c] = r]

\* A change of the controller's state answers every accepted call at once,
\* with the same error r.
AnswerAll(r) ==
    /\ st' = [c \in Clients |-> IF st[c] = "busy" THEN "done" ELSE st[c]]
    /\ res' = [c \in Clients |-> IF st[c] = "busy" THEN r ELSE res[c]]

\* submit returns to c.
Return(c) ==
    /\ st[c] = "done"
    /\ st' = [st EXCEPT ![c] = "idle"]
    /\ UNCHANGED res

Next ==
    \/ \E r \in Results : AnswerAll(r)
    \/ \E c \in Clients :
        \/ Call(c)
        \/ \E r \in Results : Reject(c, r) \/ Answer(c, r)
        \/ Return(c)

Spec == Init /\ [][Next]_vars
====
