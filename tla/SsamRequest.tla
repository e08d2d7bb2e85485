----------------------------- MODULE SsamRequest -----------------------------
(***************************************************************************)
(* The SSAM core's request/response multiplexer with the transport's write *)
(* path and the controller lifecycle around it (spec.md 4.2, 4.3, 4.5, 5,  *)
(* 7).  The core is not part of src/; this module follows spec.md.         *)
(*                                                                         *)
(* A caller's submit takes the next sequence number (wrapping modulo       *)
(* SeqMod), registers a pending entry unless the request expects no        *)
(* response, and waits for its frame to be written.  The link loses frames *)
(* (a frame whose checksum fails is dropped, which is the same to the      *)
(* multiplexer).  The EC answers every command frame that expects a        *)
(* response, a retransmitted one included.  A response claims the pending  *)
(* entry with its sequence number; a timeout retransmits with the same     *)
(* number until MaxRetries, then fails the call.  Suspend, stop and a      *)
(* transport failure fail every outstanding call.                          *)
(***************************************************************************)
EXTENDS Integers

CONSTANTS
    Clients,     \* callers of submit
    SeqMod,      \* sequence numbers are 0..SeqMod-1
    MaxRetries,  \* retransmissions of one request
    MaxSubmits,  \* calls per client
    MaxCtl       \* lifecycle transitions (suspend, resume, stop, failure)

Seqs == 0..SeqMod - 1
States == {"starting", "running", "suspended", "stopped", "error"}
Errors == {"toosmall", "timeout", "suspended", "notready", "transport", "shutdown"}
Results == {"ok"} \cup Errors
\* Command frames that expect a response, and responses.  A command that
\* expects none changes nothing once written, so it is not kept in flight.
Frames == [kind : {"cmd", "rsp"}, seq : Seqs]

VARIABLES
    ctl,         \* the controller's lifecycle state
    next,        \* the next sequence number
    st,          \* st[c]: "idle", "queued" (frame to write), "wait", "done"
    seq,         \* seq[c]: the sequence number of c's request
    ack,         \* ack[c]: c's request expects a response
    tries,       \* tries[c]: retransmissions so far
    res,         \* res[c]: the result submit returns to c
    wire,        \* frames in flight on the link
    n            \* n.sub[c]: calls of c; n.ctl: lifecycle transitions

vars == <<ctl, next, st, seq, ack, tries, res, wire, n>>

TypeOK ==
    /\ ctl \in States /\ next \in Seqs
    /\ st \in [Clients -> {"idle", "queued", "wait", "done"}]
    /\ seq \in [Clients -> Seqs] /\ ack \in [Clients -> BOOLEAN]
    /\ tries \in [Clients -> 0..MaxRetries]
    /\ res \in [Clients -> Results \cup {"none"}]
    /\ wire \subseteq Frames
    /\ n \in [sub : [Clients -> 0..MaxSubmits], ctl : 0..MaxCtl]

\* c holds a PendingRequestEntry.
Pending(c) == st[c] \in {"queued", "wait"} /\ ack[c]

\* c's call is outstanding (a request without response included).
Outstanding(c) == st[c] \in {"queued", "wait"}

\* The number s may be assigned: no pending entry holds it.
SeqAvailable(s) == \A c \in Clients : Pending(c) => seq[c] # s

NextSeq_nowrap(s) == s + 1

\* The number after s, wrapping modulo the sequence width.
NextSeq(s) == (s + 1) % SeqMod

\* The error a submit gets in a state other than running.
FailFast(s) ==
    CASE s = "starting" -> "notready" [] s = "suspended" -> "suspended"
      [] s = "error" -> "transport"   [] s = "stopped" -> "shutdown"

Init ==
    /\ ctl = "starting" /\ next = 0
    /\ st = [c \in Clients |-> "idle"] /\ seq = [c \in Clients |-> 0]
    /\ ack = [c \in Clients |-> TRUE] /\ tries = [c \in Clients |-> 0]
    /\ res = [c \in Clients |-> "none"] /\ wire = {}
    /\ n = [sub |-> [c \in Clients |-> 0], ctl |-> 0]

-----------------------------------------------------------------------------
(* Callers                                                                 *)

\* submit: outside running it fails at once; otherwise it takes the next
\* sequence number, registers the entry and queues the frame for writing.
submit(c, a) ==
    /\ st[c] = "idle" /\ n.sub[c] < MaxSubmits
    /\ n' = [n EXCEPT !.sub[c] = @ + 1]
    /\ IF ctl # "running"
         THEN /\ st' = [st EXCEPT ![c] = "done"]
              /\ res' = [res EXCEPT ![c] = FailFast(ctl)]
              /\ UNCHANGED <<next, seq, ack, tries>>
         ELSE /\ SeqAvailable(next)
              /\ st' = [st EXCEPT ![c] = "queued"]
              /\ seq' = [seq EXCEPT ![c] = next]
              /\ ack' = [ack EXCEPT ![c] = a]
              /\ tries' = [tries EXCEPT ![c] = 0]
              /\ next' = NextSeq(next)
              /\ UNCHANGED res
    /\ UNCHANGED <<ctl, wire>>

\* The serialized write path sends c's command frame; a request that
\* expects no response completes on transmission.
transmit(c) ==
    /\ st[c] = "queued"
    /\ wire' = IF ack[c] THEN wire \cup {[kind |-> "cmd", seq |-> seq[c]]}
                        ELSE wire
    /\ st' = [st EXCEPT ![c] = IF ack[c] THEN "wait" ELSE "done"]
    /\ res' = IF ack[c] THEN res ELSE [res EXCEPT ![c] = "ok"]
    /\ UNCHANGED <<ctl, next, seq, ack, tries, n>>

timeout_anytime(c) ==
    /\ IF tries[c] < MaxRetries
         THEN /\ st' = [st EXCEPT ![c] = "queued"]
              /\ tries' = [tries EXCEPT ![c] = @ + 1]
              /\ UNCHANGED res
         ELSE /\ st' = [st EXCEPT ![c] = "done"]
              /\ res' = [res EXCEPT ![c] = "timeout"]
              /\ UNCHANGED tries
    /\ UNCHANGED <<ctl, next, seq, ack, wire, n>>

timeout_nofail(c) ==
    /\ st[c] = "wait"
    /\ IF tries[c] < MaxRetries
         THEN /\ st' = [st EXCEPT ![c] = "queued"]
              /\ tries' = [tries EXCEPT ![c] = @ + 1]
              /\ UNCHANGED res
         ELSE UNCHANGED <<st, res, tries>>
    /\ UNCHANGED <<ctl, next, seq, ack, wire, n>>

\* c's deadline passes: retransmit with the same number, or fail.
timeout(c) ==
    /\ st[c] = "wait"
    /\ IF tries[c] < MaxRetries
         THEN /\ st' = [st EXCEPT ![c] = "queued"]
              /\ tries' = [tries EXCEPT ![c] = @ + 1]
              /\ UNCHANGED res
         ELSE /\ st' = [st EXCEPT ![c] = "done"]
              /\ res' = [res EXCEPT ![c] = "timeout"]
              /\ UNCHANGED tries
    /\ UNCHANGED <<ctl, next, seq, ack, wire, n>>

\* submit returns its result to c.
collect(c) ==
    /\ st[c] = "done"
    /\ st' = [st EXCEPT ![c] = "idle"]
    /\ UNCHANGED <<ctl, next, seq, ack, tries, res, wire, n>>

-----------------------------------------------------------------------------
(* The link and the EC                                                     *)

\* The EC takes a command frame and sends its response.
ec_receive(f) ==
    /\ f.kind = "cmd"
    /\ wire' = (wire \ {f}) \cup {[kind |-> "rsp", seq |-> f.seq]}
    /\ UNCHANGED <<ctl, next, st, seq, ack, tries, res, n>>

\* A frame is lost, or fails its checksum and is dropped.
lose(f) ==
    /\ wire' = wire \ {f}
    /\ UNCHANGED <<ctl, next, st, seq, ack, tries, res, n>>

\* A response claims the pending entry with its number: the caller gets the
\* response, or BufferTooSmall if it exceeds the capacity (a response's
\* length is chosen here).  A response no
\* entry holds goes to the event dispatcher.
receive(f) ==
    /\ f.kind = "rsp"
    /\ wire' = wire \ {f}
    /\ IF \E c \in Clients : Pending(c) /\ seq[c] = f.seq
         THEN \E c \in Clients, big \in BOOLEAN :
                /\ Pending(c) /\ seq[c] = f.seq
                /\ st' = [st EXCEPT ![c] = "done"]
                /\ res' = [res EXCEPT ![c] = IF big THEN "toosmall" ELSE "ok"]
         ELSE UNCHANGED <<st, res>>
    /\ UNCHANGED <<ctl, next, seq, ack, tries, n>>

-----------------------------------------------------------------------------
(* The controller lifecycle                                                *)

\* Every outstanding call fails with r; the entries are removed.
FailAll(r) ==
    /\ st' = [c \in Clients |-> IF Outstanding(c) THEN "done" ELSE st[c]]
    /\ res' = [c \in Clients |-> IF Outstanding(c) THEN r ELSE res[c]]

\* starting -> running, after the handshake.
start ==
    /\ ctl = "starting"
    /\ ctl' = "running"
    /\ UNCHANGED <<next, st, seq, ack, tries, res, wire, n>>

\* running -> suspended: outstanding calls are force-failed with Suspended.
suspend ==
    /\ ctl = "running" /\ n.ctl < MaxCtl
    /\ ctl' = "suspended" /\ FailAll("suspended")
    /\ n' = [n EXCEPT !.ctl = @ + 1]
    /\ UNCHANGED <<next, seq, ack, tries, wire>>

\* suspended -> running; clients re-query by themselves.
resume ==
    /\ ctl = "suspended" /\ n.ctl < MaxCtl
    /\ ctl' = "running"
    /\ n' = [n EXCEPT !.ctl = @ + 1]
    /\ UNCHANGED <<next, st, seq, ack, tries, res, wire>>

\* stopping: pending calls fail with a shutdown error, then stopped.
stop ==
    /\ ctl \in {"running", "suspended"} /\ n.ctl < MaxCtl
    /\ ctl' = "stopped" /\ FailAll("shutdown")
    /\ n' = [n EXCEPT !.ctl = @ + 1]
    /\ UNCHANGED <<next, seq, ack, tries, wire>>

\* Link failure: the controller enters error and every call fails.
transport_failure ==
    /\ ctl \in {"starting", "running", "suspended"} /\ n.ctl < MaxCtl
    /\ ctl' = "error" /\ FailAll("transport")
    /\ n' = [n EXCEPT !.ctl = @ + 1]
    /\ UNCHANGED <<next, seq, ack, tries, wire>>

Caller(c) ==
    \/ \E a \in BOOLEAN : submit(c, a)
    \/ transmit(c) \/ timeout(c) \/ collect(c)

Next ==
    \/ \E c \in Clients : Caller(c)
    \/ \E f \in wire : ec_receive(f) \/ lose(f) \/ receive(f)
    \/ start \/ suspend \/ resume \/ stop \/ transport_failure

\* The write path, the timers and the callers' threads run; the link may
\* lose every frame and the lifecycle may never change.
Fairness ==
    \A c \in Clients : WF_vars(transmit(c)) /\ WF_vars(timeout(c))

Spec == Init /\ [][Next]_vars /\ Fairness

-----------------------------------------------------------------------------
(* Properties                                                              *)

\* submit implements its abstract specification: each accepted call gets
\* exactly one answer, so a late response, a duplicate response to a
\* retransmission, a timeout and a lifecycle failure never answer one call
\* twice or answer a call not made (spec.md 5).
Abs == INSTANCE SsamRequestSpec
         WITH st <- [c \in Clients |->
                       IF Outstanding(c) THEN "busy" ELSE st[c]]
RequestRefines == Abs!Spec

\* A call gets a response (data or BufferTooSmall) only after its own
\* command frame was written: a response that arrives while the frame is
\* still queued for its first transmission answers some other request.
\* spec.md 4.3 keeps a number from reuse only until its entry retires; a
\* call that timed out retires while the EC may still answer it.
NoResponseBeforeSent ==
    [][\A c \in Clients :
         Pending(c) /\ st[c] = "queued" /\ tries[c] = 0 /\ st'[c] = "done"
           => res'[c] \notin {"ok", "toosmall"}]_vars

\* Every accepted call returns, even if the link loses every frame: the
\* bounded retries end in TimeoutError (spec.md 4.3, 7).
SubmitReturns == \A c \in Clients : Outstanding(c) ~> st[c] = "done"
====
