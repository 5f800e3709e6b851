--------------------------------- MODULE Rpc --------------------------------
(***************************************************************************)
(* What ipc_call promises: a call is sent to a server, taken by it while it *)
(* works on no other call, answered once, and returns with that answer.  A *)
(* call is lost when its server ends before it has answered it, or gets no *)
(* message to answer with; the caller of a lost call never returns.        *)
(***************************************************************************)
EXTENDS Integers

CONSTANT Procs

VARIABLE call   \* each process's own call: its phase and its server

None == -1
Phases == {"idle", "sent", "taken", "answered", "lost"}
Idle == [phase |-> "idle", to |-> None]

Become(p, phase) == call' = [call EXCEPT ![p].phase = phase]

Begin(p, q) ==
    /\ call[p] = Idle
    /\ call' = [call EXCEPT ![p] = [phase |-> "sent", to |-> q]]

Take(p) ==
    /\ call[p].phase = "sent"
    /\ \A o \in Procs : call[o].to = call[p].to => call[o].phase # "taken"
    /\ Become(p, "taken")

Answer(p) == call[p].phase = "taken" /\ Become(p, "answered")

Lose(p) == call[p].phase = "taken" /\ Become(p, "lost")

Return(p) == call[p].phase = "answered" /\ call' = [call EXCEPT ![p] = Idle]

Exit(q) ==
    call' = [p \in Procs |->
               IF p = q THEN Idle
               ELSE IF call[p].to = q /\ call[p].phase \in {"sent", "taken"}
                    THEN [phase |-> "lost", to |-> q]
                    ELSE call[p]]

Init == call = [p \in Procs |-> Idle]

Next ==
    \/ \E p, q \in Procs : Begin(p, q)
    \/ \E p \in Procs : Take(p) \/ Answer(p) \/ Lose(p) \/ Return(p) \/ Exit(p)

Spec == Init /\ [][Next]_call
=============================================================================
