---------------------------- MODULE MergeQueueRun ----------------------------
(***************************************************************************)
(* A merge queue as the app around it sees it: what the engine of          *)
(* Model/MergeQueue+Engine.swift promises to the controller that owns it.  *)
(* A run knows whether it goes on, and whether a call that changes GitHub  *)
(* is out: sent, or answered with its effect not seen yet.                 *)
(*                                                                         *)
(* MergeQueuePromise makes a specification of it, which MergeQueueEngine   *)
(* implements; MergeQueueController is built on it instead of on the engine.*)
(***************************************************************************)

RunPhase == {"idle", "running", "stopping", "stopped", "finished"}

\* Engine.unconfirmedMutation: "sent" until gh answers, "unconfirmed" until
\* GitHub shows what the call did.
Call == {"none", "sent", "unconfirmed"}

Run == [phase: RunPhase, call: Call]

Idle == [phase |-> "idle", call |-> "none"]
Running(call) == [phase |-> "running", call |-> call]
Ended == {[phase |-> p, call |-> "none"] : p \in {"stopped", "finished"}}

\* MergeQueueController.isRunning; the paused phase is a running one.
IsActive(r) == r.phase \in {"running", "stopping"}

\* Bug: the queue is saved before it is told to start.
StartsLate(r) == IF r = Idle THEN {Idle} ELSE {}

Starts(r) == IF r = Idle THEN {Running("none")} ELSE {}

\* A call goes out only when none is left open, and gh's answer never sends
\* another: GitHub is read in between.
Sends(r) == IF r = Running("none") THEN {Running("sent")} ELSE {}
Answers(r) ==
    IF r = Running("sent")
    THEN {Running("none"), Running("unconfirmed"),
          [phase |-> "stopped", call |-> "none"]}
    ELSE {}
Sees(r) == IF r = Running("unconfirmed") THEN {Running("none")} ELSE {}

\* The queue ends by itself, or by Stop, with no answer of a call to wait for.
Ends(r) ==
    IF r \in {Running("none"), Running("unconfirmed")} THEN Ended ELSE {}

\* Stop while a call is out: its answer, and nothing else, ends the queue.
Stops(r) ==
    IF r = Running("sent") THEN {[phase |-> "stopping", call |-> "sent"]} ELSE {}
EndsStopping(r) ==
    IF r.phase = "stopping" THEN {[phase |-> "stopped", call |-> "none"]} ELSE {}

After(r) == Sends(r) \cup Answers(r) \cup Sees(r) \cup Ends(r) \cup Stops(r)
                \cup EndsStopping(r)

=============================================================================
