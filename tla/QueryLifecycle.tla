-------------------------- MODULE QueryLifecycle --------------------------
(***************************************************************************)
(* What doQuery promises the protocol layer about one query, with the     *)
(* goroutines, the channel and the timers hidden (spec §4.E, §5, §8).     *)
(*                                                                         *)
(* A query either fails before it is registered, or it is registered in   *)
(* the process list, hands a prefix of the batches its iterator promises  *)
(* (goal) to the callback one at a time in order, leaves the process list *)
(* and returns.  It returns nil only when every promised batch went out;  *)
(* the last batch may go out in the same step as the return (the final   *)
(* callback of doQuery).  Any step may end it with an error instead.      *)
(***************************************************************************)
EXTENDS Sequences, SequencesExt

CONSTANTS
    Batch,   \* the values a result batch can take
    Errs,    \* the errors a query may return
    NoErr    \* a nil error

VARIABLES
    phase,       \* "idle" before registration, "running", "done"
    goal,        \* the batches the iterator's rows call for
    out,         \* the batches given to the callback so far
    res,         \* the returned error
    registered   \* the query's process-list entry exists

avars == <<phase, goal, out, res, registered>>

\* The next promised batch, as a set of zero or one continuations of out.
NextOut == IF Len(out) < Len(goal) THEN {Append(out, goal[Len(out) + 1])}
                                   ELSE {}

Init ==
    /\ phase = "idle"
    /\ goal \in Seq(Batch)
    /\ out = <<>>
    /\ res = NoErr
    /\ registered = FALSE

FailEarly ==
    /\ phase = "idle"
    /\ phase' = "done"
    /\ res' \in Errs
    /\ UNCHANGED <<goal, out, registered>>

Register ==
    /\ phase = "idle"
    /\ phase' = "running"
    /\ registered' = TRUE
    /\ UNCHANGED <<goal, out, res>>

Deliver ==
    /\ phase = "running"
    /\ out' \in NextOut
    /\ UNCHANGED <<phase, goal, res, registered>>

Unregister ==
    /\ phase = "running" /\ registered
    /\ registered' = FALSE
    /\ UNCHANGED <<phase, goal, out, res>>

Return ==
    /\ phase = "running"
    /\ phase' = "done"
    /\ registered' = FALSE
    /\ out' \in {out} \cup NextOut
    /\ res' \in Errs \cup (IF out' = goal THEN {NoErr} ELSE {})
    /\ UNCHANGED goal

Next == FailEarly \/ Register \/ Deliver \/ Unregister \/ Return

\* The handler always returns to the protocol layer.
Spec == Init /\ [][Next]_avars /\ WF_avars(Next)

\* The batches given out are always the first ones promised.
OutIsPrefix == IsPrefix(out, goal)

=============================================================================
