------------------------------- MODULE JobPool -------------------------------
(***************************************************************************)
(* What the dispatcher promises to the code that uses it, without channels,*)
(* goroutines or a sync.Once: a bounded first-in first-out pool of jobs.   *)
(*                                                                         *)
(*   - a job is either admitted, while the pool is open and has room, or   *)
(*     turned away -- for want of room only when there is none -- and a    *)
(*     job that was turned away never runs;                                *)
(*   - admitted jobs start in the order they were admitted, at most        *)
(*     MaxRunning of them run at a time, and each runs once;               *)
(*   - a closed pool admits nothing;                                       *)
(*   - "drained" is announced when nothing runs any more and, unless the   *)
(*     pool was aborted, nothing is pending; after it nothing starts.      *)
(*                                                                         *)
(* Dispatcher implements this specification (Pool there).                  *)
(***************************************************************************)
EXTENDS Integers, Sequences, FiniteSets

CONSTANTS
    Jobs,       \* the jobs that may be submitted
    MaxPending, \* room for jobs that have not started
    MaxRunning  \* jobs that may run at a time

VARIABLES
    pending,  \* admitted jobs that have not started, oldest first
    running,  \* jobs being run
    finished, \* jobs that have been run
    overflowed, \* jobs turned away for want of room
    refused,  \* jobs turned away because the pool closes or the caller gave up
    open,     \* the pool admits jobs
    aborted,  \* pending jobs may be abandoned
    drained   \* the pool has announced that it is quiet

vars == <<pending, running, finished, overflowed, refused, open, aborted, drained>>

Init ==
    /\ pending = <<>>
    /\ running = {}
    /\ finished = {}
    /\ overflowed = {}
    /\ refused = {}
    /\ open = TRUE
    /\ aborted = FALSE
    /\ drained = FALSE

Known ==
    {pending[i] : i \in DOMAIN pending} \cup running \cup finished
        \cup overflowed \cup refused

Admit(j) ==
    /\ open
    /\ j \notin Known
    /\ Len(pending) < MaxPending
    /\ pending' = Append(pending, j)
    /\ UNCHANGED <<running, finished, overflowed, refused, open, aborted, drained>>

TurnAway(j) ==
    /\ open
    /\ j \notin Known
    /\ Len(pending) >= MaxPending
    /\ overflowed' = overflowed \cup {j}
    /\ UNCHANGED <<pending, running, finished, refused, open, aborted, drained>>

Refuse(j) ==
    /\ j \notin Known
    /\ refused' = refused \cup {j}
    /\ UNCHANGED <<pending, running, finished, overflowed, open, aborted, drained>>

Start ==
    /\ ~drained
    /\ pending # <<>>
    /\ Cardinality(running) < MaxRunning
    /\ running' = running \cup {Head(pending)}
    /\ pending' = Tail(pending)
    /\ UNCHANGED <<finished, overflowed, refused, open, aborted, drained>>

Finish(j) ==
    /\ j \in running
    /\ running' = running \ {j}
    /\ finished' = finished \cup {j}
    /\ UNCHANGED <<pending, overflowed, refused, open, aborted, drained>>

Close ==
    /\ open
    /\ open' = FALSE
    /\ UNCHANGED <<pending, running, finished, overflowed, refused, aborted, drained>>

Abort ==
    /\ ~aborted
    /\ aborted' = TRUE
    /\ UNCHANGED <<pending, running, finished, overflowed, refused, open, drained>>

AnnounceDrained ==
    /\ ~open
    /\ running = {}
    /\ aborted \/ pending = <<>>
    /\ drained' = TRUE
    /\ UNCHANGED <<pending, running, finished, overflowed, refused, open, aborted>>

Next ==
    \/ \E j \in Jobs : Admit(j) \/ TurnAway(j) \/ Refuse(j) \/ Finish(j)
    \/ Start \/ Close \/ Abort \/ AnnounceDrained

Spec == Init /\ [][Next]_vars

=============================================================================
