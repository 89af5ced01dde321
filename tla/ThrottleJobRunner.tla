-------------------------- MODULE ThrottleJobRunner --------------------------
(***************************************************************************)
(* ThrottleJobRunner (common/src/throttle_job_runner.rs): jobs are sent    *)
(* into an unbounded channel, and one task takes them through              *)
(* StreamExt::buffered, which keeps at most MaxParallel of them between    *)
(* the channel and the loop, and hands their ends to the loop in the order *)
(* in which they came.                                                     *)
(*                                                                         *)
(* Jobs are named by their number in the channel, so the channel is        *)
(* pulled + 1 .. accepted, the buffer is handed + 1 .. pulled, and a job   *)
(* in the buffer that has ended stays there until all before it are handed *)
(* over.  The jobs are the caller's: a job may wait for another one.       *)
(* Everything is on one thread; the model lets add and dispose come        *)
(* between any two of the runner's steps, for a job may call them too.     *)
(***************************************************************************)
EXTENDS Naturals, FiniteSets

CONSTANTS
    MaxParallel,  \* max_num_of_parallel_processes
    MaxJobs       \* bound: jobs that are added

\* With a buffer of size 0 the channel would never be looked at.
ASSUME JobsAssumption == MaxParallel \in Nat \ {0} /\ MaxJobs \in Nat

VARIABLES
    accepted,  \* jobs sent into the channel
    pulled,    \* jobs taken out of it and started
    handed,    \* jobs whose end the loop has seen
    ended,     \* the jobs that have run to their end
    closed,    \* the channel is closed
    disposed,  \* is_disposed
    needs      \* the jobs each job waits for; never changes

jobVars == <<accepted, pulled, handed, ended, closed, disposed, needs>>

JobNumbers == 1 .. MaxJobs

JobsInit ==
    /\ accepted = 0 /\ pulled = 0 /\ handed = 0
    /\ ended = {}
    /\ closed = FALSE
    /\ disposed = FALSE
    /\ needs \in [JobNumbers -> {S \in SUBSET JobNumbers : Cardinality(S) <= 1}]

\* add; after dispose() the job is refused with a log entry and dropped.
AddJob ==
    /\ ~closed
    /\ accepted < MaxJobs
    /\ accepted' = accepted + 1
    /\ UNCHANGED <<pulled, handed, ended, closed, disposed, needs>>

\* dispose: the channel is closed and keeps what is in it.
DisposeRunner ==
    /\ ~closed
    /\ closed' = TRUE
    /\ UNCHANGED <<accepted, pulled, handed, ended, disposed, needs>>

HasRoomForRunning ==  \* mutant: a job that has ended leaves its place
    Cardinality((handed + 1 .. pulled) \ ended) < MaxParallel
HasRoomBesideOne == pulled + 1 < handed + MaxParallel  \* mutant: the window is one short
HasRoom == pulled < handed + MaxParallel

\* poll_next of Buffered: the buffer is filled up; a job is polled, and so
\* started, as soon as it is in the buffer.
PullJob ==
    /\ pulled < accepted
    /\ HasRoom
    /\ pulled' = pulled + 1
    /\ UNCHANGED <<accepted, handed, ended, closed, disposed, needs>>

EndJob(j) ==
    /\ j \in (handed + 1 .. pulled) \ ended
    /\ needs[j] \subseteq ended
    /\ ended' = ended \cup {j}
    /\ UNCHANGED <<accepted, pulled, handed, closed, disposed, needs>>

\* receiver.next() returns: the first job of the buffer has ended.
HandOver ==
    /\ handed < pulled
    /\ handed + 1 \in ended
    /\ handed' = handed + 1
    /\ UNCHANGED <<accepted, pulled, ended, closed, disposed, needs>>

IsDone == closed /\ handed = accepted

\* receiver.next() returns None and the loop breaks.
EndRunner ==
    /\ ~disposed
    /\ IsDone
    /\ disposed' = TRUE
    /\ UNCHANGED <<accepted, pulled, handed, ended, closed, needs>>

RunnerStep == PullJob \/ HandOver \/ EndRunner

JobsNext == AddJob \/ DisposeRunner \/ RunnerStep \/ \E j \in JobNumbers : EndJob(j)

JobsSpec == JobsInit /\ [][JobsNext]_jobVars

\* The runner's task is polled, and a job that waits for nothing ends.
JobsFairness ==
    /\ WF_jobVars(RunnerStep)
    /\ \A j \in JobNumbers : WF_jobVars(EndJob(j))

-----------------------------------------------------------------------------
(* Properties                                                              *)

\* A job starts only when all jobs MaxParallel or more places before it have
\* ended: no more than that many ever run, and one slow job holds back all
\* that come after its window.  When is_disposed is set no job is left.
StartsBehindEnded ==
    /\ \A i \in 1 .. pulled : \A k \in 1 .. i : k + MaxParallel <= i => k \in ended
    /\ disposed => ended = 1 .. accepted

\* All that job j waits for, and what that waits for, and so on
Awaited(j) ==
    LET upTo[n \in 0 .. MaxJobs] ==
            IF n = 0 THEN needs[j]
            ELSE upTo[n - 1] \cup UNION {needs[k] : k \in upTo[n - 1]}
    IN upTo[MaxJobs]

\* Nothing that job j waits for waits for j, was never added, or was added so
\* much later that it needs j's place.
CanEnd(j) == j \notin Awaited(j) /\ \A k \in Awaited(j) : k <= accepted /\ k < j + MaxParallel

\* Jobs that wait for no job beyond the window they open all end and are all
\* handed over, and then the runner of a disposed queue ends too: again and
\* again there is nothing left to do.
JobsGetDone ==
    []<>(\/ handed = accepted /\ disposed = closed
         \/ \E j \in 1 .. accepted : ~CanEnd(j))
=============================================================================
