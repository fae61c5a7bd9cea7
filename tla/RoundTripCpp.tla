---------------------------- MODULE RoundTripCpp ----------------------------
(***************************************************************************)
(* c++/main.cpp as it stands, with the third process commented out: the    *)
(* parent sends requests on q12 and spins for the responses on q21, its    *)
(* child answers them, and a grandchild waits.                             *)
(***************************************************************************)
EXTENDS SCRQueue, Sequences

CONSTANTS NUM_ITERS, NUM_RUNS, Senders, Intermediates, q12, q21

\* SCRQueue.hpp gives up after 1000 wake-ups; main.cpp sends 100 requests
ASSUME RoundTripCppAssumption ==
  /\ NUM_ITERS \in Nat \ {0} /\ NUM_RUNS \in Nat \ {0}
  /\ Queues = {q12, q21} /\ Threads = Senders \cup Intermediates
  /\ Cardinality(Senders) * NUM_ITERS * NUM_RUNS <= MAX_PATIENCE
  /\ MAX_PATIENCE < EPOCHS

VARIABLES at,       \* at[p]: where thread p is in its function
          run,      \* run[p]: j, the runs p has finished
          calls,    \* calls[p]: operations p has called in this run
          forked,   \* processes forked
          exited    \* processes that have exited

program == <<at, run, calls>>
allVars == <<scrqVars, program, forked, exited>>

Process == <<Senders, Intermediates>>

TypeOK ==
  /\ val_ \in [Queues -> 0..(Word - 1)] /\ key \in [Threads -> 0..(EPOCHS - 1)]
  /\ items \in [Queues -> Nat] /\ patience \in [Threads -> 0..MAX_PATIENCE]
  /\ {temp, expired} \subseteq [Threads -> BOOLEAN]
  /\ at \in [Threads -> {"start", "barrier", "loop", "ended"}]
  /\ run \in [Threads -> 0..NUM_RUNS] /\ calls \in [Threads -> 0..(2 * NUM_ITERS)]
  /\ forked \in 0..2 /\ exited \subseteq 1..forked

Init ==
  /\ SCRQueueInit
  /\ at = [p \in Threads |-> "start"]
  /\ run = [p \in Threads |-> 0] /\ calls = run
  /\ forked = 0 /\ exited = {}
-----------------------------------------------------------------------------
(* sender and intermediate: the two operations of the inner loop *)

sender(p) ==
  \/ calls[p] % 2 = 0 /\ enqueue(p, q12, TRUE)
  \/ calls[p] % 2 = 1 /\ spinDequeue(p, q21)

\* res may be nullptr, and is passed on
intermediate(p) ==
  \/ calls[p] % 2 = 0 /\ dequeue(p, q12)
  \/ calls[p] % 2 = 1 /\ spinEnqueue(p, q21, temp[p])

InnerLoop(p) ==
  /\ at[p] = "loop" /\ calls[p] < 2 * NUM_ITERS
  /\ (p \in Senders /\ sender(p)) \/ (p \in Intermediates /\ intermediate(p))
  /\ calls' = [calls EXCEPT ![p] = @ + 1]
  /\ UNCHANGED <<at, run, forked, exited>>

Inside(p) == Step(p) /\ UNCHANGED <<program, forked, exited>>

\* the last of NUM_THREAD * 2 threads to arrive lets all of them go
pthread_barrier_wait(p) ==
  /\ at[p] = "start" /\ \E i \in 1..forked : p \in Process[i]
  /\ at' = IF \A o \in Threads \ {p} : at[o] = "barrier"
             THEN [o \in Threads |-> "loop"]
             ELSE [at EXCEPT ![p] = "barrier"]
  /\ UNCHANGED <<scrqVars, run, calls, forked, exited>>

EndRun(p) ==
  /\ at[p] = "loop" /\ pc[p] = "idle" /\ calls[p] = 2 * NUM_ITERS
  /\ run' = [run EXCEPT ![p] = @ + 1] /\ calls' = [calls EXCEPT ![p] = 0]
  /\ at' = [at EXCEPT ![p] = IF run[p] + 1 < NUM_RUNS THEN "start" ELSE "ended"]
  /\ UNCHANGED <<scrqVars, forked, exited>>

Thread(p) == pthread_barrier_wait(p) \/ InnerLoop(p) \/ Inside(p) \/ EndRun(p)

(* main: the process that forks goes on to its threads, joins them, exits *)

Fork ==
  /\ forked < 2 /\ forked' = forked + 1
  /\ UNCHANGED <<scrqVars, program, exited>>

Exit(i) ==
  /\ i \in (1..forked) \ exited /\ \A p \in Process[i] : at[p] = "ended"
  /\ exited' = exited \cup {i}
  /\ UNCHANGED <<scrqVars, program, forked>>

\* while (wait(&status) < 0) of the grandchild, which has no child
WaitLoop == forked = 2 /\ UNCHANGED allVars

Main == Fork \/ (\E i \in 1..2 : Exit(i)) \/ WaitLoop

Next ==
  \/ Main
  \/ \E p \in Threads :
       Thread(p) \/ ((Signal(p) \/ Deadline(p)) /\ UNCHANGED <<program, forked, exited>>)

\* Processes and threads that can run are scheduled; deadlines pass, or not.
Spec ==
  /\ Init /\ [][Next]_allVars
  /\ WF_allVars(Main) /\ \A p \in Threads : WF_allVars(Thread(p))
-----------------------------------------------------------------------------
(***************************************************************************)
(* No dequeue returns nullptr, which intermediate would pass on as an item *)
(* and dereference in the end (main.cpp:237).  dequeue gives up after      *)
(* MAX_PATIENCE waits that led to nothing; every wait that ends has seen a *)
(* new epoch, so with no more requests than MAX_PATIENCE it cannot, though *)
(* signals and deadlines end the system call as often as they like.        *)
(***************************************************************************)
DequeueNeverNull ==
  \A p \in Intermediates : pc[p] \in {"idle", "cancel"} => temp[p]

(***************************************************************************)
(* Both processes with threads finish: every request is answered, whether  *)
(* the sender still waits for it or has lost patience.                     *)
(***************************************************************************)
BothProcessesFinish == <>(exited = {1, 2})

(***************************************************************************)
(* The event counts are left as they began: when both processes are done   *)
(* no waiter is counted, although waits end by wake-ups, changed epochs,   *)
(* signals and deadlines.                                                  *)
(***************************************************************************)
NoWaiterLeft == exited = {1, 2} => \A q \in Queues : Waiters(val_[q]) = 0
=============================================================================
