----------------------------- MODULE RoundTrip -----------------------------
(***************************************************************************)
(* c/main.c: three processes send requests along queue12 and queue23 and   *)
(* responses back along queue32, with the operations of ELCRQ.  The parent *)
(* forks them, waits for them and destroys the segment.                    *)
(***************************************************************************)
EXTENDS ELCRQ, Sequences

CONSTANTS NUM_ITERS, NUM_RUNS,
          Senders, Intermediates, Receivers,    \* NUM_THREAD threads each
          queue12, queue23, queue32, queue21

ASSUME RoundTripAssumption ==
  /\ NUM_ITERS \in Nat \ {0} /\ NUM_RUNS \in Nat \ {0}
  /\ Queues = {queue12, queue23, queue32, queue21}
  /\ Threads = Senders \cup Intermediates \cup Receivers

VARIABLES at,       \* at[p]: where thread p is in its function
          run,      \* run[p]: j, the runs p has finished
          calls,    \* calls[p]: operations p has called in this run
          got,      \* got[p]: p's last dequeue did not return EMPTY
          forked,   \* processes the parent has forked
          exited,   \* processes that have exited
          reaped,   \* processes the parent has waited for
          cleaned   \* the barrier and the segment are destroyed

program   == <<at, run, calls, got>>
processes == <<forked, exited, reaped, cleaned>>
allVars   == <<vars, program, processes>>

Process == <<Senders, Intermediates, Receivers>>
Processes == 1..3

RoundTripType ==
  /\ TypeOK
  /\ at \in [Threads -> {"start", "barrier", "loop", "ended"}]
  /\ run \in [Threads -> 0..NUM_RUNS] /\ calls \in [Threads -> Nat]
  /\ got \in [Threads -> BOOLEAN]
  /\ forked \in 0..3 /\ reaped \subseteq exited /\ exited \subseteq 1..forked
  /\ cleaned \in BOOLEAN

RoundTripInit ==
  /\ Init
  /\ at = [p \in Threads |-> "start"]
  /\ run = [p \in Threads |-> 0] /\ calls = [p \in Threads |-> 0]
  /\ got = [p \in Threads |-> FALSE]
  /\ forked = 0 /\ exited = {} /\ reaped = {} /\ cleaned = FALSE
-----------------------------------------------------------------------------
(* sender, intermediate and receiver *)

\* p[i].q21 = queue23
q21 == queue23

\* Mutant: intermediate asks for the response before it has sent the request.
BodyOutOfOrder(p) ==
  CASE p \in Senders       -> <<<<"enqueue", queue12>>, <<"spinDequeue", q21>>>>
    [] p \in Intermediates -> <<<<"dequeue", queue12>>, <<"spinDequeue", queue32>>,
                                <<"enqueue", queue23>>, <<"spinEnqueue", q21>>>>
    [] p \in Receivers     -> <<<<"dequeue", queue23>>, <<"spinEnqueue", queue32>>>>

\* the operations in the body of the inner loop
Body(p) ==
  CASE p \in Senders       -> <<<<"enqueue", queue12>>, <<"spinDequeue", q21>>>>
    [] p \in Intermediates -> <<<<"dequeue", queue12>>, <<"enqueue", queue23>>,
                                <<"spinDequeue", queue32>>, <<"spinEnqueue", q21>>>>
    [] p \in Receivers     -> <<<<"dequeue", queue23>>, <<"spinEnqueue", queue32>>>>

\* Mutant: one round more than there are requests.
RoundsPlusOne(p) == IF p \in Intermediates THEN NUM_ITERS + 1 ELSE NUM_ITERS

Rounds(p) == IF p \in Intermediates THEN NUM_ITERS - 1 ELSE NUM_ITERS

\* EMPTY is what a free cell holds: enq spends a ticket on it and stores nothing
enqEMPTY(p, q) ==
  /\ Call(p, q, "idle")
  /\ sent[q] < MaxSent /\ sent' = [sent EXCEPT ![q] = @ + 1]
  /\ UNCHANGED <<items, patience>>

Operation(p, op, q) ==
  \/ op = "enqueue" /\ enqueue(p, q)
  \/ op = "dequeue" /\ dequeue(p, q)
  \/ op = "spinDequeue" /\ spinDequeue(p, q)
  \/ op = "spinEnqueue" /\ got[p] /\ spinEnqueue(p, q)
  \/ op = "spinEnqueue" /\ ~got[p] /\ enqEMPTY(p, q)

InnerLoop(p) ==
  /\ at[p] = "loop" /\ calls[p] < Rounds(p) * Len(Body(p))
  /\ LET call == Body(p)[(calls[p] % Len(Body(p))) + 1]
     IN  Operation(p, call[1], call[2])
  /\ calls' = [calls EXCEPT ![p] = @ + 1]
  /\ UNCHANGED <<at, run, got, processes>>

\* a step inside an operation; what deq returns is kept in the variable deq
Inside(p) ==
  /\ Step(p)
  /\ got' = [got EXCEPT ![p] = IF pc[p] \in {"deq", "recheck", "spin"}
                                 THEN items' # items ELSE @]
  /\ UNCHANGED <<at, run, calls, processes>>

\* the last thread to arrive lets all of them go
pthread_barrier_wait(p) ==
  /\ at[p] = "start" /\ \E i \in 1..forked : p \in Process[i]
  /\ at' = IF \A o \in Threads \ {p} : at[o] = "barrier"
             THEN [o \in Threads |-> "loop"]
             ELSE [at EXCEPT ![p] = "barrier"]
  /\ UNCHANGED <<vars, run, calls, got, processes>>

EndRun(p) ==
  /\ at[p] = "loop" /\ pc[p] = "idle" /\ calls[p] = Rounds(p) * Len(Body(p))
  /\ run' = [run EXCEPT ![p] = @ + 1] /\ calls' = [calls EXCEPT ![p] = 0]
  /\ at' = [at EXCEPT ![p] = IF run[p] + 1 < NUM_RUNS THEN "start" ELSE "ended"]
  /\ UNCHANGED <<vars, got, processes>>

Thread(p) == pthread_barrier_wait(p) \/ InnerLoop(p) \/ Inside(p) \/ EndRun(p)
-----------------------------------------------------------------------------
(* main *)

Fork ==
  /\ forked < 3 /\ forked' = forked + 1
  /\ UNCHANGED <<vars, program, exited, reaped, cleaned>>

\* pthread_join of every thread and exit(0)
Exit(i) ==
  /\ i \in (1..forked) \ exited /\ \A p \in Process[i] : at[p] = "ended"
  /\ exited' = exited \cup {i}
  /\ UNCHANGED <<vars, program, forked, reaped, cleaned>>

\* wait returns the number of a child that has exited, and -1 when none is left
Wait ==
  /\ forked = 3 /\ ~cleaned
  /\ \E i \in exited \ reaped : reaped' = reaped \cup {i}
  /\ UNCHANGED <<vars, program, forked, exited, cleaned>>

\* Mutant: the loop ends with the first child that has exited.
CleanupAfterOne ==
  /\ forked = 3 /\ reaped # {} /\ ~cleaned
  /\ cleaned' = TRUE
  /\ UNCHANGED <<vars, program, forked, exited, reaped>>

Cleanup ==
  /\ forked = 3 /\ reaped = Processes /\ ~cleaned
  /\ cleaned' = TRUE
  /\ UNCHANGED <<vars, program, forked, exited, reaped>>

Main == Fork \/ (\E i \in Processes : Exit(i)) \/ Wait \/ Cleanup
-----------------------------------------------------------------------------
Signal(p) == Interrupt(p) /\ UNCHANGED <<queue, program, processes>>

RoundTripNext == Main \/ \E p \in Threads : Thread(p) \/ Signal(p)

\* Processes and threads that can run are scheduled.
RoundTripSpec ==
  /\ RoundTripInit /\ [][RoundTripNext]_allVars
  /\ WF_allVars(Main) /\ \A p \in Threads : WF_allVars(Thread(p))
-----------------------------------------------------------------------------
(***************************************************************************)
(* The senders finish: what sender waits for is only that q21 has been     *)
(* used, after which spinDequeue answers, with an item or EMPTY.  It takes *)
(* an intermediate that has got a request and passed it on, whatever has   *)
(* become of the other threads; with NUM_ITERS = 1 there is none, and with *)
(* NUM_RUNS > 1 the barrier makes the senders wait for the receivers.      *)
(***************************************************************************)
SendersFinish == <>(\A p \in Senders : at[p] = "ended")

(***************************************************************************)
(* Every request that intermediate waits for arrives: a dequeue on queue12 *)
(* returns, however the senders' and the other intermediates' calls fall,  *)
(* because the senders send more requests than are asked for.              *)
(***************************************************************************)
RequestsArrive ==
  \A p \in Intermediates :
    [](at[p] = "loop" /\ pc[p] # "idle" /\ on[p] = queue12 => <>(pc[p] = "idle"))

(***************************************************************************)
(* The segment outlives its users: main destroys the barrier and the       *)
(* segment, with the queues in it, when no thread sleeps on a queue or     *)
(* will call an operation again.                                           *)
(***************************************************************************)
SegmentOutlivesThreads == cleaned => \A p \in Threads : at[p] = "ended"

(***************************************************************************)
(* main comes to an end: "wait for all processes to finish" (line 135).    *)
(***************************************************************************)
EveryProcessFinishes == <>cleaned
=============================================================================
