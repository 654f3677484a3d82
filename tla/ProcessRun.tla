----------------------------- MODULE ProcessRun -----------------------------
(***************************************************************************)
(* run_process() (src/src/media/process.cpp), POSIX build: a child whose   *)
(* output is read through a pipe until it has ended, it is stopped, or its *)
(* time is up.  The child runs on between any two steps of its supervisor. *)
(* A child is taken to start no process of its own that holds the pipe.    *)
(***************************************************************************)
EXTENDS Integers

CONSTANTS
  Responses,     \* the lengths a child may mean to write
  OutputLimit    \* options.max_output

ASSUME ProcessAssumption == Responses \subseteq Nat /\ OutputLimit \in Nat

\* written, output: what the child has put into the pipe, and what was read from it.
\* at: the supervisor is about to read, or about to wait for the child.
Run == [child: {"alive", "ok", "failed"}, response: Responses, written: Nat, output: Nat,
        at: {"read", "wait"}]

Spawned == {[child |-> "alive", response |-> n, written |-> 0, output |-> 0, at |-> "read"] :
            n \in Responses}

\* What a living child may do next: write, fail, or exit once it has written everything.
ChildSteps(run) ==
  IF run.child # "alive" THEN {}
  ELSE {[run EXCEPT !.child = "failed"]} \cup
       (IF run.written < run.response THEN {[run EXCEPT !.written = @ + 1]}
        ELSE {[run EXCEPT !.child = "ok"]})

\* A round of the supervisor: it goes on with a run, returns an output, or throws.  However
\* it leaves the loop, the group of the child is killed and the child reaped.
GoesOn(run)     == [result |-> "none", run |-> run]
Returns(output) == [result |-> "output", output |-> output]
Throws          == [result |-> "error"]

Outcome(run) == IF run.child = "ok" THEN Returns(run.output) ELSE Throws

\* check(): throws when told to stop; the deadline, which may pass at any time, does the same.
\* Then read(): what is there, nothing as yet, or the end of the output.
Reads(run, stop) ==
  IF stop \/ run.written > OutputLimit THEN Throws
  ELSE IF run.written > run.output THEN GoesOn([run EXCEPT !.output = run.written])
  ELSE IF run.child = "alive" THEN GoesOn([run EXCEPT !.at = "wait"])
  ELSE Outcome(run)

\* waitpid(): the loop goes round again, also when the child has ended, to read the rest.
Waits(run) == GoesOn([run EXCEPT !.at = "read"])

\* The supervisor polls every 5 ms; a round that finds nothing new is not a step of its own.
Stirs(run, stop) ==
  run.at = "wait" => \/ stop \/ run.child # "alive" \/ run.written > run.output

Round(run, stop) == IF run.at = "read" THEN Reads(run, stop) ELSE Waits(run)
=============================================================================
