-------------------------- MODULE CommandOutcome --------------------------
(***************************************************************************)
(* What the scheduler promises about an execution that sends commands to   *)
(* CoreHub, whatever the task: the commands of its plan take effect in     *)
(* CoreHub in the order of the plan and at most once each, and a success   *)
(* is recorded only when every one of them did.  A recorded failure        *)
(* promises nothing: the caller may have stopped waiting for an execution  *)
(* that goes on.  A command is a pair of numbers, <<unit, step>>.          *)
(***************************************************************************)
EXTENDS Integers, Sequences

CONSTANT Exec          \* executions of a job or of a chained event

VARIABLES
  plan,                \* plan[x]: the commands that x has to send
  applied,             \* applied[x]: those that CoreHub accepted, in order
  verdict              \* verdict[x]: what is recorded of x

vars == <<plan, applied, verdict>>

Verdict == {"none", "waiting", "success", "failed"}

Later(c, d) == c[1] > d[1] \/ (c[1] = d[1] /\ c[2] > d[2])

Init ==
  /\ plan = [x \in Exec |-> {}]
  /\ applied = [x \in Exec |-> <<>>]
  /\ verdict = [x \in Exec |-> "none"]

Record(x, from, to) ==
  /\ verdict[x] = from
  /\ verdict' = [verdict EXCEPT ![x] = to]

\* The plan of an execution is fixed before its first command is accepted.
Plan(x) ==
  /\ applied[x] = <<>>
  /\ verdict[x] # "success"
  /\ \A y \in Exec \ {x} : plan'[y] = plan[y]

Begin(x) ==
  /\ Plan(x)
  /\ Record(x, "none", "waiting") \/ Record(x, "none", "failed")
  /\ UNCHANGED applied

Replan(x) ==
  /\ Plan(x)
  /\ UNCHANGED <<applied, verdict>>

Apply(x) ==
  /\ verdict[x] # "success"
  /\ \E c \in plan[x] :
       /\ \A i \in 1 .. Len(applied[x]) : Later(c, applied[x][i])
       /\ applied' = [applied EXCEPT ![x] = Append(@, c)]
  /\ UNCHANGED <<plan, verdict>>

Succeed(x) ==
  /\ \A c \in plan[x] : \E i \in 1 .. Len(applied[x]) : applied[x][i] = c
  /\ Record(x, "waiting", "success")
  /\ UNCHANGED <<plan, applied>>

Fail(x) ==
  /\ Record(x, "waiting", "failed")
  /\ UNCHANGED <<plan, applied>>

Next ==
  \E x \in Exec : Begin(x) \/ Replan(x) \/ Apply(x) \/ Succeed(x) \/ Fail(x)

Spec == Init /\ [][Next]_vars
=============================================================================
