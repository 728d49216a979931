--------------------------- MODULE MuzooVerdicts ---------------------------
(***************************************************************************)
(* What "muzoo test" promises (src/muzoo/main.go, help text): every        *)
(* mutation gets one verdict from a test of its own, the exit code is a    *)
(* function of those verdicts, and a run that is cut short reports none.   *)
(***************************************************************************)

CONSTANT Patches   \* the mutations of the run

VARIABLES
  verdict,         \* what the test of each mutation showed
  report           \* what the command told its caller

Verdicts == {"killed", "survived", "error"}
Reports  == {"none", "allKilled", "someAlive", "aborted"}

TypeOK ==
  /\ verdict \in [Patches -> Verdicts \cup {"pending"}]
  /\ report \in Reports

Init ==
  /\ verdict = [p \in Patches |-> "pending"]
  /\ report = "none"

\* A test ends and settles the verdict of its mutation, once.
Decide(p) ==
  /\ report = "none"
  /\ verdict[p] = "pending"
  /\ \E v \in Verdicts : verdict' = [verdict EXCEPT ![p] = v]
  /\ UNCHANGED report

\* Exit code 0 or 1, only when no mutation is pending.
Report ==
  /\ report = "none"
  /\ \A p \in Patches : verdict[p] # "pending"
  /\ report' = IF \A p \in Patches : verdict[p] = "killed" THEN "allKilled" ELSE "someAlive"
  /\ UNCHANGED verdict

\* Exit code 2: set-up error or interruption, at any moment.
Abort ==
  /\ report = "none"
  /\ report' = "aborted"
  /\ UNCHANGED verdict

Next == Report \/ Abort \/ \E p \in Patches : Decide(p)

Spec == Init /\ [][Next]_<<verdict, report>>

=============================================================================
