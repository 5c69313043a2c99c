---------------------------- MODULE ImportLifecycle ----------------------------
(***************************************************************************)
(* What a client of the AWAT sees of an import, and may rely on: the states*)
(* of model/import.go in the order that they may follow each other, and    *)
(* the one run that lies between the preparation of the installation and   *)
(* its reversion.  Adjustments may take several rounds; a verdict is final.*)
(***************************************************************************)
CONSTANT Imports

VARIABLES status,  \* status[i]: "none" or the State that the API shows
          ran      \* imports of which a run has ended

vars == <<status, ran>>

Requested == "import-requested"
PreAdjustment == "installation-pre-adjustment"
InProgress == "import-in-progress"
Complete == "import-complete"
PostAdjustment == "installation-post-adjustment"

Preparing == {Requested, PreAdjustment}
Reverting == {Complete, PostAdjustment}
Verdicts == {"import-succeeded", "import-failed"}

TypeOK == /\ status \in [Imports -> {"none", InProgress} \cup Preparing
                                        \cup Reverting \cup Verdicts]
          /\ ran \subseteq Imports

Init == /\ status = [i \in Imports |-> "none"]
        /\ ran = {}

Become(i, state) ==
    status' = [status EXCEPT ![i] = state] /\ UNCHANGED ran

Request(i) == status[i] = "none" /\ Become(i, Requested)

\* Back and forth, until the installation is as the import needs it.
Prepare(i) == /\ status[i] \in Preparing
              /\ \E state \in Preparing : Become(i, state)

Offer(i) == status[i] \in Preparing /\ Become(i, InProgress)

\* Nothing that the API shows tells the end of the run from its middle.
Run(i) == /\ status[i] = InProgress
          /\ i \notin ran
          /\ ran' = ran \cup {i}
          /\ UNCHANGED status

Notice(i) == status[i] = InProgress /\ i \in ran /\ Become(i, Complete)

\* A report that was begun before the notice shows it as running once more.
Renotice(i) == status[i] = Complete /\ Become(i, InProgress)

Revert(i) == /\ status[i] \in Reverting
             /\ \E state \in Reverting : Become(i, state)

Conclude(i) == /\ status[i] \in Reverting
               /\ \E verdict \in Verdicts : Become(i, verdict)

Next == \E i \in Imports :
    \/ Request(i) \/ Prepare(i) \/ Offer(i) \/ Run(i) \/ Notice(i) \/ Renotice(i)
    \/ Revert(i) \/ Conclude(i)

Spec == Init /\ [][Next]_vars
================================================================================
