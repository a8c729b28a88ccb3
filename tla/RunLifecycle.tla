----------------------------- MODULE RunLifecycle -----------------------------
(***************************************************************************)
(* What the API promises about an AgentRun, whatever executes it: its      *)
(* status moves through AgentRunStatus, a worker takes it only when nobody *)
(* has it, only the worker that has it may settle it, and settling it is   *)
(* what writes the customer's one message.  AgentRuns implements this.     *)
(***************************************************************************)
EXTENDS Naturals

CONSTANTS Runs, ConversationRuns, Workers

VARIABLES
    status,   \* AgentRun.status
    reply,    \* messages written to the conversation
    holder    \* the workers that have the run in hand

lifecycleVars == <<status, reply, holder>>

Open == {"PENDING", "RUNNING", "WAITING_FOR_APPROVAL"}
Settled == {"WAITING_FOR_APPROVAL", "SUCCEEDED", "HANDED_OFF", "FAILED",
            "BUDGET_EXCEEDED"}

LifecycleInit ==
    /\ status = [r \in Runs |-> "none"]
    /\ reply = [r \in Runs |-> 0]
    /\ holder = [r \in Runs |-> {}]

Create(r) ==
    /\ status[r] = "none"
    /\ status' = [status EXCEPT ![r] = "PENDING"]
    /\ UNCHANGED <<reply, holder>>

\* The first execution, or a resume.
Claim(r, w) ==
    /\ status[r] \in {"PENDING", "WAITING_FOR_APPROVAL"}
    /\ holder[r] = {}
    /\ status' = [status EXCEPT ![r] = "RUNNING"]
    /\ holder' = [holder EXCEPT ![r] = {w}]
    /\ UNCHANGED reply

\* The worker that has the run pauses or ends it, and lets go of it.
Settle(r, s) ==
    /\ status[r] = "RUNNING"
    /\ holder[r] # {}
    /\ status' = [status EXCEPT ![r] = s]
    /\ reply' = IF s \in {"SUCCEEDED", "HANDED_OFF"} /\ r \in ConversationRuns
                THEN [reply EXCEPT ![r] = 1] ELSE reply
    /\ holder' = [holder EXCEPT ![r] = {}]

\* A worker dies, or gives up a run that was ended under it.
LetGo(r) ==
    /\ holder[r] # {}
    /\ holder' = [holder EXCEPT ![r] = {}]
    /\ UNCHANGED <<status, reply>>

\* Cancellation and stuck-run recovery end a run under whoever has it.
EndUnder(r) ==
    /\ \/ status[r] \in Open /\ status' = [status EXCEPT ![r] = "CANCELLED"]
       \/ status[r] = "RUNNING" /\ status' = [status EXCEPT ![r] = "FAILED"]
    /\ UNCHANGED <<reply, holder>>

LifecycleNext ==
    \E r \in Runs :
        \/ Create(r)
        \/ \E w \in Workers : Claim(r, w)
        \/ \E s \in Settled : Settle(r, s)
        \/ LetGo(r)
        \/ EndUnder(r)

LifecycleSpec == LifecycleInit /\ [][LifecycleNext]_lifecycleVars
=============================================================================
