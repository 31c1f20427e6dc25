------------------------------- MODULE Delivery -------------------------------
(***************************************************************************)
(* What the notification queue promises, without loops, batches or         *)
(* restarts: a message waits until it is due, is taken by the platform any *)
(* number of times while it waits, and ends sent or given up. A message    *)
(* that ends sent was taken; one is given up after MaxRetries attempts,    *)
(* taken or not; nothing happens to it afterwards.                         *)
(***************************************************************************)
EXTENDS Naturals, Sequences

CONSTANTS MaxRetries, MaxItems, MaxCopies

VARIABLES
    status,    \* per message: scheduled, waiting, sent or givenup
    attempts,  \* per message: attempts that were counted as failed
    copies     \* per message: times it was taken, up to MaxCopies

vars == <<status, attempts, copies>>

Init == status = <<>> /\ attempts = <<>> /\ copies = <<>>

Submit ==
    /\ Len(status) < MaxItems
    /\ \E s \in {"scheduled", "waiting"} : status' = Append(status, s)
    /\ attempts' = Append(attempts, 0)
    /\ copies' = Append(copies, 0)

ComesDue(n) ==
    /\ status[n] = "scheduled"
    /\ status' = [status EXCEPT ![n] = "waiting"]
    /\ UNCHANGED <<attempts, copies>>

Take(n) ==
    /\ status[n] = "waiting"
    /\ copies[n] < MaxCopies
    /\ copies' = [copies EXCEPT ![n] = @ + 1]
    /\ UNCHANGED <<status, attempts>>

Confirm(n) ==
    /\ status[n] = "waiting"
    /\ copies[n] > 0
    /\ status' = [status EXCEPT ![n] = "sent"]
    /\ UNCHANGED <<attempts, copies>>

Fail(n) ==
    /\ status[n] = "waiting"
    /\ attempts' = [attempts EXCEPT ![n] = @ + 1]
    /\ status' = IF attempts'[n] < MaxRetries THEN status
                 ELSE [status EXCEPT ![n] = "givenup"]
    /\ UNCHANGED copies

Next ==
    \/ Submit
    \/ \E n \in 1..Len(status) : ComesDue(n) \/ Take(n) \/ Confirm(n) \/ Fail(n)

Spec == Init /\ [][Next]_vars
=============================================================================
