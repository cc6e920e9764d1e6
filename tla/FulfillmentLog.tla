--------------------------- MODULE FulfillmentLog ---------------------------
(***************************************************************************)
(* What the fulfillment log promises, whatever the channel and the server  *)
(* do: every transfer gets its own row; one row at a time is open in the   *)
(* running process; a row ends once, as completed only when the server     *)
(* confirmed the delivery; and only a restart leaves a row open for good.  *)
(***************************************************************************)
EXTENDS Naturals

CONSTANT Transfers  \* row numbers, 1..n

VARIABLES status,   \* status[t]: fulfillment_log.status, "none" before its row
          active,   \* the transfer the process works on, 0 for none
          settled,  \* transfers whose delivery the server confirmed
          restarts  \* how often the process was started again

vars == <<status, active, settled, restarts>>

Open   == {"received", "uploading"}
Closed == {"completed", "failed", "timed_out"}

Init ==
    /\ status = [t \in Transfers |-> "none"]
    /\ active = 0
    /\ settled = {}
    /\ restarts = 0

Receive(t) ==
    /\ active = 0
    /\ status[t] = "none"
    /\ status' = [status EXCEPT ![t] = "received"]
    /\ active' = t
    /\ UNCHANGED <<settled, restarts>>

\* An object in S3 is offered in the step that reads the request; its order
\* may have been confirmed under an earlier transfer.
ReceiveAndOffer(t) ==
    /\ active = 0
    /\ status[t] = "none"
    /\ status' = [status EXCEPT ![t] = "uploading"]
    /\ active' = t
    /\ settled' \in {settled, settled \cup {t}}
    /\ UNCHANGED restarts

Upload(t) ==
    /\ active = t
    /\ status[t] = "received"
    /\ status' = [status EXCEPT ![t] = "uploading"]
    /\ UNCHANGED <<active, settled, restarts>>

Settle(S) ==
    /\ settled \subseteq S
    /\ settled' = S
    /\ UNCHANGED <<status, active, restarts>>

Complete(t) ==
    /\ active = t
    /\ t \in settled
    /\ status[t] = "uploading"
    /\ status' = [status EXCEPT ![t] = "completed"]
    /\ active' = 0
    /\ UNCHANGED <<settled, restarts>>

Fail(t) ==
    /\ active = t
    /\ status[t] \in Open
    /\ \E s \in {"failed", "timed_out"} : status' = [status EXCEPT ![t] = s]
    /\ active' = 0
    /\ UNCHANGED <<settled, restarts>>

Restart ==
    /\ active' = 0
    /\ restarts' = restarts + 1
    /\ UNCHANGED <<status, settled>>

Next ==
    \/ \E t \in Transfers :
          \/ Receive(t) \/ ReceiveAndOffer(t) \/ Upload(t)
          \/ Complete(t) \/ Fail(t)
    \/ \E S \in SUBSET Transfers : Settle(S)
    \/ Restart

Spec == Init /\ [][Next]_vars
=============================================================================
