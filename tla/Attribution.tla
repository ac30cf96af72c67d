------------------------------ MODULE Attribution ------------------------------
(***************************************************************************)
(* One prompt, from its cause to its label.                                *)
(*                                                                         *)
(* The generator draws why a prompt was or was not answered in time, and   *)
(* emits the events that cause implies, each with two clocks: the client's *)
(* and the server's (`_prompt`).  Events of a late prompt are uploaded     *)
(* hours later, each with a delay of its own, so they reach the warehouse  *)
(* in any order (module IncrementalBuild shows that they all do).  The     *)
(* attribution model labels the prompt by what has arrived so far.         *)
(*                                                                         *)
(* Times are whole seconds since the prompt was sent.                      *)
(***************************************************************************)
EXTENDS Integers

CONSTANTS
    Window,       \* window_minutes * 60
    Grace,        \* delivery_grace_min * 60
    SkewMax,      \* skew_max_min * 60
    SkewMin,      \* clock_skew_min * 60, of the profile
    Attempts      \* the most upload attempts of a failed upload

\* What may be drawn (`_secs`) for each delay.
CONSTANTS
    DeliverIn,    \* sent to delivered
    OpenIn,       \* delivered to opened
    CaptureIn,    \* opened to capture_started
    StartIn,      \* capture_started to the first upload_started
    CompleteIn,   \* upload_started to upload_completed
    FailIn,       \* upload_started to upload_failed
    RetryIn,      \* upload_failed to the next upload_started
    ReceiveIn,    \* a client-side event to its receipt by the server
    OfflineIn,    \* the end of the window to the device being online again
    SyncIn,       \* the device online to its stored events received
    SkewIn        \* what is added to SkewMin

Delays == {DeliverIn, OpenIn, CaptureIn, StartIn, CompleteIn, FailIn, RetryIn,
           ReceiveIn, OfflineIn, SyncIn, SkewIn}

ASSUME DelayAssumption ==
    /\ Window \in Nat /\ Grace \in Nat /\ SkewMax \in Nat /\ SkewMin \in Nat
    /\ Attempts \in Nat
    /\ \A D \in Delays : D \subseteq Nat

\* What the profiles' numbers give and the attribution relies on: a delivery is
\* within the grace, an answer that nothing delays is within the window, and a
\* skewed clock is ahead of the server's by more than the bound.
ASSUME ProfileAssumption ==
    /\ \A d \in DeliverIn : d <= Grace
    /\ \A d \in DeliverIn, o \in OpenIn, c \in CaptureIn, s \in StartIn,
          f \in CompleteIn, r \in ReceiveIn : d + o + c + s + f + r < Window
    /\ \A r \in ReceiveIn : SkewMin - r > SkewMax

VARIABLES
    cause,        \* why, as the generator has drawn it
    step,         \* how far the generator has come
    at,           \* the client clock it has come to
    attempts,     \* the upload attempts that have failed
    events,       \* the prompt's events in the export
    arrived       \* those in stg_events

vars == <<cause, step, at, attempts, events, arrived>>

Causes == {"on_time", "upload_fault", "delivery_fault", "timing_gap", "unattributed"}
Uploads == {"upload_started", "upload_failed", "upload_completed"}
ClientSide == {"prompt_opened", "capture_started"} \cup Uploads
Types == {"prompt_sent", "prompt_delivered", "response_recorded"} \cup ClientSide

Event(type, client, received) == [type |-> type, client |-> client, received |-> received]

-----------------------------------------------------------------------------
(* The generator. *)

\* assign_cause
Init ==
    /\ cause \in Causes
    /\ step = "start"
    /\ at = 0
    /\ attempts = 0
    /\ events = {} /\ arrived = {}

Send ==
    /\ step = "start"
    /\ events' = {Event("prompt_sent", 0, 0)}
    /\ step' = IF cause = "delivery_fault" THEN "emitted" ELSE "sent"
    /\ UNCHANGED <<cause, at, attempts, arrived>>

Deliver(d) ==
    /\ step = "sent"
    /\ at' = d
    /\ events' = events \cup {Event("prompt_delivered", d, d)}
    /\ step' = IF cause = "timing_gap" THEN "emitted" ELSE "delivered"
    /\ UNCHANGED <<cause, attempts, arrived>>

Open(o, r) ==
    /\ step = "delivered"
    /\ at' = at + o
    /\ events' = events \cup {Event("prompt_opened", at', at' + r)}
    /\ step' = "opened"
    /\ UNCHANGED <<cause, attempts, arrived>>

Capture(c, s, r) ==
    /\ step = "opened"
    /\ events' = events \cup {Event("capture_started", at + c, at + c + r)}
    /\ at' = at + c + s
    /\ step' = IF cause = "upload_fault" THEN "failing" ELSE "captured"
    /\ UNCHANGED <<cause, attempts, arrived>>

\* The device is offline from the capture until after the window: what it has
\* stored is received when it is online again, and the upload completes then.
CaptureOffline(c, s, w, y, z, f, r) ==
    LET capture == at + c
        online  == Window + w
    IN /\ step = "opened"
       /\ cause = "upload_fault"
       /\ events' = events \cup
            {Event("capture_started", capture, online + y),
             Event("upload_started", capture + s, online + z),
             Event("upload_completed", online + f, online + f + r),
             Event("response_recorded", online + f + r, online + f + r)}
       /\ step' = "emitted"
       /\ UNCHANGED <<cause, at, attempts, arrived>>

\* Mutant: the loop over the attempts has no bound.
FailUploadForever(f, t, r, q) ==
    /\ step = "failing"
    /\ events' = events \cup {Event("upload_started", at, at + r),
                              Event("upload_failed", at + f, at + f + q)}
    /\ attempts' = attempts + 1
    /\ at' = at + f + t
    /\ UNCHANGED <<cause, step, arrived>>

\* One turn of the loop over the attempts.
FailUpload(f, t, r, q) ==
    /\ step = "failing"
    /\ attempts < Attempts
    /\ events' = events \cup {Event("upload_started", at, at + r),
                              Event("upload_failed", at + f, at + f + q)}
    /\ attempts' = attempts + 1
    /\ at' = at + f + t
    /\ UNCHANGED <<cause, step, arrived>>

GiveUp ==
    /\ step = "failing"
    /\ attempts >= 2
    /\ step' = "emitted"
    /\ UNCHANGED <<cause, at, attempts, events, arrived>>

\* The upload succeeds; the response is recorded when the server has it.
Upload(f, r, q) ==
    /\ step = "captured"
    /\ events' = events \cup
         {Event("upload_started", at, at + r),
          Event("upload_completed", at + f, at + f + q),
          Event("response_recorded", at + f + q, at + f + q)}
    /\ step' = "emitted"
    /\ UNCHANGED <<cause, at, attempts, arrived>>

\* inject_clock_skew: the client clock of each client-side event of an
\* unattributed prompt is set forward, by SkewMin and some more.
Skewed(e, extra) ==
    IF e.type \in ClientSide THEN [e EXCEPT !.client = @ + SkewMin + extra] ELSE e
InjectSkew(extra) ==
    /\ step = "emitted"
    /\ events' = IF cause = "unattributed"
                 THEN {Skewed(e, extra[e.type]) : e \in events} ELSE events
    /\ step' = "exported"
    /\ UNCHANGED <<cause, at, attempts, arrived>>

\* A landing and a build bring one more event of the prompt into stg_events.
Arrive(e) ==
    /\ step = "exported"
    /\ e \in events \ arrived
    /\ arrived' = arrived \cup {e}
    /\ UNCHANGED <<cause, step, at, attempts, events>>

-----------------------------------------------------------------------------
(* The label, from the events in stg_events. *)

Of(types) == {e \in arrived : e.type \in types}
InWindow(t) == 0 <= t /\ t < Window

\* The first receipt is the row's delivered_at; there is at most one here.
DeliveredInGrace == \E e \in Of({"prompt_delivered"}) : e.client <= Grace
\* The least upload_delay_seconds is under the bound.
ClockAhead == \E e \in arrived : e.received - e.client < -SkewMax

ResponseOnTime ==
    \E e \in Of({"response_recorded"}) : InWindow(e.client) /\ InWindow(e.received)
CapturedInWindowReceivedLate ==
    \E e \in Of({"capture_started", "upload_started", "upload_completed"}) :
        InWindow(e.client) /\ ~InWindow(e.received)
HasResponse == Of({"response_recorded"}) # {}
HasResponseInWindow == \E e \in Of({"response_recorded"}) : InWindow(e.client)
HasCaptureInWindow == \E e \in Of({"capture_started"}) : InWindow(e.client)
\* Mutant: any upload event counts as a failed one.
HasUploadFailedAny == Of(Uploads) # {}
HasUploadFailed == Of({"upload_failed"}) # {}
HasUploadEvent == Of(Uploads) # {}

\* A prompt is in stg_prompts, and has a label, once its prompt_sent is there.
HasPrompt == Of({"prompt_sent"}) # {}

\* Mutant: the gate on the client clock comes after the arm of on_time.
LabelGateLate ==
    CASE ~HasPrompt -> "none"
      [] HasPrompt /\ ~DeliveredInGrace -> "delivery_fault"
      [] HasPrompt /\ DeliveredInGrace ->
            IF ResponseOnTime THEN "on_time"
            ELSE IF ClockAhead THEN "unattributed"
            ELSE IF \/ HasResponse /\ CapturedInWindowReceivedLate
                    \/ HasUploadFailed /\ ~HasResponse
                 THEN "upload_fault"
            ELSE IF ~HasCaptureInWindow /\ ~HasResponseInWindow /\ ~HasUploadEvent
                 THEN "timing_gap"
            ELSE "unattributed"

Label ==
    CASE ~HasPrompt -> "none"
      [] HasPrompt /\ ~DeliveredInGrace -> "delivery_fault"
      [] HasPrompt /\ DeliveredInGrace ->
            IF ClockAhead THEN "unattributed"
            ELSE IF ResponseOnTime THEN "on_time"
            ELSE IF \/ HasResponse /\ CapturedInWindowReceivedLate
                    \/ HasUploadFailed /\ ~HasResponse
                 THEN "upload_fault"
            ELSE IF ~HasCaptureInWindow /\ ~HasResponseInWindow /\ ~HasUploadEvent
                 THEN "timing_gap"
            ELSE "unattributed"

Next ==
    \/ Send
    \/ \E d \in DeliverIn : Deliver(d)
    \/ \E o \in OpenIn, r \in ReceiveIn : Open(o, r)
    \/ \E c \in CaptureIn, s \in StartIn, r \in ReceiveIn : Capture(c, s, r)
    \/ \E c \in CaptureIn, s \in StartIn, w \in OfflineIn, y \in SyncIn, z \in SyncIn,
          f \in CompleteIn, r \in ReceiveIn : CaptureOffline(c, s, w, y, z, f, r)
    \/ \E f \in FailIn, t \in RetryIn, r \in ReceiveIn, q \in ReceiveIn :
          FailUpload(f, t, r, q)
    \/ GiveUp
    \/ \E f \in CompleteIn, r \in ReceiveIn, q \in ReceiveIn : Upload(f, r, q)
    \/ \E extra \in [ClientSide -> SkewIn] : InjectSkew(extra)
    \/ \E e \in events : Arrive(e)

Spec == Init /\ [][Next]_vars

-----------------------------------------------------------------------------
(* Properties. *)

EventSet == [type : Types, client : Int, received : Int]
Labels == Causes \cup {"none"}

\* Type correctness; what has arrived is part of the export.
TypeOK ==
    /\ cause \in Causes
    /\ step \in {"start", "sent", "delivered", "opened", "captured", "failing",
                 "emitted", "exported"}
    /\ at \in Nat
    /\ attempts \in 0..Attempts
    /\ events \subseteq EventSet
    /\ arrived \subseteq events

\* Once all events of a prompt have arrived its label is the cause the generator
\* drew: the five arms of attribution.sql, in their order and with their bounds,
\* undo the generator's delays, its offline branch, its failing uploads and its
\* clock skew (`_prompt`, inject_clock_skew).
LabelIsCause == step = "exported" /\ arrived = events => Label = cause

\* No premature blame or credit: while events are still missing, in whatever order
\* they come, the pipeline is blamed (upload_fault) only for what was its fault,
\* and a prompt counted as on time was answered in time; at most the skew of its
\* clock is not known yet.  What is provisional errs on the other side.
BlameIsEarned ==
    /\ Label = "upload_fault" => cause = "upload_fault"
    /\ Label = "on_time" => cause \in {"on_time", "unattributed"}

\* How much the evidence behind a label says.
Sharpness ==
    CASE Label = "none" -> 0
      [] Label = "delivery_fault" -> 1
      [] Label = "timing_gap" -> 2
      [] Label = "unattributed" /\ ~ClockAhead -> 3
      [] Label \in {"on_time", "upload_fault"} -> 4
      [] Label = "unattributed" /\ ClockAhead -> 5

\* A late event sharpens the label of a prompt and never blurs it: from build to
\* build the label moves in one direction only, and between on_time and
\* upload_fault it does not move at all.
LabelSharpens ==
    [][/\ Sharpness <= Sharpness'
       /\ (Sharpness = 4 /\ Sharpness' = 4 => Label' = Label)]_vars
=============================================================================
