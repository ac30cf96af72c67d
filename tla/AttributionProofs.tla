--------------------------- MODULE AttributionProofs ---------------------------
(***************************************************************************)
(* That the attribution recovers the cause the generator drew, and what it *)
(* may say before all events of a prompt have arrived, for every window,   *)
(* grace, bound and set of delays that satisfies ProfileAssumption.        *)
(***************************************************************************)
EXTENDS Attribution, TLAPS

HasEvent(type) == \E e \in events : e.type = type
Complete == step \in {"emitted", "exported"}

\* How far the generator can come with each cause.
CauseInv ==
    /\ step \notin {"start", "emitted", "exported"} => cause # "delivery_fault"
    /\ step \in {"delivered", "opened", "captured", "failing"} => cause # "timing_gap"
    /\ step = "captured" => cause \in {"on_time", "unattributed"}
    /\ step = "failing" => cause = "upload_fault"

\* The client clock is a sum of delays, which ProfileAssumption bounds.
ClockInv ==
    /\ step = "delivered" => at \in DeliverIn
    /\ step = "opened" => \E d \in DeliverIn, o \in OpenIn : at = d + o
    /\ step = "captured" =>
         \E d \in DeliverIn, o \in OpenIn, c \in CaptureIn, s \in StartIn :
            at = d + o + c + s

\* Only a skewed clock is ahead of the server's.
SkewInv ==
    /\ ~(step = "exported" /\ cause = "unattributed") =>
         \A e \in events : e.client <= e.received
    /\ cause = "unattributed" /\ step \in {"opened", "captured", "emitted"} =>
         \E e \in events : e.type = "prompt_opened" /\ e.received - e.client \in ReceiveIn
    /\ cause = "unattributed" /\ step = "exported" =>
         \E e \in events : e.received - e.client < -SkewMax

\* The receipt.
ReceiptInv ==
    /\ step # "start" => HasEvent("prompt_sent")
    /\ step \notin {"start", "sent"} /\ cause # "delivery_fault" =>
         HasEvent("prompt_delivered")
    /\ \A e \in events :
         e.type = "prompt_delivered" => cause # "delivery_fault" /\ e.client <= Grace
    /\ \A e \in events :
         cause \in {"delivery_fault", "timing_gap"} =>
            e.type \in {"prompt_sent", "prompt_delivered"}

\* The answer.
ResponseInv ==
    /\ \A e \in events : e.type = "upload_failed" => cause = "upload_fault"
    /\ \A e \in events : e.type = "response_recorded" =>
         /\ Complete
         /\ cause = "upload_fault" => e.received >= Window
         /\ cause # "upload_fault" => InWindow(e.client) /\ InWindow(e.received)
    /\ HasEvent("upload_failed") =>
         (step = "failing" \/ Complete) /\ ~HasEvent("response_recorded")
    /\ Complete /\ cause = "on_time" => HasEvent("response_recorded")
    /\ step = "failing" /\ attempts > 0 => HasEvent("upload_failed")
    /\ Complete /\ cause = "upload_fault" =>
         \/ HasEvent("upload_failed")
         \/ /\ HasEvent("response_recorded")
            /\ \E e \in events : /\ e.type = "capture_started"
                                 /\ InWindow(e.client) /\ ~InWindow(e.received)

StartInv == step = "start" => events = {}
ArrivedInv == arrived # {} => step = "exported"

\* Only failing uploads count as attempts.
AttemptsInv == step \in {"start", "sent", "delivered", "opened"} => attempts = 0

IInv == /\ TypeOK /\ CauseInv /\ ClockInv /\ SkewInv
        /\ ReceiptInv /\ ResponseInv /\ StartInv /\ ArrivedInv
        /\ AttemptsInv

-----------------------------------------------------------------------------
LEMMA DelaysAreNat ==
    /\ Window \in Nat /\ Grace \in Nat /\ SkewMax \in Nat /\ SkewMin \in Nat
    /\ Attempts \in Nat
    /\ DeliverIn \subseteq Nat /\ OpenIn \subseteq Nat /\ CaptureIn \subseteq Nat
    /\ StartIn \subseteq Nat /\ CompleteIn \subseteq Nat /\ FailIn \subseteq Nat
    /\ RetryIn \subseteq Nat /\ ReceiveIn \subseteq Nat /\ OfflineIn \subseteq Nat
    /\ SyncIn \subseteq Nat /\ SkewIn \subseteq Nat
  BY DelayAssumption DEF Delays

LEMMA EventFields ==
    ASSUME NEW type \in Types, NEW client \in Int, NEW received \in Int
    PROVE  /\ Event(type, client, received) \in EventSet
           /\ Event(type, client, received).type = type
           /\ Event(type, client, received).client = client
           /\ Event(type, client, received).received = received
  BY DEF Event, EventSet

LEMMA EventTypes ==
    /\ "prompt_sent" \in Types /\ "prompt_delivered" \in Types
    /\ "prompt_opened" \in Types /\ "capture_started" \in Types
    /\ "upload_started" \in Types /\ "upload_failed" \in Types
    /\ "upload_completed" \in Types /\ "response_recorded" \in Types
  BY DEF Types, ClientSide, Uploads

\* A skewed event keeps its type and its receipt; only a client-side one changes.
LEMMA SkewedFields ==
    ASSUME NEW e \in EventSet, NEW extra \in Nat
    PROVE  /\ Skewed(e, extra) \in EventSet
           /\ Skewed(e, extra).type = e.type
           /\ Skewed(e, extra).received = e.received
           /\ e.type \notin ClientSide => Skewed(e, extra) = e
           /\ e.type \in ClientSide =>
                Skewed(e, extra).client = e.client + SkewMin + extra
  <1>1. SkewMin \in Nat
    BY DelaysAreNat
  <1> QED
    BY <1>1 DEF Skewed, EventSet

LEMMA InitInv == Init => IInv
  <1> SUFFICES ASSUME Init PROVE IInv
    OBVIOUS
  <1>1. events = {} /\ arrived = {} /\ step = "start" /\ at = 0 /\ attempts = 0
    BY DEF Init
  <1>2. TypeOK
    BY <1>1, DelaysAreNat DEF Init, TypeOK
  <1> QED
    BY <1>1, <1>2 DEF IInv, CauseInv, ClockInv, SkewInv, ReceiptInv, ResponseInv,
        StartInv, ArrivedInv, AttemptsInv, HasEvent, Complete

LEMMA SendInv == ASSUME IInv, Send PROVE IInv'
  <1>1. events' = {Event("prompt_sent", 0, 0)} /\ step = "start" /\ cause' = cause
        /\ at' = at /\ attempts' = attempts /\ arrived' = arrived
    BY DEF Send
  <1>2. step' = IF cause = "delivery_fault" THEN "emitted" ELSE "sent"
    BY DEF Send
  <1>3. arrived = {}
    BY <1>1 DEF IInv, ArrivedInv
  <1>4. Event("prompt_sent", 0, 0) \in EventSet /\ Event("prompt_sent", 0, 0).type = "prompt_sent"
        /\ Event("prompt_sent", 0, 0).client = 0 /\ Event("prompt_sent", 0, 0).received = 0
    BY EventFields DEF Types
  <1>5. TypeOK'
    BY <1>1, <1>2, <1>3, <1>4 DEF IInv, TypeOK
  <1>6. CauseInv' /\ ClockInv' /\ StartInv' /\ ArrivedInv' /\ AttemptsInv'
    BY <1>1, <1>2, <1>3 DEF IInv, TypeOK, CauseInv, ClockInv, StartInv, ArrivedInv, AttemptsInv
  <1>7. SkewInv'
    BY <1>1, <1>2, <1>4 DEF SkewInv
  <1>8. ReceiptInv'
    BY <1>1, <1>2, <1>4 DEF ReceiptInv, HasEvent
  <1>9. ResponseInv'
    BY <1>1, <1>2, <1>4 DEF ResponseInv, HasEvent, Complete
  <1> QED
    BY <1>5, <1>6, <1>7, <1>8, <1>9 DEF IInv

\* What the steps of the generator have in common: they add well-formed events.
LEMMA AddedEvents ==
    ASSUME IInv, NEW added \in SUBSET EventSet, events' = events \cup added,
           step \notin {"start", "exported"}, arrived' = arrived
    PROVE  /\ events' \subseteq EventSet /\ arrived' \subseteq events'
           /\ events \subseteq EventSet
           /\ arrived' = {}
           /\ \A e \in events : e.client <= e.received
  BY DEF IInv, TypeOK, ArrivedInv, SkewInv

LEMMA DeliverInv == ASSUME IInv, NEW d \in DeliverIn, Deliver(d) PROVE IInv'
  <1> DEFINE new == Event("prompt_delivered", d, d)
  <1>1. /\ d \in Nat /\ d <= Grace /\ at' = d
        /\ events' = events \cup {new} /\ step = "sent" /\ cause' = cause
        /\ attempts' = attempts /\ arrived' = arrived
        /\ step' = IF cause = "timing_gap" THEN "emitted" ELSE "delivered"
    BY DelaysAreNat, ProfileAssumption DEF Deliver
  <1>2. /\ new \in EventSet /\ new.type = "prompt_delivered"
        /\ new.client = d /\ new.received = d
    BY <1>1, EventFields DEF Types
  <1> HIDE DEF new
  <1>3. /\ events' \subseteq EventSet /\ arrived' \subseteq events'
        /\ arrived' = {} /\ \A e \in events : e.client <= e.received
    BY <1>1, <1>2, AddedEvents
  <1>4. TypeOK'
    BY <1>1, <1>3 DEF IInv, TypeOK
  <1>5. CauseInv' /\ ClockInv' /\ StartInv' /\ ArrivedInv' /\ AttemptsInv'
    BY <1>1, <1>3 DEF IInv, TypeOK, CauseInv, ClockInv, StartInv, ArrivedInv, AttemptsInv
  <1>6. SkewInv'
    BY <1>1, <1>2, <1>3 DEF SkewInv
  <1>7. ReceiptInv'
    BY <1>1, <1>2 DEF IInv, CauseInv, ReceiptInv, HasEvent
  <1>8. ResponseInv'
    BY <1>1, <1>2 DEF IInv, CauseInv, ResponseInv, HasEvent, Complete
  <1> QED
    BY <1>4, <1>5, <1>6, <1>7, <1>8 DEF IInv

LEMMA OpenInv ==
    ASSUME IInv, NEW o \in OpenIn, NEW r \in ReceiveIn, Open(o, r) PROVE IInv'
  <1> DEFINE new == Event("prompt_opened", at + o, at + o + r)
  <1>1. /\ o \in Nat /\ r \in Nat /\ at \in Nat /\ at' = at + o
        /\ events' = events \cup {new} /\ step = "delivered" /\ cause' = cause
        /\ attempts' = attempts /\ arrived' = arrived /\ step' = "opened"
    BY DelaysAreNat DEF Open, IInv, TypeOK
  <1>2. /\ new \in EventSet /\ new.type = "prompt_opened"
        /\ new.client = at + o /\ new.received = at + o + r
    <2>1. at + o \in Int /\ at + o + r \in Int
      BY <1>1
    <2> QED
      BY <2>1, EventFields, EventTypes
  <1> HIDE DEF new
  <1>3. /\ events' \subseteq EventSet /\ arrived' \subseteq events'
        /\ arrived' = {} /\ \A e \in events : e.client <= e.received
    BY <1>1, <1>2, AddedEvents
  <1>4. TypeOK'
    BY <1>1, <1>3 DEF IInv, TypeOK
  <1>5. CauseInv' /\ ClockInv' /\ StartInv' /\ ArrivedInv' /\ AttemptsInv'
    BY <1>1, <1>3 DEF IInv, TypeOK, CauseInv, ClockInv, StartInv, ArrivedInv, AttemptsInv
  <1>6. SkewInv'
    <2>1. new.received - new.client = r /\ new.client <= new.received
      BY <1>1, <1>2
    <2> QED
      BY <1>1, <1>2, <1>3, <2>1 DEF SkewInv
  <1>7. ReceiptInv'
    BY <1>1, <1>2 DEF IInv, CauseInv, ReceiptInv, HasEvent
  <1>8. ResponseInv'
    BY <1>1, <1>2 DEF IInv, CauseInv, ResponseInv, HasEvent, Complete
  <1> QED
    BY <1>4, <1>5, <1>6, <1>7, <1>8 DEF IInv

LEMMA CaptureStepInv ==
    ASSUME IInv, NEW c \in CaptureIn, NEW s \in StartIn, NEW r \in ReceiveIn,
           Capture(c, s, r)
    PROVE  IInv'
  <1> DEFINE new == Event("capture_started", at + c, at + c + r)
  <1>1. /\ c \in Nat /\ s \in Nat /\ r \in Nat /\ at \in Nat /\ at' = at + c + s
        /\ events' = events \cup {new} /\ step = "opened" /\ cause' = cause
        /\ attempts' = attempts /\ arrived' = arrived
        /\ step' = IF cause = "upload_fault" THEN "failing" ELSE "captured"
    BY DelaysAreNat DEF Capture, IInv, TypeOK
  <1>2. /\ new \in EventSet /\ new.type = "capture_started"
        /\ new.client = at + c /\ new.received = at + c + r
    <2>1. at + c \in Int /\ at + c + r \in Int
      BY <1>1
    <2> QED
      BY <2>1, EventFields, EventTypes
  <1> HIDE DEF new
  <1>3. /\ events' \subseteq EventSet /\ arrived' \subseteq events'
        /\ arrived' = {} /\ \A e \in events : e.client <= e.received
    BY <1>1, <1>2, AddedEvents
  <1>4. TypeOK'
    BY <1>1, <1>3 DEF IInv, TypeOK
  <1>5. ClockInv'
    <2>1. PICK d \in DeliverIn, o \in OpenIn : at = d + o
      BY <1>1 DEF IInv, ClockInv
    <2>2. d \in Nat /\ o \in Nat /\ at' = d + o + c + s
      BY <1>1, <2>1, DelaysAreNat
    <2> QED
      BY <1>1, <2>2 DEF ClockInv
  <1>6. CauseInv' /\ StartInv' /\ ArrivedInv' /\ AttemptsInv'
    BY <1>1, <1>3 DEF IInv, TypeOK, CauseInv, StartInv, ArrivedInv, AttemptsInv, Causes
  <1>7. SkewInv'
    <2>1. new.client <= new.received
      BY <1>1, <1>2
    <2>2. ~(step = "exported" /\ cause = "unattributed")
      BY <1>1
    <2>3. cause = "unattributed" =>
            \E e \in events : e.type = "prompt_opened" /\ e.received - e.client \in ReceiveIn
      BY <1>1 DEF IInv, SkewInv
    <2> QED
      BY <1>1, <1>2, <1>3, <2>1, <2>3 DEF SkewInv
  <1>8. ReceiptInv'
    BY <1>1, <1>2 DEF IInv, CauseInv, ReceiptInv, HasEvent
  <1>9. ResponseInv'
    <2>1. attempts = 0
      BY <1>1 DEF IInv, AttemptsInv
    <2> QED
      BY <1>1, <1>2, <2>1 DEF IInv, CauseInv, ResponseInv, HasEvent, Complete
  <1> QED
    BY <1>4, <1>5, <1>6, <1>7, <1>8, <1>9 DEF IInv

\* The offline branch: captured inside the window, received and answered outside.
LEMMA CaptureOfflineInv ==
    ASSUME IInv, NEW c \in CaptureIn, NEW s \in StartIn, NEW w \in OfflineIn,
           NEW y \in SyncIn, NEW z \in SyncIn, NEW f \in CompleteIn, NEW r \in ReceiveIn,
           CaptureOffline(c, s, w, y, z, f, r)
    PROVE  IInv'
  <1> DEFINE online == Window + w
             answer == online + f + r
             new1 == Event("capture_started", at + c, online + y)
             new2 == Event("upload_started", at + c + s, online + z)
             new3 == Event("upload_completed", online + f, answer)
             new4 == Event("response_recorded", answer, answer)
  <1>1. /\ c \in Nat /\ s \in Nat /\ w \in Nat /\ y \in Nat /\ z \in Nat
        /\ f \in Nat /\ r \in Nat /\ at \in Nat /\ Window \in Nat
    BY DelaysAreNat DEF IInv, TypeOK
  <1>2. /\ events' = events \cup {new1, new2, new3, new4}
        /\ step = "opened" /\ cause = "upload_fault" /\ step' = "emitted"
        /\ cause' = cause /\ at' = at /\ attempts' = attempts /\ arrived' = arrived
    BY DEF CaptureOffline
  <1>3. at + c + s < Window
    <2>1. PICK d \in DeliverIn, o \in OpenIn : at = d + o
      BY <1>2 DEF IInv, ClockInv
    <2>2. d + o + c + s + f + r < Window /\ d \in Nat /\ o \in Nat
      BY ProfileAssumption, DelaysAreNat
    <2> QED
      BY <1>1, <2>1, <2>2
  <1>4. /\ online \in Int /\ answer \in Int /\ online >= Window /\ answer >= Window
        /\ at + c \in Int /\ at + c + s \in Int /\ online + y \in Int /\ online + z \in Int
        /\ online + f \in Int /\ online + f <= answer
        /\ at + c <= online + y /\ at + c + s <= online + z
        /\ InWindow(at + c) /\ ~InWindow(online + y)
    BY <1>1, <1>3 DEF InWindow
  <1> HIDE DEF online, answer
  <1>5. /\ new1 \in EventSet /\ new1.type = "capture_started"
        /\ new1.client = at + c /\ new1.received = online + y
    BY <1>4, EventFields, EventTypes
  <1>6. /\ new2 \in EventSet /\ new2.type = "upload_started"
        /\ new2.client = at + c + s /\ new2.received = online + z
    BY <1>4, EventFields, EventTypes
  <1>7. /\ new3 \in EventSet /\ new3.type = "upload_completed"
        /\ new3.client = online + f /\ new3.received = answer
    BY <1>4, EventFields, EventTypes
  <1>8. /\ new4 \in EventSet /\ new4.type = "response_recorded"
        /\ new4.client = answer /\ new4.received = answer
    BY <1>4, EventFields, EventTypes
  <1> HIDE DEF new1, new2, new3, new4
  <1>9. /\ events' \subseteq EventSet /\ arrived' \subseteq events'
        /\ arrived' = {} /\ \A e \in events : e.client <= e.received
    BY <1>2, <1>5, <1>6, <1>7, <1>8, AddedEvents
  <1>10. TypeOK'
    BY <1>2, <1>9 DEF IInv, TypeOK
  <1>11. CauseInv' /\ ClockInv' /\ StartInv' /\ ArrivedInv' /\ AttemptsInv'
    BY <1>2, <1>9 DEF CauseInv, ClockInv, StartInv, ArrivedInv, AttemptsInv
  <1>12. SkewInv'
    BY <1>2, <1>4, <1>5, <1>6, <1>7, <1>8, <1>9 DEF SkewInv
  <1>13. ReceiptInv'
    BY <1>2, <1>5, <1>6, <1>7, <1>8 DEF IInv, ReceiptInv, HasEvent
  <1>14. ResponseInv'
    <2>1. ~HasEvent("upload_failed") /\ ~HasEvent("response_recorded")
      BY <1>2 DEF IInv, ResponseInv, HasEvent, Complete
    <2> QED
      BY <1>2, <1>4, <1>5, <1>6, <1>7, <1>8, <2>1 DEF ResponseInv, HasEvent, Complete
  <1> QED
    BY <1>10, <1>11, <1>12, <1>13, <1>14 DEF IInv

LEMMA FailUploadInv ==
    ASSUME IInv, NEW f \in FailIn, NEW t \in RetryIn, NEW r \in ReceiveIn,
           NEW q \in ReceiveIn, FailUpload(f, t, r, q)
    PROVE  IInv'
  <1> DEFINE new1 == Event("upload_started", at, at + r)
             new2 == Event("upload_failed", at + f, at + f + q)
  <1>1. /\ f \in Nat /\ t \in Nat /\ r \in Nat /\ q \in Nat /\ at \in Nat
        /\ attempts \in Nat /\ Attempts \in Nat
        /\ events' = events \cup {new1, new2} /\ step = "failing" /\ step' = step
        /\ attempts < Attempts /\ attempts' = attempts + 1
        /\ at' = at + f + t /\ cause' = cause /\ arrived' = arrived
    BY DelaysAreNat DEF FailUpload, IInv, TypeOK
  <1>2. /\ at \in Int /\ at + r \in Int /\ at + f \in Int /\ at + f + q \in Int
        /\ at <= at + r /\ at + f <= at + f + q /\ at' \in Nat
        /\ attempts' \in 0..Attempts
    BY <1>1
  <1>3. /\ new1 \in EventSet /\ new1.type = "upload_started"
        /\ new1.client = at /\ new1.received = at + r
    BY <1>2, EventFields, EventTypes
  <1>4. /\ new2 \in EventSet /\ new2.type = "upload_failed"
        /\ new2.client = at + f /\ new2.received = at + f + q
    BY <1>2, EventFields, EventTypes
  <1> HIDE DEF new1, new2
  <1>5. /\ events' \subseteq EventSet /\ arrived' \subseteq events'
        /\ arrived' = {} /\ \A e \in events : e.client <= e.received
    BY <1>1, <1>3, <1>4, AddedEvents
  <1>6. cause = "upload_fault"
    BY <1>1 DEF IInv, CauseInv
  <1>7. TypeOK'
    BY <1>1, <1>2, <1>5 DEF IInv, TypeOK
  <1>8. CauseInv' /\ ClockInv' /\ StartInv' /\ ArrivedInv' /\ AttemptsInv'
    BY <1>1, <1>5, <1>6 DEF CauseInv, ClockInv, StartInv, ArrivedInv, AttemptsInv
  <1>9. SkewInv'
    BY <1>1, <1>2, <1>3, <1>4, <1>5, <1>6 DEF SkewInv
  <1>10. ReceiptInv'
    BY <1>1, <1>3, <1>4, <1>6 DEF IInv, ReceiptInv, HasEvent
  <1>11. ResponseInv'
    BY <1>1, <1>3, <1>4, <1>6 DEF IInv, ResponseInv, HasEvent, Complete
  <1> QED
    BY <1>7, <1>8, <1>9, <1>10, <1>11 DEF IInv

LEMMA GiveUpInv == ASSUME IInv, GiveUp PROVE IInv'
  <1>1. /\ step = "failing" /\ step' = "emitted" /\ attempts >= 2
        /\ cause' = cause /\ at' = at /\ attempts' = attempts
        /\ events' = events /\ arrived' = arrived
    BY DEF GiveUp
  <1>2. cause = "upload_fault" /\ attempts > 0
    BY <1>1 DEF IInv, CauseInv, TypeOK
  <1>3. TypeOK'
    BY <1>1 DEF IInv, TypeOK
  <1>4. /\ CauseInv' /\ ClockInv' /\ StartInv' /\ ArrivedInv' /\ AttemptsInv'
        /\ SkewInv' /\ ReceiptInv'
    BY <1>1, <1>2 DEF IInv, CauseInv, ClockInv, StartInv, ArrivedInv, AttemptsInv,
        SkewInv, ReceiptInv, HasEvent
  <1>5. ResponseInv'
    BY <1>1, <1>2 DEF IInv, ResponseInv, HasEvent, Complete
  <1> QED
    BY <1>3, <1>4, <1>5 DEF IInv

LEMMA UploadInv ==
    ASSUME IInv, NEW f \in CompleteIn, NEW r \in ReceiveIn, NEW q \in ReceiveIn,
           Upload(f, r, q)
    PROVE  IInv'
  <1> DEFINE answer == at + f + q
             new1 == Event("upload_started", at, at + r)
             new2 == Event("upload_completed", at + f, answer)
             new3 == Event("response_recorded", answer, answer)
  <1>1. /\ f \in Nat /\ r \in Nat /\ q \in Nat /\ at \in Nat /\ Window \in Nat
    BY DelaysAreNat DEF IInv, TypeOK
  <1>2. /\ events' = events \cup {new1, new2, new3}
        /\ step = "captured" /\ step' = "emitted"
        /\ cause' = cause /\ at' = at /\ attempts' = attempts /\ arrived' = arrived
    BY DEF Upload
  <1>3. InWindow(answer)
    <2>1. PICK d \in DeliverIn, o \in OpenIn, c \in CaptureIn, s \in StartIn :
             at = d + o + c + s
      BY <1>2 DEF IInv, ClockInv
    <2>2. d + o + c + s + f + q < Window
      BY ProfileAssumption
    <2> QED
      BY <1>1, <2>1, <2>2 DEF InWindow
  <1>4. /\ answer \in Int /\ at \in Int /\ at + r \in Int /\ at + f \in Int
        /\ at <= at + r /\ at + f <= answer
    BY <1>1
  <1> HIDE DEF answer
  <1>5. /\ new1 \in EventSet /\ new1.type = "upload_started"
        /\ new1.client = at /\ new1.received = at + r
    BY <1>4, EventFields, EventTypes
  <1>6. /\ new2 \in EventSet /\ new2.type = "upload_completed"
        /\ new2.client = at + f /\ new2.received = answer
    BY <1>4, EventFields, EventTypes
  <1>7. /\ new3 \in EventSet /\ new3.type = "response_recorded"
        /\ new3.client = answer /\ new3.received = answer
    BY <1>4, EventFields, EventTypes
  <1> HIDE DEF new1, new2, new3
  <1>8. /\ events' \subseteq EventSet /\ arrived' \subseteq events'
        /\ arrived' = {} /\ \A e \in events : e.client <= e.received
    BY <1>2, <1>5, <1>6, <1>7, AddedEvents
  <1>9. cause \in {"on_time", "unattributed"}
    BY <1>2 DEF IInv, CauseInv
  <1>10. TypeOK'
    BY <1>2, <1>8 DEF IInv, TypeOK
  <1>11. CauseInv' /\ ClockInv' /\ StartInv' /\ ArrivedInv' /\ AttemptsInv'
    BY <1>2, <1>8 DEF CauseInv, ClockInv, StartInv, ArrivedInv, AttemptsInv
  <1>12. SkewInv'
    <2>1. cause = "unattributed" =>
            \E e \in events : e.type = "prompt_opened" /\ e.received - e.client \in ReceiveIn
      BY <1>2 DEF IInv, SkewInv
    <2> QED
      BY <1>2, <1>4, <1>5, <1>6, <1>7, <1>8, <2>1 DEF SkewInv
  <1>13. ReceiptInv'
    BY <1>2, <1>5, <1>6, <1>7, <1>9 DEF IInv, ReceiptInv, HasEvent
  <1>14. ResponseInv'
    <2>1. ~HasEvent("upload_failed")
      BY <1>2 DEF IInv, ResponseInv, HasEvent, Complete
    <2> QED
      BY <1>2, <1>3, <1>5, <1>6, <1>7, <1>9, <2>1 DEF IInv, ResponseInv, HasEvent, Complete
  <1> QED
    BY <1>10, <1>11, <1>12, <1>13, <1>14 DEF IInv

\* The skew moves client clocks of client-side events only, which neither the
\* receipt nor the response is.
LEMMA InjectSkewInv ==
    ASSUME IInv, NEW extra \in [ClientSide -> SkewIn], InjectSkew(extra) PROVE IInv'
  <1>1. /\ step = "emitted" /\ step' = "exported"
        /\ cause' = cause /\ at' = at /\ attempts' = attempts /\ arrived' = arrived
    BY DEF InjectSkew
  <1>2. /\ events \subseteq EventSet /\ arrived = {} /\ TypeOK
    BY <1>1 DEF IInv, TypeOK, ArrivedInv
  <1>3. CASE cause # "unattributed"
    <2>1. events' = events
      BY <1>3 DEF InjectSkew
    <2>2. TypeOK'
      BY <1>1, <1>2, <2>1 DEF TypeOK
    <2> QED
      BY <1>1, <1>2, <1>3, <2>1, <2>2 DEF IInv, CauseInv, ClockInv, StartInv, ArrivedInv,
          AttemptsInv, SkewInv, ReceiptInv, ResponseInv, HasEvent, Complete
  <1>4. CASE cause = "unattributed"
    <2> DEFINE skew(e) == Skewed(e, extra[e.type])
    <2>1. events' = {skew(e) : e \in events}
      BY <1>4 DEF InjectSkew
    <2>2. ASSUME NEW e \in events
          PROVE  /\ e.type \notin ClientSide => skew(e) = e
                 /\ e.type \in ClientSide =>
                      /\ skew(e) \in EventSet
                      /\ skew(e).type = e.type /\ skew(e).received = e.received
                      /\ skew(e).client >= e.client + SkewMin
      <3>1. CASE e.type \notin ClientSide
        BY <3>1 DEF Skewed
      <3>2. CASE e.type \in ClientSide
        <4>1. extra[e.type] \in Nat /\ e \in EventSet /\ SkewMin \in Nat /\ e.client \in Int
          BY <1>2, <3>2, DelaysAreNat DEF EventSet
        <4>2. /\ skew(e) \in EventSet /\ skew(e).type = e.type
              /\ skew(e).received = e.received
              /\ skew(e).client = e.client + SkewMin + extra[e.type]
          BY <3>2, <4>1, SkewedFields
        <4> QED
          BY <3>2, <4>1, <4>2
      <3> QED
        BY <3>1, <3>2
    <2> HIDE DEF skew
    <2>3. \A e \in events : skew(e) \in EventSet /\ skew(e).type = e.type
      BY <1>2, <2>2
    <2>4. \A type : HasEvent(type)' <=> HasEvent(type)
      BY <2>1, <2>3 DEF HasEvent
    <2>5. \A n \in events' : n.type \notin ClientSide => n \in events
      BY <2>1, <2>2, <2>3
    <2>6. /\ "prompt_delivered" \notin ClientSide /\ "response_recorded" \notin ClientSide
          /\ "prompt_opened" \in ClientSide
      BY DEF ClientSide, Uploads
    <2>7. TypeOK'
      BY <1>1, <1>2, <2>1, <2>3 DEF TypeOK
    <2>8. SkewInv'
      <3>1. PICK e \in events : e.type = "prompt_opened" /\ e.received - e.client \in ReceiveIn
        BY <1>1, <1>4 DEF IInv, SkewInv
      <3>2. /\ SkewMin - (e.received - e.client) > SkewMax /\ SkewMin \in Nat
            /\ SkewMax \in Nat /\ e.received \in Int /\ e.client \in Int
        BY <1>2, <3>1, ProfileAssumption, DelaysAreNat DEF EventSet
      <3>3. /\ skew(e) \in events' /\ skew(e).received = e.received
            /\ skew(e).client >= e.client + SkewMin /\ skew(e).client \in Int
        BY <2>1, <2>2, <2>6, <3>1 DEF EventSet
      <3>4. skew(e).received - skew(e).client < -SkewMax
        BY <3>2, <3>3
      <3> QED
        BY <1>1, <1>4, <3>3, <3>4 DEF SkewInv
    <2>9. ReceiptInv'
      BY <1>1, <1>4, <2>4, <2>5, <2>6 DEF IInv, ReceiptInv
    <2>10. ResponseInv'
      <3>1. \A e \in events : e.type # "upload_failed"
        BY <1>4 DEF IInv, ResponseInv
      <3>2. \A n \in events' : n.type # "upload_failed"
        BY <2>1, <2>3, <3>1
      <3> QED
        BY <1>1, <1>4, <2>5, <2>6, <3>2 DEF IInv, ResponseInv, HasEvent, Complete
    <2> QED
      BY <1>1, <1>2, <1>4, <2>7, <2>8, <2>9, <2>10
         DEF IInv, CauseInv, ClockInv, StartInv, ArrivedInv, AttemptsInv
  <1> QED
    BY <1>3, <1>4

LEMMA ArriveInv == ASSUME IInv, NEW e \in events, Arrive(e) PROVE IInv'
  <1>1. /\ step = "exported" /\ arrived' = arrived \cup {e}
        /\ step' = step /\ cause' = cause /\ at' = at /\ attempts' = attempts
        /\ events' = events
    BY DEF Arrive
  <1>2. TypeOK'
    BY <1>1 DEF IInv, TypeOK
  <1> QED
    BY <1>1, <1>2 DEF IInv, CauseInv, ClockInv, StartInv, ArrivedInv,
        AttemptsInv, SkewInv, ReceiptInv, ResponseInv, HasEvent, Complete

LEMMA StutterInv == ASSUME IInv, UNCHANGED vars PROVE IInv'
  BY DEF vars, IInv, TypeOK, CauseInv, ClockInv, StartInv, ArrivedInv,
      AttemptsInv, SkewInv, ReceiptInv, ResponseInv, HasEvent, Complete

\* Every step of the generator and every arrival preserves the invariant.
THEOREM Inductive == Spec => []IInv
  <1>1. IInv /\ [Next]_vars => IInv'
    <2> SUFFICES ASSUME IInv, [Next]_vars PROVE IInv'
      OBVIOUS
    <2>1. CASE Send
      BY <2>1, SendInv
    <2>2. ASSUME NEW d \in DeliverIn, Deliver(d) PROVE IInv'
      BY <2>2, DeliverInv
    <2>3. ASSUME NEW o \in OpenIn, NEW r \in ReceiveIn, Open(o, r) PROVE IInv'
      BY <2>3, OpenInv
    <2>4. ASSUME NEW c \in CaptureIn, NEW s \in StartIn, NEW r \in ReceiveIn,
                 Capture(c, s, r)
          PROVE IInv'
      BY <2>4, CaptureStepInv
    <2>5. ASSUME NEW c \in CaptureIn, NEW s \in StartIn, NEW w \in OfflineIn,
                 NEW y \in SyncIn, NEW z \in SyncIn, NEW f \in CompleteIn,
                 NEW r \in ReceiveIn, CaptureOffline(c, s, w, y, z, f, r)
          PROVE IInv'
      BY <2>5, CaptureOfflineInv
    <2>6. ASSUME NEW f \in FailIn, NEW t \in RetryIn, NEW r \in ReceiveIn,
                 NEW q \in ReceiveIn, FailUpload(f, t, r, q)
          PROVE IInv'
      BY <2>6, FailUploadInv
    <2>7. CASE GiveUp
      BY <2>7, GiveUpInv
    <2>8. ASSUME NEW f \in CompleteIn, NEW r \in ReceiveIn, NEW q \in ReceiveIn,
                 Upload(f, r, q)
          PROVE IInv'
      BY <2>8, UploadInv
    <2>9. ASSUME NEW extra \in [ClientSide -> SkewIn], InjectSkew(extra) PROVE IInv'
      BY <2>9, InjectSkewInv
    <2>10. ASSUME NEW e \in events, Arrive(e) PROVE IInv'
      BY <2>10, ArriveInv
    <2>11. CASE UNCHANGED vars
      BY <2>11, StutterInv
    <2> QED
      BY <2>1, <2>2, <2>3, <2>4, <2>5, <2>6, <2>7, <2>8, <2>9, <2>10, <2>11 DEF Next
  <1> QED
    BY <1>1, InitInv, PTL DEF Spec

\* What the events that have arrived tell, whichever they are.
EvidenceFacts ==
    /\ arrived \subseteq events /\ events \subseteq EventSet
    /\ arrived # {} => Complete
    /\ HasPrompt => step = "exported"
    /\ ClockAhead => cause = "unattributed"
    /\ HasUploadFailed => cause = "upload_fault" /\ ~HasResponse
    /\ HasResponse /\ cause # "upload_fault" => ResponseOnTime
    /\ ResponseOnTime => cause # "upload_fault"
    /\ DeliveredInGrace <=> Of({"prompt_delivered"}) # {}

LEMMA EvidenceTells == IInv => EvidenceFacts
  <1> SUFFICES ASSUME IInv PROVE EvidenceFacts
    OBVIOUS
  <1>1. /\ arrived \subseteq events /\ events \subseteq EventSet
        /\ arrived # {} => step = "exported"
    BY DEF IInv, TypeOK, ArrivedInv
  <1>2. HasPrompt => step = "exported"
    BY <1>1 DEF HasPrompt, Of
  <1>3. ClockAhead => cause = "unattributed"
    <2> SUFFICES ASSUME cause # "unattributed", NEW e \in arrived,
                        e.received - e.client < -SkewMax
                 PROVE  FALSE
      BY DEF ClockAhead
    <2>1. e.client <= e.received /\ e.client \in Int /\ e.received \in Int /\ SkewMax \in Nat
      BY <1>1, DelaysAreNat DEF IInv, SkewInv, EventSet
    <2> QED
      BY <2>1
  <1>4. HasUploadFailed => cause = "upload_fault" /\ ~HasResponse
    BY <1>1 DEF IInv, ResponseInv, HasEvent, HasUploadFailed, HasResponse, Of
  <1>5. HasResponse /\ cause # "upload_fault" => ResponseOnTime
    BY <1>1 DEF IInv, ResponseInv, HasResponse, ResponseOnTime, Of
  <1>6. ResponseOnTime => cause # "upload_fault"
    <2> SUFFICES ASSUME cause = "upload_fault", NEW e \in Of({"response_recorded"}),
                        InWindow(e.received)
                 PROVE  FALSE
      BY DEF ResponseOnTime
    <2>1. e.received >= Window /\ e.received \in Int /\ Window \in Nat
      BY <1>1, DelaysAreNat DEF IInv, ResponseInv, Of, EventSet
    <2> QED
      BY <2>1 DEF InWindow
  <1>7. DeliveredInGrace <=> Of({"prompt_delivered"}) # {}
    BY <1>1 DEF IInv, ReceiptInv, DeliveredInGrace, Of
  <1> QED
    BY <1>1, <1>2, <1>3, <1>4, <1>5, <1>6, <1>7 DEF EvidenceFacts, Complete

LEMMA LabelOfAll == ASSUME IInv PROVE LabelIsCause
  <1> SUFFICES ASSUME step = "exported", arrived = events PROVE Label = cause
    BY DEF LabelIsCause
  <1>1. HasPrompt
    BY DEF IInv, ReceiptInv, HasEvent, HasPrompt, Of
  <1>2. CASE cause = "delivery_fault"
    <2>1. ~DeliveredInGrace
      BY <1>2 DEF IInv, ReceiptInv, DeliveredInGrace, Of
    <2> QED
      BY <1>1, <1>2, <2>1 DEF Label
  <1>3. ASSUME cause # "delivery_fault" PROVE DeliveredInGrace
    BY <1>3 DEF IInv, ReceiptInv, HasEvent, DeliveredInGrace, Of
  <1>4. CASE cause = "unattributed"
    <2>1. ClockAhead
      BY <1>4 DEF IInv, SkewInv, ClockAhead
    <2> QED
      BY <1>1, <1>3, <1>4, <2>1 DEF Label
  <1>5. CASE cause = "on_time"
    <2>1. HasResponse
      BY <1>5 DEF IInv, ResponseInv, HasEvent, Complete, HasResponse, Of
    <2>2. ResponseOnTime /\ ~ClockAhead
      BY <1>5, <2>1, EvidenceTells DEF EvidenceFacts
    <2> QED
      BY <1>1, <1>3, <1>5, <2>2 DEF Label
  <1>6. CASE cause = "timing_gap"
    <2>1. \A e \in arrived : e.type \in {"prompt_sent", "prompt_delivered"}
      BY <1>6 DEF IInv, ReceiptInv
    <2>2. /\ ~ResponseOnTime /\ ~HasResponse /\ ~HasUploadFailed
          /\ ~HasCaptureInWindow /\ ~HasResponseInWindow /\ ~HasUploadEvent
      BY <2>1 DEF ResponseOnTime, HasResponse, HasUploadFailed, HasCaptureInWindow,
          HasResponseInWindow, HasUploadEvent, Uploads, Of
    <2>3. ~ClockAhead
      BY <1>6, EvidenceTells DEF EvidenceFacts
    <2> QED
      BY <1>1, <1>3, <1>6, <2>2, <2>3 DEF Label
  <1>7. CASE cause = "upload_fault"
    <2>1. ~ClockAhead /\ ~ResponseOnTime
      BY <1>7, EvidenceTells DEF EvidenceFacts
    <2>2. \/ HasUploadFailed /\ ~HasResponse
          \/ HasResponse /\ CapturedInWindowReceivedLate
      <3>1. CASE HasEvent("upload_failed")
        BY <3>1, EvidenceTells DEF EvidenceFacts, HasEvent, HasUploadFailed, Of
      <3>2. CASE ~HasEvent("upload_failed")
        BY <1>7, <3>2 DEF IInv, ResponseInv, HasEvent, Complete, HasResponse,
            CapturedInWindowReceivedLate, Of
      <3> QED
        BY <3>1, <3>2
    <2> QED
      BY <1>1, <1>3, <1>7, <2>1, <2>2 DEF Label
  <1> QED
    BY <1>2, <1>4, <1>5, <1>6, <1>7 DEF IInv, TypeOK, Causes

LEMMA Blame == ASSUME IInv PROVE BlameIsEarned
  <1>1. ASSUME Label = "upload_fault" PROVE cause = "upload_fault"
    <2>1. /\ ~ResponseOnTime
          /\ HasResponse \/ HasUploadFailed
      BY <1>1 DEF Label
    <2> QED
      BY <2>1, EvidenceTells DEF EvidenceFacts
  <1>2. ASSUME Label = "on_time" PROVE cause \in {"on_time", "unattributed"}
    <2>1. ResponseOnTime /\ HasPrompt /\ DeliveredInGrace
      BY <1>2 DEF Label
    <2>2. /\ cause # "upload_fault"
          /\ \E e \in events : e.type = "response_recorded"
      BY <2>1, EvidenceTells DEF EvidenceFacts, ResponseOnTime, Of
    <2> QED
      BY <2>2 DEF IInv, TypeOK, Causes, ReceiptInv
  <1> QED
    BY <1>1, <1>2 DEF BlameIsEarned

\* The label in terms of the evidence, and how sharp it is.
SharpnessFacts ==
    /\ ~HasPrompt => Sharpness = 0
    /\ HasPrompt /\ ~DeliveredInGrace => Sharpness = 1
    /\ HasPrompt /\ DeliveredInGrace =>
         /\ ClockAhead => Sharpness = 5
         /\ ~ClockAhead /\ ResponseOnTime => Sharpness = 4 /\ Label = "on_time"
         /\ ~ClockAhead /\ ~ResponseOnTime =>
              IF \/ HasResponse /\ CapturedInWindowReceivedLate
                 \/ HasUploadFailed /\ ~HasResponse
              THEN Sharpness = 4 /\ Label = "upload_fault"
              ELSE IF HasCaptureInWindow \/ HasResponseInWindow \/ HasUploadEvent
                   THEN Sharpness = 3 ELSE Sharpness = 2

LEMMA SharpnessOf == SharpnessFacts
  BY DEF SharpnessFacts, Label, Sharpness

\* An arrival only adds evidence.
LEMMA EvidenceGrows ==
    ASSUME arrived \subseteq arrived'
    PROVE  /\ HasPrompt => HasPrompt'
           /\ DeliveredInGrace => DeliveredInGrace'
           /\ ClockAhead => ClockAhead'
           /\ ResponseOnTime => ResponseOnTime'
           /\ CapturedInWindowReceivedLate => CapturedInWindowReceivedLate'
           /\ HasResponse => HasResponse'
           /\ HasResponseInWindow => HasResponseInWindow'
           /\ HasCaptureInWindow => HasCaptureInWindow'
           /\ HasUploadFailed => HasUploadFailed'
           /\ HasUploadEvent => HasUploadEvent'
  BY DEF HasPrompt, DeliveredInGrace, ClockAhead, ResponseOnTime, InWindow,
      CapturedInWindowReceivedLate, HasResponse, HasResponseInWindow,
      HasCaptureInWindow, HasUploadFailed, HasUploadEvent, Of

LEMMA Sharper ==
    ASSUME IInv, IInv', [Next]_vars
    PROVE  /\ Sharpness <= Sharpness'
           /\ Sharpness = 4 /\ Sharpness' = 4 => Label' = Label
  <1>1. CASE arrived' = arrived
    <2>1. Label' = Label /\ (ClockAhead' <=> ClockAhead)
      BY <1>1 DEF Label, HasPrompt, DeliveredInGrace, ClockAhead, ResponseOnTime, InWindow,
          CapturedInWindowReceivedLate, HasResponse, HasResponseInWindow,
          HasCaptureInWindow, HasUploadFailed, HasUploadEvent, Of
    <2>2. Sharpness' = Sharpness
      BY <2>1 DEF Sharpness
    <2>3. Sharpness \in Int
      BY SharpnessOf DEF SharpnessFacts
    <2> QED
      BY <2>1, <2>2, <2>3
  <1>2. CASE arrived' # arrived
    <2>1. /\ arrived \subseteq arrived' /\ cause' = cause
      BY <1>2 DEF Next, vars, Send, Deliver, Open, Capture, CaptureOffline, FailUpload,
          GiveUp, Upload, InjectSkew, Arrive
    <2>2. /\ HasPrompt => HasPrompt'
          /\ DeliveredInGrace => DeliveredInGrace'
          /\ ClockAhead => ClockAhead'
          /\ ResponseOnTime => ResponseOnTime'
          /\ CapturedInWindowReceivedLate => CapturedInWindowReceivedLate'
          /\ HasResponse => HasResponse'
          /\ HasResponseInWindow => HasResponseInWindow'
          /\ HasCaptureInWindow => HasCaptureInWindow'
          /\ HasUploadFailed => HasUploadFailed'
          /\ HasUploadEvent => HasUploadEvent'
      BY <2>1, EvidenceGrows
    <2>3. /\ HasUploadFailed => cause = "upload_fault" /\ ~HasResponse
          /\ HasResponse /\ cause # "upload_fault" => ResponseOnTime
          /\ ResponseOnTime => cause # "upload_fault"
      BY EvidenceTells DEF EvidenceFacts
    <2>4. /\ HasUploadFailed' => cause = "upload_fault" /\ ~HasResponse'
          /\ HasResponse' /\ cause # "upload_fault" => ResponseOnTime'
          /\ ResponseOnTime' => cause # "upload_fault"
      <3>1. EvidenceFacts'
        BY EvidenceTells, PTL
      <3> QED
        BY <2>1, <3>1 DEF EvidenceFacts
    <2>5. SharpnessFacts'
      BY SharpnessOf, PTL
    <2>6. SharpnessFacts
      BY SharpnessOf
    <2> QED
      BY <2>2, <2>3, <2>4, <2>5, <2>6 DEF SharpnessFacts
  <1> QED
    BY <1>1, <1>2

-----------------------------------------------------------------------------
\* The variables keep their types and arrivals are events of the export (_prompt,
\* attribution.sql).
THEOREM TypeCorrect == Spec => []TypeOK
  <1>1. IInv => TypeOK
    BY DEF IInv
  <1> QED
    BY <1>1, Inductive, PTL

\* With all its events, a prompt is labelled with the cause it was generated with
\* (the case of attribution.sql against assign_cause).
THEOREM LabelRecoversCause == Spec => []LabelIsCause
  <1>1. IInv => LabelIsCause
    BY LabelOfAll
  <1> QED
    BY <1>1, Inductive, PTL

\* With some of its events, in any order, a prompt is blamed on the upload only if
\* that was the cause, and counted on time only if it was answered in time.
THEOREM NoPrematureBlame == Spec => []BlameIsEarned
  <1>1. IInv => BlameIsEarned
    BY Blame
  <1> QED
    BY <1>1, Inductive, PTL

\* No arrival makes a label say less (attribution.sql over a growing stg_events).
THEOREM LabelsSharpen == Spec => LabelSharpens
  <1>1. IInv /\ IInv' /\ [Next]_vars =>
          [/\ Sharpness <= Sharpness'
           /\ (Sharpness = 4 /\ Sharpness' = 4 => Label' = Label)]_vars
    BY Sharper
  <1> QED
    BY <1>1, Inductive, PTL DEF Spec, LabelSharpens

=============================================================================
