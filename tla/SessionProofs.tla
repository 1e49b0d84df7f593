--------------------------- MODULE SessionProofs ---------------------------
(***************************************************************************)
(* The safety of the pipeline for any number of sessions, messages,        *)
(* commands and expiries, and the way of a handler to its end; then the    *)
(* same of the gateway around it, for any number of worker threads.        *)
(***************************************************************************)
EXTENDS OneSession, GatewayState, TLAPS

(* From "authenticate" on, the handler works on a message. *)
Parsed ==
  \A s \in Sessions :
    pc[s] \in Handling \ {"parse", "handleError", "reportException"} => packet[s] \in Messages

Typed == TypeOK /\ Parsed

LEMMA TypedInit == Init => Typed
  BY SessionAssumption
     DEF Init, Typed, TypeOK, Parsed, Packets, Steps, Handling, Errors

(* When a handler is left, what Leave and Resume assign is well typed. *)
LEMMA LeaveTyped ==
  ASSUME Typed, NEW s \in Sessions,
         NEW to \in {"new", "receiving", "stopped", "deaf", "reportException"}, Leave(s, to)
  PROVE  /\ pc' \in [Sessions -> Steps]
         /\ packet' \in [Sessions -> Packets]
         /\ error' \in [Sessions -> Errors]
         /\ batch' \in [Sessions -> SUBSET Commands]
         /\ Parsed'
  BY DEF Leave, Typed, TypeOK, Parsed, Packets, Steps, Handling, Errors

LEMMA ResumeTyped ==
  ASSUME Typed, NEW s \in Sessions, Resume(s)
  PROVE  /\ pc' \in [Sessions -> Steps]
         /\ packet' \in [Sessions -> Packets]
         /\ error' \in [Sessions -> Errors]
         /\ batch' \in [Sessions -> SUBSET Commands]
         /\ Parsed'
<1>1. CASE active[s]
  BY <1>1, LeaveTyped DEF Resume
<1>2. CASE ~active[s]
  BY <1>2, LeaveTyped DEF Resume
<1>3. QED
  BY <1>1, <1>2

(* Every step keeps the types. *)
LEMMA TypedStep == Typed /\ [Next]_vars => Typed'
<1> USE SessionAssumption
    DEF Typed, TypeOK, Parsed, Packets, Steps, Handling, Errors,
        dependencies, outputs, history, Goto, Continue, Reject
<1> SUFFICES ASSUME Typed, [Next]_vars PROVE Typed'
  OBVIOUS
<1>1. ASSUME NEW m \in Messages, Send(m) PROVE Typed'
  BY <1>1 DEF Send
<1>2. ASSUME NEW m \in Messages, Lose(m) PROVE Typed'
  BY <1>2 DEF Lose
<1>3. ASSUME NEW m \in Messages, Expire(m) PROVE Typed'
  BY <1>3 DEF Expire
<1>4. ASSUME NEW s \in Sessions, Start(s) PROVE Typed'
  BY <1>4 DEF Start
<1>5. ASSUME NEW s \in Sessions, Stop(s) PROVE Typed'
  BY <1>5 DEF Stop
<1>6. ASSUME NEW s \in Sessions, Abort(s) PROVE Typed'
  BY <1>6 DEF Abort
<1>7. ASSUME NEW s \in Sessions, Receive(s) PROVE Typed'
  BY <1>7 DEF Receive
<1>8. ASSUME NEW s \in Sessions, Crash(s) \/ ReceiveError(s) PROVE Typed'
  BY <1>8, LeaveTyped DEF Crash, ReceiveError, Escape
<1>9. ASSUME NEW s \in Sessions, Handle(s) PROVE Typed'
  <2>1. CASE ParseMessage(s)
    BY <2>1 DEF ParseMessage
  <2>2. CASE Authenticate(s)
    BY <2>2 DEF Authenticate
  <2>3. CASE CheckDuplicate(s)
    BY <2>3 DEF CheckDuplicate
  <2>4. CASE CheckLimit(s)
    BY <2>4 DEF CheckLimit
  <2>5. CASE RecordMessage(s)
    BY <2>5 DEF RecordMessage
  <2>6. CASE UpdateStatus(s)
    BY <2>6 DEF UpdateStatus
  <2>7. CASE PublishInbound(s)
    <3>1. packet[s] \in Messages
      BY <2>7 DEF PublishInbound
    <3>2. published' \in [Sessions -> [Messages -> Nat]]
      <4>1. published[s] \in [Messages -> Nat]
        OBVIOUS
      <4>2. [published[s] EXCEPT ![packet[s]] = @ + 1] \in [Messages -> Nat]
        BY <4>1, <3>1
      <4>3. QED
        BY <2>7, <4>2 DEF PublishInbound
    <3>3. pc' \in [Sessions -> Steps] /\ Parsed'
      BY <2>7 DEF PublishInbound
    <3>4. QED
      BY <2>7, <3>1, <3>2, <3>3 DEF PublishInbound
  <2>8. CASE Bookkeep(s)
    BY <2>8 DEF Bookkeep
  <2>9. CASE SendAcknowledgment(s)
    BY <2>9 DEF SendAcknowledgment, Told
  <2>10. CASE SendRefusal(s)
    BY <2>10, ResumeTyped DEF SendRefusal, Told
  <2>11. CASE FetchCommands(s)
    <3>1. Pending(packet[s]) \in SUBSET Commands
      BY DEF Pending
    <3>2. CASE Resume(s)
      BY <2>11, <3>2, ResumeTyped DEF FetchCommands
    <3>3. CASE ~Resume(s)
      <4>1. /\ pc[s] = "fetchCommands"
            /\ batch' = [batch EXCEPT ![s] = Pending(packet[s])]
            /\ pc' = [pc EXCEPT ![s] = "sendCommands"]
            /\ UNCHANGED <<packet, error, network, active, dependencies, outputs,
                           history>>
        BY <2>11, <3>3 DEF FetchCommands
      <4>2. batch' \in [Sessions -> SUBSET Commands]
        BY <3>1, <4>1
      <4>3. pc' \in [Sessions -> Steps] /\ Parsed'
        BY <4>1
      <4>4. QED
        BY <4>1, <4>2, <4>3
    <3>4. QED
      BY <3>2, <3>3
  <2>12. CASE SendCommands(s)
    BY <2>12 DEF SendCommands
  <2>13. CASE MarkDelivered(s)
    <3>1. PICK c \in batch[s] :
              /\ marked' = marked \cup {c}
              /\ IF batch[s] = {c}
                   THEN Resume(s)
                   ELSE /\ batch' = [batch EXCEPT ![s] = @ \ {c}]
                        /\ UNCHANGED <<pc, packet, error>>
      BY <2>13 DEF MarkDelivered
    <3>2. marked' \subseteq Commands
      BY <3>1
    <3>3. CASE batch[s] = {c}
      BY <2>13, <3>1, <3>2, <3>3, ResumeTyped DEF MarkDelivered
    <3>4. CASE batch[s] # {c}
      BY <2>13, <3>1, <3>2, <3>4 DEF MarkDelivered
    <3>5. QED
      BY <3>3, <3>4
  <2>14. CASE HandleError(s)
    BY <2>14, ResumeTyped DEF HandleError
  <2>15. CASE Throw(s)
    BY <2>15, LeaveTyped DEF Throw
  <2>16. CASE ReportException(s)
    <3>1. CASE Resume(s) /\ UNCHANGED unreported
      BY <2>16, <3>1, ResumeTyped DEF ReportException
    <3>2. CASE Escape(s)
      BY <2>16, <3>2, LeaveTyped DEF ReportException, Escape
    <3>3. QED
      BY <2>16, <3>1, <3>2 DEF ReportException
  <2>17. QED
    BY <1>9, <2>1, <2>2, <2>3, <2>4, <2>5, <2>6, <2>7, <2>8, <2>9, <2>10, <2>11,
       <2>12, <2>13, <2>14, <2>15, <2>16 DEF Handle
<1>10. CASE UNCHANGED vars
  BY <1>10 DEF vars
<1>11. QED
  BY <1>1, <1>2, <1>3, <1>4, <1>5, <1>6, <1>7, <1>8, <1>9, <1>10 DEF Next

LEMMA Typing == Spec => []Typed
  BY TypedInit, TypedStep, PTL DEF Spec

(* The variables always hold values of their types. *)
THEOREM TypeCorrect == Spec => []TypeOK
  BY Typing, PTL DEF Typed
-----------------------------------------------------------------------------
(* OncePerWindow is not inductive: a session may hold a message it has     *)
(* recorded and will publish, or one it has found unrecorded and will      *)
(* record.  What session s has published of m, plus what it carries, is    *)
(* paid for by the windows of m that have opened; and while s admits m, no *)
(* window that s has seen closed is unpaid.                                *)

Carried(s, m) == IF Carries(s, m) THEN 1 ELSE 0
Opened(m) == IF m \in recorded THEN expiries[m] + 1 ELSE expiries[m]

Budget ==
  \A s \in Sessions, m \in Messages : published[s][m] + Carried(s, m) <= Opened(m)

Admission ==
  \A s \in Sessions, m \in Messages : Admits(s, m) => published[s][m] <= expiries[m]

WindowInv == Budget /\ Admission

LEMMA WindowInit == Init => WindowInv
  BY DEF Init, WindowInv, Budget, Admission, Carried, Opened, Carries, Admits

(* A step that publishes, records and expires nothing keeps the budget, if *)
(* it makes no session carry or admit anything new.                        *)
LEMMA WindowFrame ==
  ASSUME Typed, WindowInv, UNCHANGED <<published, expiries, recorded>>,
         \A s \in Sessions, m \in Messages :
           (Carries(s, m)' => Carries(s, m)) /\ (Admits(s, m)' => Admits(s, m))
  PROVE  WindowInv'
<1>1. Admission'
  BY DEF WindowInv, Admission
<1>2. ASSUME NEW s \in Sessions, NEW m \in Messages
      PROVE  (published[s][m] + Carried(s, m) <= Opened(m))'
  <2>1. published[s][m] + Carried(s, m) <= Opened(m)
    BY DEF WindowInv, Budget
  <2>2. published[s][m] \in Nat /\ expiries[m] \in Nat
    BY DEF Typed, TypeOK
  <2>3. Opened(m)' = Opened(m) /\ Opened(m) \in Nat
    BY <2>2 DEF Opened
  <2>4. Carried(s, m)' <= Carried(s, m) /\ Carried(s, m)' \in Nat
        /\ Carried(s, m) \in Nat
    BY DEF Carried
  <2>5. QED
    BY <2>1, <2>2, <2>3, <2>4
<1>3. QED
  BY <1>1, <1>2 DEF WindowInv, Budget

(* The same for a step that only moves session s, to a step where it       *)
(* neither admits nor carries a message, or on along the same stretch.     *)
LEMMA WindowMove ==
  ASSUME Typed, WindowInv, UNCHANGED <<published, expiries, recorded>>,
         NEW s \in Sessions,
         \A t \in Sessions \ {s} : pc'[t] = pc[t] /\ packet'[t] = packet[t],
         \/ pc'[s] \notin {"checkLimit", "record", "updateStatus", "publish"}
         \/ pc[s] = "checkLimit" /\ pc'[s] = "record" /\ packet'[s] = packet[s]
         \/ pc[s] = "updateStatus" /\ pc'[s] = "publish" /\ packet'[s] = packet[s]
  PROVE  WindowInv'
<1>1. ASSUME NEW t \in Sessions, NEW m \in Messages
      PROVE  (Carries(t, m)' => Carries(t, m)) /\ (Admits(t, m)' => Admits(t, m))
  BY DEF Carries, Admits
<1>2. QED
  BY <1>1, WindowFrame

LEMMA WindowStep == Typed /\ WindowInv /\ [Next]_vars => WindowInv'
<1> USE DEF dependencies, outputs, history, Goto, Continue, Reject, Resume, Leave, Escape,
            Typed, TypeOK
<1> SUFFICES ASSUME Typed, WindowInv, [Next]_vars PROVE WindowInv'
  OBVIOUS
<1>1. ASSUME NEW m \in Messages, Send(m) \/ Lose(m) PROVE WindowInv'
  BY <1>1, WindowFrame DEF Send, Lose, Carries, Admits
<1>2. ASSUME NEW m \in Messages, Expire(m) PROVE WindowInv'
  <2>1. ASSUME NEW s \in Sessions, NEW n \in Messages
        PROVE  /\ expiries'[n] \in Nat /\ expiries'[n] >= expiries[n]
               /\ Opened(n)' = Opened(n)
               /\ Carried(s, n)' = Carried(s, n) /\ Admits(s, n)' = Admits(s, n)
    BY <1>2 DEF Expire, Opened, Carried, Carries, Admits
  <2>2. UNCHANGED published
    BY <1>2 DEF Expire
  <2>3. Budget'
    BY <2>1, <2>2 DEF WindowInv, Budget
  <2>4. Admission'
    BY <2>1, <2>2 DEF WindowInv, Admission
  <2>5. QED
    BY <2>3, <2>4 DEF WindowInv
<1>3. ASSUME NEW s \in Sessions,
             Start(s) \/ Abort(s) \/ Receive(s) \/ ReceiveError(s) \/ Crash(s)
      PROVE  WindowInv'
  BY <1>3, WindowMove DEF Start, Abort, Receive, ReceiveError, Crash
<1>4. ASSUME NEW s \in Sessions, Stop(s) PROVE WindowInv'
  BY <1>4, WindowFrame DEF Stop, Carries, Admits
<1>5. ASSUME NEW s \in Sessions, Handle(s) PROVE WindowInv'
  <2>1. CASE ParseMessage(s) \/ Authenticate(s) \/ CheckLimit(s) \/ UpdateStatus(s)
    BY <2>1, WindowMove DEF ParseMessage, Authenticate, CheckLimit, UpdateStatus
  <2>2. CASE Bookkeep(s) \/ SendAcknowledgment(s) \/ SendRefusal(s)
    BY <2>2, WindowMove DEF Bookkeep, SendAcknowledgment, SendRefusal
  <2>3. CASE FetchCommands(s) \/ SendCommands(s) \/ HandleError(s) \/ Throw(s)
    BY <2>3, WindowMove DEF FetchCommands, SendCommands, HandleError, Throw
  <2>4. CASE MarkDelivered(s) \/ ReportException(s)
    BY <2>4, WindowMove DEF MarkDelivered, ReportException
  <2>5. CASE CheckDuplicate(s)
    <3>1. CASE packet[s] \in recorded
      BY <2>5, <3>1, WindowMove DEF CheckDuplicate
    <3>2. CASE packet[s] \notin recorded
      <4>1. /\ pc[s] = "checkDuplicate" /\ pc' = [pc EXCEPT ![s] = "checkLimit"]
            /\ UNCHANGED <<packet, published, expiries, recorded>>
        BY <2>5, <3>2 DEF CheckDuplicate
      <4>2. ASSUME NEW t \in Sessions, NEW m \in Messages
            PROVE  Carried(t, m)' = Carried(t, m) /\ Opened(m)' = Opened(m)
        BY <4>1 DEF Carried, Carries, Opened
      <4>3. Budget'
        BY <4>1, <4>2 DEF WindowInv, Budget
      <4>4. ASSUME NEW t \in Sessions, NEW m \in Messages, Admits(t, m)'
            PROVE  (published[t][m] <= expiries[m])'
        <5>1. CASE t = s
          <6>1. m = packet[s]
            BY <4>1, <4>4, <5>1 DEF Admits
          <6>2. Carried(s, m) = 0 /\ Opened(m) = expiries[m]
            BY <3>2, <4>1, <6>1 DEF Carried, Carries, Opened
          <6>3. published[s][m] + Carried(s, m) <= Opened(m)
            BY DEF WindowInv, Budget
          <6>4. published[s][m] \in Nat /\ expiries[m] \in Nat
            OBVIOUS
          <6>5. QED
            BY <4>1, <5>1, <6>2, <6>3, <6>4
        <5>2. CASE t # s
          <6>1. Admits(t, m)
            BY <4>1, <4>4, <5>2 DEF Admits
          <6>2. QED
            BY <4>1, <6>1 DEF WindowInv, Admission
        <5>3. QED
          BY <5>1, <5>2
      <4>5. QED
        BY <4>3, <4>4 DEF WindowInv, Admission
    <3>3. QED
      BY <3>1, <3>2
  <2>6. CASE RecordMessage(s)
    <3>1. /\ pc[s] = "record" /\ pc' = [pc EXCEPT ![s] = "updateStatus"]
          /\ UNCHANGED <<packet, published, expiries>>
          /\ recorded' = recorded \cup {packet[s]}
      BY <2>6 DEF RecordMessage
    <3>2. ASSUME NEW t \in Sessions, NEW m \in Messages
          PROVE  (published[t][m] + Carried(t, m) <= Opened(m))'
      <4>0. published[t][m] \in Nat /\ expiries[m] \in Nat
        OBVIOUS
      <4>1. CASE t = s /\ m = packet[s]
        <5>1. published[s][m] <= expiries[m]
          BY <3>1, <4>1 DEF WindowInv, Admission, Admits
        <5>2. Opened(m)' = expiries[m] + 1 /\ Carried(s, m)' <= 1
              /\ Carried(s, m)' \in Nat
          BY <3>1, <4>1 DEF Opened, Carried
        <5>3. QED
          BY <3>1, <4>0, <4>1, <5>1, <5>2
      <4>2. CASE t # s \/ m # packet[s]
        <5>1. Carried(t, m)' = Carried(t, m) /\ Carried(t, m) \in Nat
          BY <3>1, <4>2 DEF Carried, Carries
        <5>2. Opened(m)' >= Opened(m) /\ Opened(m)' \in Nat /\ Opened(m) \in Nat
          BY <3>1, <4>0 DEF Opened
        <5>3. published[t][m] + Carried(t, m) <= Opened(m)
          BY DEF WindowInv, Budget
        <5>4. QED
          BY <3>1, <4>0, <5>1, <5>2, <5>3
      <4>3. QED
        BY <4>1, <4>2
    <3>3. Admission'
      <4>1. ASSUME NEW t \in Sessions, NEW m \in Messages
            PROVE  Admits(t, m)' => Admits(t, m)
        BY <3>1 DEF Admits
      <4>2. QED
        BY <3>1, <4>1 DEF WindowInv, Admission
    <3>4. QED
      BY <3>2, <3>3 DEF WindowInv, Budget
  <2>7. CASE PublishInbound(s)
    <3>1. CASE UNCHANGED published
      BY <2>7, <3>1, WindowMove DEF PublishInbound
    <3>2. CASE ~UNCHANGED published
      <4>1. /\ pc[s] = "publish" /\ pc' = [pc EXCEPT ![s] = "bookkeep"]
            /\ UNCHANGED <<packet, expiries, recorded>>
            /\ published' = [published EXCEPT ![s][packet[s]] = @ + 1]
        BY <2>7, <3>2 DEF PublishInbound
      <4>2. ASSUME NEW t \in Sessions, NEW m \in Messages
            PROVE  /\ Opened(m)' = Opened(m)
                   /\ published'[t][m] + Carried(t, m)' = published[t][m] + Carried(t, m)
        <5>1. published[t][m] \in Nat
          OBVIOUS
        <5>2. CASE t = s /\ m = packet[s]
          <6>1. Carried(t, m) = 1 /\ Carried(t, m)' = 0
            BY <4>1, <5>2 DEF Carried, Carries
          <6>2. published'[t][m] = published[t][m] + 1
            BY <4>1, <5>2
          <6>3. QED
            BY <4>1, <5>1, <6>1, <6>2 DEF Opened
        <5>3. CASE t # s \/ m # packet[s]
          <6>1. Carried(t, m) = Carried(t, m)'
            BY <4>1, <5>3 DEF Carried, Carries
          <6>2. published'[t][m] = published[t][m]
            BY <4>1, <5>3
          <6>3. QED
            BY <4>1, <6>1, <6>2 DEF Opened
        <5>4. QED
          BY <5>2, <5>3
      <4>3. Budget'
        BY <4>2 DEF WindowInv, Budget
      <4>4. ASSUME NEW t \in Sessions, NEW m \in Messages, Admits(t, m)'
            PROVE  (published[t][m] <= expiries[m])'
        <5>1. Admits(t, m) /\ t # s
          BY <4>1, <4>4 DEF Admits
        <5>2. published'[t] = published[t]
          BY <4>1, <5>1
        <5>3. QED
          BY <4>1, <5>1, <5>2 DEF WindowInv, Admission
      <4>5. QED
        BY <4>3, <4>4 DEF WindowInv, Admission
    <3>3. QED
      BY <3>1, <3>2
  <2>8. QED
    BY <1>5, <2>1, <2>2, <2>3, <2>4, <2>5, <2>6, <2>7 DEF Handle
<1>6. CASE UNCHANGED vars
  BY <1>6, WindowFrame DEF vars, Carries, Admits
<1>7. QED
  BY <1>1, <1>2, <1>3, <1>4, <1>5, <1>6 DEF Next

(* One session publishes a message at most once per window, for any number *)
(* of sessions, messages and windows.                                      *)
THEOREM PublishOncePerWindow == Spec => []OncePerWindow
<1>1. Typed /\ WindowInv => OncePerWindow
  <2> SUFFICES ASSUME Typed, WindowInv, NEW s \in Sessions, NEW m \in Messages
               PROVE  published[s][m] <= 1 + expiries[m]
    BY DEF OncePerWindow
  <2>1. published[s][m] + Carried(s, m) <= Opened(m)
    BY DEF WindowInv, Budget
  <2>2. published[s][m] \in Nat /\ expiries[m] \in Nat
    BY DEF Typed, TypeOK
  <2>3. QED
    BY <2>1, <2>2 DEF Carried, Opened
<1>2. QED
  BY <1>1, Typing, WindowInit, WindowStep, PTL DEF Spec
-----------------------------------------------------------------------------
(* The answer to the device: between the publish and the acknowledgment    *)
(* the message of a session has been published by that session.            *)

AckInv ==
  /\ AckedIsPublished
  /\ \A s \in Sessions :
       pc[s] \in {"bookkeep", "acknowledge"} => published[s][packet[s]] > 0

(* A step that publishes and acknowledges nothing keeps AckInv, if it      *)
(* brings no session between the publish and the acknowledgment.           *)
LEMMA AckFrame ==
  ASSUME AckInv, UNCHANGED <<published, acks>>,
         \A s \in Sessions :
           pc'[s] \in {"bookkeep", "acknowledge"} =>
             pc[s] \in {"bookkeep", "acknowledge"} /\ packet'[s] = packet[s]
  PROVE  AckInv'
  BY DEF AckInv, AckedIsPublished

LEMMA AckStep == Typed /\ AckInv /\ [Next]_vars => AckInv'
<1> USE DEF dependencies, outputs, history, Goto, Continue, Reject, Resume, Leave, Escape,
            Typed, TypeOK
<1> SUFFICES ASSUME Typed, AckInv, [Next]_vars PROVE AckInv'
  OBVIOUS
<1>1. ASSUME NEW m \in Messages, Send(m) \/ Lose(m) \/ Expire(m) PROVE AckInv'
  BY <1>1, AckFrame DEF Send, Lose, Expire
<1>2. ASSUME NEW s \in Sessions,
             \/ Start(s) \/ Stop(s) \/ Abort(s) \/ Receive(s) \/ ReceiveError(s)
             \/ Crash(s)
      PROVE  AckInv'
  BY <1>2, AckFrame DEF Start, Stop, Abort, Receive, ReceiveError, Crash
<1>3. ASSUME NEW s \in Sessions, Handle(s) PROVE AckInv'
  <2>1. CASE ParseMessage(s) \/ Authenticate(s) \/ CheckDuplicate(s) \/ CheckLimit(s)
    BY <2>1, AckFrame DEF ParseMessage, Authenticate, CheckDuplicate, CheckLimit
  <2>2. CASE RecordMessage(s) \/ UpdateStatus(s) \/ Bookkeep(s) \/ SendRefusal(s)
    BY <2>2, AckFrame DEF RecordMessage, UpdateStatus, Bookkeep, SendRefusal
  <2>3. CASE FetchCommands(s) \/ SendCommands(s) \/ HandleError(s) \/ Throw(s)
    BY <2>3, AckFrame DEF FetchCommands, SendCommands, HandleError, Throw
  <2>4. CASE MarkDelivered(s) \/ ReportException(s)
    BY <2>4, AckFrame DEF MarkDelivered, ReportException
  <2>5. CASE PublishInbound(s)
    <3>1. CASE pc' = [pc EXCEPT ![s] = "refuse"]
      <4>1. UNCHANGED <<packet, acks, published>>
        BY <2>5, <3>1 DEF PublishInbound
      <4>2. QED
        BY <3>1, <4>1, AckFrame
    <3>2. CASE pc' # [pc EXCEPT ![s] = "refuse"]
      <4>1. /\ pc[s] = "publish" /\ pc' = [pc EXCEPT ![s] = "bookkeep"]
            /\ UNCHANGED <<packet, acks>>
            /\ published' = [published EXCEPT ![s][packet[s]] = @ + 1]
        BY <2>5, <3>2 DEF PublishInbound
      <4>2. packet[s] \in Messages
        BY <4>1 DEF Parsed, Handling
      <4>3. ASSUME NEW t \in Sessions, NEW m \in Messages
            PROVE  /\ published[t][m] \in Nat /\ published'[t][m] \in Nat
                   /\ published'[t][m] >= published[t][m]
        <5>1. published[t][m] \in Nat
          OBVIOUS
        <5>2. CASE t = s /\ m = packet[s]
          BY <4>1, <5>1, <5>2
        <5>3. CASE t # s \/ m # packet[s]
          BY <4>1, <5>1, <5>3
        <5>4. QED
          BY <5>2, <5>3
      <4>4. published'[s][packet[s]] > 0
        <5>1. published[s][packet[s]] \in Nat
          BY <4>2
        <5>2. published'[s][packet[s]] = published[s][packet[s]] + 1
          BY <4>1, <4>2
        <5>3. QED
          BY <5>1, <5>2
      <4>5. AckedIsPublished'
        <5>1. SUFFICES ASSUME NEW m \in acks
                       PROVE  \E t \in Sessions : published'[t][m] > 0
          BY <4>1 DEF AckedIsPublished
        <5>2. PICK t \in Sessions : published[t][m] > 0
          BY DEF AckInv, AckedIsPublished
        <5>3. m \in Messages
          OBVIOUS
        <5>4. QED
          BY <4>3, <5>2, <5>3
      <4>6. ASSUME NEW t \in Sessions, pc'[t] \in {"bookkeep", "acknowledge"}, t # s
            PROVE  published'[t][packet'[t]] > 0
        <5>1. pc[t] \in {"bookkeep", "acknowledge"} /\ published[t][packet[t]] > 0
          BY <4>1, <4>6 DEF AckInv
        <5>2. published'[t] = published[t]
          BY <4>1, <4>6
        <5>3. QED
          BY <4>1, <5>1, <5>2
      <4>7. QED
        BY <4>1, <4>4, <4>5, <4>6 DEF AckInv
    <3>3. QED
      BY <3>1, <3>2
  <2>6. CASE SendAcknowledgment(s)
    <3>1. /\ pc[s] = "acknowledge" /\ pc' = [pc EXCEPT ![s] = "fetchCommands"]
          /\ UNCHANGED <<packet, published>>
          /\ acks' \subseteq acks \cup {packet[s]}
      BY <2>6 DEF SendAcknowledgment
    <3>2. published[s][packet[s]] > 0
      BY <3>1 DEF AckInv
    <3>3. AckedIsPublished'
      BY <3>1, <3>2 DEF AckInv, AckedIsPublished
    <3>4. QED
      BY <3>1, <3>3 DEF AckInv
  <2>7. QED
    BY <1>3, <2>1, <2>2, <2>3, <2>4, <2>5, <2>6 DEF Handle
<1>4. CASE UNCHANGED vars
  BY <1>4, AckFrame DEF vars
<1>5. QED
  BY <1>1, <1>2, <1>3, <1>4 DEF Next

LEMMA AckInvariant == Spec => []AckInv
<1>1. Init => AckInv
  BY DEF Init, AckInv, AckedIsPublished
<1>2. QED
  BY <1>1, AckStep, Typing, PTL DEF Spec

(* A device is told of success only when its message is on the queue. *)
THEOREM AcknowledgedWasPublished == Spec => []AckedIsPublished
  BY AckInvariant, PTL DEF AckInv
-----------------------------------------------------------------------------
(* Messages the deduplication remembers: LossNeedsMishap is inductive.     *)

(* A step keeps it that records and forgets nothing, if every message no   *)
(* longer carried is then delivered or accounted a mishap.                 *)
LEMMA LossFrame ==
  ASSUME LossNeedsMishap, recorded' \subseteq recorded,
         (delivered \cup mishaps) \cap recorded' \subseteq delivered' \cup mishaps',
         \A s \in Sessions, m \in Messages :
           Carries(s, m) => Carries(s, m)' \/ m \in delivered' \cup mishaps',
         recorded \subseteq Messages
  PROVE  LossNeedsMishap'
  BY DEF LossNeedsMishap

LEMMA LossStep == Typed /\ LossNeedsMishap /\ [Next]_vars => LossNeedsMishap'
<1> USE DEF dependencies, outputs, history, Goto, Continue, Reject, Typed, TypeOK
<1> SUFFICES ASSUME Typed, LossNeedsMishap, [Next]_vars PROVE LossNeedsMishap'
  OBVIOUS
<1>1. ASSUME NEW m \in Messages, Send(m) \/ Lose(m) PROVE LossNeedsMishap'
  BY <1>1, LossFrame DEF Send, Lose, Carries
<1>2. ASSUME NEW m \in Messages, Expire(m) PROVE LossNeedsMishap'
  BY <1>2, LossFrame DEF Expire, Carries
<1>3. ASSUME NEW s \in Sessions,
             Start(s) \/ Stop(s) \/ Abort(s) \/ Receive(s) \/ ReceiveError(s)
      PROVE  LossNeedsMishap'
  BY <1>3, LossFrame DEF Start, Stop, Abort, Receive, ReceiveError, Escape, Leave, Carries
<1>4. ASSUME NEW s \in Sessions, Crash(s) PROVE LossNeedsMishap'
  BY <1>4, LossFrame DEF Crash, Leave, Carries
<1>5. ASSUME NEW s \in Sessions, Handle(s) PROVE LossNeedsMishap'
  <2>1. CASE ParseMessage(s) \/ Authenticate(s) \/ CheckDuplicate(s) \/ CheckLimit(s)
    BY <2>1, LossFrame
       DEF ParseMessage, Authenticate, CheckDuplicate, CheckLimit, Carries
  <2>2. CASE UpdateStatus(s) \/ Bookkeep(s) \/ SendRefusal(s)
    BY <2>2, LossFrame DEF UpdateStatus, Bookkeep, SendRefusal, Carries, Resume, Leave
  <2>3. CASE FetchCommands(s) \/ SendCommands(s) \/ HandleError(s)
    BY <2>3, LossFrame DEF FetchCommands, SendCommands, HandleError, Carries, Resume, Leave
  <2>4. CASE MarkDelivered(s) \/ ReportException(s)
    BY <2>4, LossFrame DEF MarkDelivered, ReportException, Escape, Carries, Resume, Leave
  <2>5. CASE SendAcknowledgment(s)
    BY <2>5, LossFrame DEF SendAcknowledgment, Carries
  <2>6. CASE RecordMessage(s)
    <3>1. /\ pc'[s] = "updateStatus" /\ recorded' = recorded \cup {packet[s]}
          /\ UNCHANGED <<packet, delivered, mishaps>>
      BY <2>6 DEF RecordMessage
    <3>2. ASSUME NEW t \in Sessions, NEW m \in Messages, Carries(t, m)
          PROVE  Carries(t, m)'
      BY <2>6, <3>2 DEF RecordMessage, Carries
    <3>3. SUFFICES ASSUME NEW m \in recorded'
                   PROVE  \/ m \in delivered' \cup mishaps'
                          \/ \E t \in Sessions : Carries(t, m)'
      BY DEF LossNeedsMishap
    <3>4. CASE m = packet[s]
      BY <3>1, <3>4 DEF Carries
    <3>5. CASE m \in recorded
      BY <3>1, <3>2, <3>5 DEF LossNeedsMishap
    <3>6. QED
      BY <3>1, <3>4, <3>5
  <2>7. CASE PublishInbound(s)
    BY <2>7, LossFrame DEF PublishInbound, Carries
  <2>8. CASE Throw(s)
    BY <2>8, LossFrame DEF Throw, Carries, Leave
  <2>9. QED
    BY <1>5, <2>1, <2>2, <2>3, <2>4, <2>5, <2>6, <2>7, <2>8 DEF Handle
<1>6. CASE UNCHANGED vars
  BY <1>6, LossFrame DEF vars, Carries
<1>7. QED
  BY <1>1, <1>2, <1>3, <1>4, <1>5, <1>6 DEF Next

(* Only a failed publish, an exception after recordMessage or a crash can  *)
(* leave a message recorded that is neither published nor about to be.     *)
THEOREM OnlyMishapsLose == Spec => []LossNeedsMishap
<1>1. Init => LossNeedsMishap
  BY DEF Init, LossNeedsMishap
<1>2. QED
  BY <1>1, LossStep, Typing, PTL DEF Spec
-----------------------------------------------------------------------------
(* Commands: what a session is about to mark is in a datagram it sent.     *)

MarkInv ==
  /\ MarkedWasSent
  /\ \A s \in Sessions : pc[s] = "markDelivered" => batch[s] \subseteq sent

(* A step keeps MarkInv that marks nothing, unsends nothing and brings no  *)
(* session to the marking.                                                 *)
LEMMA MarkFrame ==
  ASSUME MarkInv, UNCHANGED marked, sent \subseteq sent',
         \A s \in Sessions :
           pc'[s] = "markDelivered" => pc[s] = "markDelivered" /\ batch'[s] = batch[s]
  PROVE  MarkInv'
  BY DEF MarkInv, MarkedWasSent

LEMMA MarkStep == Typed /\ MarkInv /\ [Next]_vars => MarkInv'
<1> USE DEF dependencies, outputs, history, Goto, Continue, Reject, Resume, Leave, Escape,
            Typed, TypeOK
<1> SUFFICES ASSUME Typed, MarkInv, [Next]_vars PROVE MarkInv'
  OBVIOUS
<1>1. ASSUME NEW m \in Messages, Send(m) \/ Lose(m) \/ Expire(m) PROVE MarkInv'
  BY <1>1, MarkFrame DEF Send, Lose, Expire
<1>2. ASSUME NEW s \in Sessions,
             \/ Start(s) \/ Stop(s) \/ Abort(s) \/ Receive(s) \/ ReceiveError(s)
             \/ Crash(s)
      PROVE  MarkInv'
  BY <1>2, MarkFrame DEF Start, Stop, Abort, Receive, ReceiveError, Crash
<1>3. ASSUME NEW s \in Sessions, Handle(s) PROVE MarkInv'
  <2>1. CASE ParseMessage(s) \/ Authenticate(s) \/ CheckDuplicate(s) \/ CheckLimit(s)
    BY <2>1, MarkFrame DEF ParseMessage, Authenticate, CheckDuplicate, CheckLimit
  <2>2. CASE RecordMessage(s) \/ UpdateStatus(s) \/ PublishInbound(s) \/ Bookkeep(s)
    BY <2>2, MarkFrame DEF RecordMessage, UpdateStatus, PublishInbound, Bookkeep
  <2>3. CASE SendAcknowledgment(s) \/ SendRefusal(s) \/ FetchCommands(s)
    BY <2>3, MarkFrame DEF SendAcknowledgment, SendRefusal, FetchCommands
  <2>4. CASE HandleError(s) \/ Throw(s) \/ ReportException(s)
    BY <2>4, MarkFrame DEF HandleError, Throw, ReportException
  <2>5. CASE SendCommands(s)
    BY <2>5 DEF SendCommands, MarkInv, MarkedWasSent
  <2>6. CASE MarkDelivered(s)
    <3>1. PICK c \in batch[s] :
              /\ marked' = marked \cup {c}
              /\ IF batch[s] = {c}
                   THEN Resume(s)
                   ELSE /\ batch' = [batch EXCEPT ![s] = @ \ {c}]
                        /\ UNCHANGED <<pc, packet, error>>
      BY <2>6 DEF MarkDelivered
    <3>2. pc[s] = "markDelivered" /\ UNCHANGED sent
      BY <2>6 DEF MarkDelivered
    <3>3. MarkedWasSent'
      BY <3>1, <3>2 DEF MarkInv, MarkedWasSent
    <3>4. ASSUME NEW t \in Sessions, pc'[t] = "markDelivered"
          PROVE  batch'[t] \subseteq sent'
      <4>1. pc[t] = "markDelivered" /\ batch'[t] \subseteq batch[t]
        BY <3>1, <3>2, <3>4
      <4>2. QED
        BY <3>2, <4>1 DEF MarkInv
    <3>5. QED
      BY <3>3, <3>4 DEF MarkInv
  <2>7. QED
    BY <1>3, <2>1, <2>2, <2>3, <2>4, <2>5, <2>6 DEF Handle
<1>4. CASE UNCHANGED vars
  BY <1>4, MarkFrame DEF vars
<1>5. QED
  BY <1>1, <1>2, <1>3, <1>4 DEF Next

(* The device manager is told of a delivery only after the datagram. *)
THEOREM CommandsMarkedAfterSend == Spec => []MarkedWasSent
<1>1. Init => MarkInv
  BY DEF Init, MarkInv, MarkedWasSent
<1>2. MarkInv => MarkedWasSent
  BY DEF MarkInv
<1>3. QED
  BY <1>1, <1>2, MarkStep, Typing, PTL DEF Spec
-----------------------------------------------------------------------------
(* What a session admits is not recorded: with one session nobody else     *)
(* records it between isDuplicate and recordMessage.                       *)
AdmittedIsNew == \A m \in Messages : Admits(TheSession, m) => m \notin recorded

LEMMA AdmittedStep ==
  ASSUME Sessions = {TheSession}
  PROVE  Typed /\ AdmittedIsNew /\ [Next]_vars => AdmittedIsNew'
<1> USE DEF dependencies, outputs, history, Goto, Continue, Reject, Resume, Leave, Escape,
            Typed, TypeOK
<1> SUFFICES ASSUME Typed, AdmittedIsNew, [Next]_vars, NEW m \in Messages,
                    Admits(TheSession, m)'
             PROVE  m \notin recorded'
  BY DEF AdmittedIsNew
<1> DEFINE s == TheSession
<1>1. CASE UNCHANGED vars
  BY <1>1 DEF vars, AdmittedIsNew, Admits
<1>2. CASE \E n \in Messages : Send(n) \/ Lose(n) \/ Expire(n)
  BY <1>2 DEF Send, Lose, Expire, AdmittedIsNew, Admits
<1>3. CASE Start(s) \/ Stop(s) \/ Abort(s) \/ Receive(s) \/ ReceiveError(s) \/ Crash(s)
  BY <1>3 DEF Start, Stop, Abort, Receive, ReceiveError, Crash, AdmittedIsNew, Admits
<1>4. CASE Handle(s)
  <2>1. CASE ParseMessage(s) \/ Authenticate(s) \/ CheckDuplicate(s) \/ CheckLimit(s)
    BY <2>1 DEF ParseMessage, Authenticate, CheckDuplicate, CheckLimit, AdmittedIsNew, Admits
  <2>2. CASE RecordMessage(s) \/ UpdateStatus(s) \/ PublishInbound(s) \/ Bookkeep(s)
    BY <2>2 DEF RecordMessage, UpdateStatus, PublishInbound, Bookkeep, AdmittedIsNew, Admits
  <2>3. CASE SendAcknowledgment(s) \/ SendRefusal(s) \/ FetchCommands(s) \/ SendCommands(s)
    BY <2>3 DEF SendAcknowledgment, SendRefusal, FetchCommands, SendCommands, Admits
  <2>4. CASE MarkDelivered(s) \/ HandleError(s) \/ Throw(s) \/ ReportException(s)
    BY <2>4 DEF MarkDelivered, HandleError, Throw, ReportException, Admits, Handling
  <2>5. QED
    BY <1>4, <2>1, <2>2, <2>3, <2>4 DEF Handle
<1>5. QED
  BY <1>1, <1>2, <1>3, <1>4 DEF Next

LEMMA AdmittedInvariant ==
  ASSUME Sessions = {TheSession}
  PROVE  Spec => []AdmittedIsNew
<1>1. Init => AdmittedIsNew
  BY DEF Init, AdmittedIsNew, Admits
<1>2. QED
  BY <1>1, AdmittedStep, Typing, PTL DEF Spec

LEMMA RefinesInit ==
  ASSUME Sessions = {TheSession}
  PROVE  Init => Promise!Init
  BY DEF Init, Promise!Init, InFlight, Windows, Carries

(* A step that leaves the mapped variables alone stutters. *)
LEMMA RefinesStutter ==
  ASSUME Typed,
         UNCHANGED <<published, acks, recorded, expiries>>,
         \A m \in Messages : Carries(TheSession, m)' = Carries(TheSession, m)
  PROVE  UNCHANGED Promise!vars
  BY DEF Promise!vars, InFlight, Windows

(* A carried message is given up. *)
LEMMA RefinesDrop ==
  ASSUME Typed, NEW n \in Messages, Carries(TheSession, n),
         UNCHANGED <<published, acks, recorded, expiries>>,
         \A m \in Messages : ~Carries(TheSession, m)'
  PROVE  Promise!Drop(n)
<1>1. InFlight = {n}
  BY DEF InFlight, Carries
<1>2. InFlight' = {}
  BY DEF InFlight
<1>3. Windows' = Windows
  BY DEF Windows
<1>4. QED
  BY <1>1, <1>2, <1>3 DEF Promise!Drop

(* One step of the session or of its environment is one of the promise.    *)
LEMMA RefinesStep ==
  ASSUME Sessions = {TheSession}
  PROVE  Typed /\ AdmittedIsNew /\ AckInv /\ [Next]_vars => [Promise!Next]_Promise!vars
<1> USE SessionAssumption
    DEF dependencies, outputs, history, Goto, Continue, Reject, Resume, Leave, Escape
<1> SUFFICES ASSUME Typed, AdmittedIsNew, AckInv, [Next]_vars
             PROVE  Promise!Next \/ UNCHANGED Promise!vars
  OBVIOUS
<1> DEFINE s == TheSession
<1>1. CASE UNCHANGED vars
  BY <1>1, RefinesStutter DEF vars, Carries
<1>2. CASE \E n \in Messages : Send(n) \/ Lose(n)
  BY <1>2, RefinesStutter DEF Send, Lose, Carries
<1>3. CASE \E n \in Messages : Expire(n)
  <2>1. PICK n \in Messages : Expire(n)
    BY <1>3
  <2>2. InFlight' = InFlight
    BY <2>1 DEF Expire, InFlight, Carries
  <2>3. Windows' = Windows
    BY <2>1 DEF Expire, Windows, Typed, TypeOK
  <2>4. Promise!Close(n)
    BY <2>1, <2>2, <2>3 DEF Expire, Promise!Close
  <2>5. QED
    BY <2>4 DEF Promise!Next
<1>4. CASE Start(s) \/ Stop(s) \/ Abort(s) \/ Receive(s) \/ ReceiveError(s)
  BY <1>4, RefinesStutter DEF Start, Stop, Abort, Receive, ReceiveError, Carries, Typed, TypeOK
<1>5. CASE Crash(s) \/ Throw(s)
  <2>1. /\ UNCHANGED <<published, acks, recorded, expiries>>
        /\ \A m \in Messages : ~Carries(s, m)'
    BY <1>5 DEF Crash, Throw, Carries, Typed, TypeOK
  <2>2. CASE \E n \in Messages : Carries(s, n)
    BY <2>1, <2>2, RefinesDrop DEF Promise!Next
  <2>3. CASE \A n \in Messages : ~Carries(s, n)
    <3>1. \A n \in Messages : Carries(s, n)' = Carries(s, n)
      BY <2>1, <2>3 DEF Carries
    <3>2. QED
      BY <2>1, <3>1, RefinesStutter
  <2>4. QED
    BY <2>2, <2>3
<1>6. CASE ParseMessage(s) \/ Authenticate(s) \/ CheckDuplicate(s) \/ CheckLimit(s)
  BY <1>6, RefinesStutter
     DEF ParseMessage, Authenticate, CheckDuplicate, CheckLimit, Carries, Typed, TypeOK
<1>7. CASE RecordMessage(s)
  <2> DEFINE n == packet[s]
  <2>1. n \in Messages /\ n \notin recorded /\ ~Carries(s, n)
    <3>1. pc[s] = "record"
      BY <1>7 DEF RecordMessage
    <3>2. n \in Messages
      BY <3>1 DEF Typed, Parsed, Handling
    <3>3. QED
      BY <3>1, <3>2 DEF AdmittedIsNew, Admits, Carries
  <2>2. InFlight = {} /\ InFlight' = {n}
    BY <1>7, <2>1 DEF RecordMessage, InFlight, Carries, Typed, TypeOK
  <2>3. Windows' = [Windows EXCEPT ![n] = @ + 1]
    BY <1>7, <2>1 DEF RecordMessage, Windows, Typed, TypeOK
  <2>4. Promise!Claim(n)
    BY <1>7, <2>1, <2>2, <2>3 DEF RecordMessage, Promise!Claim
  <2>5. QED
    BY <2>1, <2>4 DEF Promise!Next
<1>8. CASE UpdateStatus(s) \/ Bookkeep(s)
  BY <1>8, RefinesStutter DEF UpdateStatus, Bookkeep, Carries, Typed, TypeOK
<1>9. CASE PublishInbound(s)
  <2> DEFINE n == packet[s]
  <2>1. n \in Messages /\ Carries(s, n)
    <3>1. pc[s] = "publish"
      BY <1>9 DEF PublishInbound
    <3>2. QED
      BY <3>1 DEF Typed, Parsed, Handling, Carries
  <2>2. InFlight = {n} /\ InFlight' = {}
    BY <1>9, <2>1 DEF PublishInbound, InFlight, Carries, Typed, TypeOK
  <2>3. Windows' = Windows
    BY <1>9 DEF PublishInbound, Windows
  <2>4. Promise!Publish(n) \/ Promise!Drop(n)
    BY <1>9, <2>1, <2>2, <2>3
       DEF PublishInbound, Promise!Publish, Promise!Drop, Typed, TypeOK
  <2>5. QED
    BY <2>1, <2>4 DEF Promise!Next
<1>10. CASE SendAcknowledgment(s)
  <2> DEFINE n == packet[s]
  <2>1. UNCHANGED <<InFlight, Windows>>
    BY <1>10 DEF SendAcknowledgment, InFlight, Windows, Carries, Typed, TypeOK
  <2>2. CASE n \in WantsAck
    <3>1. n \in Messages /\ published[s][n] > 0
      BY <1>10, <2>2 DEF SendAcknowledgment, AckInv, Typed, Parsed, Handling
    <3>2. Promise!Acknowledge(n)
      BY <1>10, <2>1, <2>2, <3>1 DEF SendAcknowledgment, Promise!Acknowledge
    <3>3. QED
      BY <3>1, <3>2 DEF Promise!Next
  <2>3. CASE n \notin WantsAck
    BY <1>10, <2>1, <2>3 DEF SendAcknowledgment, Promise!vars
  <2>4. QED
    BY <2>2, <2>3
<1>11. CASE SendRefusal(s) \/ FetchCommands(s) \/ SendCommands(s)
  BY <1>11, RefinesStutter
     DEF SendRefusal, FetchCommands, SendCommands, Carries, Typed, TypeOK
<1>12. CASE MarkDelivered(s) \/ HandleError(s) \/ ReportException(s)
  BY <1>12, RefinesStutter
     DEF MarkDelivered, HandleError, ReportException, Carries, Typed, TypeOK
<1>13. QED
  BY <1>1, <1>2, <1>3, <1>4, <1>5, <1>6, <1>7, <1>8, <1>9, <1>10, <1>11, <1>12
     DEF Next, Handle

(* The gateway with one session implements AtMostOnce: a message is        *)
(* published at most once per deduplication window and acknowledged only   *)
(* when published, for every number of messages, commands and expiries.    *)
THEOREM OneSessionImplements ==
  ASSUME Sessions = {TheSession}
  PROVE  Spec => ImplementsAtMostOnce
<1>1. Init => Promise!Init
  BY RefinesInit
<1>2. Typed /\ AdmittedIsNew /\ AckInv /\ [Next]_vars => [Promise!Next]_Promise!vars
  BY RefinesStep
<1>3. QED
  BY <1>1, <1>2, Typing, AdmittedInvariant, AckInvariant, PTL
     DEF Spec, ImplementsAtMostOnce, Promise!Spec
-----------------------------------------------------------------------------
(* The one kind of answer: from recordMessage to its answer the message of *)
(* the session has had none in its window, even when the entry expires in  *)
(* between; and what it is admitted for is a window of its own.            *)

Answering == {"updateStatus", "publish", "bookkeep", "acknowledge", "refuse"}

AnswerInv ==
  /\ AnswersAgree
  /\ \A s \in Sessions : pc[s] \in Answering => answers[packet[s]] = {}

(* A step that tells no device anything keeps AnswerInv, if it brings no   *)
(* session between recordMessage and the answer.                           *)
LEMMA AnswerFrame ==
  ASSUME AnswerInv, UNCHANGED answers,
         \A s \in Sessions :
           pc'[s] \in Answering => pc[s] \in Answering /\ packet'[s] = packet[s]
  PROVE  AnswerInv'
  BY DEF AnswerInv, AnswersAgree

LEMMA AnswerStep ==
  ASSUME Sessions = {TheSession}
  PROVE  Typed /\ AdmittedIsNew /\ AnswerInv /\ [Next]_vars => AnswerInv'
<1> USE DEF dependencies, outputs, history, Goto, Continue, Reject, Resume, Leave, Escape,
            Typed, TypeOK, Answering
<1> SUFFICES ASSUME Typed, AdmittedIsNew, AnswerInv, [Next]_vars PROVE AnswerInv'
  OBVIOUS
<1> DEFINE s == TheSession
<1>1. CASE UNCHANGED vars
  BY <1>1, AnswerFrame DEF vars
<1>2. CASE \E n \in Messages : Send(n) \/ Lose(n) \/ Expire(n)
  BY <1>2, AnswerFrame DEF Send, Lose, Expire
<1>3. CASE Start(s) \/ Stop(s) \/ Abort(s) \/ Receive(s) \/ ReceiveError(s) \/ Crash(s)
  BY <1>3, AnswerFrame DEF Start, Stop, Abort, Receive, ReceiveError, Crash
<1>4. CASE ParseMessage(s) \/ Authenticate(s) \/ CheckDuplicate(s) \/ CheckLimit(s)
  BY <1>4, AnswerFrame DEF ParseMessage, Authenticate, CheckDuplicate, CheckLimit
<1>5. CASE RecordMessage(s)
  <2>1. /\ pc[s] = "record" /\ UNCHANGED packet
        /\ answers' = [answers EXCEPT ![packet[s]] = IF packet[s] \in recorded THEN @ ELSE {}]
    BY <1>5 DEF RecordMessage
  <2>2. packet[s] \in Messages
    BY <2>1 DEF Parsed, Handling
  <2>3. packet[s] \notin recorded
    BY <2>1, <2>2 DEF AdmittedIsNew, Admits
  <2>4. answers' = [answers EXCEPT ![packet[s]] = {}]
    BY <2>1, <2>3
  <2>5. QED
    BY <2>1, <2>2, <2>4 DEF AnswerInv, AnswersAgree
<1>6. CASE UpdateStatus(s) \/ PublishInbound(s) \/ Bookkeep(s)
  BY <1>6, AnswerFrame DEF UpdateStatus, PublishInbound, Bookkeep
<1>7. CASE SendAcknowledgment(s) \/ SendRefusal(s)
  <2>1. PICK answer \in {"success", "failure"} : Told(packet[s], answer)
    BY <1>7 DEF SendAcknowledgment, SendRefusal
  <2>2. pc[s] \in Answering /\ pc'[s] \notin Answering
    BY <1>7 DEF SendAcknowledgment, SendRefusal
  <2>3. answers[packet[s]] = {} /\ packet[s] \in Messages
    BY <2>2 DEF AnswerInv, Parsed, Handling
  <2>4. \A m \in Messages : answers'[m] = answers[m] \/ answers'[m] = {answer}
    BY <2>1, <2>3 DEF Told
  <2>5. QED
    BY <2>2, <2>4 DEF AnswerInv, AnswersAgree
<1>8. CASE FetchCommands(s) \/ SendCommands(s) \/ MarkDelivered(s)
  BY <1>8, AnswerFrame DEF FetchCommands, SendCommands, MarkDelivered
<1>9. CASE HandleError(s) \/ Throw(s) \/ ReportException(s)
  BY <1>9, AnswerFrame DEF HandleError, Throw, ReportException
<1>10. QED
  BY <1>1, <1>2, <1>3, <1>4, <1>5, <1>6, <1>7, <1>8, <1>9 DEF Next, Handle

(* A gateway with one session never takes back its answer to a message     *)
(* within a window, in none of any number of windows, whatever is sent     *)
(* again, fails, expires or throws.                                        *)
THEOREM OneAnswerPerWindow ==
  ASSUME Sessions = {TheSession}
  PROVE  Spec => []AnswersAgree
<1>1. Init => AnswerInv
  BY DEF Init, AnswerInv, AnswersAgree, Answering
<1>2. AnswerInv => AnswersAgree
  BY DEF AnswerInv
<1>3. QED
  BY <1>1, <1>2, AnswerStep, Typing, AdmittedInvariant, PTL DEF Spec
-----------------------------------------------------------------------------
(* Handlers return.  That a step is possible (ENABLED) is a hypothesis.     *)

(* Only an exception of recordError leaves a session without a receive. *)
DeafIsUnreported == \A s \in Sessions : pc[s] = "deaf" => s \in unreported

LEMMA DeafStep == Typed /\ DeafIsUnreported /\ [Next]_vars => DeafIsUnreported'
<1> USE DEF Typed, TypeOK, DeafIsUnreported, history
<1> SUFFICES ASSUME Typed, DeafIsUnreported, [Next]_vars PROVE DeafIsUnreported'
  OBVIOUS
<1>1. CASE UNCHANGED <<pc, unreported>>
  BY <1>1
<1>2. ASSUME NEW s \in Sessions, Start(s) \/ Stop(s) \/ Abort(s) \/ Receive(s)
      PROVE  DeafIsUnreported'
  BY <1>2 DEF Start, Stop, Abort, Receive
<1>3. ASSUME NEW s \in Sessions, Crash(s) \/ ReceiveError(s) PROVE DeafIsUnreported'
  BY <1>3 DEF Crash, ReceiveError, Escape, Leave
<1>4. ASSUME NEW s \in Sessions, Handle(s) PROVE DeafIsUnreported'
  <2>1. \A from, to : Goto(s, from, to) /\ to # "deaf" /\ UNCHANGED unreported => DeafIsUnreported'
    BY DEF Goto
  <2>2. Resume(s) /\ UNCHANGED unreported => DeafIsUnreported'
    BY DEF Resume, Leave
  <2>3. CASE ParseMessage(s) \/ Authenticate(s) \/ CheckDuplicate(s) \/ CheckLimit(s)
    BY <2>1, <2>3 DEF ParseMessage, Authenticate, CheckDuplicate, CheckLimit, Continue, Reject
  <2>4. CASE RecordMessage(s) \/ UpdateStatus(s) \/ PublishInbound(s) \/ Bookkeep(s)
    BY <2>1, <2>4 DEF RecordMessage, UpdateStatus, PublishInbound, Bookkeep, Continue
  <2>5. CASE SendAcknowledgment(s) \/ SendCommands(s)
    BY <2>1, <2>5 DEF SendAcknowledgment, SendCommands, Continue
  <2>6. CASE FetchCommands(s) \/ MarkDelivered(s)
    BY <2>2, <2>6 DEF FetchCommands, MarkDelivered
  <2>7. CASE SendRefusal(s) \/ HandleError(s)
    BY <2>2, <2>7 DEF SendRefusal, HandleError
  <2>8. CASE Throw(s) \/ ReportException(s)
    BY <2>2, <2>8 DEF Throw, ReportException, Escape, Leave
  <2>9. QED
    BY <1>4, <2>3, <2>4, <2>5, <2>6, <2>7, <2>8 DEF Handle
<1>5. QED
  BY <1>1, <1>2, <1>3, <1>4 DEF Next, Send, Lose, Expire, vars

LEMMA DeafInvariant == Spec => []DeafIsUnreported
<1>1. Init => DeafIsUnreported
  BY DEF Init, DeafIsUnreported
<1>2. QED
  BY <1>1, DeafStep, Typing, PTL DEF Spec

(* How many calls a handler is away from the end of its work on the         *)
(* message, at most.                                                        *)
Height(place) ==
  CASE place = "parse" -> 12
    [] place = "authenticate" -> 11
    [] place = "checkDuplicate" -> 10
    [] place = "checkLimit" -> 9
    [] place = "record" -> 8
    [] place = "updateStatus" -> 7
    [] place = "publish" -> 6
    [] place = "bookkeep" -> 5
    [] place = "acknowledge" -> 4
    [] place = "fetchCommands" -> 3
    [] place \in {"refuse", "handleError", "sendCommands"} -> 2
    [] place = "reportException" -> 1
    [] OTHER -> 0

LEMMA HeightOfPlaces ==
  /\ \A place \in Steps : Height(place) \in 0..12
  /\ \A place \in Steps : Height(place) = 0
       => place \in {"new", "receiving", "stopped", "deaf", "markDelivered"}
  BY DEF Height, Steps, Handling

Ready == {"receiving", "stopped"}

(* Where a step of the handler leads. *)
LEMMA HandlerPath ==
  ASSUME NEW s \in Sessions, Typed, Handle(s)
  PROVE  \/ pc[s] \in Handling /\ pc'[s] \in Ready
         \/ pc[s] \in Handling \ {"reportException"} /\ pc'[s] = "reportException"
         \/ pc[s] = "reportException" /\ pc'[s] = "deaf"
         \/ pc[s] = "parse" /\ pc'[s] \in {"authenticate", "handleError"}
         \/ pc[s] = "authenticate" /\ pc'[s] \in {"checkDuplicate", "handleError"}
         \/ pc[s] = "checkDuplicate" /\ pc'[s] \in {"checkLimit", "handleError"}
         \/ pc[s] = "checkLimit" /\ pc'[s] \in {"record", "handleError"}
         \/ pc[s] = "record" /\ pc'[s] = "updateStatus"
         \/ pc[s] = "updateStatus" /\ pc'[s] = "publish"
         \/ pc[s] = "publish" /\ pc'[s] \in {"bookkeep", "refuse"}
         \/ pc[s] = "bookkeep" /\ pc'[s] \in {"acknowledge", "refuse"}
         \/ pc[s] = "acknowledge" /\ pc'[s] = "fetchCommands"
         \/ pc[s] = "fetchCommands" /\ pc'[s] = "sendCommands"
         \/ pc[s] = "sendCommands" /\ pc'[s] = "markDelivered"
         \/ pc[s] = "markDelivered" /\ pc'[s] = "markDelivered"
<1> USE DEF Typed, TypeOK, Continue, Goto, Reject
<1>0. Resume(s) => pc'[s] \in Ready
  BY DEF Resume, Leave, Ready
<1>1. CASE ParseMessage(s)
  BY <1>1 DEF ParseMessage
<1>2. CASE Authenticate(s)
  BY <1>2 DEF Authenticate
<1>3. CASE CheckDuplicate(s)
  BY <1>3 DEF CheckDuplicate
<1>4. CASE CheckLimit(s)
  BY <1>4 DEF CheckLimit
<1>5. CASE RecordMessage(s) \/ UpdateStatus(s)
  BY <1>5 DEF RecordMessage, UpdateStatus
<1>6. CASE PublishInbound(s)
  BY <1>6 DEF PublishInbound
<1>7. CASE Bookkeep(s)
  BY <1>7 DEF Bookkeep
<1>8. CASE SendAcknowledgment(s) \/ SendCommands(s)
  BY <1>8 DEF SendAcknowledgment, SendCommands
<1>9. CASE SendRefusal(s) \/ HandleError(s) \/ Throw(s) \/ ReportException(s)
  BY <1>0, <1>9 DEF SendRefusal, HandleError, Throw, ReportException, Escape, Leave, Handling
<1>10. CASE FetchCommands(s)
  BY <1>0, <1>10 DEF FetchCommands, Handling
<1>11. CASE MarkDelivered(s)
  BY <1>0, <1>11 DEF MarkDelivered, Handling
<1>12. QED
  BY <1>1, <1>2, <1>3, <1>4, <1>5, <1>6, <1>7, <1>8, <1>9, <1>10, <1>11 DEF Handle

(* Only a crash and the handler itself move a session that is handling. *)
LEMMA OthersKeepHandler ==
  ASSUME NEW s \in Sessions, Typed, pc[s] \in Handling, [Next]_vars, ~Handle(s)
  PROVE  pc'[s] = "new" \/ (pc'[s] = pc[s] /\ batch'[s] = batch[s])
<1> USE DEF Typed, TypeOK
<1>1. CASE UNCHANGED <<pc, batch>>
  BY <1>1
<1>2. ASSUME NEW t \in Sessions,
             Start(t) \/ Stop(t) \/ Abort(t) \/ Receive(t) \/ ReceiveError(t) \/ Crash(t)
      PROVE  pc'[s] = "new" \/ (pc'[s] = pc[s] /\ batch'[s] = batch[s])
  BY <1>2 DEF Start, Stop, Abort, Receive, ReceiveError, Escape, Crash, Leave, Handling
<1>3. ASSUME NEW t \in Sessions, Handle(t)
      PROVE  pc'[s] = pc[s] /\ batch'[s] = batch[s]
  <2>1. t # s
    BY <1>3
  <2>2. Resume(t) \/ Escape(t) \/ Throw(t) => pc'[s] = pc[s] /\ batch'[s] = batch[s]
    BY <2>1 DEF Resume, Escape, Throw, Leave
  <2>3. \A from, to : Goto(t, from, to) => pc'[s] = pc[s] /\ batch'[s] = batch[s]
    BY <2>1 DEF Goto
  <2>4. CASE FetchCommands(t) \/ MarkDelivered(t)
    BY <2>1, <2>2, <2>4 DEF FetchCommands, MarkDelivered
  <2>5. CASE SendRefusal(t) \/ HandleError(t) \/ Throw(t) \/ ReportException(t)
    BY <2>2, <2>5 DEF SendRefusal, HandleError, ReportException
  <2>6. QED
    BY <1>3, <2>3, <2>4, <2>5
       DEF Handle, ParseMessage, Authenticate, CheckDuplicate, CheckLimit, RecordMessage,
           UpdateStatus, PublishInbound, Bookkeep, SendAcknowledgment, SendCommands,
           Continue, Reject
<1>4. QED
  BY <1>1, <1>2, <1>3 DEF Next, Send, Lose, Expire, vars

(* A handler comes down one call after the other. *)
LEMMA HandlerDescends ==
  ASSUME NEW s \in Sessions, NEW h \in 1..12, Typed, Height(pc[s]) = h
  PROVE  /\ pc[s] \in Handling
         /\ [Next]_vars => Height(pc[s])' = h \/ Height(pc[s])' < h
         /\ <<Handle(s)>>_vars => Height(pc[s])' < h
<1>1. pc[s] \in Handling
  BY DEF Typed, TypeOK, Height, Steps, Handling
<1>2. ASSUME Handle(s) PROVE Height(pc[s])' < h
  <2>1. Height(pc'[s]) < Height(pc[s])
    BY <1>1, <1>2, HandlerPath DEF Height, Ready, Handling
  <2>2. QED
    BY <1>2, <2>1
<1>3. ASSUME [Next]_vars, ~Handle(s) PROVE Height(pc[s])' = h \/ Height(pc[s])' < h
  <2>1. Height("new") = 0
    BY DEF Height
  <2>2. pc'[s] = "new" \/ pc'[s] = pc[s]
    BY <1>1, <1>3, OthersKeepHandler
  <2>3. QED
    BY <2>1, <2>2
<1>4. QED
  BY <1>1, <1>2, <1>3

(* Every handler gets through its calls, wherever it started: it returns,   *)
(* is cut off by a crash, has sent its commands and marks them, or was      *)
(* ended by an exception of the catch block's own recordError.              *)
THEOREM EveryHandlerAnswers ==
  FairSpec /\ []HandlersGoOn =>
    \A s \in Sessions :
      pc[s] \in Handling ~>
        pc[s] \in {"receiving", "stopped", "new", "markDelivered"} \/ s \in unreported
<1>1. ASSUME NEW s \in Sessions
      PROVE  FairSpec /\ []HandlersGoOn =>
               (pc[s] \in Handling ~>
                  pc[s] \in {"receiving", "stopped", "new", "markDelivered"} \/ s \in unreported)
  <2> DEFINE Through ==
               pc[s] \in {"receiving", "stopped", "new", "markDelivered"} \/ s \in unreported
             H(h) == Height(pc[s]) = h
             Lower(h) == Height(pc[s]) < h
  <2>1. Typed /\ DeafIsUnreported =>
                 /\ Lower(13)
                 /\ Lower(1) => Through
                 /\ Lower(2) => Lower(1) \/ H(1)
                 /\ Lower(3) => Lower(2) \/ H(2)
                 /\ Lower(4) => Lower(3) \/ H(3)
                 /\ Lower(5) => Lower(4) \/ H(4)
                 /\ Lower(6) => Lower(5) \/ H(5)
                 /\ Lower(7) => Lower(6) \/ H(6)
                 /\ Lower(8) => Lower(7) \/ H(7)
                 /\ Lower(9) => Lower(8) \/ H(8)
                 /\ Lower(10) => Lower(9) \/ H(9)
                 /\ Lower(11) => Lower(10) \/ H(10)
                 /\ Lower(12) => Lower(11) \/ H(11)
                 /\ Lower(13) => Lower(12) \/ H(12)
    <3>1. Typed => pc[s] \in Steps
      BY DEF Typed, TypeOK
    <3>2. Typed => Height(pc[s]) \in 0..12
      BY <3>1, HeightOfPlaces
    <3>3. Typed /\ DeafIsUnreported /\ Height(pc[s]) = 0 => Through
      BY <3>1, HeightOfPlaces DEF DeafIsUnreported
    <3>4. QED
      BY <3>2, <3>3
  <2>2. /\ Typed /\ H(1) /\ [Next]_vars => H(1)' \/ Lower(1)'
        /\ Typed /\ H(2) /\ [Next]_vars => H(2)' \/ Lower(2)'
        /\ Typed /\ H(3) /\ [Next]_vars => H(3)' \/ Lower(3)'
        /\ Typed /\ H(4) /\ [Next]_vars => H(4)' \/ Lower(4)'
        /\ Typed /\ H(5) /\ [Next]_vars => H(5)' \/ Lower(5)'
        /\ Typed /\ H(6) /\ [Next]_vars => H(6)' \/ Lower(6)'
        /\ Typed /\ H(7) /\ [Next]_vars => H(7)' \/ Lower(7)'
        /\ Typed /\ H(8) /\ [Next]_vars => H(8)' \/ Lower(8)'
        /\ Typed /\ H(9) /\ [Next]_vars => H(9)' \/ Lower(9)'
        /\ Typed /\ H(10) /\ [Next]_vars => H(10)' \/ Lower(10)'
        /\ Typed /\ H(11) /\ [Next]_vars => H(11)' \/ Lower(11)'
        /\ Typed /\ H(12) /\ [Next]_vars => H(12)' \/ Lower(12)'
    BY HandlerDescends
  <2>3. /\ Typed /\ H(1) /\ <<Handle(s)>>_vars => Lower(1)'
        /\ Typed /\ H(2) /\ <<Handle(s)>>_vars => Lower(2)'
        /\ Typed /\ H(3) /\ <<Handle(s)>>_vars => Lower(3)'
        /\ Typed /\ H(4) /\ <<Handle(s)>>_vars => Lower(4)'
        /\ Typed /\ H(5) /\ <<Handle(s)>>_vars => Lower(5)'
        /\ Typed /\ H(6) /\ <<Handle(s)>>_vars => Lower(6)'
        /\ Typed /\ H(7) /\ <<Handle(s)>>_vars => Lower(7)'
        /\ Typed /\ H(8) /\ <<Handle(s)>>_vars => Lower(8)'
        /\ Typed /\ H(9) /\ <<Handle(s)>>_vars => Lower(9)'
        /\ Typed /\ H(10) /\ <<Handle(s)>>_vars => Lower(10)'
        /\ Typed /\ H(11) /\ <<Handle(s)>>_vars => Lower(11)'
        /\ Typed /\ H(12) /\ <<Handle(s)>>_vars => Lower(12)'
    BY HandlerDescends
  <2>4. /\ Typed /\ HandlersGoOn /\ H(1) => ENABLED <<Handle(s)>>_vars
        /\ Typed /\ HandlersGoOn /\ H(2) => ENABLED <<Handle(s)>>_vars
        /\ Typed /\ HandlersGoOn /\ H(3) => ENABLED <<Handle(s)>>_vars
        /\ Typed /\ HandlersGoOn /\ H(4) => ENABLED <<Handle(s)>>_vars
        /\ Typed /\ HandlersGoOn /\ H(5) => ENABLED <<Handle(s)>>_vars
        /\ Typed /\ HandlersGoOn /\ H(6) => ENABLED <<Handle(s)>>_vars
        /\ Typed /\ HandlersGoOn /\ H(7) => ENABLED <<Handle(s)>>_vars
        /\ Typed /\ HandlersGoOn /\ H(8) => ENABLED <<Handle(s)>>_vars
        /\ Typed /\ HandlersGoOn /\ H(9) => ENABLED <<Handle(s)>>_vars
        /\ Typed /\ HandlersGoOn /\ H(10) => ENABLED <<Handle(s)>>_vars
        /\ Typed /\ HandlersGoOn /\ H(11) => ENABLED <<Handle(s)>>_vars
        /\ Typed /\ HandlersGoOn /\ H(12) => ENABLED <<Handle(s)>>_vars
    BY HandlerDescends DEF HandlersGoOn
  <2>5. FairSpec => Spec /\ HandlerFairness(s)
    BY DEF FairSpec
  <2>6. QED
    BY <2>1, <2>2, <2>3, <2>4, <2>5, Typing, DeafInvariant, PTL DEF Spec, HandlerFairness
<1>2. QED
  BY <1>1

(* A turn of the marking loop leaves fewer commands of the batch. *)
LEMMA MarkingShrinks ==
  ASSUME NEW s \in Sessions, Typed, pc[s] = "markDelivered", Handle(s)
  PROVE  \/ pc'[s] \in Ready
         \/ pc'[s] = "reportException"
         \/ /\ pc'[s] = "markDelivered"
            /\ batch'[s] # batch[s] /\ batch'[s] \subseteq batch[s]
<1> USE DEF Typed, TypeOK
<1>1. MarkDelivered(s) \/ Throw(s)
  BY DEF Handle, ParseMessage, Authenticate, CheckDuplicate, CheckLimit, RecordMessage,
         UpdateStatus, PublishInbound, Bookkeep, SendAcknowledgment, SendRefusal, FetchCommands,
         SendCommands, HandleError, ReportException, Reject, Continue, Goto
<1>2. Resume(s) => pc'[s] \in Ready
  BY DEF Resume, Leave, Ready
<1>3. CASE MarkDelivered(s)
  BY <1>2, <1>3 DEF MarkDelivered
<1>4. CASE Throw(s)
  BY <1>4 DEF Throw, Leave
<1>5. QED
  BY <1>1, <1>3, <1>4

(* A handler that marks the commands of a batch S goes on to a smaller      *)
(* batch, or returns, unless the catch block's recordError throws: with a   *)
(* finite batch, as a list has, it returns after finitely many of these     *)
(* turns (HandlerReturns).                                                  *)
THEOREM EveryMarkingNears ==
  FairSpec /\ []HandlersGoOn =>
    \A s \in Sessions, S \in SUBSET Commands :
      pc[s] = "markDelivered" /\ batch[s] = S ~>
        \/ pc[s] \in {"receiving", "stopped", "new"} \/ s \in unreported
        \/ pc[s] = "markDelivered" /\ batch[s] # S /\ batch[s] \subseteq S
<1>1. ASSUME NEW s \in Sessions, NEW S \in SUBSET Commands
      PROVE  FairSpec /\ []HandlersGoOn =>
               (pc[s] = "markDelivered" /\ batch[s] = S ~>
                  \/ pc[s] \in {"receiving", "stopped", "new"} \/ s \in unreported
                  \/ pc[s] = "markDelivered" /\ batch[s] # S /\ batch[s] \subseteq S)
  <2> DEFINE At == pc[s] = "markDelivered" /\ batch[s] = S
             Reports == pc[s] = "reportException"
             Past == \/ pc[s] \in {"receiving", "stopped", "new"} \/ s \in unreported
                     \/ pc[s] = "markDelivered" /\ batch[s] # S /\ batch[s] \subseteq S
  <2>1. Typed /\ At /\ Handle(s) => Reports' \/ Past'
    BY MarkingShrinks DEF Ready
  <2>2. Typed /\ At /\ [Next]_vars => At' \/ Reports' \/ Past'
    BY <2>1, OthersKeepHandler DEF Handling
  <2>3. Typed /\ DeafIsUnreported /\ Reports /\ [Next]_vars /\ Handle(s) => Past'
    <3>1. Typed /\ Reports /\ Handle(s) => pc'[s] \in Ready \cup {"deaf"}
      BY HandlerPath
    <3>2. Typed /\ DeafIsUnreported /\ [Next]_vars /\ pc'[s] = "deaf" => s \in unreported'
      BY DeafStep DEF DeafIsUnreported
    <3>3. QED
      BY <3>1, <3>2 DEF Ready
  <2>4. Typed /\ DeafIsUnreported /\ Reports /\ [Next]_vars => Reports' \/ Past'
    BY <2>3, OthersKeepHandler DEF Handling
  <2>5. HandlersGoOn /\ (At \/ Reports) => ENABLED <<Handle(s)>>_vars
    BY DEF HandlersGoOn, Handling
  <2>6. FairSpec => Spec /\ HandlerFairness(s)
    BY DEF FairSpec
  <2>7. QED
    BY <2>1, <2>2, <2>3, <2>4, <2>5, <2>6, Typing, DeafInvariant, PTL DEF Spec, HandlerFairness
<1>2. QED
  BY <1>1
-----------------------------------------------------------------------------
(* The gateway's life around its sessions, for any number of worker        *)
(* threads.                                                                *)

Life == INSTANCE Gateway

(* start() creates its threads in order. *)
InOrder == \E n \in 0..NumWorkers : threads = 1..n

(* Until a start has bound the socket nothing was done, and the socket is   *)
(* bound once: this is what makes a second start fail before it touches the *)
(* threads of the first.                                                    *)
BoundOnce ==
  /\ socket # "bound" => /\ threads = {} /\ ~stopped /\ ~running
                        /\ owner \in {"idle", "socket", "gone"}
  /\ owner = "guard" => threads = {} /\ ~stopped

(* From the first thread of a start to the stop, the guard keeps every      *)
(* thread in run().                                                         *)
Guarded ==
  running \/ owner \in {"spawn", "accept", "mark"} => guard /\ ~stopped /\ inRun = threads

Complete == running \/ owner \in {"accept", "mark"} => threads = Life!Workers

(* What the owner does while the gateway is running, and what is left when  *)
(* it is not.                                                               *)
Phases ==
  /\ running => owner = "idle"
  /\ inRun \subseteq threads
  /\ ~running /\ owner \in {"idle", "socket"} /\ threads # {} => aborted
  /\ owner = "gone" => threads = {}
  /\ owner = "terminated" => aborted

LifeInv == Life!TypeOK /\ InOrder /\ BoundOnce /\ Guarded /\ Complete /\ Phases

LEMMA GatewayInit ==
  ASSUME Life!Init
  PROVE  LifeInv
<1> USE GatewayAssumption
<1>1. InOrder
  <2>1. threads = 1..0 /\ 0 \in 0..NumWorkers
    BY DEF Life!Init
  <2>2. QED
    BY <2>1 DEF InOrder
<1>2. QED
  BY <1>1 DEF Life!Init, LifeInv, Life!TypeOK, BoundOnce, Guarded, Complete, Phases

(* The thread a start creates next is the one after those there are. *)
LEMMA NextWorker ==
  ASSUME InOrder, threads # Life!Workers,
         NEW w, w = CHOOSE k \in Life!Workers \ threads : \A j \in Life!Workers \ threads : k <= j
  PROVE  w \in Life!Workers \ threads /\ \E n \in 0..NumWorkers : threads \cup {w} = 1..n
<1> USE GatewayAssumption
<1>1. PICK n \in 0..NumWorkers : threads = 1..n
  BY DEF InOrder
<1>2. n + 1 \in Life!Workers \ threads /\ n + 1 \in 0..NumWorkers
  BY <1>1 DEF Life!Workers
<1>3. \A j \in Life!Workers \ threads : n + 1 <= j
  BY <1>1 DEF Life!Workers
<1>4. \A k \in Life!Workers \ threads : k <= n + 1 => k = n + 1
  BY <1>1, <1>3 DEF Life!Workers
<1>5. w = n + 1
  BY <1>2, <1>3, <1>4
<1>6. threads \cup {w} = 1..(n + 1)
  <2>1. \A k : k \in 1..(n + 1) <=> k \in 1..n \/ k = n + 1
    OBVIOUS
  <2>2. QED
    BY <1>1, <1>5, <2>1
<1>7. QED
  BY <1>2, <1>5, <1>6

LEMMA GatewayStep ==
  ASSUME LifeInv, [Life!Next]_(Life!vars)
  PROVE  LifeInv'
<1> USE GatewayAssumption DEF Life!io, LifeInv, Life!TypeOK, BoundOnce, Guarded, Complete, Phases
<1>1. CASE UNCHANGED Life!vars
  BY <1>1 DEF Life!vars, InOrder
<1>2. CASE Life!Start
  BY <1>2 DEF Life!Start, InOrder
<1>3. CASE Life!SetupSocket
  <2>1. CASE socket = "closed" /\ socket' = "bound" /\ owner' = "guard"
    BY <1>3, <2>1 DEF Life!SetupSocket, InOrder
  <2>2. CASE socket = "closed" /\ socket' \in {"closed", "open"} /\ owner' = "idle"
    BY <1>3, <2>2 DEF Life!SetupSocket, InOrder
  <2>3. CASE socket # "closed" /\ owner' = "idle" /\ UNCHANGED socket
    BY <1>3, <2>3 DEF Life!SetupSocket, InOrder
  <2>4. QED
    BY <1>3, <2>1, <2>2, <2>3 DEF Life!SetupSocket
<1>4. CASE Life!HoldWork
  BY <1>4 DEF Life!HoldWork, InOrder
<1>5. CASE Life!SpawnWorker
  <2> DEFINE w == CHOOSE k \in Life!Workers \ threads : \A j \in Life!Workers \ threads : k <= j
  <2>1. w \in Life!Workers \ threads /\ \E n \in 0..NumWorkers : threads \cup {w} = 1..n
    BY <1>5, NextWorker DEF Life!SpawnWorker
  <2> HIDE DEF w
  <2>2. \/ threads' = threads \cup {w} /\ inRun' = inRun \cup {w} /\ UNCHANGED <<owner, aborted>>
        \/ owner' = "idle" /\ aborted' = TRUE /\ UNCHANGED <<threads, inRun>>
    BY <1>5 DEF Life!SpawnWorker, w
  <2>3. InOrder'
    BY <2>1, <2>2 DEF InOrder
  <2>4. QED
    BY <1>5, <2>1, <2>2, <2>3 DEF Life!SpawnWorker
<1>6. CASE Life!StartMetrics \/ Life!StartAccept
  <2>1. CASE Life!StartMetrics
    <3>1. (Metrics /\ running) \in BOOLEAN
      OBVIOUS
    <3>2. CASE timer' = (Metrics /\ running) /\ owner' = "accept" /\ UNCHANGED aborted
      BY <2>1, <3>1, <3>2 DEF Life!StartMetrics, InOrder
    <3>3. CASE owner' = "idle" /\ aborted' = TRUE /\ UNCHANGED timer
      BY <2>1, <3>3 DEF Life!StartMetrics, InOrder
    <3>4. QED
      BY <2>1, <3>2, <3>3 DEF Life!StartMetrics
  <2>2. CASE Life!StartAccept
    BY <2>2 DEF Life!StartAccept, InOrder
  <2>3. QED
    BY <1>6, <2>1, <2>2
<1>7. CASE Life!MarkRunning
  BY <1>7 DEF Life!MarkRunning, InOrder
<1>8. CASE Life!Stop \/ Life!StopSessions \/ Life!StopContext
  <2>1. CASE Life!Stop
    BY <2>1 DEF Life!Stop, InOrder
  <2>2. CASE Life!StopSessions
    BY <2>2 DEF Life!StopSessions, InOrder
  <2>3. CASE Life!StopContext
    BY <2>3 DEF Life!StopContext, InOrder
  <2>4. QED
    BY <1>8, <2>1, <2>2, <2>3
<1>9. CASE Life!JoinWorkers
  <2>1. threads' = 1..0 /\ 0 \in 0..NumWorkers /\ inRun' = {}
    BY <1>9 DEF Life!JoinWorkers
  <2>2. InOrder'
    BY <2>1 DEF InOrder
  <2>3. QED
    BY <1>9, <2>1, <2>2 DEF Life!JoinWorkers
<1>10. CASE Life!Destroy
  BY <1>10 DEF Life!Destroy, InOrder
<1>11. ASSUME NEW w \in Life!Workers, Life!LeaveRun(w) PROVE LifeInv'
  BY <1>11 DEF Life!LeaveRun, Life!HasWork, InOrder
<1>12. QED
  BY <1>1, <1>2, <1>3, <1>4, <1>5, <1>6, <1>7, <1>8, <1>9, <1>10, <1>11 DEF Life!Next, Life!OwnerStep

LEMMA GatewayInvariance == Life!Spec => []LifeInv
  BY GatewayInit, GatewayStep, PTL DEF Life!Spec

(* The gateway's variables always hold values of their types. *)
THEOREM GatewayTypeCorrect == Life!Spec => []Life!TypeOK
  BY GatewayInvariance, PTL DEF LifeInv

(* While the gateway runs, all its worker threads are in run(), however     *)
(* many there are.                                                          *)
THEOREM WorkersServeHolds == Life!Spec => []WorkersServe
<1>1. LifeInv => WorkersServe
  BY DEF LifeInv, Guarded, Complete, WorkersServe, Workers, Life!Workers
<1>2. QED
  BY <1>1, GatewayInvariance, PTL

(* No thread outlives stop() or the destructor, and the destructor          *)
(* terminates the process only after an exception ended a start() among or  *)
(* after its threads: creating one of them, or the metrics timer, threw.    *)
THEOREM NoThreadIsLeftHolds == Life!Spec => []NoThreadIsLeft
<1>1. LifeInv => NoThreadIsLeft
  BY DEF LifeInv, Phases, NoThreadIsLeft
<1>2. QED
  BY <1>1, GatewayInvariance, PTL

(* activeSessions_ is empty. *)
NoSession == ~session

(* startAccept() is only ever called before running_ is set: no gateway has *)
(* a session, whatever its configuration and however often it is started    *)
(* and stopped, and whichever of its steps fail.                            *)
THEOREM GatewayNeverAccepts == Life!Spec => []NoSession
<1>1. Life!Init => NoSession
  BY DEF Life!Init, NoSession
<1>2. ASSUME LifeInv, NoSession, [Life!Next]_(Life!vars) PROVE NoSession'
  <2>1. CASE Life!StartAccept
    BY <1>2, <2>1 DEF LifeInv, Phases, Life!TypeOK, Life!StartAccept, NoSession
  <2>2. CASE Life!StopSessions
    BY <2>2 DEF Life!StopSessions, NoSession
  <2>3. CASE ~Life!StartAccept /\ ~Life!StopSessions
    BY <1>2, <2>3 DEF NoSession, Life!Next, Life!OwnerStep, Life!Start, Life!SetupSocket,
       Life!HoldWork, Life!SpawnWorker, Life!StartMetrics, Life!MarkRunning, Life!Stop,
       Life!StopContext, Life!JoinWorkers, Life!Destroy, Life!LeaveRun, Life!io, Life!vars
  <2>4. QED
    BY <2>1, <2>2, <2>3
<1>3. QED
  BY <1>1, <1>2, GatewayInvariance, PTL DEF Life!Spec

(* A stop that has begun goes on to its join. *)
THEOREM EveryStopJoins ==
  Life!FairSpec /\ []Life!StopGoesOn => (owner \in {"sessions", "stop"} ~> owner = "join")
<1> DEFINE First == owner = "sessions"
           Context == owner = "stop"
           Joins == owner = "join"
<1>1. /\ [Life!Next]_(Life!vars) /\ First => First' \/ Context'
      /\ [Life!Next]_(Life!vars) /\ Context => Context' \/ Joins'
      /\ <<Life!OwnerStep>>_(Life!vars) /\ First => Context'
      /\ <<Life!OwnerStep>>_(Life!vars) /\ Context => Joins'
  BY DEF Life!Next, Life!OwnerStep, Life!Start, Life!SetupSocket, Life!HoldWork,
         Life!SpawnWorker, Life!StartMetrics, Life!StartAccept, Life!MarkRunning, Life!Stop,
         Life!StopSessions, Life!StopContext, Life!JoinWorkers, Life!Destroy, Life!LeaveRun,
         Life!io, Life!vars
<1>2. Life!StopGoesOn /\ (First \/ Context) => ENABLED <<Life!OwnerStep>>_(Life!vars)
  BY DEF Life!StopGoesOn, Life!OwnersTurn
<1>3. Life!FairSpec => Life!Spec /\ Life!OwnerFairness
  BY DEF Life!FairSpec
<1>4. owner \in {"sessions", "stop"} <=> First \/ Context
  OBVIOUS
<1>5. QED
  BY <1>1, <1>2, <1>3, <1>4, PTL DEF Life!Spec, Life!OwnerFairness

(* The join returns once its threads have left run(), and while a set S of  *)
(* threads is in run(), one of them leaves it, or the join returns: stop()  *)
(* returns, with any number of worker threads (StopReturns).                *)
THEOREM EveryJoinNears ==
  Life!FairSpec /\ []Life!StopGoesOn =>
    /\ owner = "join" /\ threads \cap inRun = {} ~> owner = "idle"
    /\ \A S \in SUBSET Life!Workers, w \in Life!Workers :
         owner = "join" /\ inRun = S /\ w \in S ~>
           owner = "idle" \/ (owner = "join" /\ inRun # S /\ inRun \subseteq S)
<1>1. Life!FairSpec /\ []Life!StopGoesOn =>
        (owner = "join" /\ threads \cap inRun = {} ~> owner = "idle")
  <2> DEFINE Free == owner = "join" /\ threads \cap inRun = {}
             Idle == owner = "idle"
  <2>1. [Life!Next]_(Life!vars) /\ Free => Free' \/ Idle'
    BY DEF Life!Next, Life!OwnerStep, Life!Start, Life!SetupSocket, Life!HoldWork,
         Life!SpawnWorker, Life!StartMetrics, Life!StartAccept, Life!MarkRunning, Life!Stop,
         Life!StopSessions, Life!StopContext, Life!JoinWorkers, Life!Destroy, Life!LeaveRun,
         Life!io, Life!vars
  <2>2. <<Life!OwnerStep>>_(Life!vars) /\ Free => Idle'
    BY DEF Life!OwnerStep, Life!SetupSocket, Life!HoldWork, Life!SpawnWorker,
         Life!StartMetrics, Life!StartAccept, Life!MarkRunning, Life!StopSessions,
         Life!StopContext, Life!JoinWorkers
  <2>3. Life!StopGoesOn /\ Free => ENABLED <<Life!OwnerStep>>_(Life!vars)
    BY DEF Life!StopGoesOn, Life!OwnersTurn
  <2>4. Life!FairSpec => Life!Spec /\ Life!OwnerFairness
    BY DEF Life!FairSpec
  <2>5. QED
    BY <2>1, <2>2, <2>3, <2>4, PTL DEF Life!Spec, Life!OwnerFairness
<1>2. ASSUME NEW S \in SUBSET Life!Workers, NEW w \in Life!Workers
      PROVE  Life!FairSpec /\ []Life!StopGoesOn =>
               (owner = "join" /\ inRun = S /\ w \in S ~>
                  owner = "idle" \/ (owner = "join" /\ inRun # S /\ inRun \subseteq S))
  <2> DEFINE Waits == owner = "join" /\ inRun = S /\ w \in S
             Nearer == owner = "idle" \/ (owner = "join" /\ inRun # S /\ inRun \subseteq S)
  <2>1. [Life!Next]_(Life!vars) /\ Waits => Waits' \/ Nearer'
    BY DEF Life!Next, Life!OwnerStep, Life!Start, Life!SetupSocket, Life!HoldWork,
         Life!SpawnWorker, Life!StartMetrics, Life!StartAccept, Life!MarkRunning, Life!Stop,
         Life!StopSessions, Life!StopContext, Life!JoinWorkers, Life!Destroy, Life!LeaveRun,
         Life!io, Life!vars
  <2>2. <<Life!LeaveRun(w)>>_(Life!vars) /\ Waits => Nearer'
    BY DEF Life!LeaveRun
  <2>3. Life!StopGoesOn /\ Waits => ENABLED <<Life!LeaveRun(w)>>_(Life!vars)
    BY DEF Life!StopGoesOn
  <2>4. Life!FairSpec => Life!Spec /\ Life!WorkerFairness(w)
    BY DEF Life!FairSpec
  <2>5. QED
    BY <2>1, <2>2, <2>3, <2>4, PTL DEF Life!Spec, Life!WorkerFairness
<1>3. QED
  BY <1>1, <1>2
=============================================================================
