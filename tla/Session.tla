------------------------------ MODULE Session ------------------------------
(***************************************************************************)
(* The message pipeline of the UDP gateway: udp_gateway::Session receives  *)
(* one datagram at a time, validates it, and hands it to the Gateway,      *)
(* which publishes it; the session then answers the device and sends it    *)
(* its pending commands.  Every call to a dependency (parser, device       *)
(* manager, deduplication service, rate limiter, publisher) is a step of   *)
(* its own, because other sessions, stop(), a crash and the expiry of a    *)
(* deduplication window all happen between two calls.                      *)
(*                                                                         *)
(* A session here is the single session a gateway instance creates; two    *)
(* elements of Sessions are two gateway instances that share the           *)
(* deduplication service, the broker and the device manager.               *)
(***************************************************************************)
EXTENDS Naturals

CONSTANTS
  Sessions,    (* the sessions, one per gateway instance                     *)
  Messages,    (* device messages, identified as the deduplication does      *)
  Garbage,     (* a datagram the protocol parser refuses                     *)
  Commands,    (* commands the device manager holds for devices              *)
  Addressees,  (* Addressees[c]: the messages whose sender c is for          *)
  WantsAck,    (* messages answered: requiresAcknowledgment, acks enabled    *)
  MaxExpiries  (* bound: times a message's deduplication entry may expire    *)

ASSUME SessionAssumption ==
  /\ Garbage \notin Messages
  /\ WantsAck \subseteq Messages
  /\ Addressees \in [Commands -> SUBSET Messages]
  /\ MaxExpiries \in Nat

VARIABLES
  network,     (* messages in datagrams on their way to the gateway          *)
  active,      (* active[s]: Session::active_                                *)
  pc,          (* pc[s]: what session s does next                            *)
  packet,      (* packet[s]: the datagram its handler works on               *)
  error,       (* error[s]: why the handler rejects it                       *)
  batch,       (* batch[s]: commands fetched, not yet marked delivered       *)
  recorded,    (* messages the deduplication service remembers               *)
  marked,      (* commands marked as delivered                               *)
  discarded,   (* datagrams reported on a discard queue                      *)
  published,   (* published[s][m]: times s put m on an inbound queue         *)
  acks,        (* messages a success acknowledgment was sent for             *)
  sent,        (* commands put in a datagram to the device                   *)
  expiries,    (* history: expired deduplication entries of each message     *)
  delivered,   (* history: messages published in their current window        *)
  mishaps,     (* history: messages recorded in their current window and     *)
               (* then dropped by a failed publish, an exception or a crash  *)
  answers,     (* history: what the device was told of each message since    *)
               (* recordMessage last opened a window for it                  *)
  unreported   (* history: sessions whose last recordError threw             *)

dependencies == <<recorded, marked>>
outputs == <<discarded, published, acks, sent>>
history == <<expiries, delivered, mishaps, answers, unreported>>
vars == <<network, active, pc, packet, error, batch, dependencies, outputs,
          history>>

Packets == Messages \cup {Garbage}
Errors == {"SUCCESS", "INVALID_MESSAGE", "AUTHENTICATION_FAILURE",
           "DEVICE_SUSPENDED", "DUPLICATE_MESSAGE", "RATE_LIMITED"}

(* The steps of handlePacket, in the order the code takes them. *)
Handling == {"parse", "authenticate", "checkDuplicate", "checkLimit", "record",
             "updateStatus", "publish", "bookkeep", "acknowledge", "refuse",
             "fetchCommands", "sendCommands", "markDelivered", "handleError",
             "reportException"}
(* A "deaf" session has no receive pending and no handler that makes one.  *)
Steps == Handling \cup {"new", "receiving", "stopped", "deaf"}

(* s has had its message recorded and has not tried to publish it yet. *)
Carries(s, m) == pc[s] \in {"updateStatus", "publish"} /\ packet[s] = m
(* The message of s is no duplicate, and not recorded by s yet. *)
Admits(s, m) == pc[s] \in {"checkLimit", "record"} /\ packet[s] = m

Init ==
  /\ network = {}
  /\ active = [s \in Sessions |-> FALSE]
  /\ pc = [s \in Sessions |-> "new"]
  /\ packet = [s \in Sessions |-> Garbage]
  /\ error = [s \in Sessions |-> "SUCCESS"]
  /\ batch = [s \in Sessions |-> {}]
  /\ recorded = {} /\ marked = {}
  /\ discarded = {} /\ acks = {} /\ sent = {}
  /\ published = [s \in Sessions |-> [m \in Messages |-> 0]]
  /\ expiries = [m \in Messages |-> 0]
  /\ delivered = {} /\ mishaps = {}
  /\ answers = [m \in Messages |-> {}]
  /\ unreported = {}
-----------------------------------------------------------------------------
(* Devices and the network: a device may send a message again whatever the *)
(* answer, and UDP loses, delays, reorders and duplicates datagrams.       *)

Send(m) ==
  /\ network' = network \cup {m}
  /\ UNCHANGED <<active, pc, packet, error, batch, dependencies, outputs, history>>

Lose(m) ==
  /\ m \in network
  /\ network' = network \ {m}
  /\ UNCHANGED <<active, pc, packet, error, batch, dependencies, outputs, history>>
-----------------------------------------------------------------------------
(* Life of a session. *)

(* Gateway::startAccept creates the session and starts it. *)
Start(s) ==
  /\ pc[s] = "new"
  /\ active' = [active EXCEPT ![s] = TRUE]
  /\ pc' = [pc EXCEPT ![s] = "receiving"]
  /\ UNCHANGED <<network, packet, error, batch, dependencies, outputs, history>>

(* Mutant: a stop that abandons the datagram being handled. *)
StopDropsHandler(s) ==
  /\ active[s]
  /\ active' = [active EXCEPT ![s] = FALSE]
  /\ pc' = [pc EXCEPT ![s] = "stopped"]
  /\ UNCHANGED <<network, packet, error, batch, dependencies, outputs, history>>

(* stop() may run while a handler does: the handler goes on to its end. *)
Stop(s) ==
  /\ active[s]
  /\ active' = [active EXCEPT ![s] = FALSE]
  /\ UNCHANGED <<network, pc, packet, error, batch, dependencies, outputs, history>>

(* The cancelled receive completes: handlePacket returns at once. *)
Abort(s) ==
  /\ pc[s] = "receiving" /\ ~active[s]
  /\ pc' = [pc EXCEPT ![s] = "stopped"]
  /\ UNCHANGED <<network, active, packet, error, batch, dependencies, outputs, history>>

(* A receive completes; the network may hold another copy of the datagram, *)
(* and garbage may arrive at any time.                                     *)
Receive(s) ==
  /\ pc[s] = "receiving" /\ active[s]
  /\ \E p \in network \cup {Garbage} :
       /\ packet' = [packet EXCEPT ![s] = p]
       /\ network' \in {network, network \ {p}}
  /\ pc' = [pc EXCEPT ![s] = "parse"]
  /\ UNCHANGED <<active, error, batch, dependencies, outputs, history>>

(* The locals of the handler are gone and the session is at step to. *)
Leave(s, to) ==
  /\ pc' = [pc EXCEPT ![s] = to]
  /\ packet' = [packet EXCEPT ![s] = Garbage]
  /\ error' = [error EXCEPT ![s] = "SUCCESS"]
  /\ batch' = [batch EXCEPT ![s] = {}]

(* The handler has returned: doReceive listens again if still active. *)
Resume(s) == Leave(s, IF active[s] THEN "receiving" ELSE "stopped")

(* An exception leaves handlePacket, past its doReceive, and ends the run  *)
(* of its worker thread: nothing receives for the session any more.        *)
Escape(s) ==
  /\ Leave(s, "deaf")
  /\ unreported' = unreported \cup {s}

(* A receive fails: recordError, outside of any try, may throw; if it does *)
(* not, the session receives again as before.                              *)
ReceiveError(s) ==
  /\ pc[s] = "receiving" /\ active[s]
  /\ Escape(s)
  /\ UNCHANGED <<network, active, dependencies, outputs, expiries, delivered, mishaps, answers>>

(* The process dies and starts anew; what it wrote elsewhere remains. *)
Crash(s) ==
  /\ pc[s] # "new" /\ Leave(s, "new")
  /\ active' = [active EXCEPT ![s] = FALSE]
  /\ mishaps' = mishaps \cup {m \in Messages : Carries(s, m)}
  /\ unreported' = unreported \ {s}
  /\ UNCHANGED <<network, dependencies, outputs, expiries, delivered, answers>>
-----------------------------------------------------------------------------
(* Steps of the handler. *)

Goto(s, from, to) ==
  /\ pc[s] = from
  /\ pc' = [pc EXCEPT ![s] = to]
  /\ UNCHANGED <<network, active, packet, batch>>

Continue(s, from, to) == Goto(s, from, to) /\ UNCHANGED error

Reject(s, from, code) ==
  /\ Goto(s, from, "handleError")
  /\ error' = [error EXCEPT ![s] = code]

ParseMessage(s) ==
  /\ \/ packet[s] = Garbage /\ Reject(s, "parse", "INVALID_MESSAGE")
     \/ packet[s] # Garbage /\ Continue(s, "parse", "authenticate")
  /\ UNCHANGED <<dependencies, outputs, history>>

(* isAuthenticated, then getDeviceState: the device manager decides. *)
Authenticate(s) ==
  /\ \/ Continue(s, "authenticate", "checkDuplicate")
     \/ Reject(s, "authenticate", "AUTHENTICATION_FAILURE")
     \/ Reject(s, "authenticate", "DEVICE_SUSPENDED")
  /\ UNCHANGED <<dependencies, outputs, history>>

(* Mutant: the rate limit alone decides. *)
NoDuplicateCheck(s) ==
  /\ Continue(s, "checkDuplicate", "checkLimit")
  /\ UNCHANGED <<dependencies, outputs, history>>

CheckDuplicate(s) ==
  /\ \/ packet[s] \in recorded /\ Reject(s, "checkDuplicate", "DUPLICATE_MESSAGE")
     \/ packet[s] \notin recorded /\ Continue(s, "checkDuplicate", "checkLimit")
  /\ UNCHANGED <<dependencies, outputs, history>>

(* Mutant: the message is recorded before the rate limit is asked. *)
RecordBeforeLimit(s) ==
  /\ \/ Continue(s, "checkLimit", "record")
     \/ Reject(s, "checkLimit", "RATE_LIMITED")
  /\ recorded' = recorded \cup {packet[s]}
  /\ UNCHANGED <<marked, outputs, history>>

CheckLimit(s) ==
  /\ \/ Continue(s, "checkLimit", "record")
     \/ Reject(s, "checkLimit", "RATE_LIMITED")
  /\ UNCHANGED <<dependencies, outputs, history>>

(* Mutant: the message is never recorded. *)
RecordNothing(s) ==
  /\ Continue(s, "record", "updateStatus")
  /\ UNCHANGED <<dependencies, outputs, history>>

(* A message that was not recorded has a window opened for it. *)
RecordMessage(s) ==
  /\ Continue(s, "record", "updateStatus")
  /\ recorded' = recorded \cup {packet[s]}
  /\ answers' = [answers EXCEPT ![packet[s]] = IF packet[s] \in recorded THEN @ ELSE {}]
  /\ UNCHANGED <<marked, outputs, expiries, delivered, mishaps, unreported>>

(* rateLimiter_->recordMessage does nothing; updateDeviceStatus(CONNECTED) *)
(* and the packet counter change no state modelled here, but may throw.    *)
UpdateStatus(s) ==
  /\ Continue(s, "updateStatus", "publish")
  /\ UNCHANGED <<dependencies, outputs, history>>

(* Mutant: a failed publish is taken for a success. *)
PublishUnchecked(s) ==
  /\ Continue(s, "publish", "bookkeep")
  /\ \/ /\ published' = [published EXCEPT ![s][packet[s]] = @ + 1]
        /\ delivered' = delivered \cup {packet[s]}
        /\ UNCHANGED mishaps
     \/ /\ mishaps' = mishaps \cup {packet[s]}
        /\ UNCHANGED <<published, delivered>>
  /\ UNCHANGED <<dependencies, discarded, acks, sent, expiries, answers, unreported>>

(* Gateway::handleMessage up to the inbound publish, which may return      *)
(* false or throw; both make handleMessage return an error.                *)
PublishInbound(s) ==
  /\ \/ /\ Continue(s, "publish", "bookkeep")
        /\ published' = [published EXCEPT ![s][packet[s]] = @ + 1]
        /\ delivered' = delivered \cup {packet[s]}
        /\ UNCHANGED mishaps
     \/ /\ Continue(s, "publish", "refuse")
        /\ mishaps' = mishaps \cup {packet[s]}
        /\ UNCHANGED <<published, delivered>>
  /\ UNCHANGED <<dependencies, discarded, acks, sent, expiries, answers, unreported>>

(* The rest of handleMessage: the debug copy, whose result is not read,    *)
(* and the counters.  An exception turns the result into INTERNAL_ERROR    *)
(* although the message is on its queue.                                   *)
Bookkeep(s) ==
  /\ Continue(s, "bookkeep", "acknowledge") \/ Continue(s, "bookkeep", "refuse")
  /\ UNCHANGED <<dependencies, outputs, history>>

(* The device that sent m is told, if an acknowledgment is required. *)
Told(m, answer) ==
  answers' = IF m \in WantsAck THEN [answers EXCEPT ![m] = @ \cup {answer}] ELSE answers

SendAcknowledgment(s) ==
  /\ Continue(s, "acknowledge", "fetchCommands")
  /\ acks' = IF packet[s] \in WantsAck THEN acks \cup {packet[s]} ELSE acks
  /\ Told(packet[s], "success")
  /\ UNCHANGED <<dependencies, discarded, published, sent, expiries, delivered, mishaps,
                 unreported>>

SendRefusal(s) ==
  /\ pc[s] = "refuse" /\ Resume(s)
  /\ Told(packet[s], "failure")
  /\ UNCHANGED <<network, active, dependencies, outputs, expiries, delivered, mishaps,
                 unreported>>

(* The device manager's answer; Gateway::getPendingCommands turns an       *)
(* exception into an empty list.                                           *)
Pending(m) == {c \in Commands \ marked : m \in Addressees[c]}

FetchCommands(s) ==
  /\ pc[s] = "fetchCommands"
  /\ \/ Resume(s)
     \/ /\ Pending(packet[s]) # {}
        /\ batch' = [batch EXCEPT ![s] = Pending(packet[s])]
        /\ pc' = [pc EXCEPT ![s] = "sendCommands"]
        /\ UNCHANGED <<packet, error>>
  /\ UNCHANGED <<network, active, dependencies, outputs, history>>

(* Mutant: commands are marked, and the datagram is built afterwards. *)
MarkBeforeSend(s) ==
  /\ Continue(s, "sendCommands", "markDelivered")
  /\ marked' = marked \cup batch[s]
  /\ UNCHANGED <<recorded, outputs, history>>

SendCommands(s) ==
  /\ Continue(s, "sendCommands", "markDelivered")
  /\ sent' = sent \cup batch[s]
  /\ UNCHANGED <<dependencies, discarded, published, acks, history>>

MarkDelivered(s) ==
  /\ pc[s] = "markDelivered"
  /\ \E c \in batch[s] :
       /\ marked' = marked \cup {c}
       /\ IF batch[s] = {c}
            THEN Resume(s)
            ELSE /\ batch' = [batch EXCEPT ![s] = @ \ {c}]
                 /\ UNCHANGED <<pc, packet, error>>
  /\ UNCHANGED <<network, active, recorded, outputs, history>>

(* Gateway::handleError: two kinds of error go to the discard queue. *)
HandleError(s) ==
  /\ pc[s] = "handleError" /\ Resume(s)
  /\ discarded' = IF error[s] \in {"INVALID_MESSAGE", "AUTHENTICATION_FAILURE"}
                    THEN discarded \cup {packet[s]} ELSE discarded
  /\ UNCHANGED <<network, active, dependencies, published, acks, sent, history>>

(* A dependency throws outside handleMessage: handlePacket catches.  The   *)
(* calls of "updateStatus" come after the message was recorded.            *)
Throw(s) ==
  /\ pc[s] \in Handling \ {"publish", "bookkeep", "reportException"}
  /\ Leave(s, "reportException")
  /\ mishaps' = mishaps \cup {m \in Messages : Carries(s, m)}
  /\ UNCHANGED <<network, active, dependencies, outputs, expiries, delivered, answers,
                 unreported>>

(* Mutant: the exception handler ends without receiving again. *)
ReportWithoutReceive(s) ==
  /\ pc[s] = "reportException" /\ Leave(s, "deaf")
  /\ UNCHANGED <<network, active, dependencies, outputs, history>>

(* The catch block reports to the metrics, whose recordError may throw. *)
ReportException(s) ==
  /\ pc[s] = "reportException"
  /\ \/ Resume(s) /\ UNCHANGED unreported
     \/ Escape(s)
  /\ UNCHANGED <<network, active, dependencies, outputs, expiries, delivered, mishaps, answers>>
-----------------------------------------------------------------------------
(* The deduplication entry of m expires. *)
Expire(m) ==
  /\ m \in recorded /\ expiries[m] < MaxExpiries
  /\ recorded' = recorded \ {m}
  /\ expiries' = [expiries EXCEPT ![m] = @ + 1]
  /\ delivered' = delivered \ {m}
  /\ mishaps' = mishaps \ {m}
  /\ UNCHANGED <<network, active, pc, packet, error, batch, marked, outputs, answers,
                 unreported>>

Handle(s) ==
  \/ ParseMessage(s) \/ Authenticate(s) \/ CheckDuplicate(s) \/ CheckLimit(s)
  \/ RecordMessage(s) \/ UpdateStatus(s) \/ PublishInbound(s) \/ Bookkeep(s)
  \/ SendAcknowledgment(s) \/ SendRefusal(s) \/ FetchCommands(s)
  \/ SendCommands(s) \/ MarkDelivered(s) \/ HandleError(s) \/ Throw(s)
  \/ ReportException(s)

Next ==
  \/ \E m \in Messages : Send(m) \/ Lose(m) \/ Expire(m)
  \/ \E s \in Sessions :
       \/ Start(s) \/ Stop(s) \/ Abort(s) \/ Receive(s) \/ ReceiveError(s) \/ Crash(s)
       \/ Handle(s)

Spec == Init /\ [][Next]_vars

(* A worker thread runs a handler to its end: no call blocks for ever.     *)
(* Nothing is fair about the network, the devices, stop() or a crash.      *)
HandlerFairness(s) == WF_vars(Handle(s))
FairSpec == Spec /\ \A s \in Sessions : HandlerFairness(s)
-----------------------------------------------------------------------------
(* The variables hold values of their types. *)
TypeOK ==
  /\ network \subseteq Messages
  /\ active \in [Sessions -> BOOLEAN]
  /\ pc \in [Sessions -> Steps]
  /\ packet \in [Sessions -> Packets]
  /\ error \in [Sessions -> Errors]
  /\ batch \in [Sessions -> SUBSET Commands]
  /\ recorded \subseteq Messages /\ marked \subseteq Commands
  /\ discarded \subseteq Packets
  /\ published \in [Sessions -> [Messages -> Nat]]
  /\ acks \subseteq Messages
  /\ sent \subseteq Commands
  /\ expiries \in [Messages -> Nat]
  /\ delivered \subseteq Messages /\ mishaps \subseteq Messages
  /\ answers \in [Messages -> SUBSET {"success", "failure"}]
  /\ unreported \subseteq Sessions

(* However often a message is sent or delivered twice, and wherever its    *)
(* handler is interrupted, one session publishes it at most once for each  *)
(* deduplication window that opened for it (parseAndValidate).             *)
OncePerWindow ==
  \A s \in Sessions, m \in Messages : published[s][m] <= 1 + expiries[m]

(* A success acknowledgment is sent only for a message that is on its      *)
(* inbound queue (processPacket, handleMessage).                           *)
AckedIsPublished ==
  \A m \in acks : \E s \in Sessions : published[s][m] > 0

(* A message the deduplication service remembers, so that every retry will *)
(* be refused, has been published, is about to be, or was lost to a failed *)
(* publish, an exception of a dependency or a crash: in particular neither *)
(* a stop() nor the rate limit nor a datagram sent again loses a message.  *)
LossNeedsMishap ==
  \A m \in recorded : \/ m \in delivered \cup mishaps
                      \/ \E s \in Sessions : Carries(s, m)

(* A command the device manager takes for delivered was in a datagram to   *)
(* the device before, wherever sendCommands was interrupted.               *)
MarkedWasSent == marked \subseteq sent

(* A handler can go on wherever it is. *)
HandlersGoOn == \A s \in Sessions : pc[s] \in Handling => ENABLED <<Handle(s)>>_vars

(* Whatever its dependencies answer or throw, the handler of a datagram is *)
(* never stuck and returns, and the session listens again or has stopped.  *)
(* The one exception is an exception that recordError throws out of the    *)
(* catch block itself: it leaves the session without a receive.            *)
HandlerReturns ==
  /\ []HandlersGoOn
  /\ \A s \in Sessions :
       pc[s] = "parse" ~> pc[s] \in {"receiving", "stopped", "new"} \/ s \in unreported

(* With one session, a message gets one kind of answer per window, in each *)
(* of its windows: from one recordMessage to the next the device is not    *)
(* told of success and of failure, whatever it sends again.                *)
AnswersAgree == \A m \in Messages : answers[m] # {"success", "failure"}
=============================================================================
