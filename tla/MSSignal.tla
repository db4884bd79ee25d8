------------------------------ MODULE MSSignal ------------------------------
(***************************************************************************)
(* The request/response layer of the SDK: mssdk/mssignal/mssignal.cpp.     *)
(*                                                                         *)
(* Three kinds of threads meet in it:                                      *)
(*   - callers, blocked in send_request_and_recv_response (one per call);  *)
(*   - the sender, MSSignal::ThreadProc, which moves one message at a time *)
(*     from send_list_ to the socket and then to ack_list_;                *)
(*   - the io thread, which runs on_text_message for every text received.  *)
(*                                                                         *)
(* mutex_ is held by the sender from the moment it takes a message until   *)
(* it is registered in ack_list_ (sndPc # "idle"), and by every send();    *)
(* on_text_message does not take it.  ack_list_ is therefore read and      *)
(* written by the io thread while the sender inserts into it: the overlap  *)
(* is a data race, modelled as a choice between the outcomes a linked      *)
(* bucket can have (see AckInsert and IoFulfil).                           *)
(***************************************************************************)
EXTENDS Integers, Sequences, FiniteSets

CONSTANTS Calls,       \* calls of send_request_and_recv_response
          Ids,         \* values of generateID() and of the server's ids
          ServerIds,   \* ids the server gives to its own requests
          MaxServer    \* bound: messages initiated by the server

NoId == -1             \* message_from_json: chdr->id.value_or(-1)
ZeroId == 0            \* the one id ThreadProc does not register

ASSUME IdsAssumption       == Ids \subseteq Nat
ASSUME ServerIdsAssumption == ServerIds \subseteq Ids
ASSUME MaxServerAssumption == MaxServer \in Nat

NoCall == "no_call"    \* a null msg_promise
ASSUME CallsAssumption == NoCall \notin Calls

Keys == Ids \cup {NoId}

\* MSMessage.  "call" is the promise it carries; on the wire it is a ghost that
\* tells which call a response belongs to (the server only echoes the id).
Message == [kind : {"none", "request", "response", "notify"},
            id   : Keys,
            call : Calls \cup {NoCall}]

Msg(k, i, c) == [kind |-> k, id |-> i, call |-> c]
NoMsg == Msg("none", NoId, NoCall)

\* Why a promise that nobody will set any more is stranded (ghost).
Causes == {"early",      \* its response was dispatched before AckInsert
           "zero",       \* its id is 0: never registered in ack_list_
           "overwrite",  \* another message with its id replaced it in a list
           "race",       \* its insertion was lost to the data race
           "down",       \* the connection was lost
           "cleared"}    \* MSSignal::close() emptied the lists

VARIABLES
    sendList,    \* send_list_: unordered_map, key = message id
    ackList,     \* ack_list_
    callPc,      \* per call: "new", "waiting" (in future.get()), "done"
    callId,      \* per call: the id generateID() gave its request
    answer,      \* per call: the text its future returned
    sndPc,       \* sender: "idle", "holding" (message taken), "sent" (on the wire)
    sndMsg,      \* sender: the local pmsg
    ioPc,        \* io thread: "idle", "found", "dispatch", "dead" (exception)
    ioMsg,       \* io thread: the message being handled
    link,        \* "init", "up", "failed" (connect failed), "down" (lost)
    toServer,    \* requests and responses sent, not yet answered (any order)
    toClient,    \* texts in flight to the client (FIFO)
    srvSent,     \* number of messages the server initiated
    srvIds,      \* ghost: ids the server has used for its own requests
    lost,        \* ghost: per call, why it is stranded
    raced        \* ghost: the ack_list_ race has had an effect

vars == <<sendList, ackList, callPc, callId, answer, sndPc, sndMsg, ioPc, ioMsg,
          link, toServer, toClient, srvSent, srvIds, lost, raced>>

client  == <<sendList, ackList, callPc, callId, answer>>
sender  == <<sndPc, sndMsg>>
io      == <<ioPc, ioMsg>>
network == <<toServer, toClient, srvSent, srvIds>>
ghosts  == <<lost, raced>>

Init == /\ sendList = [i \in Keys |-> NoMsg]
        /\ ackList  = [i \in Keys |-> NoMsg]
        /\ callPc   = [c \in Calls |-> "new"]
        /\ callId   = [c \in Calls |-> NoId]
        /\ answer   = [c \in Calls |-> NoMsg]
        /\ sndPc = "idle" /\ sndMsg = NoMsg
        /\ ioPc  = "idle" /\ ioMsg  = NoMsg
        /\ link = "init"
        /\ toServer = {} /\ toClient = << >>
        /\ srvSent = 0 /\ srvIds = {}
        /\ lost = [c \in Calls |-> {}] /\ raced = FALSE

-----------------------------------------------------------------------------

\* The calls whose promise the entry m carries and that are still waiting.
Victims(m) == {c \in Calls : m.call = c /\ callPc[c] = "waiting"}

\* lost after "why" is added for the calls in S.
Blame(S, why) == [c \in Calls |-> IF c \in S THEN lost[c] \cup {why} ELSE lost[c]]

(***************************************************************************)
(* MSSignal::connect.  connect_sync blocks until on_open or on_fail; only  *)
(* success starts the sender thread (Run).                                 *)
(***************************************************************************)
Connect ==
    /\ link \in {"init", "failed"}
    /\ link' \in {"up", "failed"}
    /\ UNCHANGED <<client, sender, io, network, ghosts>>

(***************************************************************************)
(* send(request, promise): under mutex_, send_list_[id] = pmsg.  The map   *)
(* assignment silently replaces a message with the same id.                *)
(***************************************************************************)
send(m) ==
    /\ sndPc = "idle"
    /\ sendList' = [sendList EXCEPT ![m.id] = m]
    /\ lost' = Blame(Victims(sendList[m.id]), "overwrite")

\* Mutant: generateID() drawing from the whole int32 range, negative ids too.
SendRequestNegativeId(c) ==
    /\ callPc[c] = "new"
    /\ \E i \in Ids \cup {-2} :
          /\ callId' = [callId EXCEPT ![c] = i]
          /\ \/ i \in Ids /\ send(Msg("request", i, c))
             \/ i \notin Ids /\ UNCHANGED <<sendList, lost>>
    /\ callPc' = [callPc EXCEPT ![c] = "waiting"]
    /\ UNCHANGED <<ackList, answer, sender, io, link, network, raced>>

(***************************************************************************)
(* A caller in send_request_and_recv_response: a random id, a promise, the *)
(* enqueued request, and then future.get() with no timeout.                *)
(***************************************************************************)
SendRequest(c) ==
    /\ callPc[c] = "new"
    /\ \E i \in Ids :
          /\ callId' = [callId EXCEPT ![c] = i]
          /\ send(Msg("request", i, c))
    /\ callPc' = [callPc EXCEPT ![c] = "waiting"]
    /\ UNCHANGED <<ackList, answer, sender, io, link, network, raced>>

(***************************************************************************)
(* MSSignal::close: both lists are emptied; the blocked callers still own  *)
(* their promise, so they are neither answered nor woken by an exception.  *)
(***************************************************************************)
Close ==
    /\ sndPc = "idle"
    /\ sendList' = [i \in Keys |-> NoMsg]
    /\ ackList'  = [i \in Keys |-> NoMsg]
    /\ lost' = Blame({c \in Calls : /\ callPc[c] = "waiting"
                                    /\ \E i \in Keys : c \in {sendList[i].call, ackList[i].call}},
                     "cleared")
    /\ UNCHANGED <<callPc, callId, answer, sender, io, link, network, raced>>

-----------------------------------------------------------------------------
\* The sender thread: one iteration of ThreadProc in three steps.

\* Mutant: the sender waits for msg_size() > 1.
TakeMsgOffByOne ==
    /\ link \in {"up", "down"}
    /\ sndPc = "idle"
    /\ Cardinality({i \in Keys : sendList[i] # NoMsg}) > 1
    /\ \E i \in Keys :
          /\ sendList[i] # NoMsg
          /\ sndMsg' = sendList[i]
          /\ sendList' = [sendList EXCEPT ![i] = NoMsg]
    /\ sndPc' = "holding"
    /\ UNCHANGED <<ackList, callPc, callId, answer, io, link, network, ghosts>>

\* get_msg(send_list_): begin() of an unordered_map, so any entry.
TakeMsg ==
    /\ link \in {"up", "down"}
    /\ sndPc = "idle"
    /\ \E i \in Keys :
          /\ sendList[i] # NoMsg
          /\ sndMsg' = sendList[i]
          /\ sendList' = [sendList EXCEPT ![i] = NoMsg]
    /\ sndPc' = "holding"
    /\ UNCHANGED <<ackList, callPc, callId, answer, io, link, network, ghosts>>

\* ws_client_->send_text(pmsg->json), whose result is ignored.
SendText ==
    /\ sndPc = "holding"
    /\ sndPc' = "sent"
    /\ IF link = "up"
       THEN toServer' = toServer \cup {sndMsg} /\ UNCHANGED lost
       ELSE lost' = Blame(Victims(sndMsg), "down") /\ UNCHANGED toServer
    /\ UNCHANGED <<client, sndMsg, io, link, toClient, srvSent, srvIds, raced>>

\* Mutant: the test on the id inverted.
AckInsertInverted ==
    /\ sndPc = "sent"
    /\ sndPc' = "idle" /\ sndMsg' = NoMsg
    /\ ackList' = IF sndMsg.id = ZeroId THEN [ackList EXCEPT ![ZeroId] = sndMsg] ELSE ackList
    /\ UNCHANGED <<sendList, callPc, callId, answer, io, link, network, ghosts>>

\* if (pmsg->id != 0) ack_list_[pmsg->id] = pmsg, and the end of the mutex_ scope.
AckInsert ==
    /\ sndPc = "sent"
    /\ sndPc' = "idle" /\ sndMsg' = NoMsg
    /\ \/ /\ sndMsg.id # ZeroId
          /\ ackList' = [ackList EXCEPT ![sndMsg.id] = sndMsg]
          /\ lost' = Blame(Victims(ackList[sndMsg.id]), "overwrite")
          /\ UNCHANGED raced
       \/ /\ sndMsg.id = ZeroId
          /\ lost' = Blame(Victims(sndMsg), "zero")
          /\ UNCHANGED <<ackList, raced>>
       \/ \* data race: the io thread is unlinking an entry at the same time
          /\ sndMsg.id # ZeroId
          /\ ioPc = "found"
          /\ lost' = Blame(Victims(sndMsg), "race")
          /\ raced' = TRUE
          /\ UNCHANGED ackList
    /\ UNCHANGED <<sendList, callPc, callId, answer, io, link, network>>

-----------------------------------------------------------------------------
\* The io thread: on_text_message in three steps.

(***************************************************************************)
(* message_from_json and ack_list_.find(pmsg->id): the entry is looked up  *)
(* by id alone, whatever the type of the message received.                 *)
(***************************************************************************)
IoFind ==
    /\ ioPc = "idle"
    /\ toClient # << >>
    /\ LET m == Head(toClient) IN
          /\ ioMsg' = m
          /\ ioPc' = IF ackList[m.id] # NoMsg THEN "found" ELSE "dispatch"
          /\ lost' = IF sndPc = "sent" /\ m.call = sndMsg.call
                     THEN Blame(Victims(m), "early")
                     ELSE lost
    /\ toClient' = Tail(toClient)
    /\ UNCHANGED <<client, sender, link, toServer, srvSent, srvIds, raced>>

\* What set_value(text) does to the promise of the entry req.
SetValue(req) ==
    IF req.call \in Calls
    THEN IF callPc[req.call] = "waiting"
         THEN /\ callPc' = [callPc EXCEPT ![req.call] = "done"]
              /\ answer' = [answer EXCEPT ![req.call] = ioMsg]
              /\ ioPc' = "dispatch"
         ELSE ioPc' = "dead" /\ UNCHANGED <<callPc, answer>>
    ELSE ioPc' = "dispatch" /\ UNCHANGED <<callPc, answer>>

\* Mutant: the first entry of ack_list_ answered, not the one with the id.
IoFulfilAnyEntry ==
    /\ ioPc = "found"
    /\ \E k \in Keys : /\ ackList[k] # NoMsg
                        /\ SetValue(ackList[k])
                        /\ ackList' = [ackList EXCEPT ![k] = NoMsg]
    /\ UNCHANGED <<sendList, callId, sender, ioMsg, link, network, ghosts>>

\* Mutant: the entry is not erased.
IoFulfilNoErase ==
    /\ ioPc = "found"
    /\ SetValue(ackList[ioMsg.id])
    /\ UNCHANGED <<sendList, ackList, callId, sender, ioMsg, link, network, ghosts>>

(***************************************************************************)
(* The entry found: set_value(text) and ack_list_.erase(it).  The second   *)
(* set_value of one promise throws future_error, which nothing catches.    *)
(***************************************************************************)
IoFulfil ==
    /\ ioPc = "found"
    /\ \/ /\ SetValue(ackList[ioMsg.id])
          /\ ackList' = [ackList EXCEPT ![ioMsg.id] = NoMsg]
          /\ UNCHANGED raced
       \/ \* data race: the entry stays linked while the sender inserts
          /\ sndPc = "sent"
          /\ SetValue(ackList[ioMsg.id])
          /\ raced' = TRUE
          /\ UNCHANGED ackList
       \/ \* data race: close() freed the entry "it" points to
          /\ ackList[ioMsg.id] = NoMsg
          /\ ioPc' = "dead"
          /\ raced' = TRUE
          /\ UNCHANGED <<ackList, callPc, answer>>
    /\ UNCHANGED <<sendList, callId, sender, ioMsg, link, network, lost>>

(***************************************************************************)
(* on_recv_msg: only a request changes state.  A method registered with    *)
(* register_method_handle ends in send_base_response, which enqueues a     *)
(* response under the server's id; an unknown method is only logged.       *)
(***************************************************************************)
IoDispatch ==
    /\ ioPc = "dispatch"
    /\ ioPc' = "idle" /\ ioMsg' = NoMsg
    /\ \/ ioMsg.kind = "request" /\ send(Msg("response", ioMsg.id, NoCall))
       \/ UNCHANGED <<sendList, lost>>
    /\ UNCHANGED <<ackList, callPc, callId, answer, sender, link, network, raced>>

-----------------------------------------------------------------------------
\* The server and the connection (external).

\* The server answers its pending requests in any order.
ServerReply ==
    /\ link = "up"
    /\ \E m \in toServer :
          /\ toServer' = toServer \ {m}
          /\ toClient' = IF m.kind = "request"
                         THEN Append(toClient, Msg("response", m.id, m.call))
                         ELSE toClient
    /\ UNCHANGED <<client, sender, io, link, srvSent, srvIds, ghosts>>

\* newConsumer, newDataConsumer, ... requests and notifications.
ServerMessage ==
    /\ link = "up"
    /\ srvSent < MaxServer
    /\ srvSent' = srvSent + 1
    /\ \/ \E i \in ServerIds :
             /\ toClient' = Append(toClient, Msg("request", i, NoCall))
             /\ srvIds' = srvIds \cup {i}
       \/ /\ toClient' = Append(toClient, Msg("notify", NoId, NoCall))
          /\ UNCHANGED srvIds
    /\ UNCHANGED <<client, sender, io, link, toServer, ghosts>>

(***************************************************************************)
(* The connection is lost: WSPPClient::on_close reports it to              *)
(* MSSignal::on_fail, whose body is empty.                                 *)
(***************************************************************************)
Disconnect ==
    /\ link = "up"
    /\ link' = "down"
    /\ toServer' = {} /\ toClient' = << >>
    /\ lost' = Blame({c \in Calls :
                         /\ callPc[c] = "waiting"
                         /\ \/ sndPc = "sent" /\ sndMsg.call = c
                            \/ \E i \in Keys : ackList[i].call = c},
                     "down")
    /\ UNCHANGED <<client, sender, io, srvSent, srvIds, raced>>

-----------------------------------------------------------------------------

Next == \/ \E c \in Calls : SendRequest(c)
        \/ Connect \/ Close
        \/ TakeMsg \/ SendText \/ AckInsert
        \/ IoFind \/ IoFulfil \/ IoDispatch
        \/ ServerReply \/ ServerMessage \/ Disconnect

\* The sender and io threads run forever and the server answers what it receives.
Fairness == /\ WF_vars(TakeMsg) /\ WF_vars(SendText) /\ WF_vars(AckInsert)
            /\ WF_vars(IoFind) /\ WF_vars(IoFulfil) /\ WF_vars(IoDispatch)
            /\ WF_vars(ServerReply)

Spec == Init /\ [][Next]_vars /\ Fairness

-----------------------------------------------------------------------------

TypeOK == /\ sendList \in [Keys -> Message]
          /\ ackList \in [Keys -> Message]
          /\ callPc \in [Calls -> {"new", "waiting", "done"}]
          /\ callId \in [Calls -> Keys]
          /\ answer \in [Calls -> Message]
          /\ sndPc \in {"idle", "holding", "sent"} /\ sndMsg \in Message
          /\ ioPc \in {"idle", "found", "dispatch", "dead"} /\ ioMsg \in Message
          /\ link \in {"init", "up", "failed", "down"}
          /\ toServer \subseteq Message /\ toClient \in Seq(Message)
          /\ srvSent \in 0..MaxServer /\ srvIds \subseteq Ids
          /\ lost \in [Calls -> SUBSET Causes] /\ raced \in BOOLEAN

-----------------------------------------------------------------------------
\* Where the promise of call c can be.

Enqueued(c)   == \E i \in Keys : sendList[i].call = c
InHand(c)     == sndPc # "idle" /\ sndMsg.call = c
Registered(c) == \E i \in Keys : ackList[i].call = c

\* The server still owes c a response, or that response is on its way.
ReplyComing(c) ==
    \/ \E m \in toServer : m.call = c
    \/ \E k \in DOMAIN toClient : toClient[k].call = c
    \/ ioPc = "found" /\ ioMsg.call = c

(***************************************************************************)
(* No silent loss.  A caller blocked in future.get() has its request in    *)
(* send_list_, in the sender's hand, or registered in ack_list_ with its   *)
(* response still to come; any other blocked caller was stranded by one of *)
(* the events named in Causes.  (ThreadProc, on_text_message, send, close) *)
(***************************************************************************)
NoSilentLoss ==
    \A c \in Calls :
        callPc[c] = "waiting" /\ lost[c] = {} =>
            \/ Enqueued(c)
            \/ InHand(c) /\ sndPc = "holding"
            \/ (InHand(c) \/ Registered(c)) /\ ReplyComing(c)

(***************************************************************************)
(* A caller gets the response to its own request, unless its random id     *)
(* collided with another call's or with one the server used: nothing in    *)
(* on_text_message tells these apart.                                      *)
(***************************************************************************)
OwnAnswer ==
    \A c \in Calls :
        callPc[c] = "done" =>
            /\ answer[c].id = callId[c]
            /\ \/ answer[c].kind = "response" /\ answer[c].call = c
               \/ \E d \in Calls \ {c} : callId[d] = callId[c]
               \/ callId[c] \in srvIds

(***************************************************************************)
(* One promise lives in one place: as long as the unsynchronised accesses  *)
(* to ack_list_ never overlap, no promise is in two lists and an answered  *)
(* one is in none, so set_value cannot throw on the io thread.             *)
(***************************************************************************)
OnePlace ==
    \A c \in Calls :
        ~raced =>
            /\ ~(Enqueued(c) /\ InHand(c))
            /\ ~(Enqueued(c) /\ Registered(c))
            /\ ~(InHand(c) /\ Registered(c))
            /\ callPc[c] = "done" => ~Enqueued(c) /\ ~InHand(c) /\ ~Registered(c)
            /\ ioPc # "dead"

\* What became of a call, as its caller sees it.
CallPhase(c) ==
    CASE callPc[c] = "new" -> "idle"
      [] callPc[c] = "waiting" -> IF lost[c] = {} THEN "pending" ELSE "stranded"
      [] callPc[c] = "done" -> IF answer[c].kind = "response" /\ answer[c].call = c
                               THEN "answered" ELSE "misled"

R == INSTANCE Rpc WITH phase <- [c \in Calls |-> CallPhase(c)],
                       id <- callId,
                       taken <- srvIds,
                       running <- link \in {"up", "down"} /\ ioPc # "dead"

(***************************************************************************)
(* The three kinds of threads, the two lists and the wire implement the    *)
(* request/response service of Rpc: each promise is set at most once and,  *)
(* while the threads live, every caller blocked in future.get() is         *)
(* answered or has been stranded by one of the events in Causes.           *)
(***************************************************************************)
ImplementsRpc == R!Spec
=============================================================================
