-------------------------- MODULE MSSignal_proofs ---------------------------
(***************************************************************************)
(* Type correctness of MSSignal and OwnAnswer, for any number of calls,    *)
(* ids and server messages.                                                *)
(***************************************************************************)
EXTENDS MSSignal, TLAPS

\* A message carrying the promise of a call bears the id of that call.
Owned(m) == m.call \in Calls => callPc[m.call] # "new" /\ callId[m.call] = m.id

\* A message of the client: a request always carries a promise.
Outgoing(m) == Owned(m) /\ (m.kind = "request" => m.call \in Calls)

\* A text of the server: a response to a call, its own request, or a notify.
Incoming(m) == /\ Owned(m)
               /\ \/ m.kind = "response" /\ m.call \in Calls
                  \/ m.kind = "request" /\ m.call = NoCall /\ m.id \in srvIds
                  \/ m.kind = "notify" /\ m.call = NoCall /\ m.id = NoId

\* The strengthening of OwnAnswer that is inductive.
CallIds     == \A c \in Calls : IF callPc[c] = "new" THEN callId[c] = NoId ELSE callId[c] \in Ids
SendKeyed   == \A i \in Keys : Outgoing(sendList[i]) /\ (sendList[i] # NoMsg => sendList[i].id = i)
AckKeyed    == \A i \in Keys : Outgoing(ackList[i]) /\ (ackList[i] # NoMsg => ackList[i].id = i)
WireOwned   == /\ \A m \in toServer : Outgoing(m)
               /\ \A k \in DOMAIN toClient : Incoming(toClient[k])
HandsOwned  == /\ Outgoing(sndMsg)
               /\ ioPc # "idle" => Incoming(ioMsg)

OwnInv == /\ TypeOK
          /\ CallIds
          /\ SendKeyed
          /\ AckKeyed
          /\ WireOwned
          /\ HandsOwned
          /\ OwnAnswer

-----------------------------------------------------------------------------

LEMMA MsgType ==
    ASSUME NEW k \in {"none", "request", "response", "notify"}, NEW i \in Keys,
           NEW c \in Calls \cup {NoCall}
    PROVE  /\ Msg(k, i, c) \in Message
           /\ Msg(k, i, c).kind = k /\ Msg(k, i, c).id = i /\ Msg(k, i, c).call = c
BY DEF Msg, Message

LEMMA NoMsgType == /\ NoMsg \in Message
                   /\ NoMsg.kind = "none" /\ NoMsg.id = NoId /\ NoMsg.call = NoCall
BY MsgType DEF NoMsg, Keys

LEMMA BlameType ==
    ASSUME TypeOK, NEW S, NEW why \in Causes
    PROVE  Blame(S, why) \in [Calls -> SUBSET Causes]
BY DEF Blame, TypeOK

\* Every step keeps every variable in its type: in particular each list entry,
\* text in flight and local message stays a well-formed MSMessage.
LEMMA TypeStep == TypeOK /\ [Next]_vars => TypeOK'
<1> SUFFICES ASSUME TypeOK, [Next]_vars PROVE TypeOK'
  OBVIOUS
<1> USE NoMsgType
<1>1. ASSUME NEW c \in Calls, SendRequest(c) PROVE TypeOK'
  <2>1. PICK i \in Ids : /\ callId' = [callId EXCEPT ![c] = i]
                         /\ send(Msg("request", i, c))
    BY <1>1 DEF SendRequest
  <2>2. Msg("request", i, c) \in Message /\ Msg("request", i, c).id = i
    BY MsgType DEF Keys
  <2>3. sendList' \in [Keys -> Message] /\ lost' \in [Calls -> SUBSET Causes]
    BY <2>1, <2>2, BlameType DEF send, TypeOK, Causes
  <2> QED BY <1>1, <2>1, <2>3 DEF SendRequest, TypeOK, Keys, sender, io, network
<1>2. CASE Connect
  BY <1>2 DEF Connect, TypeOK, client, sender, io, network, ghosts
<1>3. CASE Close
  <2>1. lost' \in [Calls -> SUBSET Causes]
    BY <1>3, BlameType DEF Close, Causes
  <2> QED BY <1>3, <2>1 DEF Close, TypeOK, sender, io, network
<1>4. CASE TakeMsg
  BY <1>4 DEF TakeMsg, TypeOK, io, network, ghosts
<1>5. CASE SendText
  <2>1. lost' \in [Calls -> SUBSET Causes]
    BY <1>5, BlameType DEF SendText, Causes, TypeOK
  <2> QED BY <1>5, <2>1 DEF SendText, TypeOK, client, io
<1>6. CASE AckInsert
  <2>1. lost' \in [Calls -> SUBSET Causes]
    BY <1>6, BlameType DEF AckInsert, Causes
  <2>2. ackList' \in [Keys -> Message]
    BY <1>6 DEF AckInsert, TypeOK
  <2>3. raced' \in BOOLEAN
    BY <1>6 DEF AckInsert, TypeOK
  <2> QED BY <1>6, <2>1, <2>2, <2>3 DEF AckInsert, TypeOK, io, network
<1>7. CASE IoFind
  <2>1. lost' \in [Calls -> SUBSET Causes]
    BY <1>7, BlameType DEF IoFind, Causes, TypeOK
  <2>2. Head(toClient) \in Message /\ Tail(toClient) \in Seq(Message)
    BY <1>7 DEF IoFind, TypeOK
  <2> QED BY <1>7, <2>1, <2>2 DEF IoFind, TypeOK, client, sender
<1>8. CASE IoFulfil
  <2>1. /\ callPc' \in [Calls -> {"new", "waiting", "done"}]
        /\ answer' \in [Calls -> Message]
        /\ ioPc' \in {"idle", "found", "dispatch", "dead"}
    BY <1>8 DEF IoFulfil, SetValue, TypeOK
  <2>2. ackList' \in [Keys -> Message]
    BY <1>8 DEF IoFulfil, TypeOK
  <2>3. raced' \in BOOLEAN
    BY <1>8 DEF IoFulfil, TypeOK
  <2> QED BY <1>8, <2>1, <2>2, <2>3 DEF IoFulfil, TypeOK, sender, network
<1>9. CASE IoDispatch
  <2>1. Msg("response", ioMsg.id, NoCall) \in Message /\ Msg("response", ioMsg.id, NoCall).id = ioMsg.id
    BY MsgType DEF TypeOK, Message
  <2>2. sendList' \in [Keys -> Message] /\ lost' \in [Calls -> SUBSET Causes]
    BY <1>9, <2>1, BlameType DEF IoDispatch, send, TypeOK, Causes
  <2> QED BY <1>9, <2>2 DEF IoDispatch, TypeOK, sender, network
<1>10. CASE ServerReply
  <2>1. PICK m \in toServer : /\ toServer' = toServer \ {m}
                              /\ toClient' = IF m.kind = "request"
                                             THEN Append(toClient, Msg("response", m.id, m.call))
                                             ELSE toClient
    BY <1>10 DEF ServerReply
  <2>2. Msg("response", m.id, m.call) \in Message
    BY <2>1, MsgType DEF TypeOK, Message
  <2>3. toClient' \in Seq(Message)
    BY <2>1, <2>2 DEF TypeOK
  <2> QED BY <1>10, <2>1, <2>3 DEF ServerReply, TypeOK, client, sender, io, ghosts
<1>11. CASE ServerMessage
  <2>1. \A i \in Ids : Msg("request", i, NoCall) \in Message
    BY MsgType DEF Keys
  <2>2. Msg("notify", NoId, NoCall) \in Message
    BY MsgType DEF Keys
  <2>3. toClient' \in Seq(Message) /\ srvIds' \subseteq Ids
    <3>1. toClient \in Seq(Message) /\ srvIds \subseteq Ids
      BY DEF TypeOK
    <3>2. CASE /\ toClient' = Append(toClient, Msg("notify", NoId, NoCall))
               /\ UNCHANGED srvIds
      BY <2>2, <3>1, <3>2
    <3>3. ASSUME NEW i \in ServerIds, srvIds' = srvIds \cup {i},
                 toClient' = Append(toClient, Msg("request", i, NoCall))
          PROVE  toClient' \in Seq(Message) /\ srvIds' \subseteq Ids
      <4>1. Msg("request", i, NoCall) \in Message /\ i \in Ids
        BY <2>1, ServerIdsAssumption
      <4> QED BY <3>1, <3>3, <4>1
    <3> QED BY <1>11, <3>2, <3>3 DEF ServerMessage
  <2>4. srvSent' \in 0..MaxServer
    BY <1>11, MaxServerAssumption DEF ServerMessage, TypeOK
  <2> QED BY <1>11, <2>3, <2>4 DEF ServerMessage, TypeOK, client, sender, io, ghosts
<1>12. CASE Disconnect
  <2>1. lost' \in [Calls -> SUBSET Causes]
    BY <1>12, BlameType DEF Disconnect, Causes
  <2> QED BY <1>12, <2>1 DEF Disconnect, TypeOK, client, sender, io
<1>13. CASE UNCHANGED vars
  BY <1>13 DEF vars, TypeOK
<1> QED BY <1>1, <1>2, <1>3, <1>4, <1>5, <1>6, <1>7, <1>8, <1>9, <1>10, <1>11, <1>12, <1>13 DEF Next

LEMMA InitType == Init => TypeOK
<1> SUFFICES ASSUME Init PROVE TypeOK
  OBVIOUS
<1> USE DEF Init
<1>1. /\ sendList \in [Keys -> Message] /\ ackList \in [Keys -> Message]
      /\ answer \in [Calls -> Message]
      /\ sndMsg \in Message /\ ioMsg \in Message
  BY NoMsgType
<1>2. callId \in [Calls -> Keys] /\ callPc \in [Calls -> {"new", "waiting", "done"}]
  BY DEF Keys
<1>3. srvSent \in 0..MaxServer /\ toClient \in Seq(Message)
  BY MaxServerAssumption
<1>4. raced \in BOOLEAN
  OBVIOUS
<1>5. lost \in [Calls -> SUBSET Causes]
  OBVIOUS
<1> QED BY <1>1, <1>2, <1>3, <1>4, <1>5 DEF TypeOK

(***************************************************************************)
(* Type correctness: the lists, the messages in hand and in flight and the *)
(* state of every thread keep their shape in every behaviour of MSSignal.  *)
(***************************************************************************)
THEOREM TypeCorrect == Spec => []TypeOK
BY InitType, TypeStep, PTL DEF Spec

-----------------------------------------------------------------------------
\* The ids of the calls already made, and the ids the server used, are fixed.

Frame == /\ \A c \in Calls : callPc[c] # "new" => callPc'[c] # "new" /\ callId'[c] = callId[c]
         /\ srvIds \subseteq srvIds'

LEMMA OwnedStable ==
    ASSUME Frame
    PROVE  \A m \in Message : /\ Owned(m) => Owned(m)'
                              /\ Outgoing(m) => Outgoing(m)'
                              /\ Incoming(m) => Incoming(m)'
BY DEF Frame, Owned, Outgoing, Incoming

\* A list, a message in hand or the wire left alone stays owned.
LEMMA KeptOwned ==
    ASSUME TypeOK, Frame
    PROVE  /\ SendKeyed /\ UNCHANGED sendList => SendKeyed'
           /\ AckKeyed /\ UNCHANGED ackList => AckKeyed'
           /\ WireOwned /\ UNCHANGED <<toServer, toClient>> => WireOwned'
           /\ HandsOwned /\ UNCHANGED <<sndMsg, ioPc, ioMsg>> => HandsOwned'
<1>1. SendKeyed /\ UNCHANGED sendList => SendKeyed'
  BY OwnedStable DEF SendKeyed, TypeOK, Outgoing, Owned
<1>2. AckKeyed /\ UNCHANGED ackList => AckKeyed'
  BY OwnedStable DEF AckKeyed, TypeOK, Outgoing, Owned
<1>3. WireOwned /\ UNCHANGED <<toServer, toClient>> => WireOwned'
  <2> SUFFICES ASSUME WireOwned, UNCHANGED <<toServer, toClient>> PROVE WireOwned'
    OBVIOUS
  <2>1. \A m \in toServer : Outgoing(m)'
    BY OwnedStable DEF WireOwned, TypeOK
  <2>2. \A k \in DOMAIN toClient : toClient[k] \in Message
    BY DEF TypeOK
  <2>3. \A k \in DOMAIN toClient : Incoming(toClient[k])'
    BY <2>2, OwnedStable DEF WireOwned, Incoming, Owned
  <2> QED BY <2>1, <2>3 DEF WireOwned
<1>4. HandsOwned /\ UNCHANGED <<sndMsg, ioPc, ioMsg>> => HandsOwned'
  BY OwnedStable DEF HandsOwned, TypeOK, Outgoing, Owned, Incoming
<1> QED BY <1>1, <1>2, <1>3, <1>4

\* An answer that satisfied OwnAnswer still does when no call is answered.
LEMMA KeptAnswers ==
    ASSUME TypeOK, CallIds, OwnAnswer, Frame, UNCHANGED answer,
           \A c \in Calls : callPc'[c] = "done" => callPc[c] = "done"
    PROVE  OwnAnswer'
<1> SUFFICES ASSUME NEW c \in Calls, callPc'[c] = "done"
             PROVE  /\ answer[c].id = callId'[c]
                    /\ \/ answer[c].kind = "response" /\ answer[c].call = c
                       \/ \E d \in Calls \ {c} : callId'[d] = callId'[c]
                       \/ callId'[c] \in srvIds'
  BY DEF OwnAnswer
<1>1. callPc[c] = "done" /\ callId'[c] = callId[c] /\ callId[c] \in Ids
  BY DEF Frame, CallIds
<1>2. NoId \notin Ids
  BY IdsAssumption DEF NoId
<1>3. \A d \in Calls : callId[d] = callId[c] => callId'[d] = callId[d]
  BY <1>1, <1>2 DEF CallIds, Frame
<1> QED BY <1>1, <1>3 DEF OwnAnswer, Frame

\* A step that leaves the calls alone.
LEMMA CallsKept ==
    ASSUME TypeOK, CallIds, OwnAnswer, UNCHANGED <<callPc, callId, answer>>, srvIds \subseteq srvIds'
    PROVE  Frame /\ CallIds' /\ OwnAnswer'
<1>1. Frame /\ CallIds'
  BY DEF Frame, CallIds
<1> QED BY <1>1, KeptAnswers

\* What send() does: one more owned entry under its own key.
LEMMA SendOwned ==
    ASSUME TypeOK, Frame, SendKeyed, NEW m \in Message, m.id \in Keys,
           (Outgoing(m))', send(m)
    PROVE  SendKeyed'
<1> SUFFICES ASSUME NEW i \in Keys
             PROVE  (Outgoing(sendList[i]) /\ (sendList[i] # NoMsg => sendList[i].id = i))'
  BY DEF SendKeyed
<1>1. CASE i = m.id
  <2>1. sendList'[i] = m
    BY <1>1 DEF send, TypeOK
  <2> QED BY <1>1, <2>1 DEF Outgoing, Owned
<1>2. CASE i # m.id
  <2>1. sendList'[i] = sendList[i] /\ sendList[i] \in Message
    BY <1>2 DEF send, TypeOK
  <2> QED BY <2>1, OwnedStable DEF SendKeyed, Outgoing, Owned
<1> QED BY <1>1, <1>2

LEMMA OwnStep == OwnInv /\ [Next]_vars => OwnInv'
<1> SUFFICES ASSUME OwnInv, [Next]_vars PROVE OwnInv'
  OBVIOUS
<1>t. TypeOK /\ TypeOK'
  BY TypeStep DEF OwnInv
<1>n. NoMsg.call = NoCall /\ NoMsg.kind = "none" /\ NoMsg.id = NoId /\ NoMsg \in Message
  BY NoMsgType
<1>o. Owned(NoMsg)' /\ Outgoing(NoMsg)'
  BY <1>n, CallsAssumption DEF Owned, Outgoing, NoMsg, Msg
<1> USE DEF OwnInv
<1>1. ASSUME NEW c \in Calls, SendRequest(c) PROVE OwnInv'
  <2>1. PICK i \in Ids : /\ callId' = [callId EXCEPT ![c] = i]
                         /\ send(Msg("request", i, c))
    BY <1>1 DEF SendRequest
  <2>2. Frame
    BY <1>1, <2>1, <1>t DEF SendRequest, Frame, network, TypeOK
  <2>3. CallIds'
    BY <1>1, <2>1, <1>t DEF SendRequest, CallIds, TypeOK
  <2>4. SendKeyed'
    <3>1. /\ Msg("request", i, c) \in Message /\ Msg("request", i, c).id = i
          /\ Msg("request", i, c).call = c
      BY MsgType DEF Keys
    <3>2. callPc'[c] # "new" /\ callId'[c] = i
      BY <1>1, <2>1, <1>t DEF SendRequest, TypeOK
    <3>3. Outgoing(Msg("request", i, c))'
      BY <3>1, <3>2 DEF Outgoing, Owned, Msg
    <3> QED BY <1>t, <2>1, <2>2, <3>1, <3>3, SendOwned DEF Keys
  <2>5. OwnAnswer'
    BY <1>1, <1>t, <2>2, KeptAnswers DEF SendRequest, TypeOK
  <2> QED BY <1>1, <1>t, <2>2, <2>3, <2>4, <2>5, KeptOwned DEF SendRequest, sender, io, network
<1>2. CASE Connect
  <2>1. Frame /\ CallIds' /\ OwnAnswer'
    BY <1>2, <1>t, CallsKept DEF Connect, client, network
  <2> QED BY <1>2, <1>t, <2>1, KeptOwned DEF Connect, client, sender, io, network
<1>3. CASE Close
  <2>1. Frame /\ CallIds' /\ OwnAnswer'
    BY <1>3, <1>t, CallsKept DEF Close, network
  <2>2. SendKeyed' /\ AckKeyed'
    BY <1>3, <1>o DEF Close, SendKeyed, AckKeyed, Outgoing, Owned
  <2> QED BY <1>3, <1>t, <2>1, <2>2, KeptOwned DEF Close, sender, io, network
<1>4. CASE TakeMsg
  <2>1. Frame /\ CallIds' /\ OwnAnswer'
    BY <1>4, <1>t, CallsKept DEF TakeMsg, network
  <2>2. PICK i \in Keys : sndMsg' = sendList[i] /\ sendList' = [sendList EXCEPT ![i] = NoMsg]
    BY <1>4 DEF TakeMsg
  <2>3. SendKeyed'
    <3> SUFFICES ASSUME NEW j \in Keys
                 PROVE  (Outgoing(sendList[j]) /\ (sendList[j] # NoMsg => sendList[j].id = j))'
      BY DEF SendKeyed
    <3>1. sendList'[j] = NoMsg \/ sendList'[j] = sendList[j]
      BY <2>2, <1>t DEF TypeOK
    <3>2. sendList[j] \in Message
      BY <1>t DEF TypeOK
    <3> QED BY <1>o, <2>1, <3>1, <3>2, OwnedStable DEF SendKeyed, Outgoing, Owned
  <2>4. HandsOwned'
    <3>1. Outgoing(sndMsg)'
      BY <2>1, <2>2, <1>t, OwnedStable DEF SendKeyed, Outgoing, Owned, TypeOK
    <3>2. ioPc' # "idle" => Incoming(ioMsg)'
      BY <1>4, <2>1, <1>t, OwnedStable DEF TakeMsg, io, HandsOwned, TypeOK, Incoming, Owned
    <3> QED BY <3>1, <3>2 DEF HandsOwned
  <2> QED BY <1>4, <1>t, <2>1, <2>3, <2>4, KeptOwned DEF TakeMsg, network
<1>5. CASE SendText
  <2>1. Frame /\ CallIds' /\ OwnAnswer'
    BY <1>5, <1>t, CallsKept DEF SendText, client
  <2>2. WireOwned'
    <3>1. \A m \in toServer' : m = sndMsg \/ m \in toServer
      BY <1>5 DEF SendText
    <3>2. \A m \in toServer' : Outgoing(m)'
      BY <3>1, <2>1, <1>t, OwnedStable DEF WireOwned, HandsOwned, TypeOK, Outgoing, Owned
    <3>3. \A k \in DOMAIN toClient : toClient[k] \in Message
      BY <1>t DEF TypeOK
    <3>4. \A k \in DOMAIN toClient' : Incoming(toClient[k])'
      BY <1>5, <3>3, <2>1, OwnedStable DEF SendText, WireOwned, Incoming, Owned
    <3> QED BY <3>2, <3>4 DEF WireOwned
  <2> QED BY <1>5, <1>t, <2>1, <2>2, KeptOwned DEF SendText, client, io
<1>6. CASE AckInsert
  <2>1. Frame /\ CallIds' /\ OwnAnswer'
    BY <1>6, <1>t, CallsKept DEF AckInsert, network
  <2>2. AckKeyed'
    <3> SUFFICES ASSUME NEW j \in Keys
                 PROVE  (Outgoing(ackList[j]) /\ (ackList[j] # NoMsg => ackList[j].id = j))'
      BY DEF AckKeyed
    <3>1. \/ ackList'[j] = ackList[j]
          \/ ackList'[j] = sndMsg /\ j = sndMsg.id
      BY <1>6, <1>t DEF AckInsert, TypeOK
    <3>2. ackList[j] \in Message /\ sndMsg \in Message
      BY <1>t DEF TypeOK
    <3> QED BY <2>1, <3>1, <3>2, OwnedStable DEF AckKeyed, HandsOwned, Outgoing, Owned
  <2>3. HandsOwned'
    BY <1>6, <1>o, <2>1, <1>t, OwnedStable DEF AckInsert, io, HandsOwned, TypeOK, Incoming, Outgoing, Owned
  <2> QED BY <1>6, <1>t, <2>1, <2>2, <2>3, KeptOwned DEF AckInsert, network
<1>7. CASE IoFind
  <2>1. Frame /\ CallIds' /\ OwnAnswer'
    BY <1>7, <1>t, CallsKept DEF IoFind, client
  <2>2. WireOwned'
    <3>1. \A m \in toServer' : Outgoing(m)'
      BY <1>7, <2>1, <1>t, OwnedStable DEF IoFind, WireOwned, TypeOK
    <3>2. \A k \in DOMAIN toClient' : k + 1 \in DOMAIN toClient /\ toClient'[k] = toClient[k + 1]
      BY <1>7, <1>t DEF IoFind, TypeOK
    <3>3. \A k \in DOMAIN toClient : toClient[k] \in Message
      BY <1>t DEF TypeOK
    <3>4. \A k \in DOMAIN toClient' : Incoming(toClient[k])'
      BY <3>2, <3>3, <2>1, OwnedStable DEF WireOwned, Incoming, Owned
    <3> QED BY <3>1, <3>4 DEF WireOwned
  <2>3. HandsOwned'
    <3>1. ioMsg' = toClient[1] /\ 1 \in DOMAIN toClient /\ toClient[1] \in Message
      BY <1>7, <1>t DEF IoFind, TypeOK
    <3>2. Incoming(ioMsg)'
      BY <3>1, <2>1, OwnedStable DEF WireOwned, Incoming, Owned
    <3>3. Outgoing(sndMsg)'
      BY <1>7, <1>t, <2>1, OwnedStable DEF IoFind, sender, HandsOwned, TypeOK, Outgoing, Owned
    <3> QED BY <3>2, <3>3 DEF HandsOwned
  <2> QED BY <1>7, <1>t, <2>1, <2>2, <2>3, KeptOwned DEF IoFind, client
<1>8. CASE IoFulfil
  <2>1. Frame /\ CallIds'
    BY <1>8, <1>t DEF IoFulfil, SetValue, Frame, CallIds, TypeOK, network
  <2>2. AckKeyed'
    <3> SUFFICES ASSUME NEW j \in Keys
                 PROVE  (Outgoing(ackList[j]) /\ (ackList[j] # NoMsg => ackList[j].id = j))'
      BY DEF AckKeyed
    <3>1. ackList'[j] = ackList[j] \/ ackList'[j] = NoMsg
      BY <1>8, <1>t DEF IoFulfil, TypeOK
    <3>2. ackList[j] \in Message
      BY <1>t DEF TypeOK
    <3> QED BY <1>o, <2>1, <3>1, <3>2, OwnedStable DEF AckKeyed, Outgoing, Owned
  <2>3. HandsOwned'
    BY <1>8, <2>1, <1>t, OwnedStable DEF IoFulfil, sender, HandsOwned, TypeOK, Incoming, Outgoing, Owned
  <2>4. OwnAnswer'
    <3> DEFINE req == ackList[ioMsg.id]
    <3>1. CASE req.call \in Calls /\ callPc[req.call] = "waiting"
      <4> DEFINE r == req.call
      <4>0. req # NoMsg
        BY <1>n, <3>1, CallsAssumption
      <4>1. /\ callPc' = [callPc EXCEPT ![r] = "done"]
            /\ answer' = [answer EXCEPT ![r] = ioMsg]
            /\ UNCHANGED <<callId, srvIds>>
        BY <1>8, <3>1, <4>0 DEF IoFulfil, SetValue, network
      <4>2. req # NoMsg /\ ioMsg.id \in Keys /\ req.id = ioMsg.id /\ callId[r] = ioMsg.id /\ callId[r] \in Ids
        BY <3>1, <1>n, <1>t, CallsAssumption DEF AckKeyed, Outgoing, Owned, CallIds, TypeOK, Message
      <4>3. \/ ioMsg.kind = "response" /\ ioMsg.call = r
            \/ \E d \in Calls \ {r} : callId[d] = callId[r]
            \/ callId[r] \in srvIds
        <5>1. Incoming(ioMsg) /\ NoId \notin Ids
          BY <1>8, IdsAssumption DEF IoFulfil, HandsOwned, NoId
        <5> QED BY <4>2, <5>1 DEF Incoming, Owned
      <4>4. SUFFICES ASSUME NEW c \in Calls, callPc'[c] = "done"
                     PROVE  /\ answer'[c].id = callId'[c]
                            /\ \/ answer'[c].kind = "response" /\ answer'[c].call = c
                               \/ \E d \in Calls \ {c} : callId'[d] = callId'[c]
                               \/ callId'[c] \in srvIds'
        BY DEF OwnAnswer
      <4>5. CASE c = r
        BY <4>1, <4>2, <4>3, <4>5, <1>t DEF TypeOK
      <4>6. CASE c # r
        BY <4>1, <4>4, <4>6, <1>t DEF TypeOK, OwnAnswer
      <4> QED BY <4>5, <4>6
    <3>2. CASE ~(req.call \in Calls /\ callPc[req.call] = "waiting")
      BY <1>8, <3>2, <1>t, <2>1, KeptAnswers DEF IoFulfil, SetValue, network
    <3> QED BY <3>1, <3>2
  <2> QED BY <1>8, <1>t, <2>1, <2>2, <2>3, <2>4, KeptOwned DEF IoFulfil, network
<1>9. CASE IoDispatch
  <2>1. Frame /\ CallIds' /\ OwnAnswer'
    BY <1>9, <1>t, CallsKept DEF IoDispatch, network
  <2>2. SendKeyed'
    <3>1. CASE send(Msg("response", ioMsg.id, NoCall))
      <4>1. ioMsg.id \in Keys
        BY <1>t DEF TypeOK, Message
      <4>2. /\ Msg("response", ioMsg.id, NoCall) \in Message
            /\ Msg("response", ioMsg.id, NoCall).id = ioMsg.id
            /\ Msg("response", ioMsg.id, NoCall).kind = "response"
            /\ Msg("response", ioMsg.id, NoCall).call = NoCall
        BY <4>1, MsgType
      <4> DEFINE m == Msg("response", ioMsg.id, NoCall)
      <4>3. m.call \notin Calls
        BY <4>2, CallsAssumption
      <4>4. \A j \in Keys : sendList'[j] = IF j = ioMsg.id THEN m ELSE sendList[j]
        BY <3>1, <4>1, <4>2, <1>t DEF send, TypeOK
      <4>5. \A j \in Keys : sendList[j] \in Message
        BY <1>t DEF TypeOK
      <4> HIDE DEF m
      <4> QED BY <2>1, <4>2, <4>3, <4>4, <4>5, OwnedStable DEF SendKeyed, Outgoing, Owned, m
    <3>2. CASE UNCHANGED <<sendList, lost>>
      BY <3>2, <2>1, <1>t, KeptOwned
    <3> QED BY <1>9, <3>1, <3>2 DEF IoDispatch
  <2>3. HandsOwned'
    BY <1>9, <2>1, <1>t, OwnedStable DEF IoDispatch, sender, HandsOwned, TypeOK, Outgoing, Owned
  <2> QED BY <1>9, <1>t, <2>1, <2>2, <2>3, KeptOwned DEF IoDispatch, network
<1>10. CASE ServerReply
  <2>1. Frame /\ CallIds' /\ OwnAnswer'
    BY <1>10, <1>t, CallsKept DEF ServerReply, client
  <2>2. WireOwned'
    <3>1. PICK m \in toServer : /\ toServer' = toServer \ {m}
                                /\ toClient' = IF m.kind = "request"
                                               THEN Append(toClient, Msg("response", m.id, m.call))
                                               ELSE toClient
      BY <1>10 DEF ServerReply
    <3>2. \A q \in toServer' : Outgoing(q)'
      BY <3>1, <2>1, <1>t, OwnedStable DEF WireOwned, TypeOK
    <3>3. m.id \in Keys /\ m.call \in Calls \cup {NoCall}
      BY <1>t DEF TypeOK, Message
    <3> DEFINE a == Msg("response", m.id, m.call)
    <3>4. a \in Message /\ a.kind = "response" /\ a.id = m.id /\ a.call = m.call
      BY <3>3, MsgType
    <3>5. m.kind = "request" => Incoming(a)
      BY <3>4 DEF WireOwned, Outgoing, Owned, Incoming
    <3> HIDE DEF a
    <3>6. \A k \in DOMAIN toClient' :
             \/ k \in DOMAIN toClient /\ toClient'[k] = toClient[k]
             \/ m.kind = "request" /\ toClient'[k] = a
      BY <3>1, <3>4, <1>t DEF TypeOK, a
    <3>7. \A k \in DOMAIN toClient : toClient[k] \in Message
      BY <1>t DEF TypeOK
    <3>8. \A k \in DOMAIN toClient' : toClient'[k] \in Message /\ Incoming(toClient'[k])
      BY <3>4, <3>5, <3>6, <3>7 DEF WireOwned
    <3>9. \A k \in DOMAIN toClient' : Incoming(toClient[k])'
      BY <3>8, <2>1, OwnedStable DEF Incoming, Owned
    <3> QED BY <3>2, <3>9 DEF WireOwned
  <2> QED BY <1>10, <1>t, <2>1, <2>2, KeptOwned DEF ServerReply, client, sender, io
<1>11. CASE ServerMessage
  <2>1. Frame /\ CallIds' /\ OwnAnswer'
    BY <1>11, <1>t, CallsKept DEF ServerMessage, client
  <2>2. WireOwned'
    <3>1. \A m \in toServer' : Outgoing(m)'
      BY <1>11, <2>1, <1>t, OwnedStable DEF ServerMessage, WireOwned, TypeOK
    <3>2. PICK a \in Message : /\ toClient' = Append(toClient, a)
                               /\ a.call = NoCall
                               /\ \/ a.kind = "request" /\ a.id \in srvIds'
                                  \/ a.kind = "notify" /\ a.id = NoId
      <4>1. \A i \in ServerIds : /\ Msg("request", i, NoCall) \in Message
                                 /\ Msg("request", i, NoCall).kind = "request"
                                 /\ Msg("request", i, NoCall).id = i
                                 /\ Msg("request", i, NoCall).call = NoCall
        BY MsgType, ServerIdsAssumption DEF Keys
      <4>2. /\ Msg("notify", NoId, NoCall) \in Message
            /\ Msg("notify", NoId, NoCall).kind = "notify"
            /\ Msg("notify", NoId, NoCall).id = NoId
            /\ Msg("notify", NoId, NoCall).call = NoCall
        BY MsgType DEF Keys
      <4> QED BY <1>11, <4>1, <4>2 DEF ServerMessage
    <3>3. \A k \in DOMAIN toClient' : toClient'[k] = a \/ (k \in DOMAIN toClient /\ toClient'[k] = toClient[k])
      BY <3>2, <1>t DEF TypeOK
    <3>4. \A k \in DOMAIN toClient : toClient[k] \in Message
      BY <1>t DEF TypeOK
    <3>5. \A k \in DOMAIN toClient' : Incoming(toClient[k])'
      BY <3>2, <3>3, <3>4, <2>1, CallsAssumption, OwnedStable DEF WireOwned, Incoming, Owned
    <3> QED BY <3>1, <3>5 DEF WireOwned
  <2> QED BY <1>11, <1>t, <2>1, <2>2, KeptOwned DEF ServerMessage, client, sender, io
<1>12. CASE Disconnect
  <2>1. Frame /\ CallIds' /\ OwnAnswer'
    BY <1>12, <1>t, CallsKept DEF Disconnect, client
  <2>2. WireOwned'
    BY <1>12 DEF Disconnect, WireOwned
  <2> QED BY <1>12, <1>t, <2>1, <2>2, KeptOwned DEF Disconnect, client, sender, io
<1>13. CASE UNCHANGED vars
  <2>1. Frame /\ CallIds' /\ OwnAnswer'
    BY <1>13, <1>t, CallsKept DEF vars
  <2> QED BY <1>13, <1>t, <2>1, KeptOwned DEF vars
<1> QED BY <1>1, <1>2, <1>3, <1>4, <1>5, <1>6, <1>7, <1>8, <1>9, <1>10, <1>11, <1>12, <1>13 DEF Next

LEMMA InitOwn == Init => OwnInv
<1> SUFFICES ASSUME Init PROVE OwnInv
  OBVIOUS
<1>1. Outgoing(NoMsg)
  BY NoMsgType, CallsAssumption DEF Outgoing, Owned
<1>2. SendKeyed /\ AckKeyed /\ HandsOwned
  BY <1>1 DEF Init, SendKeyed, AckKeyed, HandsOwned
<1>3. CallIds /\ WireOwned /\ OwnAnswer
  BY DEF Init, CallIds, WireOwned, OwnAnswer
<1> QED BY <1>2, <1>3, InitType DEF OwnInv

(***************************************************************************)
(* Whatever the interleaving of callers, sender, io thread, close() and    *)
(* the ack_list_ race, an answered caller holds the response to its own    *)
(* request unless two calls, or a call and a request of the server, were   *)
(* given the same id: on_text_message never crosses distinct ids.          *)
(***************************************************************************)
THEOREM AnswersAreOwn == Spec => []OwnAnswer
<1>1. OwnInv => OwnAnswer
  BY DEF OwnInv
<1> QED BY <1>1, InitOwn, OwnStep, PTL DEF Spec

-----------------------------------------------------------------------------
(***************************************************************************)
(* Where a promise is: OnePlace and NoSilentLoss, for any number of calls, *)
(* ids and server messages.  By OwnInv the entry of a call can only be at  *)
(* the key callId[c], so the places of a call are a few values.            *)
(***************************************************************************)

\* A text with the promise of c has been sent, answered, or is being handled.
OnWire(c) == \/ \E m \in toServer : m.call = c
             \/ \E k \in DOMAIN toClient : toClient[k].call = c
             \/ ioPc # "idle" /\ ioMsg.call = c

Waits(c) == callPc[c] = "waiting" /\ lost[c] = {}

\* A promise travels in a request only: the server answers whatever carries one.
Promising(m) == m.call \in Calls => m.kind = "request"
Requests == /\ \A i \in Keys : Promising(sendList[i])
            /\ Promising(sndMsg)
            /\ \A m \in toServer : Promising(m)

\* A request goes to the wire after it left send_list_ and the sender's hand; a
\* response found before its request was registered has been blamed.
SentOnce(c) == /\ ~(Enqueued(c) /\ InHand(c))
               /\ OnWire(c) => ~Enqueued(c) /\ ~(InHand(c) /\ sndPc = "holding")
FoundEarly(c) == ioPc = "found" /\ ioMsg.call = c /\ InHand(c) => ~Waits(c)

\* OnePlace and NoSilentLoss for one call.
Alone(c) == ~raced => /\ ~(Enqueued(c) /\ Registered(c))
                      /\ ~(InHand(c) /\ Registered(c))
                      /\ callPc[c] = "done" => ~Enqueued(c) /\ ~InHand(c) /\ ~Registered(c)
                      /\ ioPc # "dead"
NotLost(c) == Waits(c) => \/ Enqueued(c)
                          \/ InHand(c) /\ sndPc = "holding"
                          \/ (InHand(c) \/ Registered(c)) /\ ReplyComing(c)

Placed(c) == SentOnce(c) /\ FoundEarly(c) /\ Alone(c) /\ NotLost(c)

PlaceInv == Requests /\ \A c \in Calls : Placed(c)

-----------------------------------------------------------------------------

LEMMA EntryAt ==
    ASSUME OwnInv, NEW c \in Calls
    PROVE  /\ callId[c] \in Keys
           /\ Enqueued(c) <=> sendList[callId[c]].call = c
           /\ Registered(c) <=> ackList[callId[c]].call = c
           /\ \A i \in Keys : sendList[i].call = c => i = callId[c]
           /\ \A i \in Keys : ackList[i].call = c => i = callId[c]
<1>1. NoMsg.call # c
  BY NoMsgType, CallsAssumption
<1>2. callId[c] \in Keys
  BY DEF OwnInv, TypeOK
<1>3. \A i \in Keys : sendList[i].call = c => i = callId[c]
  BY <1>1 DEF OwnInv, SendKeyed, Outgoing, Owned
<1>4. \A i \in Keys : ackList[i].call = c => i = callId[c]
  BY <1>1 DEF OwnInv, AckKeyed, Outgoing, Owned
<1> QED BY <1>2, <1>3, <1>4 DEF Enqueued, Registered

\* A call that was not made is nowhere.
LEMMA NewIsNowhere ==
    ASSUME OwnInv, NEW c \in Calls, callPc[c] = "new"
    PROVE  ~Enqueued(c) /\ ~InHand(c) /\ ~Registered(c) /\ ~OnWire(c)
<1>1. ~Enqueued(c) /\ ~Registered(c)
  BY DEF OwnInv, SendKeyed, AckKeyed, Outgoing, Owned, Enqueued, Registered
<1>2. ~InHand(c)
  BY DEF OwnInv, HandsOwned, Outgoing, Owned, InHand
<1>3. ~OnWire(c)
  BY DEF OwnInv, HandsOwned, WireOwned, Incoming, Outgoing, Owned, OnWire
<1> QED BY <1>1, <1>2, <1>3

LEMMA Blamed ==
    ASSUME NEW c \in Calls, NEW S, NEW why
    PROVE  /\ c \in S => Blame(S, why)[c] # {}
           /\ c \notin S => Blame(S, why)[c] = lost[c]
           /\ Blame(S, why)[c] = {} => lost[c] = {} /\ c \notin S
BY DEF Blame

LEMMA VictimIs ==
    ASSUME NEW c \in Calls, NEW m
    PROVE  c \in Victims(m) <=> m.call = c /\ callPc[c] = "waiting"
BY DEF Victims

\* send() takes the places of the entry it replaces away, and of no other.
LEMMA SendPlaces ==
    ASSUME OwnInv, NEW m \in Message, m.id \in Keys, send(m), NEW c \in Calls, m.call # c,
           UNCHANGED callPc \/ callPc'[c] = callPc[c]
    PROVE  /\ Enqueued(c)' => Enqueued(c)
           /\ Waits(c)' /\ Enqueued(c) => Enqueued(c)'
           /\ Waits(c)' => Waits(c)
<1>1. \A i \in Keys : sendList'[i] = IF i = m.id THEN m ELSE sendList[i]
  BY DEF send, OwnInv, TypeOK
<1>2. lost' = Blame(Victims(sendList[m.id]), "overwrite")
  BY DEF send
<1>3. Waits(c)' => Waits(c) /\ c \notin Victims(sendList[m.id])
  BY <1>2, Blamed DEF Waits
<1>4. Enqueued(c)' => Enqueued(c)
  BY <1>1 DEF Enqueued
<1>5. ASSUME Waits(c)', Enqueued(c) PROVE Enqueued(c)'
  <2>1. sendList[m.id].call # c
    BY <1>3, <1>5, VictimIs DEF Waits
  <2> QED BY <1>1, <1>5, <2>1 DEF Enqueued
<1> QED BY <1>3, <1>4, <1>5

-----------------------------------------------------------------------------
\* One lemma per action: what it does to the places of any call c.

LEMMA SendRequestPlaces ==
    ASSUME OwnInv, PlaceInv, NEW r \in Calls, SendRequest(r), NEW c \in Calls
    PROVE  Placed(c)'
<1>1. PICK i \in Ids : send(Msg("request", i, r))
  BY DEF SendRequest
<1> DEFINE m == Msg("request", i, r)
<1>2. m \in Message /\ m.id = i /\ m.id \in Keys /\ m.call = r
  BY MsgType DEF Keys
<1>3. UNCHANGED <<ackList, sndPc, sndMsg, ioPc, ioMsg, toServer, toClient, raced>>
  BY DEF SendRequest, sender, io, network
<1>4. sndPc = "idle" /\ send(m)
  BY <1>1 DEF send
<1> HIDE DEF m
<1>5. /\ ~InHand(c)' /\ ~InHand(c)
      /\ Registered(c)' <=> Registered(c)
      /\ OnWire(c)' <=> OnWire(c)
      /\ ReplyComing(c)' <=> ReplyComing(c)
  BY <1>3, <1>4 DEF InHand, Registered, OnWire, ReplyComing
<1>6. CASE c = r
  <2>1. callPc[r] = "new" /\ callPc'[r] = "waiting"
    BY DEF SendRequest, OwnInv, TypeOK
  <2>2. ~Registered(c) /\ ~OnWire(c)
    BY <1>6, <2>1, NewIsNowhere
  <2>3. Enqueued(c)'
    BY <1>2, <1>4, <1>6 DEF send, OwnInv, TypeOK, Enqueued
  <2> QED BY <1>3, <1>5, <1>6, <2>1, <2>2, <2>3
          DEF PlaceInv, Placed, SentOnce, FoundEarly, Alone, NotLost
<1>7. CASE c # r
  <2>1. callPc'[c] = callPc[c]
    BY <1>7 DEF SendRequest, OwnInv, TypeOK
  <2>2. /\ Enqueued(c)' => Enqueued(c)
        /\ Waits(c)' /\ Enqueued(c) => Enqueued(c)'
        /\ Waits(c)' => Waits(c)
    BY <1>2, <1>4, <1>7, <2>1, SendPlaces
  <2> QED BY <1>3, <1>5, <2>1, <2>2 DEF PlaceInv, Placed, SentOnce, FoundEarly, Alone, NotLost
<1> QED BY <1>6, <1>7

LEMMA ClosePlaces == ASSUME OwnInv, PlaceInv, Close, NEW c \in Calls PROVE Placed(c)'
<1>1. /\ sndPc = "idle"
      /\ UNCHANGED <<callPc, sndPc, sndMsg, ioPc, ioMsg, toServer, toClient, raced>>
  BY DEF Close, sender, io, network
<1>2. ~Enqueued(c)' /\ ~Registered(c)'
  BY NoMsgType, CallsAssumption DEF Close, Enqueued, Registered
<1>3. ~InHand(c) /\ ~InHand(c)'
  BY <1>1 DEF InHand
<1>4. ~Waits(c)'
  <2> SUFFICES ASSUME Waits(c)' PROVE FALSE
    OBVIOUS
  <2> DEFINE S == {d \in Calls : /\ callPc[d] = "waiting"
                                 /\ \E i \in Keys : d \in {sendList[i].call, ackList[i].call}}
  <2>1. lost'[c] = {} /\ callPc[c] = "waiting" /\ lost' = Blame(S, "cleared")
    BY <1>1 DEF Waits, Close
  <2>2. Waits(c) /\ c \notin S
    BY <2>1, Blamed DEF Waits
  <2>3. Enqueued(c) \/ Registered(c)
    BY <1>3, <2>2 DEF PlaceInv, Placed, NotLost
  <2> QED BY <2>1, <2>2, <2>3 DEF Enqueued, Registered
<1> QED BY <1>1, <1>2, <1>3, <1>4 DEF PlaceInv, Placed, SentOnce, FoundEarly, Alone, NotLost

LEMMA TakeMsgPlaces == ASSUME OwnInv, PlaceInv, TakeMsg, NEW c \in Calls PROVE Placed(c)'
<1>1. PICK i \in Keys : sndMsg' = sendList[i] /\ sendList' = [sendList EXCEPT ![i] = NoMsg]
  BY DEF TakeMsg
<1>2. /\ sndPc = "idle" /\ sndPc' = "holding"
      /\ UNCHANGED <<ackList, callPc, ioPc, ioMsg, toServer, toClient, lost, raced>>
  BY DEF TakeMsg, io, network, ghosts
<1>3. \A j \in Keys : sendList'[j] = IF j = i THEN NoMsg ELSE sendList[j]
  BY <1>1 DEF OwnInv, TypeOK
<1>4. NoMsg.call # c
  BY NoMsgType, CallsAssumption
<1>5. /\ Enqueued(c)' <=> Enqueued(c) /\ sendList[i].call # c
      /\ InHand(c)' <=> sendList[i].call = c
      /\ sendList[i].call = c => Enqueued(c)
      /\ ~InHand(c)
  BY <1>1, <1>2, <1>3, <1>4, EntryAt DEF Enqueued, InHand
<1>6. /\ Registered(c)' <=> Registered(c)
      /\ OnWire(c)' <=> OnWire(c)
      /\ ReplyComing(c)' <=> ReplyComing(c)
      /\ Waits(c)' <=> Waits(c)
      /\ ioPc = "found" /\ ioMsg.call = c => OnWire(c)
  BY <1>2 DEF Registered, OnWire, ReplyComing, Waits
<1> QED BY <1>2, <1>5, <1>6 DEF PlaceInv, Placed, SentOnce, FoundEarly, Alone, NotLost

LEMMA SendTextPlaces == ASSUME OwnInv, PlaceInv, SendText, NEW c \in Calls PROVE Placed(c)'
<1>1. /\ sndPc = "holding" /\ sndPc' = "sent"
      /\ UNCHANGED <<sendList, ackList, callPc, sndMsg, ioPc, ioMsg, toClient, raced>>
  BY DEF SendText, client, io
<1>2. /\ Enqueued(c)' <=> Enqueued(c)
      /\ Registered(c)' <=> Registered(c)
      /\ InHand(c)' <=> InHand(c)
      /\ InHand(c) <=> sndMsg.call = c
  BY <1>1 DEF Enqueued, Registered, InHand
<1>3. \/ toServer' = toServer \cup {sndMsg} /\ lost' = lost
      \/ toServer' = toServer /\ lost' = Blame(Victims(sndMsg), "down")
  BY DEF SendText
<1>4. /\ OnWire(c)' => OnWire(c) \/ InHand(c)
      /\ ReplyComing(c) => ReplyComing(c)'
  BY <1>1, <1>2, <1>3 DEF OnWire, ReplyComing
<1>5. /\ Waits(c)' => Waits(c)
      /\ Waits(c)' /\ InHand(c) => ReplyComing(c)'
  <2>1. CASE toServer' = toServer \cup {sndMsg} /\ lost' = lost
    BY <1>1, <1>2, <2>1 DEF Waits, ReplyComing
  <2>2. CASE toServer' = toServer /\ lost' = Blame(Victims(sndMsg), "down")
    BY <1>1, <1>2, <2>2, Blamed, VictimIs DEF Waits
  <2> QED BY <1>3, <2>1, <2>2
<1> QED BY <1>1, <1>2, <1>4, <1>5 DEF PlaceInv, Placed, SentOnce, FoundEarly, Alone, NotLost

LEMMA AckInsertPlaces == ASSUME OwnInv, PlaceInv, AckInsert, NEW c \in Calls PROVE Placed(c)'
<1>1. /\ sndPc = "sent" /\ sndPc' = "idle"
      /\ UNCHANGED <<sendList, callPc, ioPc, ioMsg, toServer, toClient>>
  BY DEF AckInsert, io, network
<1>2. /\ Enqueued(c)' <=> Enqueued(c)
      /\ ~InHand(c)' /\ (InHand(c) <=> sndMsg.call = c)
      /\ OnWire(c)' <=> OnWire(c)
      /\ ReplyComing(c)' <=> ReplyComing(c)
  BY <1>1 DEF Enqueued, InHand, OnWire, ReplyComing
<1>3. CASE sndMsg.id # ZeroId /\ ackList' = [ackList EXCEPT ![sndMsg.id] = sndMsg]
           /\ lost' = Blame(Victims(ackList[sndMsg.id]), "overwrite") /\ UNCHANGED raced
  <2>1. \A j \in Keys : ackList'[j] = IF j = sndMsg.id THEN sndMsg ELSE ackList[j]
    BY <1>3 DEF OwnInv, TypeOK
  <2>2. sndMsg.id \in Keys
    BY DEF OwnInv, TypeOK, Message
  <2>3. /\ Waits(c)' => Waits(c)
        /\ Waits(c)' => ackList[sndMsg.id].call # c
    BY <1>1, <1>3, Blamed, VictimIs DEF Waits
  <2>4. /\ Registered(c)' => Registered(c) \/ InHand(c)
        /\ InHand(c) => Registered(c)'
        /\ Registered(c) /\ Waits(c)' => Registered(c)'
    BY <1>2, <2>1, <2>2, <2>3 DEF Registered
  <2> QED BY <1>1, <1>2, <1>3, <2>3, <2>4
          DEF PlaceInv, Placed, SentOnce, FoundEarly, Alone, NotLost
<1>4. CASE \/ lost' = Blame(Victims(sndMsg), "zero") /\ UNCHANGED <<ackList, raced>>
           \/ lost' = Blame(Victims(sndMsg), "race") /\ raced' = TRUE /\ UNCHANGED ackList
  <2>1. Waits(c)' => Waits(c) /\ ~InHand(c)
    BY <1>1, <1>2, <1>4, Blamed, VictimIs DEF Waits
  <2>2. Registered(c)' <=> Registered(c)
    BY <1>4 DEF Registered
  <2> QED BY <1>1, <1>2, <1>4, <2>1, <2>2
          DEF PlaceInv, Placed, SentOnce, FoundEarly, Alone, NotLost
<1> QED BY <1>3, <1>4 DEF AckInsert

LEMMA IoFindPlaces == ASSUME OwnInv, PlaceInv, IoFind, NEW c \in Calls PROVE Placed(c)'
<1>1. /\ ioPc = "idle" /\ ioPc' \in {"found", "dispatch"}
      /\ UNCHANGED <<sendList, ackList, callPc, sndPc, sndMsg, toServer, raced>>
  BY DEF IoFind, client, sender
<1>2. /\ toClient # << >> /\ toClient \in Seq(Message) /\ 1 \in DOMAIN toClient
      /\ ioMsg' = toClient[1] /\ toClient' = Tail(toClient)
      /\ ioPc' = "found" <=> ackList[toClient[1].id] # NoMsg
      /\ lost' = IF sndPc = "sent" /\ toClient[1].call = sndMsg.call
                 THEN Blame(Victims(toClient[1]), "early") ELSE lost
  BY DEF IoFind, OwnInv, TypeOK
<1>3. /\ Enqueued(c)' <=> Enqueued(c)
      /\ Registered(c)' <=> Registered(c)
      /\ InHand(c)' <=> InHand(c)
      /\ InHand(c) <=> sndPc # "idle" /\ sndMsg.call = c
      /\ sndPc \in {"idle", "holding", "sent"}
  BY <1>1 DEF Enqueued, Registered, InHand, OwnInv, TypeOK
<1>4. /\ \A k \in DOMAIN toClient' : k + 1 \in DOMAIN toClient /\ toClient'[k] = toClient[k + 1]
      /\ \A k \in DOMAIN toClient : k # 1 => k - 1 \in DOMAIN toClient'
                                             /\ toClient'[k - 1] = toClient[k]
  BY <1>2
<1>5. OnWire(c)' => OnWire(c)
  BY <1>1, <1>2, <1>4 DEF OnWire
<1>6. Waits(c)' => /\ Waits(c)
                   /\ ~(sndPc = "sent" /\ sndMsg.call = c /\ toClient[1].call = c)
  BY <1>1, <1>2, Blamed, VictimIs DEF Waits
<1>7. toClient[1].call = c => OnWire(c)
  BY <1>2 DEF OnWire
\* The entry of a registered call is under the id of its response.
<1>8. Registered(c) /\ toClient[1].call = c => ioPc' = "found"
  <2>1. toClient[1].call = c => toClient[1].id = callId[c]
    BY <1>2 DEF OwnInv, WireOwned, Incoming, Owned
  <2>2. Registered(c) => ackList[callId[c]] # NoMsg
    BY EntryAt, NoMsgType, CallsAssumption
  <2> QED BY <1>2, <2>1, <2>2
<1>9. ReplyComing(c) => ReplyComing(c)' \/ (toClient[1].call = c /\ ioPc' # "found")
  <2>1. CASE \E m \in toServer : m.call = c
    BY <1>1, <2>1 DEF ReplyComing
  <2>2. ASSUME NEW k \in DOMAIN toClient, toClient[k].call = c, k # 1
        PROVE  ReplyComing(c)'
    BY <1>4, <2>2 DEF ReplyComing
  <2>3. CASE toClient[1].call = c /\ ioPc' = "found"
    BY <1>2, <2>3 DEF ReplyComing
  <2> QED BY <1>1, <2>1, <2>2, <2>3 DEF ReplyComing
<1>10. FoundEarly(c)'
  BY <1>1, <1>2, <1>3, <1>6, <1>7 DEF FoundEarly, PlaceInv, Placed, SentOnce
<1>11. SentOnce(c)' /\ Alone(c)'
  BY <1>1, <1>3, <1>5 DEF PlaceInv, Placed, SentOnce, Alone
<1>12. NotLost(c)'
  BY <1>1, <1>3, <1>6, <1>7, <1>8, <1>9 DEF PlaceInv, Placed, SentOnce, NotLost
<1> QED BY <1>10, <1>11, <1>12 DEF Placed

LEMMA IoFulfilPlaces == ASSUME OwnInv, PlaceInv, IoFulfil, NEW c \in Calls PROVE Placed(c)'
<1> DEFINE e == ackList[ioMsg.id]
<1>1. /\ ioPc = "found" /\ ioPc' \in {"dispatch", "dead"} /\ ioMsg.id \in Keys
      /\ UNCHANGED <<sendList, callId, sndPc, sndMsg, ioMsg, toServer, toClient, lost>>
  BY DEF IoFulfil, SetValue, OwnInv, TypeOK, Message, sender, network
<1>2. /\ Enqueued(c)' <=> Enqueued(c)
      /\ InHand(c)' <=> InHand(c)
      /\ OnWire(c)' => OnWire(c)
      /\ ReplyComing(c) => ReplyComing(c)' \/ ioMsg.call = c
  BY <1>1 DEF Enqueued, InHand, OnWire, ReplyComing
<1>3. callPc'[c] = IF e.call = c /\ callPc[c] = "waiting" THEN "done" ELSE callPc[c]
  <2>1. NoMsg.call # c
    BY NoMsgType, CallsAssumption
  <2> QED BY <2>1 DEF IoFulfil, SetValue, OwnInv, TypeOK
<1>4. Waits(c)' => Waits(c) /\ e.call # c
  BY <1>1, <1>3 DEF Waits
<1>5. \/ /\ \A j \in Keys : ackList'[j] = IF j = ioMsg.id THEN NoMsg ELSE ackList[j]
         /\ raced' = raced
      \/ ackList' = ackList /\ raced' = TRUE
  BY DEF IoFulfil, OwnInv, TypeOK
<1>6. /\ Registered(c)' => Registered(c)
      /\ ~raced' => ~Registered(c)' \/ e.call # c
      /\ Registered(c) /\ e.call # c => Registered(c)'
  <2>1. NoMsg.call # c
    BY NoMsgType, CallsAssumption
  <2>2. e.call = c => ioMsg.id = callId[c]
    BY <1>1, EntryAt
  <2>3. \A j \in Keys : ackList[j].call = c => j = callId[c]
    BY EntryAt
  <2> QED BY <1>1, <1>5, <2>1, <2>2, <2>3 DEF Registered
<1>7. e.call = c => Registered(c)
  BY <1>1 DEF Registered
\* The response of a registered call finds the entry of that call.
<1>8. ioMsg.call = c /\ Registered(c) => e.call = c
  <2>1. ioMsg.call = c => ioMsg.id = callId[c]
    BY <1>1 DEF OwnInv, HandsOwned, Incoming, Owned
  <2> QED BY <2>1, EntryAt
<1>9. ~raced' => ioPc' # "dead"
  <2> SUFFICES ASSUME ~raced', ioPc' = "dead" PROVE FALSE
    OBVIOUS
  <2>1. ~raced /\ SetValue(e)
    BY <1>5 DEF IoFulfil
  <2>2. e.call \in Calls /\ callPc[e.call] # "waiting"
    BY <2>1 DEF SetValue
  <2>3. Registered(e.call)
    BY <1>1 DEF Registered
  <2>4. callPc[e.call] \notin {"new", "done"}
    BY <2>1, <2>2, <2>3, NewIsNowhere DEF PlaceInv, Placed, Alone
  <2> QED BY <2>2, <2>4 DEF OwnInv, TypeOK
<1> HIDE DEF e
<1>10. SentOnce(c)' /\ FoundEarly(c)'
  BY <1>1, <1>2 DEF PlaceInv, Placed, SentOnce, FoundEarly
<1>11. Alone(c)'
  BY <1>2, <1>3, <1>5, <1>6, <1>7, <1>9 DEF PlaceInv, Placed, Alone
<1>12. NotLost(c)'
  BY <1>1, <1>2, <1>4, <1>6, <1>8 DEF PlaceInv, Placed, FoundEarly, NotLost
<1> QED BY <1>10, <1>11, <1>12 DEF Placed

LEMMA IoDispatchPlaces == ASSUME OwnInv, PlaceInv, IoDispatch, NEW c \in Calls PROVE Placed(c)'
<1>1. /\ ioPc = "dispatch" /\ ioPc' = "idle"
      /\ UNCHANGED <<ackList, callPc, sndPc, sndMsg, toServer, toClient, raced>>
  BY DEF IoDispatch, sender, network
<1>2. /\ Registered(c)' <=> Registered(c)
      /\ InHand(c)' <=> InHand(c)
      /\ OnWire(c)' => OnWire(c)
      /\ ReplyComing(c)' <=> ReplyComing(c)
  BY <1>1 DEF Registered, InHand, OnWire, ReplyComing
<1>3. /\ Enqueued(c)' => Enqueued(c)
      /\ Waits(c)' /\ Enqueued(c) => Enqueued(c)'
      /\ Waits(c)' => Waits(c)
  <2>1. CASE send(Msg("response", ioMsg.id, NoCall))
    <3> DEFINE m == Msg("response", ioMsg.id, NoCall)
    <3>1. m \in Message /\ m.id \in Keys /\ m.call # c
      BY MsgType, CallsAssumption DEF OwnInv, TypeOK, Message
    <3> QED BY <1>1, <2>1, <3>1, SendPlaces
  <2>2. CASE UNCHANGED <<sendList, lost>>
    BY <1>1, <2>2 DEF Enqueued, Waits
  <2> QED BY <2>1, <2>2 DEF IoDispatch
<1> QED BY <1>1, <1>2, <1>3 DEF PlaceInv, Placed, SentOnce, FoundEarly, Alone, NotLost

LEMMA ServerReplyPlaces == ASSUME OwnInv, PlaceInv, ServerReply, NEW c \in Calls PROVE Placed(c)'
<1>1. UNCHANGED <<sendList, ackList, callPc, sndPc, sndMsg, ioPc, ioMsg, lost, raced>>
  BY DEF ServerReply, client, sender, io, ghosts
<1>2. PICK m \in toServer : /\ toServer' = toServer \ {m}
                            /\ toClient' = IF m.kind = "request"
                                           THEN Append(toClient, Msg("response", m.id, m.call))
                                           ELSE toClient
  BY DEF ServerReply
<1> DEFINE a == Msg("response", m.id, m.call)
<1>3. a \in Message /\ a.call = m.call /\ (m.call = c => m.kind = "request")
  BY MsgType DEF OwnInv, TypeOK, Message, PlaceInv, Requests, Promising
<1>4. toClient \in Seq(Message) /\ m.kind = "request" => toClient' = Append(toClient, a)
  BY <1>2
<1> HIDE DEF a
<1>5. /\ \A k \in DOMAIN toClient' : \/ k \in DOMAIN toClient /\ toClient'[k] = toClient[k]
                                     \/ toClient'[k] = a
      /\ \A k \in DOMAIN toClient : k \in DOMAIN toClient' /\ toClient'[k] = toClient[k]
      /\ m.call = c => Len(toClient) + 1 \in DOMAIN toClient'
                       /\ toClient'[Len(toClient) + 1] = a
  BY <1>2, <1>3, <1>4 DEF OwnInv, TypeOK
<1>6. /\ Enqueued(c)' <=> Enqueued(c)
      /\ Registered(c)' <=> Registered(c)
      /\ InHand(c)' <=> InHand(c)
      /\ Waits(c)' <=> Waits(c)
  BY <1>1 DEF Enqueued, Registered, InHand, Waits
<1>7. OnWire(c)' => OnWire(c)
  BY <1>1, <1>2, <1>3, <1>5 DEF OnWire
<1>8. ReplyComing(c) => ReplyComing(c)'
  BY <1>1, <1>2, <1>3, <1>5 DEF ReplyComing
<1> QED BY <1>1, <1>6, <1>7, <1>8 DEF PlaceInv, Placed, SentOnce, FoundEarly, Alone, NotLost

LEMMA ServerMessagePlaces ==
    ASSUME OwnInv, PlaceInv, ServerMessage, NEW c \in Calls PROVE Placed(c)'
<1>1. UNCHANGED <<sendList, ackList, callPc, sndPc, sndMsg, ioPc, ioMsg, toServer, lost, raced>>
  BY DEF ServerMessage, client, sender, io, ghosts
<1>2. PICK a \in Message : toClient' = Append(toClient, a) /\ a.call = NoCall
  <2>1. \A i \in ServerIds : /\ Msg("request", i, NoCall) \in Message
                             /\ Msg("request", i, NoCall).call = NoCall
    BY MsgType, ServerIdsAssumption DEF Keys
  <2>2. Msg("notify", NoId, NoCall) \in Message /\ Msg("notify", NoId, NoCall).call = NoCall
    BY MsgType DEF Keys
  <2> QED BY <2>1, <2>2 DEF ServerMessage
<1>3. /\ \A k \in DOMAIN toClient' : \/ k \in DOMAIN toClient /\ toClient'[k] = toClient[k]
                                     \/ toClient'[k] = a
      /\ \A k \in DOMAIN toClient : k \in DOMAIN toClient' /\ toClient'[k] = toClient[k]
  BY <1>2 DEF OwnInv, TypeOK
<1>4. a.call # c
  BY <1>2, CallsAssumption
<1>5. OnWire(c)' => OnWire(c)
  BY <1>1, <1>3, <1>4 DEF OnWire
<1>6. ReplyComing(c) => ReplyComing(c)'
  BY <1>1, <1>3 DEF ReplyComing
<1>7. /\ Enqueued(c)' <=> Enqueued(c)
      /\ Registered(c)' <=> Registered(c)
      /\ InHand(c)' <=> InHand(c)
      /\ Waits(c)' <=> Waits(c)
  BY <1>1 DEF Enqueued, Registered, InHand, Waits
<1> QED BY <1>1, <1>5, <1>6, <1>7 DEF PlaceInv, Placed, SentOnce, FoundEarly, Alone, NotLost

LEMMA DisconnectPlaces == ASSUME OwnInv, PlaceInv, Disconnect, NEW c \in Calls PROVE Placed(c)'
<1>1. /\ UNCHANGED <<sendList, ackList, callPc, sndPc, sndMsg, ioPc, ioMsg, raced>>
      /\ toServer' = {} /\ toClient' = << >>
  BY DEF Disconnect, client, sender, io
<1>2. /\ Enqueued(c)' <=> Enqueued(c)
      /\ Registered(c)' <=> Registered(c)
      /\ InHand(c)' <=> InHand(c)
      /\ OnWire(c)' => OnWire(c)
  BY <1>1 DEF Enqueued, Registered, InHand, OnWire
<1>3. Waits(c)' => Waits(c) /\ ~Registered(c) /\ (InHand(c) => sndPc = "holding")
  <2> SUFFICES ASSUME Waits(c)'
               PROVE  Waits(c) /\ ~Registered(c) /\ (InHand(c) => sndPc = "holding")
    OBVIOUS
  <2> DEFINE S == {d \in Calls : /\ callPc[d] = "waiting"
                                 /\ \/ sndPc = "sent" /\ sndMsg.call = d
                                    \/ \E i \in Keys : ackList[i].call = d}
  <2>1. lost'[c] = {} /\ callPc[c] = "waiting" /\ lost' = Blame(S, "down")
    BY <1>1 DEF Waits, Disconnect
  <2>2. Waits(c) /\ c \notin S
    BY <2>1, Blamed DEF Waits
  <2>3. sndPc \in {"idle", "holding", "sent"}
    BY DEF OwnInv, TypeOK
  <2> QED BY <2>1, <2>2, <2>3 DEF Registered, InHand
<1> QED BY <1>1, <1>2, <1>3 DEF PlaceInv, Placed, SentOnce, FoundEarly, Alone, NotLost

LEMMA NothingMoves ==
    ASSUME OwnInv, PlaceInv, NEW c \in Calls,
           UNCHANGED <<sendList, ackList, callPc, sndPc, sndMsg, ioPc, ioMsg, toServer,
                       toClient, lost, raced>>
    PROVE  Placed(c)'
<1>1. /\ Enqueued(c)' <=> Enqueued(c)
      /\ Registered(c)' <=> Registered(c)
      /\ InHand(c)' <=> InHand(c)
      /\ OnWire(c)' <=> OnWire(c)
      /\ ReplyComing(c)' <=> ReplyComing(c)
      /\ Waits(c)' <=> Waits(c)
  BY DEF Enqueued, Registered, InHand, OnWire, ReplyComing, Waits
<1> QED BY <1>1 DEF PlaceInv, Placed, SentOnce, FoundEarly, Alone, NotLost

LEMMA RequestsStep == OwnInv /\ Requests /\ [Next]_vars => Requests'
<1> SUFFICES ASSUME OwnInv, Requests, [Next]_vars PROVE Requests'
  OBVIOUS
<1>n. Promising(NoMsg)
  BY NoMsgType, CallsAssumption DEF Promising
<1>1. ASSUME NEW m \in Message, m.id \in Keys, send(m), Promising(m),
             UNCHANGED <<sndMsg, toServer>>
      PROVE  Requests'
  BY <1>1 DEF send, OwnInv, TypeOK, Requests, Promising
<1>2. ASSUME NEW c \in Calls, SendRequest(c) PROVE Requests'
  <2>1. PICK i \in Ids : send(Msg("request", i, c))
    BY <1>2 DEF SendRequest
  <2>2. /\ Msg("request", i, c) \in Message /\ Msg("request", i, c).id \in Keys
        /\ Promising(Msg("request", i, c))
    BY MsgType DEF Keys, Promising
  <2> QED BY <1>1, <1>2, <2>1, <2>2 DEF SendRequest, sender, network
<1>3. CASE IoDispatch
  <2>1. /\ Msg("response", ioMsg.id, NoCall) \in Message
        /\ Msg("response", ioMsg.id, NoCall).id \in Keys
        /\ Promising(Msg("response", ioMsg.id, NoCall))
    BY MsgType, CallsAssumption DEF OwnInv, TypeOK, Message, Promising
  <2>2. CASE UNCHANGED sendList
    BY <1>3, <2>2 DEF IoDispatch, sender, network, Requests, Promising
  <2> QED BY <1>1, <1>3, <2>1, <2>2 DEF IoDispatch, sender, network
<1>4. CASE TakeMsg
  BY <1>n, <1>4 DEF TakeMsg, OwnInv, TypeOK, network, Requests, Promising
<1>5. CASE Close
  BY <1>n, <1>5 DEF Close, sender, network, Requests, Promising
<1>6. CASE SendText
  BY <1>6 DEF SendText, client, Requests, Promising
<1>7. CASE AckInsert
  BY <1>n, <1>7 DEF AckInsert, network, Requests, Promising
<1>8. CASE ServerReply \/ Disconnect
  BY <1>8 DEF ServerReply, Disconnect, client, sender, Requests, Promising
<1>9. CASE Connect \/ IoFind \/ IoFulfil \/ ServerMessage \/ UNCHANGED vars
  BY <1>9 DEF Connect, IoFind, IoFulfil, ServerMessage, vars, client, sender, network, Requests,
              Promising
<1> QED BY <1>2, <1>3, <1>4, <1>5, <1>6, <1>7, <1>8, <1>9 DEF Next

LEMMA PlaceStep == OwnInv /\ PlaceInv /\ [Next]_vars => PlaceInv'
<1> SUFFICES ASSUME OwnInv, PlaceInv, [Next]_vars, NEW c \in Calls PROVE Placed(c)'
  BY RequestsStep DEF PlaceInv
<1>1. CASE \E r \in Calls : SendRequest(r)
  BY <1>1, SendRequestPlaces
<1>2. CASE Close \/ TakeMsg \/ SendText \/ AckInsert
  BY <1>2, ClosePlaces, TakeMsgPlaces, SendTextPlaces, AckInsertPlaces
<1>3. CASE IoFind \/ IoFulfil \/ IoDispatch
  BY <1>3, IoFindPlaces, IoFulfilPlaces, IoDispatchPlaces
<1>4. CASE ServerReply \/ ServerMessage \/ Disconnect
  BY <1>4, ServerReplyPlaces, ServerMessagePlaces, DisconnectPlaces
<1>5. CASE Connect
  BY <1>5, NothingMoves DEF Connect, client, sender, io, network, ghosts
<1>6. CASE UNCHANGED vars
  BY <1>6, NothingMoves DEF vars
<1> QED BY <1>1, <1>2, <1>3, <1>4, <1>5, <1>6 DEF Next

LEMMA PlaceInit == Init => PlaceInv
<1> SUFFICES ASSUME Init PROVE PlaceInv
  OBVIOUS
<1>1. Requests
  BY NoMsgType, CallsAssumption DEF Init, Requests, Promising
<1>2. ASSUME NEW c \in Calls
      PROVE  /\ ~Enqueued(c) /\ ~InHand(c) /\ ~OnWire(c) /\ ~Registered(c)
             /\ ~Waits(c) /\ callPc[c] = "new" /\ ioPc = "idle"
  BY <1>2, NoMsgType, CallsAssumption
     DEF Init, Enqueued, InHand, OnWire, Registered, Waits
<1> QED BY <1>1, <1>2 DEF PlaceInv, Placed, SentOnce, FoundEarly, Alone, NotLost

LEMMA PlacesAlways == Spec => [](OwnInv /\ PlaceInv)
BY InitOwn, OwnStep, PlaceInit, PlaceStep, PTL DEF Spec

-----------------------------------------------------------------------------

(***************************************************************************)
(* Until two threads meet in ack_list_ a promise is in one place only, so  *)
(* on_text_message never sets one twice and the io thread does not die.    *)
(***************************************************************************)
THEOREM PlacesCorrect == Spec => []OnePlace
<1>1. PlaceInv => OnePlace
  BY DEF PlaceInv, Placed, SentOnce, Alone, OnePlace
<1> QED BY <1>1, PlacesAlways, PTL

(***************************************************************************)
(* A caller blocked in future.get() has its request or its response still  *)
(* on the way, or was stranded by an event named in Causes: nothing else   *)
(* in send, ThreadProc, on_text_message and close loses a promise.         *)
(***************************************************************************)
THEOREM LossesCorrect == Spec => []NoSilentLoss
<1>1. PlaceInv => NoSilentLoss
  BY DEF PlaceInv, Placed, NotLost, Waits, NoSilentLoss
<1> QED BY <1>1, PlacesAlways, PTL

-----------------------------------------------------------------------------
(***************************************************************************)
(* MSSignal implements the safety part of Rpc, for any number of calls,    *)
(* ids and server messages: each step of the lists, threads and wire is    *)
(* one step of the service or none.                                        *)
(***************************************************************************)

Phases == [c \in Calls |-> CallPhase(c)]
Own(c) == answer[c].kind = "response" /\ answer[c].call = c
Running == link \in {"up", "down"} /\ ioPc # "dead"

LEMMA PhaseValue ==
    TypeOK => \A c \in Calls :
        /\ callPc[c] = "new" => CallPhase(c) = "idle"
        /\ callPc[c] = "waiting" /\ lost[c] = {} => CallPhase(c) = "pending"
        /\ callPc[c] = "waiting" /\ lost[c] # {} => CallPhase(c) = "stranded"
        /\ callPc[c] = "done" /\ Own(c) => CallPhase(c) = "answered"
        /\ callPc[c] = "done" /\ ~Own(c) => CallPhase(c) = "misled"
        /\ callPc[c] \in {"new", "waiting", "done"}
BY DEF TypeOK, CallPhase, Own

LEMMA PhaseValueNext ==
    TypeOK' => \A c \in Calls :
        /\ callPc'[c] = "new" => CallPhase(c)' = "idle"
        /\ callPc'[c] = "waiting" /\ lost'[c] = {} => CallPhase(c)' = "pending"
        /\ callPc'[c] = "waiting" /\ lost'[c] # {} => CallPhase(c)' = "stranded"
        /\ callPc'[c] = "done" /\ Own(c)' => CallPhase(c)' = "answered"
        /\ callPc'[c] = "done" /\ ~Own(c)' => CallPhase(c)' = "misled"
        /\ callPc'[c] \in {"new", "waiting", "done"}
BY DEF TypeOK, CallPhase, Own

LEMMA PendingCalls ==
    ASSUME TypeOK
    PROVE  R!Pending = {c \in Calls : callPc[c] = "waiting" /\ lost[c] = {}}
BY PhaseValue DEF R!Pending

\* lost only grows, and only for calls that are waiting.
LostGrows == \A c \in Calls : /\ lost[c] # {} => lost'[c] # {}
                              /\ lost'[c] # lost[c] => callPc[c] = "waiting"

LEMMA BlameGrows ==
    ASSUME TypeOK, NEW S \in SUBSET {c \in Calls : callPc[c] = "waiting"}, NEW why,
           lost' = Blame(S, why) \/ lost' = lost
    PROVE  LostGrows
BY DEF Blame, LostGrows, TypeOK

LEMMA VictimsWait ==
    ASSUME NEW m PROVE Victims(m) \in SUBSET {c \in Calls : callPc[c] = "waiting"}
BY DEF Victims

\* A step that strands some calls and does nothing else a caller can see.
LEMMA StrandStep ==
    ASSUME TypeOK, TypeOK', LostGrows, UNCHANGED <<callPc, callId, answer, srvIds>>,
           Running' = Running
    PROVE  R!Next
<1> DEFINE S == {c \in R!Pending : lost'[c] # {}}
<1>1. S \in SUBSET R!Pending
  OBVIOUS
<1>2. Phases' = R!Stranded(S)
  <2> SUFFICES ASSUME NEW c \in Calls
               PROVE  CallPhase(c)' = IF c \in S THEN "stranded" ELSE CallPhase(c)
    BY DEF R!Stranded, Phases
  <2>1. CASE callPc[c] = "waiting"
    BY <2>1, PhaseValue, PhaseValueNext, PendingCalls DEF LostGrows
  <2>2. CASE callPc[c] # "waiting"
    <3>1. c \notin S /\ callPc'[c] = callPc[c] /\ (Own(c)' <=> Own(c))
      BY <2>2, PendingCalls DEF Own
    <3> QED BY <2>2, <3>1, PhaseValue, PhaseValueNext
  <2> QED BY <2>1, <2>2
<1> HIDE DEF S
<1>3. R!Strand
  BY <1>1, <1>2 DEF R!Strand, Phases, Running
<1> QED BY <1>3 DEF R!Next

\* The threads start or die, or nothing happens.
LEMMA RunningStep ==
    ASSUME TypeOK, TypeOK', UNCHANGED <<callPc, callId, answer, lost, srvIds>>
    PROVE  [R!Next]_R!vars
<1>1. Phases' = Phases
  BY DEF Phases, CallPhase
<1>2. Running \in BOOLEAN /\ Running' \in BOOLEAN
  BY DEF Running
<1>3. CASE Running' = Running
  BY <1>1, <1>3 DEF R!vars, Phases, Running
<1>4. CASE Running' = ~Running
  <2>1. R!StartOrDie
    BY <1>1, <1>4 DEF R!StartOrDie, Phases, Running
  <2> QED BY <2>1 DEF R!Next
<1> QED BY <1>2, <1>3, <1>4

\* set_value on the promise of a call that is waiting for it.
LEMMA AnswerStep ==
    ASSUME TypeOK, TypeOK', OwnAnswer', NEW c \in Calls, NEW m, callPc[c] = "waiting",
           callPc' = [callPc EXCEPT ![c] = "done"], answer' = [answer EXCEPT ![c] = m],
           UNCHANGED <<callId, lost, srvIds>>, Running' = Running
    PROVE  R!Next
<1>1. callPc'[c] = "done"
  BY DEF TypeOK
<1>2. \A d \in Calls \ {c} : CallPhase(d)' = CallPhase(d)
  BY DEF CallPhase, TypeOK
<1>3. CallPhase(c) \in {"pending", "stranded"}
  BY PhaseValue
<1>4. CallPhase(c)' = "answered" \/ (~Own(c)' /\ CallPhase(c)' = "misled")
  BY <1>1, PhaseValueNext
<1>5. ~Own(c)' => R!Ambiguous(c)
  BY <1>1 DEF OwnAnswer, Own, R!Ambiguous
<1>6. \A p : CallPhase(c)' = p => Phases' = [Phases EXCEPT ![c] = p]
  BY <1>2 DEF Phases
<1>7. R!Answer(c)
  BY <1>3, <1>4, <1>5, <1>6 DEF R!Answer, Phases, Running
<1> QED BY <1>7 DEF R!Next

-----------------------------------------------------------------------------

\* Only a waiting call is stranded, and no call becomes new again.
LEMMA LostStep == TypeOK /\ [Next]_vars => /\ LostGrows
                                          /\ \A c \in Calls : callPc'[c] = "new" => callPc[c] = "new"
<1> SUFFICES ASSUME TypeOK, [Next]_vars
             PROVE  LostGrows /\ \A c \in Calls : callPc'[c] = "new" => callPc[c] = "new"
  OBVIOUS
<1> DEFINE Waiting == {c \in Calls : callPc[c] = "waiting"}
<1>1. lost' = lost => LostGrows
  BY DEF LostGrows
<1>2. \/ lost' = lost
      \/ \E m, why : lost' = Blame(Victims(m), why)
      \/ \E S \in SUBSET Waiting : \E why : lost' = Blame(S, why)
  <2>1. CASE Close
    <3> DEFINE S == {c \in Calls : /\ callPc[c] = "waiting"
                                   /\ \E i \in Keys : c \in {sendList[i].call, ackList[i].call}}
    <3>1. S \in SUBSET Waiting /\ lost' = Blame(S, "cleared")
      BY <2>1 DEF Close
    <3> QED BY <3>1
  <2>2. CASE Disconnect
    <3> DEFINE S == {c \in Calls : /\ callPc[c] = "waiting"
                                   /\ \/ sndPc = "sent" /\ sndMsg.call = c
                                      \/ \E i \in Keys : ackList[i].call = c}
    <3>1. S \in SUBSET Waiting /\ lost' = Blame(S, "down")
      BY <2>2 DEF Disconnect
    <3> QED BY <3>1
  <2>3. CASE (\E c \in Calls : SendRequest(c)) \/ IoDispatch
    BY <2>3 DEF SendRequest, IoDispatch, send
  <2>4. CASE SendText \/ AckInsert \/ IoFind
    BY <2>4 DEF SendText, AckInsert, IoFind
  <2>5. CASE \/ Connect \/ TakeMsg \/ IoFulfil \/ ServerReply \/ ServerMessage
             \/ UNCHANGED vars
    BY <2>5 DEF Connect, TakeMsg, IoFulfil, ServerReply, ServerMessage, vars, ghosts
  <2> QED BY <2>1, <2>2, <2>3, <2>4, <2>5 DEF Next
<1>3. LostGrows
  <2>1. CASE \E m, why : lost' = Blame(Victims(m), why)
    BY <2>1, VictimsWait, BlameGrows
  <2>2. CASE \E S \in SUBSET Waiting : \E why : lost' = Blame(S, why)
    BY <2>2, BlameGrows
  <2> HIDE DEF Waiting
  <2> QED BY <1>1, <1>2, <2>1, <2>2
<1>4. \A c \in Calls : callPc'[c] = "new" => callPc[c] = "new"
  <2>1. CASE \E c \in Calls : SendRequest(c)
    BY <2>1 DEF SendRequest, TypeOK
  <2>2. CASE IoFulfil
    <3>1. \/ UNCHANGED callPc
          \/ \E c \in Calls : callPc' = [callPc EXCEPT ![c] = "done"]
      BY <2>2 DEF IoFulfil, SetValue
    <3> QED BY <3>1 DEF TypeOK
  <2>3. CASE UNCHANGED callPc
    BY <2>3
  <2>4. (\E c \in Calls : SendRequest(c)) \/ IoFulfil \/ UNCHANGED callPc
    BY DEF Next, vars, Connect, Close, TakeMsg, SendText, AckInsert, IoFind, IoDispatch,
           ServerReply, ServerMessage, Disconnect, client
  <2> QED BY <2>1, <2>2, <2>3, <2>4
<1> QED BY <1>3, <1>4

\* A call that was not made yet is not stranded.
FreshCalls == \A c \in Calls : callPc[c] = "new" => lost[c] = {}

RpcInv == OwnInv /\ FreshCalls

LEMMA RpcInvStep == RpcInv /\ [Next]_vars => RpcInv'
<1> SUFFICES ASSUME RpcInv, [Next]_vars PROVE FreshCalls'
  BY OwnStep DEF RpcInv
<1>1. TypeOK
  BY DEF RpcInv, OwnInv
<1> QED BY <1>1, LostStep DEF RpcInv, FreshCalls, LostGrows

\* A new call.
LEMMA IssueStep ==
    ASSUME TypeOK, TypeOK', FreshCalls, LostGrows, NEW c \in Calls, SendRequest(c)
    PROVE  R!Next
<1>1. \E i \in Ids : callId' = [callId EXCEPT ![c] = i]
  BY DEF SendRequest
<1>2. /\ callPc[c] = "new" /\ callPc'[c] = "waiting"
      /\ \A d \in Calls \ {c} : callPc'[d] = callPc[d]
      /\ UNCHANGED <<answer, srvIds, link, ioPc>>
  BY DEF SendRequest, io, network, TypeOK
<1>3. CallPhase(c) = "idle" /\ CallPhase(c)' = "pending"
  <2>1. lost'[c] = {}
    BY <1>2 DEF FreshCalls, LostGrows
  <2> QED BY <1>2, <2>1, PhaseValue, PhaseValueNext
<1> DEFINE S == {d \in R!Pending : lost'[d] # {}}
<1>4. S \in SUBSET R!Pending
  OBVIOUS
<1>5. Phases' = [R!Stranded(S) EXCEPT ![c] = "pending"]
  <2>1. \A d \in Calls \ {c} : CallPhase(d)' = IF d \in S THEN "stranded" ELSE CallPhase(d)
    <3> SUFFICES ASSUME NEW d \in Calls \ {c}
                 PROVE  CallPhase(d)' = IF d \in S THEN "stranded" ELSE CallPhase(d)
      OBVIOUS
    <3>1. CASE callPc[d] = "waiting"
      BY <1>2, <3>1, PhaseValue, PhaseValueNext, PendingCalls DEF LostGrows
    <3>2. CASE callPc[d] # "waiting"
      <4>1. d \notin S /\ callPc'[d] = callPc[d] /\ (Own(d)' <=> Own(d))
        BY <1>2, <3>2, PendingCalls DEF Own
      <4> QED BY <3>2, <4>1, PhaseValue, PhaseValueNext
    <3> QED BY <3>1, <3>2
  <2> HIDE DEF S
  <2> QED BY <1>3, <2>1 DEF Phases, R!Stranded
<1> HIDE DEF S
<1>6. R!Issue(c)
  BY <1>1, <1>2, <1>3, <1>4, <1>5 DEF R!Issue, Phases, Running
<1> QED BY <1>6 DEF R!Next

LEMMA RpcStep == RpcInv /\ RpcInv' /\ [Next]_vars => [R!Next]_R!vars
<1> SUFFICES ASSUME RpcInv, RpcInv', [Next]_vars PROVE [R!Next]_R!vars
  OBVIOUS
<1>t. TypeOK /\ TypeOK' /\ OwnAnswer' /\ FreshCalls
  BY DEF RpcInv, OwnInv
<1>g. LostGrows
  BY <1>t, LostStep
<1>1. ASSUME NEW c \in Calls, SendRequest(c) PROVE R!Next
  BY <1>1, <1>t, <1>g, IssueStep
<1>2. CASE Connect
  BY <1>2, <1>t, RunningStep DEF Connect, client, io, network, ghosts
<1>3. CASE Close
  BY <1>3, <1>t, <1>g, StrandStep DEF Close, io, network, Running
<1>4. CASE TakeMsg
  BY <1>4, <1>t, RunningStep DEF TakeMsg, io, network, ghosts
<1>5. CASE SendText
  BY <1>5, <1>t, <1>g, StrandStep DEF SendText, client, io, Running
<1>6. CASE AckInsert
  BY <1>6, <1>t, <1>g, StrandStep DEF AckInsert, io, network, Running
<1>7. CASE IoFind
  <2>1. Running' = Running
    BY <1>7 DEF IoFind, Running
  <2> QED BY <1>7, <1>t, <1>g, <2>1, StrandStep DEF IoFind, client
<1>8. CASE IoFulfil
  <2>0. ioPc = "found" /\ UNCHANGED <<callId, lost, link, srvIds>>
    BY <1>8 DEF IoFulfil, network
  <2>1. ASSUME NEW req, SetValue(req) PROVE [R!Next]_R!vars
    <3>1. CASE req.call \in Calls /\ callPc[req.call] = "waiting"
      <4>1. Running' = Running
        BY <2>0, <2>1, <3>1 DEF SetValue, Running
      <4> QED BY <1>t, <2>0, <2>1, <3>1, <4>1, AnswerStep DEF SetValue
    <3>2. CASE ~(req.call \in Calls /\ callPc[req.call] = "waiting")
      BY <1>t, <2>0, <2>1, <3>2, RunningStep DEF SetValue
    <3> QED BY <3>1, <3>2
  <2>2. CASE UNCHANGED <<callPc, answer>>
    BY <1>t, <2>0, <2>2, RunningStep
  <2>3. SetValue(ackList[ioMsg.id]) \/ UNCHANGED <<callPc, answer>>
    BY <1>8 DEF IoFulfil
  <2> QED BY <2>1, <2>2, <2>3
<1>9. CASE IoDispatch
  <2>1. Running' = Running
    BY <1>9 DEF IoDispatch, Running
  <2> QED BY <1>9, <1>t, <1>g, <2>1, StrandStep DEF IoDispatch, network
<1>10. CASE ServerReply
  BY <1>10, <1>t, RunningStep DEF ServerReply, client, io, ghosts
<1>11. CASE ServerMessage
  <2>1. UNCHANGED <<callPc, callId, answer, lost>> /\ Running' = Running
    BY <1>11 DEF ServerMessage, client, io, ghosts, Running
  <2>2. CASE srvIds' = srvIds
    BY <1>t, <2>1, <2>2, RunningStep
  <2>3. CASE \E i \in Ids : srvIds' = srvIds \cup {i}
    <3>1. Phases' = Phases
      BY <2>1 DEF Phases, CallPhase
    <3>2. R!ServerTakes
      BY <2>1, <2>3, <3>1 DEF R!ServerTakes, Phases, Running
    <3> QED BY <3>2 DEF R!Next
  <2> QED BY <1>11, <2>2, <2>3, ServerIdsAssumption DEF ServerMessage
<1>12. CASE Disconnect
  <2>1. Running' = Running
    BY <1>12 DEF Disconnect, io, Running
  <2> QED BY <1>12, <1>t, <1>g, <2>1, StrandStep DEF Disconnect, client
<1>13. CASE UNCHANGED vars
  BY <1>13, <1>t, RunningStep DEF vars
<1> QED BY <1>1, <1>2, <1>3, <1>4, <1>5, <1>6, <1>7, <1>8, <1>9, <1>10, <1>11, <1>12, <1>13 DEF Next

LEMMA RpcInit == Init => R!Init /\ RpcInv
<1> SUFFICES ASSUME Init PROVE R!Init /\ RpcInv
  OBVIOUS
<1>2. RpcInv
  BY InitOwn DEF Init, RpcInv, FreshCalls
<1>1. Phases = [c \in Calls |-> "idle"]
  BY InitType, PhaseValue DEF Init, Phases
<1> QED BY <1>1, <1>2 DEF Init, R!Init, Phases

(***************************************************************************)
(* Whatever the interleaving of callers, sender, io thread, server, losses *)
(* and races, a caller sees the service of Rpc: its promise is set once,   *)
(* with its own response unless its id is ambiguous, and it is never       *)
(* un-answered or issued twice.                                            *)
(***************************************************************************)
THEOREM ImplementsRpcSafety == Spec => R!Safety
BY RpcInit, RpcInvStep, RpcStep, PTL DEF Spec, R!Safety
=============================================================================
