-------------------------- MODULE WebSocket_proofs --------------------------
(***************************************************************************)
(* The safety properties of WebSocket for any number of sessions, any      *)
(* capacity of the channels, any limit of gorilla and any number of        *)
(* messages.  HubHoldsLive needs that nothing is swept before the sweep;   *)
(* OneInFlight needs to know where a session with the client may still be  *)
(* written to (Exchange) and that the client dials only when no connection *)
(* of it is up (Dialling): otherwise a frame of the connection before      *)
(* would meet the greeting of the next one.                                *)
(***************************************************************************)
EXTENDS WebSocket, FiniteSetTheorems, SequenceTheorems, TLAPS

(* The sweep runs once. *)
Sweep == ~collected => swept = {}

(* A session with the repository's own client: only messages are sent to    *)
(* the server, and only while its handler runs; only the last connection is *)
(* up, and the client reads it until its own context is cancelled; nothing  *)
(* is left on the way to a client that may dial again.                      *)
Exchange(s) ==
    /\ toServer[s] \in Seq({"ok"})
    /\ failed[s] = 0
    /\ reader[s] \in {"none", "done"} => toServer[s] = <<>> /\ link[s] # "up"
    /\ link[s] = "up" => s = current
    /\ link[s] = "up" /\ ~cFather => cReader[s] \in {"reading", "sending"}
    /\ cReader[s] \in {"none", "done"} /\ (~cFather \/ app = "dial") => toClient[s] = 0

(* On its way to the next attempt the client has no connection. *)
Dialling ==
    /\ app = "dial" \/ (app = "sleep" /\ ~cFather) => link[current] # "up"
    /\ app = "select" /\ errChan[current] = "error" /\ ~cFather => link[current] # "up"

Sending(r) == IF r = "sending" THEN 1 ELSE 0

(* The messages on their way in session s: on the wire, in the two channels *)
(* and in the two loops.                                                    *)
Inbound(s) == Len(toServer[s])
Outbound(s) == toClient[s]
Queued(s) == responses[s]
CQueued(s) == cResponses[s]
InLoop(s) == Sending(reader[s])
InCLoop(s) == Sending(cReader[s])
Load(s) == Inbound(s) + Outbound(s) + Queued(s) + CQueued(s) + InLoop(s) + InCLoop(s)

ClientInv == peer = "client" => Dialling /\ \A s \in Sessions : Exchange(s) /\ Load(s) <= 1

IInv == TypeOK /\ HubHoldsLive /\ Sweep /\ ClientInv

-----------------------------------------------------------------------------
(* The type invariant in four parts. *)
NetOK ==
    /\ peer \in {"client", "browser"}
    /\ link \in [Sessions -> {"none", "up", "down"}]
    /\ toServer \in [Sessions -> Seq(Frames)]
    /\ toClient \in [Sessions -> Nat]
    /\ sent \in [Sessions -> 0 .. MaxSent]

SessionOK ==
    /\ reader \in [Sessions -> {"none", "reading", "sending", "closing", "done"}]
    /\ answer \in [Sessions -> {"echo", "error", "last"}]
    /\ failed \in [Sessions -> 0 .. ReadLimit]
    /\ responses \in [Sessions -> 0 .. Cap]
    /\ pump \in [Sessions -> {"none", "on", "off"}]
    /\ hub \subseteq Sessions

ServerOK ==
    /\ accepting \in BOOLEAN /\ father \in BOOLEAN /\ collected \in BOOLEAN
    /\ swept \subseteq Sessions

ClientOK ==
    /\ app \in {"dial", "select", "sleep", "gone"} /\ current \in Sessions
    /\ errChan \in [Sessions -> {"empty", "error", "closed"}]
    /\ cReader \in [Sessions -> {"none", "reading", "sending", "closing", "done"}]
    /\ cPump \in [Sessions -> {"none", "on", "off"}]
    /\ cResponses \in [Sessions -> 0 .. Cap]
    /\ cFather \in BOOLEAN

LEMMA TypeParts == TypeOK <=> NetOK /\ SessionOK /\ ServerOK /\ ClientOK
BY Zenon DEF TypeOK, NetOK, SessionOK, ServerOK, ClientOK

LEMMA InitIInv == Init => IInv
<1> SUFFICES ASSUME Init PROVE IInv
  OBVIOUS
<1> USE CapAssumption, LimitsAssumption
<1>1. NetOK
  BY DEF Init, NetOK, Frames
<1>2. SessionOK
  BY DEF Init, SessionOK
<1>3. ServerOK
  BY Zenon DEF Init, ServerOK
<1>4. cFather \in BOOLEAN
  BY Zenon DEF Init
<1>4a. ClientOK
  BY <1>4 DEF Init, ClientOK
<1>5. HubHoldsLive /\ Sweep
  BY DEF Init, HubHoldsLive, Sweep
<1>6. ClientInv
  BY DEF Init, ClientInv, Dialling, Exchange, Load, Sending,
         Inbound, Outbound, Queued, CQueued, InLoop, InCLoop
<1> QED
  BY <1>1, <1>2, <1>3, <1>4a, <1>5, <1>6, TypeParts DEF IInv

(* Every step keeps the types of what is on the wire. *)
LEMMA NetTypeStep == TypeOK /\ [Next]_vars => NetOK'
<1> SUFFICES ASSUME NetOK, [Next]_vars PROVE NetOK'
  BY TypeParts
<1> USE CapAssumption, LimitsAssumption
<1>1. ASSUME NEW s \in Sessions, Break(s) PROVE NetOK'
  BY <1>1 DEF Break, Frames, NetOK, netVars
<1>2. ASSUME NEW s \in Sessions, BrowserDials(s) PROVE NetOK'
  BY <1>2 DEF BrowserDials, Free, Upgrade, Frames, NetOK, netVars
<1>3. ASSUME NEW s \in Sessions, BrowserSends(s) PROVE NetOK'
  BY <1>3 DEF BrowserSends, Frames, NetOK, netVars
<1>4. ASSUME NEW s \in Sessions, ReadMessage(s) PROVE NetOK'
  BY <1>4 DEF ReadMessage, Incoming, WillSend, Frames, NetOK, netVars
<1>5. ASSUME NEW s \in Sessions, ReadPanics(s) PROVE NetOK'
  BY <1>5 DEF ReadPanics, Deferred, Forget, Frames, NetOK, netVars
<1>6. ASSUME NEW s \in Sessions, WaitForPump(s) PROVE NetOK'
  BY <1>6 DEF WaitForPump, Deferred, Forget, Frames, NetOK, netVars
<1>7. ASSUME NEW s \in Sessions, PumpWrites(s) PROVE NetOK'
  BY <1>7 DEF PumpWrites, IsLast, Frames, NetOK, netVars
<1>8. ASSUME CollectGarbageConnections PROVE NetOK'
  BY <1>8 DEF CollectGarbageConnections, Frames, NetOK, netVars
<1>9. ASSUME NEW s \in Sessions, Dial(s) PROVE NetOK'
  BY <1>9 DEF Dial, Free, ClientStarts, Upgrade, Greeting, DialFails, NotConnected,
     Frames, NetOK, netVars
<1>10. ASSUME NEW s \in Sessions, ClientReads(s) PROVE NetOK'
  BY <1>10 DEF ClientReads, Frames, NetOK, netVars
<1>11. ASSUME NEW s \in Sessions, ClientCloses(s) PROVE NetOK'
  BY <1>11 DEF ClientCloses, Frames, NetOK, netVars
<1>12. ASSUME NEW s \in Sessions, ClientPump(s) PROVE NetOK'
  <2>1. UNCHANGED <<peer, link, toClient, sent>>
    BY <1>12 DEF ClientPump
  <2>2. toServer' = toServer \/ toServer' = [toServer EXCEPT ![s] = Append(@, "ok")]
    BY <1>12 DEF ClientPump
  <2>3. Append(toServer[s], "ok") \in Seq(Frames)
    BY DEF Frames, NetOK
  <2> QED
    BY <2>1, <2>2, <2>3 DEF NetOK
<1>13. CASE (\E s \in Sessions : ReadUnexpectedClose(s) \/ ReadFails(s) \/ Send(s)
          \/ PumpLeaves(s) \/ ClientReadFails(s) \/ ClientSends(s)) \/ CancelServer
          \/ ShutdownServer \/ DoClientApp \/ CancelClient \/ UNCHANGED vars
  <2>1. UNCHANGED netVars
    BY <1>13 DEF ReadUnexpectedClose, Incoming, WillSend, ReadFails, Send,
       PumpLeaves, PumpOff, ClientReadFails, ClientSends, CancelServer,
       ShutdownServer, DoClientApp, CancelClient, vars, netVars, sessionVars,
       serverVars, clientVars
  <2> QED
    BY <2>1 DEF NetOK, netVars
<1> QED
  BY <1>1, <1>2, <1>3, <1>4, <1>5, <1>6, <1>7, <1>8, <1>9, <1>10, <1>11, <1>12,
     <1>13
  DEF Next, SessionStep, ClientStep

(* Every step keeps the types of the server's sessions. *)
LEMMA SessionTypeStep == TypeOK /\ [Next]_vars => SessionOK'
<1> SUFFICES ASSUME SessionOK, [Next]_vars PROVE SessionOK'
  BY TypeParts
<1> USE CapAssumption, LimitsAssumption
<1>1. ASSUME NEW s \in Sessions, BrowserDials(s) PROVE SessionOK'
  BY <1>1 DEF BrowserDials, Free, Upgrade, SessionOK, sessionVars
<1>2. ASSUME NEW s \in Sessions, ReadMessage(s) PROVE SessionOK'
  BY <1>2 DEF ReadMessage, Incoming, WillSend, SessionOK, sessionVars
<1>3. ASSUME NEW s \in Sessions, ReadUnexpectedClose(s) PROVE SessionOK'
  BY <1>3 DEF ReadUnexpectedClose, Incoming, WillSend, SessionOK, sessionVars
<1>4. ASSUME NEW s \in Sessions, ReadPanics(s) PROVE SessionOK'
  BY <1>4 DEF ReadPanics, Deferred, Forget, SessionOK, sessionVars
<1>5. ASSUME NEW s \in Sessions, ReadFails(s) PROVE SessionOK'
  BY <1>5 DEF ReadFails, SessionOK, sessionVars
<1>6. ASSUME NEW s \in Sessions, Send(s) PROVE SessionOK'
  BY <1>6 DEF Send, SessionOK, sessionVars
<1>7. ASSUME NEW s \in Sessions, WaitForPump(s) PROVE SessionOK'
  BY <1>7 DEF WaitForPump, Deferred, Forget, SessionOK, sessionVars
<1>8. ASSUME NEW s \in Sessions, PumpLeaves(s) PROVE SessionOK'
  BY <1>8 DEF PumpLeaves, PumpOff, SessionOK, sessionVars
<1>9. ASSUME NEW s \in Sessions, PumpWrites(s) PROVE SessionOK'
  BY <1>9 DEF PumpWrites, IsLast, SessionOK, sessionVars
<1>10. ASSUME CollectGarbageConnections PROVE SessionOK'
  BY <1>10 DEF CollectGarbageConnections, SessionOK, sessionVars
<1>11. ASSUME NEW s \in Sessions, Dial(s) PROVE SessionOK'
  BY <1>11 DEF Dial, Free, ClientStarts, Upgrade, Greeting, DialFails, NotConnected,
     SessionOK, sessionVars
<1>12. CASE (\E s \in Sessions : Break(s) \/ BrowserSends(s) \/ ClientReads(s) \/
          ClientReadFails(s) \/ ClientSends(s) \/ ClientCloses(s) \/ ClientPump(s))
          \/ CancelServer \/ ShutdownServer \/ DoClientApp \/ CancelClient \/
          UNCHANGED vars
  <2>1. UNCHANGED sessionVars
    BY <1>12 DEF Break, BrowserSends, Frames, ClientReads, ClientReadFails,
       ClientSends, ClientCloses, ClientPump, CancelServer, ShutdownServer,
       DoClientApp, CancelClient, vars, netVars, sessionVars, serverVars, clientVars
  <2> QED
    BY <2>1 DEF SessionOK, sessionVars
<1> QED
  BY <1>1, <1>2, <1>3, <1>4, <1>5, <1>6, <1>7, <1>8, <1>9, <1>10, <1>11, <1>12
  DEF Next, SessionStep, ClientStep

(* Every step keeps the types of the server. *)
LEMMA ServerTypeStep == TypeOK /\ [Next]_vars => ServerOK'
<1> SUFFICES ASSUME ServerOK, SessionOK, [Next]_vars PROVE ServerOK'
  BY TypeParts
<1> USE CapAssumption, LimitsAssumption
<1>1. ASSUME NEW s \in Sessions, BrowserDials(s) PROVE ServerOK'
  BY <1>1 DEF BrowserDials, Free, Upgrade, ServerOK, serverVars
<1>2. ASSUME CancelServer PROVE ServerOK'
  BY <1>2 DEF CancelServer, ServerOK, serverVars
<1>3. ASSUME CollectGarbageConnections PROVE ServerOK'
  BY <1>3 DEF CollectGarbageConnections, ServerOK, SessionOK, serverVars
<1>4. ASSUME ShutdownServer PROVE ServerOK'
  BY <1>4 DEF ShutdownServer, ServerOK, serverVars
<1>5. ASSUME NEW s \in Sessions, Dial(s) PROVE ServerOK'
  BY <1>5 DEF Dial, Free, ClientStarts, Upgrade, Greeting, DialFails, NotConnected,
     ServerOK, serverVars
<1>6. CASE (\E s \in Sessions : Break(s) \/ BrowserSends(s) \/ ReadMessage(s) \/
          ReadUnexpectedClose(s) \/ ReadPanics(s) \/ ReadFails(s) \/ Send(s) \/
          WaitForPump(s) \/ PumpLeaves(s) \/ PumpWrites(s) \/ ClientReads(s) \/
          ClientReadFails(s) \/ ClientSends(s) \/ ClientCloses(s) \/ ClientPump(s))
          \/ DoClientApp \/ CancelClient \/ UNCHANGED vars
  <2>1. UNCHANGED serverVars
    BY <1>6 DEF Break, BrowserSends, Frames, ReadMessage, Incoming, WillSend,
       ReadUnexpectedClose, ReadPanics, Deferred, Forget, ReadFails, Send,
       WaitForPump, PumpLeaves, PumpOff, PumpWrites, IsLast, ClientReads,
       ClientReadFails, ClientSends, ClientCloses, ClientPump, DoClientApp,
       CancelClient, vars, netVars, sessionVars, serverVars, clientVars
  <2> QED
    BY <2>1 DEF ServerOK, serverVars
<1> QED
  BY <1>1, <1>2, <1>3, <1>4, <1>5, <1>6
  DEF Next, SessionStep, ClientStep

(* Every step keeps the types of the client. *)
LEMMA ClientTypeStep == TypeOK /\ [Next]_vars => ClientOK'
<1> SUFFICES ASSUME ClientOK, [Next]_vars PROVE ClientOK'
  BY TypeParts
<1> USE CapAssumption, LimitsAssumption
<1>1. ASSUME NEW s \in Sessions, Dial(s) PROVE ClientOK'
  BY <1>1 DEF Dial, Free, ClientStarts, Upgrade, Greeting, DialFails, NotConnected,
     ClientOK, clientVars
<1>2. ASSUME NEW s \in Sessions, ClientReads(s) PROVE ClientOK'
  BY <1>2 DEF ClientReads, ClientOK, clientVars
<1>3. ASSUME NEW s \in Sessions, ClientReadFails(s) PROVE ClientOK'
  BY <1>3 DEF ClientReadFails, ClientOK, clientVars
<1>4. ASSUME NEW s \in Sessions, ClientSends(s) PROVE ClientOK'
  BY <1>4 DEF ClientSends, ClientOK, clientVars
<1>5. ASSUME NEW s \in Sessions, ClientCloses(s) PROVE ClientOK'
  BY <1>5 DEF ClientCloses, ClientOK, clientVars
<1>6. ASSUME NEW s \in Sessions, ClientPump(s) PROVE ClientOK'
  BY <1>6 DEF ClientPump, ClientOK, clientVars
<1>7. ASSUME DoClientApp PROVE ClientOK'
  BY <1>7 DEF DoClientApp, ClientOK, clientVars
<1>8. ASSUME CancelClient PROVE ClientOK'
  BY <1>8 DEF CancelClient, ClientOK, clientVars
<1>9. CASE (\E s \in Sessions : Break(s) \/ BrowserDials(s) \/ BrowserSends(s) \/
          ReadMessage(s) \/ ReadUnexpectedClose(s) \/ ReadPanics(s) \/ ReadFails(s)
          \/ Send(s) \/ WaitForPump(s) \/ PumpLeaves(s) \/ PumpWrites(s)) \/
          CancelServer \/ CollectGarbageConnections \/ ShutdownServer \/ UNCHANGED
          vars
  <2>1. UNCHANGED clientVars
    BY <1>9 DEF Break, BrowserDials, Free, Upgrade, BrowserSends, Frames,
       ReadMessage, Incoming, WillSend, ReadUnexpectedClose, ReadPanics, Deferred,
       Forget, ReadFails, Send, WaitForPump, PumpLeaves, PumpOff, PumpWrites,
       IsLast, CancelServer, CollectGarbageConnections, ShutdownServer, vars,
       netVars, sessionVars, serverVars, clientVars
  <2> QED
    BY <2>1 DEF ClientOK, clientVars
<1> QED
  BY <1>1, <1>2, <1>3, <1>4, <1>5, <1>6, <1>7, <1>8, <1>9
  DEF Next, SessionStep, ClientStep

(* Every step keeps the types. *)
LEMMA TypeStep == TypeOK /\ [Next]_vars => TypeOK'
<1>1. NetOK' /\ SessionOK' /\ ServerOK' /\ ClientOK' => TypeOK'
  BY Zenon DEF TypeOK, NetOK, SessionOK, ServerOK, ClientOK
<1> QED
  BY <1>1, NetTypeStep, SessionTypeStep, ServerTypeStep, ClientTypeStep

(* Every step keeps the hub in step with the handlers. *)
LEMMA HubStep == TypeOK /\ HubHoldsLive /\ Sweep /\ [Next]_vars => HubHoldsLive' /\ Sweep'
<1> SUFFICES ASSUME TypeOK, HubHoldsLive, Sweep, [Next]_vars PROVE HubHoldsLive' /\ Sweep'
  OBVIOUS
<1> USE DEF TypeOK, HubHoldsLive, Sweep, netVars, sessionVars, serverVars, clientVars
<1>1. ASSUME NEW s \in Sessions, Break(s) PROVE HubHoldsLive' /\ Sweep'
  BY <1>1 DEF Break
<1>2. ASSUME NEW s \in Sessions, BrowserDials(s) PROVE HubHoldsLive' /\ Sweep'
  BY <1>2 DEF BrowserDials, Free, Upgrade
<1>3. ASSUME NEW s \in Sessions, BrowserSends(s) PROVE HubHoldsLive' /\ Sweep'
  BY <1>3 DEF BrowserSends, Frames
<1>4. ASSUME NEW s \in Sessions, ReadMessage(s) PROVE HubHoldsLive' /\ Sweep'
  BY <1>4 DEF ReadMessage, Incoming, WillSend
<1>5. ASSUME NEW s \in Sessions, ReadUnexpectedClose(s) PROVE HubHoldsLive' /\ Sweep'
  BY <1>5 DEF ReadUnexpectedClose, Incoming, WillSend
<1>6. ASSUME NEW s \in Sessions, ReadPanics(s) PROVE HubHoldsLive' /\ Sweep'
  BY <1>6 DEF ReadPanics, Deferred, Forget
<1>7. ASSUME NEW s \in Sessions, ReadFails(s) PROVE HubHoldsLive' /\ Sweep'
  BY <1>7 DEF ReadFails
<1>8. ASSUME NEW s \in Sessions, Send(s) PROVE HubHoldsLive' /\ Sweep'
  BY <1>8 DEF Send
<1>9. ASSUME NEW s \in Sessions, WaitForPump(s) PROVE HubHoldsLive' /\ Sweep'
  BY <1>9 DEF WaitForPump, Deferred, Forget
<1>10. ASSUME NEW s \in Sessions, PumpLeaves(s) PROVE HubHoldsLive' /\ Sweep'
  BY <1>10 DEF PumpLeaves, PumpOff
<1>11. ASSUME NEW s \in Sessions, PumpWrites(s) PROVE HubHoldsLive' /\ Sweep'
  BY <1>11 DEF PumpWrites, IsLast
<1>12. ASSUME NEW s \in Sessions, Dial(s) PROVE HubHoldsLive' /\ Sweep'
  <2>1. CASE ClientStarts(s)
    BY <1>12, <2>1 DEF Dial, ClientStarts, Upgrade
  <2>2. CASE DialFails(s)
    BY <1>12, <2>2 DEF Dial, DialFails, NotConnected
  <2> QED
    BY <1>12, <2>1, <2>2 DEF Dial
<1>13. ASSUME NEW s \in Sessions, ClientReads(s) PROVE HubHoldsLive' /\ Sweep'
  BY <1>13 DEF ClientReads
<1>14. ASSUME NEW s \in Sessions, ClientReadFails(s) PROVE HubHoldsLive' /\ Sweep'
  BY <1>14 DEF ClientReadFails
<1>15. ASSUME NEW s \in Sessions, ClientSends(s) PROVE HubHoldsLive' /\ Sweep'
  BY <1>15 DEF ClientSends
<1>16. ASSUME NEW s \in Sessions, ClientCloses(s) PROVE HubHoldsLive' /\ Sweep'
  BY <1>16 DEF ClientCloses
<1>17. ASSUME NEW s \in Sessions, ClientPump(s) PROVE HubHoldsLive' /\ Sweep'
  BY <1>17 DEF ClientPump
<1>18. ASSUME CancelServer PROVE HubHoldsLive' /\ Sweep'
  BY <1>18 DEF CancelServer
<1>19. ASSUME CollectGarbageConnections PROVE HubHoldsLive' /\ Sweep'
  BY <1>19 DEF CollectGarbageConnections
<1>20. ASSUME ShutdownServer PROVE HubHoldsLive' /\ Sweep'
  BY <1>20 DEF ShutdownServer
<1>21. ASSUME DoClientApp PROVE HubHoldsLive' /\ Sweep'
  BY <1>21 DEF DoClientApp
<1>22. ASSUME CancelClient PROVE HubHoldsLive' /\ Sweep'
  BY <1>22 DEF CancelClient
<1>23. CASE UNCHANGED vars
  BY <1>23 DEF vars
<1> QED
  BY <1>1, <1>2, <1>3, <1>4, <1>5, <1>6, <1>7, <1>8, <1>9, <1>10, <1>11, <1>12,
     <1>13, <1>14, <1>15, <1>16, <1>17, <1>18, <1>19, <1>20, <1>21, <1>22, <1>23
  DEF Next, SessionStep, ClientStep

LEMMA SendingRange == \A r : Sending(r) \in Nat
BY DEF Sending

(* The client dials only when no connection of it is up; a session with it  *)
(* keeps its shape.                                                         *)
LEMMA ExchangeStep ==
    ASSUME TypeOK, ClientInv, peer = "client", [Next]_vars
    PROVE  Dialling' /\ \A t \in Sessions : Exchange(t)'
<1> DEFINE Goal == Dialling' /\ \A t \in Sessions : Exchange(t)'
<1>0. Dialling /\ \A t \in Sessions : Exchange(t)
  BY DEF ClientInv
<1>0a. /\ current \in Sessions /\ link \in [Sessions -> {"none", "up", "down"}]
       /\ toServer \in [Sessions -> Seq(Frames)] /\ toClient \in [Sessions -> Nat]
       /\ failed \in [Sessions -> 0 .. ReadLimit]
       /\ reader \in [Sessions -> {"none", "reading", "sending", "closing", "done"}]
       /\ errChan \in [Sessions -> {"empty", "error", "closed"}]
       /\ cReader \in [Sessions -> {"none", "reading", "sending", "closing", "done"}]
  BY DEF TypeOK
<1> USE DEF netVars, sessionVars, serverVars, clientVars
<1>1. ASSUME NEW s \in Sessions, Break(s) PROVE Goal
  <2>1. Dialling'
    BY <1>0, <1>0a, <1>1 DEF Break, Dialling
  <2>2. ASSUME NEW t \in Sessions PROVE Exchange(t)'
    <3>1. CASE t # s
      BY <1>0, <1>0a, <1>1, <3>1 DEF Break, Exchange
    <3>2. CASE t = s
      BY <1>0, <1>0a, <1>1, <3>2 DEF Break, Exchange, Dialling
    <3> QED
      BY <3>1, <3>2
  <2> QED
    BY <2>1, <2>2
<1>2. ASSUME NEW s \in Sessions, BrowserDials(s) PROVE Goal
  BY <1>2 DEF BrowserDials
<1>3. ASSUME NEW s \in Sessions, BrowserSends(s) PROVE Goal
  BY <1>3 DEF BrowserSends
<1>4. ASSUME NEW s \in Sessions, ReadMessage(s) PROVE Goal
  <2>1. Dialling'
    BY <1>0, <1>0a, <1>4 DEF ReadMessage, Incoming, WillSend, Dialling
  <2>2. ASSUME NEW t \in Sessions PROVE Exchange(t)'
    <3>1. CASE t # s
      BY <1>0, <1>0a, <1>4, <3>1 DEF ReadMessage, Incoming, WillSend, Exchange
    <3>2. CASE t = s
      BY <1>0, <1>0a, <1>4, <3>2 DEF ReadMessage, Incoming, WillSend, Exchange,
         Dialling
    <3> QED
      BY <3>1, <3>2
  <2> QED
    BY <2>1, <2>2
<1>5. ASSUME NEW s \in Sessions, ReadUnexpectedClose(s) PROVE Goal
  <2>1. failed[s] = 0 /\ toServer[s] \in Seq({"ok"})
    BY <1>0 DEF Exchange
  <2>2. toServer[s] # <<>> /\ Head(toServer[s]) = "close"
    BY <1>5, <2>1, LimitsAssumption DEF ReadUnexpectedClose, Incoming
  <2> QED
    BY <2>1, <2>2
<1>6. ASSUME NEW s \in Sessions, ReadPanics(s) PROVE Goal
  <2>1. Dialling'
    BY <1>0, <1>0a, <1>6 DEF ReadPanics, Deferred, Forget, Dialling
  <2>2. ASSUME NEW t \in Sessions PROVE Exchange(t)'
    <3>1. CASE t # s
      BY <1>0, <1>0a, <1>6, <3>1 DEF ReadPanics, Deferred, Forget, Exchange
    <3>2. CASE t = s
      BY <1>0, <1>0a, <1>6, <3>2 DEF ReadPanics, Deferred, Forget, Exchange,
         Dialling
    <3> QED
      BY <3>1, <3>2
  <2> QED
    BY <2>1, <2>2
<1>7. ASSUME NEW s \in Sessions, ReadFails(s) PROVE Goal
  <2>1. Dialling'
    BY <1>0, <1>0a, <1>7 DEF ReadFails, Dialling
  <2>2. ASSUME NEW t \in Sessions PROVE Exchange(t)'
    <3>1. CASE t # s
      BY <1>0, <1>0a, <1>7, <3>1 DEF ReadFails, Exchange
    <3>2. CASE t = s
      BY <1>0, <1>0a, <1>7, <3>2 DEF ReadFails, Exchange, Dialling
    <3> QED
      BY <3>1, <3>2
  <2> QED
    BY <2>1, <2>2
<1>8. ASSUME NEW s \in Sessions, Send(s) PROVE Goal
  <2>1. Dialling'
    BY <1>0, <1>0a, <1>8 DEF Send, Dialling
  <2>2. ASSUME NEW t \in Sessions PROVE Exchange(t)'
    <3>1. CASE t # s
      BY <1>0, <1>0a, <1>8, <3>1 DEF Send, Exchange
    <3>2. CASE t = s
      BY <1>0, <1>0a, <1>8, <3>2 DEF Send, Exchange, Dialling
    <3> QED
      BY <3>1, <3>2
  <2> QED
    BY <2>1, <2>2
<1>9. ASSUME NEW s \in Sessions, WaitForPump(s) PROVE Goal
  <2>1. Dialling'
    BY <1>0, <1>0a, <1>9 DEF WaitForPump, Deferred, Forget, Dialling
  <2>2. ASSUME NEW t \in Sessions PROVE Exchange(t)'
    <3>1. CASE t # s
      BY <1>0, <1>0a, <1>9, <3>1 DEF WaitForPump, Deferred, Forget, Exchange
    <3>2. CASE t = s
      BY <1>0, <1>0a, <1>9, <3>2 DEF WaitForPump, Deferred, Forget, Exchange,
         Dialling
    <3> QED
      BY <3>1, <3>2
  <2> QED
    BY <2>1, <2>2
<1>10. ASSUME NEW s \in Sessions, PumpLeaves(s) PROVE Goal
  <2>1. Dialling'
    BY <1>0, <1>0a, <1>10 DEF PumpLeaves, PumpOff, Dialling
  <2>2. ASSUME NEW t \in Sessions PROVE Exchange(t)'
    <3>1. CASE t # s
      BY <1>0, <1>0a, <1>10, <3>1 DEF PumpLeaves, PumpOff, Exchange
    <3>2. CASE t = s
      BY <1>0, <1>0a, <1>10, <3>2 DEF PumpLeaves, PumpOff, Exchange, Dialling
    <3> QED
      BY <3>1, <3>2
  <2> QED
    BY <2>1, <2>2
<1>11. ASSUME NEW s \in Sessions, PumpWrites(s) PROVE Goal
  <2>1. Dialling'
    BY <1>0, <1>0a, <1>11 DEF PumpWrites, IsLast, Dialling
  <2>2. ASSUME NEW t \in Sessions PROVE Exchange(t)'
    <3>1. CASE t # s
      BY <1>0, <1>0a, <1>11, <3>1 DEF PumpWrites, IsLast, Exchange
    <3>2. CASE t = s
      BY <1>0, <1>0a, <1>11, <3>2 DEF PumpWrites, IsLast, Exchange, Dialling
    <3> QED
      BY <3>1, <3>2
  <2> QED
    BY <2>1, <2>2
<1>12. ASSUME NEW s \in Sessions, Dial(s) PROVE Goal
  <2>1. Dialling'
    BY <1>0, <1>0a, <1>12 DEF Dial, Free, ClientStarts, Upgrade, Greeting,
       DialFails, NotConnected, Dialling, Exchange
  <2>2. ASSUME NEW t \in Sessions PROVE Exchange(t)'
    BY <1>0, <1>0a, <1>12, <2>2 DEF Dial, Free, ClientStarts, Upgrade, Greeting,
       DialFails, NotConnected, Exchange, Dialling
  <2> QED
    BY <2>1, <2>2
<1>13. ASSUME NEW s \in Sessions, ClientReads(s) PROVE Goal
  <2>1. Dialling'
    BY <1>0, <1>0a, <1>13 DEF ClientReads, Dialling
  <2>2. ASSUME NEW t \in Sessions PROVE Exchange(t)'
    <3>1. CASE t # s
      BY <1>0, <1>0a, <1>13, <3>1 DEF ClientReads, Exchange
    <3>2. CASE t = s
      BY <1>0, <1>0a, <1>13, <3>2 DEF ClientReads, Exchange, Dialling
    <3> QED
      BY <3>1, <3>2
  <2> QED
    BY <2>1, <2>2
<1>14. ASSUME NEW s \in Sessions, ClientReadFails(s) PROVE Goal
  <2>1. Dialling'
    BY <1>0, <1>0a, <1>14 DEF ClientReadFails, Dialling
  <2>2. ASSUME NEW t \in Sessions PROVE Exchange(t)'
    <3>1. CASE t # s
      BY <1>0, <1>0a, <1>14, <3>1 DEF ClientReadFails, Exchange
    <3>2. CASE t = s
      BY <1>0, <1>0a, <1>14, <3>2 DEF ClientReadFails, Exchange, Dialling
    <3> QED
      BY <3>1, <3>2
  <2> QED
    BY <2>1, <2>2
<1>15. ASSUME NEW s \in Sessions, ClientSends(s) PROVE Goal
  <2>1. Dialling'
    BY <1>0, <1>0a, <1>15 DEF ClientSends, Dialling
  <2>2. ASSUME NEW t \in Sessions PROVE Exchange(t)'
    <3>1. CASE t # s
      BY <1>0, <1>0a, <1>15, <3>1 DEF ClientSends, Exchange
    <3>2. CASE t = s
      BY <1>0, <1>0a, <1>15, <3>2 DEF ClientSends, Exchange, Dialling
    <3> QED
      BY <3>1, <3>2
  <2> QED
    BY <2>1, <2>2
<1>16. ASSUME NEW s \in Sessions, ClientCloses(s) PROVE Goal
  <2>1. Dialling'
    BY <1>0, <1>0a, <1>16 DEF ClientCloses, Dialling
  <2>2. ASSUME NEW t \in Sessions PROVE Exchange(t)'
    <3>1. CASE t # s
      BY <1>0, <1>0a, <1>16, <3>1 DEF ClientCloses, Exchange
    <3>2. CASE t = s
      BY <1>0, <1>0a, <1>16, <3>2 DEF ClientCloses, Exchange, Dialling
    <3> QED
      BY <3>1, <3>2
  <2> QED
    BY <2>1, <2>2
<1>17. ASSUME NEW s \in Sessions, ClientPump(s) PROVE Goal
  <2>1. Dialling'
    BY <1>0, <1>0a, <1>17 DEF ClientPump, Dialling
  <2>2. ASSUME NEW t \in Sessions PROVE Exchange(t)'
    <3>1. UNCHANGED <<link, toClient, failed, reader, app, current, cReader, cFather>>
      BY <1>17 DEF ClientPump
    <3>2. CASE toServer' = toServer
      BY <1>0, <3>1, <3>2 DEF Exchange
    <3>3. CASE link[s] = "up" /\ toServer' = [toServer EXCEPT ![s] = Append(@, "ok")]
      <4>1. Append(toServer[s], "ok") \in Seq({"ok"})
        BY <1>0 DEF Exchange
      <4> QED
        BY <1>0, <1>0a, <3>1, <3>3, <4>1 DEF Exchange
    <3> QED
      BY <1>17, <3>2, <3>3 DEF ClientPump
  <2> QED
    BY <2>1, <2>2
<1>18. ASSUME CancelServer PROVE Goal
  <2>1. Dialling'
    BY <1>0, <1>0a, <1>18 DEF CancelServer, Dialling, Exchange
  <2>2. ASSUME NEW t \in Sessions PROVE Exchange(t)'
    BY <1>0, <1>0a, <1>18, <2>2 DEF CancelServer, Exchange, Dialling
  <2> QED
    BY <2>1, <2>2
<1>19. ASSUME CollectGarbageConnections PROVE Goal
  <2>1. Dialling'
    BY <1>0, <1>0a, <1>19 DEF CollectGarbageConnections, Dialling, Exchange
  <2>2. ASSUME NEW t \in Sessions PROVE Exchange(t)'
    BY <1>0, <1>0a, <1>19, <2>2 DEF CollectGarbageConnections, Exchange, Dialling
  <2> QED
    BY <2>1, <2>2
<1>20. ASSUME ShutdownServer PROVE Goal
  <2>1. Dialling'
    BY <1>0, <1>0a, <1>20 DEF ShutdownServer, Dialling, Exchange
  <2>2. ASSUME NEW t \in Sessions PROVE Exchange(t)'
    BY <1>0, <1>0a, <1>20, <2>2 DEF ShutdownServer, Exchange, Dialling
  <2> QED
    BY <2>1, <2>2
<1>21. ASSUME DoClientApp PROVE Goal
  <2>1. Dialling'
    BY <1>0, <1>0a, <1>21 DEF DoClientApp, Dialling, Exchange
  <2>2. ASSUME NEW t \in Sessions PROVE Exchange(t)'
    BY <1>0, <1>0a, <1>21, <2>2 DEF DoClientApp, Exchange, Dialling
  <2> QED
    BY <2>1, <2>2
<1>22. ASSUME CancelClient PROVE Goal
  <2>1. Dialling'
    BY <1>0, <1>0a, <1>22 DEF CancelClient, Dialling, Exchange
  <2>2. ASSUME NEW t \in Sessions PROVE Exchange(t)'
    BY <1>0, <1>0a, <1>22, <2>2 DEF CancelClient, Exchange, Dialling
  <2> QED
    BY <2>1, <2>2
<1>23. CASE UNCHANGED vars
  BY <1>0, <1>23 DEF vars, Dialling, Exchange
<1> QED
  BY <1>1, <1>2, <1>3, <1>4, <1>5, <1>6, <1>7, <1>8, <1>9, <1>10, <1>11, <1>12,
     <1>13, <1>14, <1>15, <1>16, <1>17, <1>18, <1>19, <1>20, <1>21, <1>22, <1>23
  DEF Next, SessionStep, ClientStep

(* Every step keeps at most one message on its way between the server and   *)
(* the client: it hands the message on, or loses it; a new one is made only *)
(* by a client that dials, when there is no other.                          *)
LEMMA LoadStep ==
    ASSUME TypeOK, ClientInv, peer = "client", [Next]_vars, NEW t \in Sessions
    PROVE  (Load(t) <= 1)'
<1> DEFINE Same == /\ Inbound(t)' = Inbound(t) /\ Outbound(t)' = Outbound(t)
                   /\ Queued(t)' = Queued(t) /\ CQueued(t)' = CQueued(t)
                   /\ InLoop(t)' = InLoop(t) /\ InCLoop(t)' = InCLoop(t)
<1>a. Exchange(t) /\ Dialling
  BY DEF ClientInv
<1>b. /\ current \in Sessions /\ toServer \in [Sessions -> Seq(Frames)]
      /\ toClient \in [Sessions -> Nat] /\ responses \in [Sessions -> Nat]
      /\ reader \in [Sessions -> {"none", "reading", "sending", "closing", "done"}]
      /\ cResponses \in [Sessions -> Nat]
      /\ cReader \in [Sessions -> {"none", "reading", "sending", "closing", "done"}]
  BY CapAssumption DEF TypeOK
<1>c. /\ Inbound(t) \in Nat /\ Outbound(t) \in Nat /\ Queued(t) \in Nat
      /\ CQueued(t) \in Nat /\ InLoop(t) \in Nat /\ InCLoop(t) \in Nat
  BY <1>b, SendingRange DEF Inbound, Outbound, Queued, CQueued, InLoop, InCLoop
<1>d. Load(t) <= 1
  BY DEF ClientInv
<1>e. ASSUME Same PROVE (Load(t) <= 1)'
  BY <1>d, <1>e DEF Load
<1> USE DEF netVars, sessionVars, serverVars, clientVars
<1>1. ASSUME NEW s \in Sessions, Break(s) PROVE (Load(t) <= 1)'
  <2>1. CASE t # s
    <3>1. Same
      BY <1>1, <1>b, <2>1 DEF Break, Inbound, Outbound, Queued, CQueued, InLoop,
         InCLoop
    <3> QED
      BY <1>e, <3>1
  <2>2. CASE t = s
    <3>1. Inbound(t)' = 0 /\ Outbound(t)' = 0
      BY <1>1, <1>b, <2>2 DEF Break, Inbound, Outbound
    <3>2. /\ Queued(t)' = Queued(t) /\ CQueued(t)' = CQueued(t)
          /\ InLoop(t)' = InLoop(t) /\ InCLoop(t)' = InCLoop(t)
      BY <1>1, <1>b, <2>2 DEF Break, Queued, CQueued, InLoop, InCLoop
    <3> QED
      BY <1>c, <1>d, <3>1, <3>2 DEF Load
  <2> QED
    BY <2>1, <2>2
<1>2. ASSUME NEW s \in Sessions, BrowserDials(s) PROVE (Load(t) <= 1)'
  BY <1>2 DEF BrowserDials
<1>3. ASSUME NEW s \in Sessions, BrowserSends(s) PROVE (Load(t) <= 1)'
  BY <1>3 DEF BrowserSends
<1>4. ASSUME NEW s \in Sessions, ReadMessage(s) PROVE (Load(t) <= 1)'
  <2>1. CASE t # s
    <3>1. Same
      BY <1>4, <1>b, <2>1 DEF ReadMessage, Incoming, WillSend, Inbound, Outbound,
         Queued, CQueued, InLoop, InCLoop
    <3> QED
      BY <1>e, <3>1
  <2>2. CASE t = s
    <3>1. Inbound(t)' = Inbound(t) - 1 /\ InLoop(t) = 0 /\ InLoop(t)' = 1
      BY <1>4, <1>b, <2>2 DEF ReadMessage, Incoming, WillSend, Inbound, InLoop,
         Sending
    <3>2. /\ Outbound(t)' = Outbound(t) /\ Queued(t)' = Queued(t)
          /\ CQueued(t)' = CQueued(t) /\ InCLoop(t)' = InCLoop(t)
      BY <1>4, <1>b, <2>2 DEF ReadMessage, Incoming, WillSend, Outbound, Queued,
         CQueued, InCLoop
    <3> QED
      BY <1>c, <1>d, <3>1, <3>2 DEF Load
  <2> QED
    BY <2>1, <2>2
<1>5. ASSUME NEW s \in Sessions, ReadUnexpectedClose(s) PROVE (Load(t) <= 1)'
  <2>1. CASE t # s
    <3>1. Same
      BY <1>5, <1>b, <2>1 DEF ReadUnexpectedClose, WillSend, Inbound, Outbound,
         Queued, CQueued,
                        InLoop, InCLoop
    <3> QED
      BY <1>e, <3>1
  <2>2. CASE t = s
    <3>1. toServer[s] # <<>> /\ Head(toServer[s]) = "close"
      BY <1>5, <1>a, <2>2, LimitsAssumption DEF ReadUnexpectedClose, Incoming, Exchange
    <3> QED
      BY <1>a, <2>2, <3>1 DEF Exchange
  <2> QED
    BY <2>1, <2>2
<1>6. ASSUME NEW s \in Sessions, ReadPanics(s) PROVE (Load(t) <= 1)'
  <2>1. CASE t # s
    <3>1. Same
      BY <1>6, <1>b, <2>1 DEF ReadPanics, Deferred, Forget, Inbound, Outbound,
         Queued, CQueued, InLoop, InCLoop
    <3> QED
      BY <1>e, <3>1
  <2>2. CASE t = s
    <3>1. /\ Inbound(t)' = 0 /\ Queued(t)' \in Int /\ Queued(t)' <= Queued(t)
          /\ InLoop(t)' = 0
      BY <1>6, <1>b, <2>2 DEF ReadPanics, Deferred, Forget, Inbound, Queued, InLoop,
         Sending
    <3>2. /\ Outbound(t)' = Outbound(t) /\ CQueued(t)' = CQueued(t)
          /\ InCLoop(t)' = InCLoop(t)
      BY <1>6, <1>b, <2>2 DEF ReadPanics, Deferred, Forget, Outbound, CQueued,
         InCLoop
    <3> QED
      BY <1>c, <1>d, <3>1, <3>2 DEF Load
  <2> QED
    BY <2>1, <2>2
<1>7. ASSUME NEW s \in Sessions, ReadFails(s) PROVE (Load(t) <= 1)'
  <2>1. CASE t # s
    <3>1. Same
      BY <1>7, <1>b, <2>1 DEF ReadFails, Inbound, Outbound, Queued, CQueued, InLoop,
         InCLoop
    <3> QED
      BY <1>e, <3>1
  <2>2. CASE t = s
    <3>1. InLoop(t)' = 0
      BY <1>7, <1>b, <2>2 DEF ReadFails, InLoop, Sending
    <3>2. /\ Inbound(t)' = Inbound(t) /\ Outbound(t)' = Outbound(t)
          /\ Queued(t)' = Queued(t) /\ CQueued(t)' = CQueued(t)
          /\ InCLoop(t)' = InCLoop(t)
      BY <1>7, <1>b, <2>2 DEF ReadFails, Inbound, Outbound, Queued, CQueued, InCLoop
    <3> QED
      BY <1>c, <1>d, <3>1, <3>2 DEF Load
  <2> QED
    BY <2>1, <2>2
<1>8. ASSUME NEW s \in Sessions, Send(s) PROVE (Load(t) <= 1)'
  <2>1. CASE t # s
    <3>1. Same
      BY <1>8, <1>b, <2>1 DEF Send, Inbound, Outbound, Queued, CQueued, InLoop,
         InCLoop
    <3> QED
      BY <1>e, <3>1
  <2>2. CASE t = s
    <3>1. Queued(t)' = Queued(t) + 1 /\ InLoop(t) = 1 /\ InLoop(t)' = 0
      BY <1>8, <1>b, <2>2 DEF Send, Queued, InLoop, Sending
    <3>2. /\ Inbound(t)' = Inbound(t) /\ Outbound(t)' = Outbound(t)
          /\ CQueued(t)' = CQueued(t) /\ InCLoop(t)' = InCLoop(t)
      BY <1>8, <1>b, <2>2 DEF Send, Inbound, Outbound, CQueued, InCLoop
    <3> QED
      BY <1>c, <1>d, <3>1, <3>2 DEF Load
  <2> QED
    BY <2>1, <2>2
<1>9. ASSUME NEW s \in Sessions, WaitForPump(s) PROVE (Load(t) <= 1)'
  <2>1. CASE t # s
    <3>1. Same
      BY <1>9, <1>b, <2>1 DEF WaitForPump, Deferred, Forget, Inbound, Outbound,
         Queued, CQueued, InLoop, InCLoop
    <3> QED
      BY <1>e, <3>1
  <2>2. CASE t = s
    <3>1. /\ Inbound(t)' = 0 /\ Queued(t)' \in Int /\ Queued(t)' <= Queued(t)
          /\ InLoop(t)' = 0
      BY <1>9, <1>b, <2>2 DEF WaitForPump, Deferred, Forget, Inbound, Queued,
         InLoop, Sending
    <3>2. /\ Outbound(t)' = Outbound(t) /\ CQueued(t)' = CQueued(t)
          /\ InCLoop(t)' = InCLoop(t)
      BY <1>9, <1>b, <2>2 DEF WaitForPump, Deferred, Forget, Outbound, CQueued,
         InCLoop
    <3> QED
      BY <1>c, <1>d, <3>1, <3>2 DEF Load
  <2> QED
    BY <2>1, <2>2
<1>10. ASSUME NEW s \in Sessions, PumpLeaves(s) PROVE (Load(t) <= 1)'
  <2>1. Same
    BY <1>10 DEF PumpLeaves, PumpOff, Inbound, Outbound, Queued, CQueued, InLoop,
       InCLoop
  <2> QED
    BY <1>e, <2>1
<1>11. ASSUME NEW s \in Sessions, PumpWrites(s) PROVE (Load(t) <= 1)'
  <2>1. CASE t # s
    <3>1. Same
      BY <1>11, <1>b, <2>1 DEF PumpWrites, IsLast, Inbound, Outbound, Queued,
         CQueued, InLoop, InCLoop
    <3> QED
      BY <1>e, <3>1
  <2>2. CASE t = s
    <3>1. /\ Queued(t)' = Queued(t) - 1 /\ Outbound(t)' \in Int
          /\ Outbound(t)' <= Outbound(t) + 1
      BY <1>11, <1>b, <2>2 DEF PumpWrites, IsLast, Outbound, Queued
    <3>2. /\ Inbound(t)' = Inbound(t) /\ CQueued(t)' = CQueued(t)
          /\ InLoop(t)' = InLoop(t) /\ InCLoop(t)' = InCLoop(t)
      BY <1>11, <1>b, <2>2 DEF PumpWrites, IsLast, Inbound, CQueued, InLoop, InCLoop
    <3> QED
      BY <1>c, <1>d, <3>1, <3>2 DEF Load
  <2> QED
    BY <2>1, <2>2
<1>12. ASSUME NEW s \in Sessions, Dial(s) PROVE (Load(t) <= 1)'
  <2>1. CASE t # s \/ DialFails(s)
    <3>1. Same
      BY <1>12, <1>b, <2>1 DEF Dial, ClientStarts, Upgrade, DialFails, NotConnected,
         Inbound, Outbound, Queued, CQueued, InLoop, InCLoop
    <3> QED
      BY <1>e, <3>1
  <2>2. CASE t = s /\ ClientStarts(s)
    <3>1. Inbound(t)' = 0 /\ Outbound(t)' = 0
      BY <1>12, <1>a, <2>2 DEF Dial, Free, Exchange, Inbound, Outbound
    <3>2. Queued(t)' = 0 /\ CQueued(t)' = 1 /\ InLoop(t)' = 0 /\ InCLoop(t)' = 0
      BY <1>b, <2>2 DEF ClientStarts, Upgrade, Greeting, Queued, CQueued, InLoop,
         InCLoop, Sending
    <3> QED
      BY <3>1, <3>2 DEF Load
  <2> QED
    BY <1>12, <2>1, <2>2 DEF Dial
<1>13. ASSUME NEW s \in Sessions, ClientReads(s) PROVE (Load(t) <= 1)'
  <2>1. CASE t # s
    <3>1. Same
      BY <1>13, <1>b, <2>1 DEF ClientReads, Inbound, Outbound, Queued, CQueued,
         InLoop, InCLoop
    <3> QED
      BY <1>e, <3>1
  <2>2. CASE t = s
    <3>1. /\ Outbound(t)' = Outbound(t) - 1 /\ InCLoop(t) = 0 /\ InCLoop(t)' \in Int
          /\ InCLoop(t)' <= 1
      BY <1>13, <1>b, <2>2 DEF ClientReads, Outbound, InCLoop, Sending
    <3>2. /\ Inbound(t)' = Inbound(t) /\ Queued(t)' = Queued(t)
          /\ CQueued(t)' = CQueued(t) /\ InLoop(t)' = InLoop(t)
      BY <1>13, <1>b, <2>2 DEF ClientReads, Inbound, Queued, CQueued, InLoop
    <3> QED
      BY <1>c, <1>d, <3>1, <3>2 DEF Load
  <2> QED
    BY <2>1, <2>2
<1>14. ASSUME NEW s \in Sessions, ClientReadFails(s) PROVE (Load(t) <= 1)'
  <2>1. CASE t # s
    <3>1. Same
      BY <1>14, <1>b, <2>1 DEF ClientReadFails, Inbound, Outbound, Queued, CQueued,
         InLoop, InCLoop
    <3> QED
      BY <1>e, <3>1
  <2>2. CASE t = s
    <3>1. InCLoop(t)' = 0
      BY <1>14, <1>b, <2>2 DEF ClientReadFails, InCLoop, Sending
    <3>2. /\ Inbound(t)' = Inbound(t) /\ Outbound(t)' = Outbound(t)
          /\ Queued(t)' = Queued(t) /\ CQueued(t)' = CQueued(t)
          /\ InLoop(t)' = InLoop(t)
      BY <1>14, <1>b, <2>2 DEF ClientReadFails, Inbound, Outbound, Queued, CQueued,
         InLoop
    <3> QED
      BY <1>c, <1>d, <3>1, <3>2 DEF Load
  <2> QED
    BY <2>1, <2>2
<1>15. ASSUME NEW s \in Sessions, ClientSends(s) PROVE (Load(t) <= 1)'
  <2>1. CASE t # s
    <3>1. Same
      BY <1>15, <1>b, <2>1 DEF ClientSends, Inbound, Outbound, Queued, CQueued,
         InLoop, InCLoop
    <3> QED
      BY <1>e, <3>1
  <2>2. CASE t = s
    <3>1. CQueued(t)' = CQueued(t) + 1 /\ InCLoop(t) = 1 /\ InCLoop(t)' = 0
      BY <1>15, <1>b, <2>2 DEF ClientSends, CQueued, InCLoop, Sending
    <3>2. /\ Inbound(t)' = Inbound(t) /\ Outbound(t)' = Outbound(t)
          /\ Queued(t)' = Queued(t) /\ InLoop(t)' = InLoop(t)
      BY <1>15, <1>b, <2>2 DEF ClientSends, Inbound, Outbound, Queued, InLoop
    <3> QED
      BY <1>c, <1>d, <3>1, <3>2 DEF Load
  <2> QED
    BY <2>1, <2>2
<1>16. ASSUME NEW s \in Sessions, ClientCloses(s) PROVE (Load(t) <= 1)'
  <2>1. CASE t # s
    <3>1. Same
      BY <1>16, <1>b, <2>1 DEF ClientCloses, Inbound, Outbound, Queued, CQueued,
         InLoop, InCLoop
    <3> QED
      BY <1>e, <3>1
  <2>2. CASE t = s
    <3>1. Outbound(t)' = 0 /\ CQueued(t)' = 0 /\ InCLoop(t)' = 0
      BY <1>16, <1>b, <2>2 DEF ClientCloses, Outbound, CQueued, InCLoop, Sending
    <3>2. Inbound(t)' = Inbound(t) /\ Queued(t)' = Queued(t) /\ InLoop(t)' = InLoop(t)
      BY <1>16, <1>b, <2>2 DEF ClientCloses, Inbound, Queued, InLoop
    <3> QED
      BY <1>c, <1>d, <3>1, <3>2 DEF Load
  <2> QED
    BY <2>1, <2>2
<1>17. ASSUME NEW s \in Sessions, ClientPump(s) PROVE (Load(t) <= 1)'
  <2>1. UNCHANGED <<toClient, responses, reader, cReader>>
    BY <1>17 DEF ClientPump
  <2>2. CASE t # s \/ UNCHANGED <<cResponses, toServer>>
    <3>1. Same
      BY <1>17, <1>b, <2>1, <2>2 DEF ClientPump, Inbound, Outbound, Queued, CQueued,
         InLoop, InCLoop
    <3> QED
      BY <1>e, <3>1
  <2>3. CASE t = s /\ cResponses' = [cResponses EXCEPT ![s] = @ - 1]
    <3>1. CQueued(t)' = CQueued(t) - 1
      BY <1>b, <2>3 DEF CQueued
    <3>2. Inbound(t)' = Inbound(t) \/ Inbound(t)' = Inbound(t) + 1
      <4>1. toServer' = toServer \/ toServer' = [toServer EXCEPT ![s] = Append(@, "ok")]
        BY <1>17 DEF ClientPump
      <4>2. Len(Append(toServer[t], "ok")) = Len(toServer[t]) + 1
        BY <1>a DEF Exchange
      <4> QED
        BY <1>b, <2>3, <4>1, <4>2 DEF Inbound
    <3>3. /\ Outbound(t)' = Outbound(t) /\ Queued(t)' = Queued(t)
          /\ InLoop(t)' = InLoop(t) /\ InCLoop(t)' = InCLoop(t)
      BY <2>1 DEF Outbound, Queued, InLoop, InCLoop
    <3> QED
      BY <1>c, <1>d, <3>1, <3>2, <3>3 DEF Load
  <2> QED
    BY <1>17, <2>2, <2>3 DEF ClientPump
<1>18. ASSUME CancelServer PROVE (Load(t) <= 1)'
  <2>1. Same
    BY <1>18 DEF CancelServer, Inbound, Outbound, Queued, CQueued, InLoop, InCLoop
  <2> QED
    BY <1>e, <2>1
<1>19. ASSUME CollectGarbageConnections PROVE (Load(t) <= 1)'
  <2>1. Inbound(t)' = 0 \/ Inbound(t)' = Inbound(t)
    BY <1>19, <1>b DEF CollectGarbageConnections, Inbound
  <2>2. /\ Outbound(t)' = Outbound(t) /\ Queued(t)' = Queued(t) /\ CQueued(t)' = CQueued(t)
        /\ InLoop(t)' = InLoop(t) /\ InCLoop(t)' = InCLoop(t)
    BY <1>19 DEF CollectGarbageConnections, Outbound, Queued, CQueued, InLoop, InCLoop
  <2> QED
    BY <1>c, <1>d, <2>1, <2>2 DEF Load
<1>20. ASSUME ShutdownServer PROVE (Load(t) <= 1)'
  <2>1. Same
    BY <1>20 DEF ShutdownServer, Inbound, Outbound, Queued, CQueued, InLoop, InCLoop
  <2> QED
    BY <1>e, <2>1
<1>21. ASSUME DoClientApp PROVE (Load(t) <= 1)'
  <2>1. Same
    BY <1>21 DEF DoClientApp, Inbound, Outbound, Queued, CQueued, InLoop, InCLoop
  <2> QED
    BY <1>e, <2>1
<1>22. ASSUME CancelClient PROVE (Load(t) <= 1)'
  <2>1. Same
    BY <1>22 DEF CancelClient, Inbound, Outbound, Queued, CQueued, InLoop, InCLoop
  <2> QED
    BY <1>e, <2>1
<1>23. CASE UNCHANGED vars
  <2>1. Same
    BY <1>23 DEF vars, Inbound, Outbound, Queued, CQueued, InLoop, InCLoop
  <2> QED
    BY <1>e, <2>1
<1> QED
  BY <1>1, <1>2, <1>3, <1>4, <1>5, <1>6, <1>7, <1>8, <1>9, <1>10, <1>11, <1>12,
     <1>13, <1>14, <1>15, <1>16, <1>17, <1>18, <1>19, <1>20, <1>21, <1>22, <1>23
  DEF Next, SessionStep, ClientStep

(* The two readers that are about to send, as OneInFlight counts them. *)
LEMMA Sides ==
    ASSUME NEW r, NEW c
    PROVE  Cardinality({side \in {<<1, r>>, <<2, c>>} : side[2] = "sending"})
             = Sending(r) + Sending(c)
<1> DEFINE S == {side \in {<<1, r>>, <<2, c>>} : side[2] = "sending"}
<1>1. <<1, r>> # <<2, c>>
  OBVIOUS
<1>2. CASE r = "sending" /\ c = "sending"
  <2>1. S = {<<1, r>>} \cup {<<2, c>>}
    BY <1>2
  <2>2. IsFiniteSet({<<1, r>>}) /\ Cardinality({<<1, r>>}) = 1
    BY FS_Singleton, Zenon
  <2>3. Cardinality({<<1, r>>} \cup {<<2, c>>}) =
          IF <<2, c>> \in {<<1, r>>} THEN Cardinality({<<1, r>>}) ELSE Cardinality({<<1, r>>}) + 1
    BY <2>2, FS_AddElement, Zenon
  <2>4. Cardinality(S) = 2
    <3> HIDE DEF S
    <3> QED
      BY <1>1, <2>1, <2>2, <2>3
  <2>5. Sending(r) = 1 /\ Sending(c) = 1
    BY <1>2 DEF Sending
  <2> QED
    BY <2>4, <2>5
<1>3. CASE r = "sending" /\ c # "sending"
  <2>1. S = {<<1, r>>}
    BY <1>3
  <2>2. Cardinality(S) = 1
    BY <2>1, FS_Singleton, Zenon
  <2>3. Sending(r) = 1 /\ Sending(c) = 0
    BY <1>3 DEF Sending
  <2> QED
    BY <2>2, <2>3
<1>4. CASE r # "sending" /\ c = "sending"
  <2>1. S = {<<2, c>>}
    BY <1>4
  <2>2. Cardinality(S) = 1
    BY <2>1, FS_Singleton, Zenon
  <2>3. Sending(r) = 0 /\ Sending(c) = 1
    BY <1>4 DEF Sending
  <2> QED
    BY <2>2, <2>3
<1>5. CASE r # "sending" /\ c # "sending"
  <2>1. S = {}
    BY <1>5
  <2> QED
    BY <1>5, <2>1, FS_EmptySet DEF Sending
<1> QED
  BY <1>2, <1>3, <1>4, <1>5

LEMMA StepIInv == IInv /\ [Next]_vars => IInv'
<1> SUFFICES ASSUME IInv, [Next]_vars PROVE IInv'
  OBVIOUS
<1>1. TypeOK' /\ HubHoldsLive' /\ Sweep'
  BY TypeStep, HubStep DEF IInv
<1>2. peer' = peer
  BY DEF Next, vars, SessionStep, ClientStep, netVars, Break, BrowserDials,
     BrowserSends,
         ReadMessage, ReadUnexpectedClose, ReadPanics, ReadFails, Send, WaitForPump,
         PumpLeaves, PumpWrites, Dial, ClientReads, ClientReadFails, ClientSends,
         ClientCloses, ClientPump, CancelServer, CollectGarbageConnections,
         ShutdownServer, DoClientApp, CancelClient
<1>3. CASE peer = "client"
  BY <1>1, <1>2, <1>3, ExchangeStep, LoadStep DEF IInv, ClientInv
<1>4. CASE peer # "client"
  BY <1>1, <1>2, <1>4 DEF IInv, ClientInv
<1> QED
  BY <1>3, <1>4

LEMMA SpecIInv == Spec => []IInv
BY InitIInv, StepIInv, PTL DEF Spec

(* The channels never hold more than their capacity, in particular, for any *)
(* capacity, and gorilla's count of failed reads never passes its limit     *)
(* (the types of echo_app.go, hub.go and simply_client.go).                 *)
THEOREM SessionsTypeCorrect == Spec => []TypeOK
<1>1. IInv => TypeOK
  BY DEF IInv
<1> QED
  BY <1>1, SpecIInv, PTL

(* The hub (Register, Unregister and CollectGarbageConnections of hub.go)   *)
(* knows exactly the sessions whose handler Ws runs, apart from those whose *)
(* connection the sweep has closed, whatever number of sessions there is.   *)
THEOREM HubIsExact == Spec => []HubHoldsLive
<1>1. IInv => HubHoldsLive
  BY DEF IInv
<1> QED
  BY <1>1, SpecIInv, PTL

(* Between the repository's client and its server one message at most is on *)
(* its way, however often the client reconnects.                            *)
THEOREM ExchangeIsAlternate == Spec => []OneInFlight
<1>1. IInv => OneInFlight
  <2> SUFFICES ASSUME IInv, peer = "client", NEW s \in Sessions
               PROVE  Len(toServer[s]) + toClient[s] + responses[s] + cResponses[s]
                        + Cardinality({side \in {<<1, reader[s]>>, <<2, cReader[s]>>} :
                                        side[2] = "sending"}) <= 1
    BY DEF OneInFlight
  <2>1. Load(s) <= 1
    BY DEF IInv, ClientInv
  <2>2. Cardinality({side \in {<<1, reader[s]>>, <<2, cReader[s]>>} : side[2] = "sending"})
          = Sending(reader[s]) + Sending(cReader[s])
    BY Sides
  <2>3. /\ Len(toServer[s]) \in Nat /\ toClient[s] \in Nat
        /\ responses[s] \in Nat /\ cResponses[s] \in Nat
    BY CapAssumption DEF IInv, TypeOK
  <2>4. Sending(reader[s]) \in Nat /\ Sending(cReader[s]) \in Nat
    BY SendingRange
  <2> QED
    BY <2>1, <2>2, <2>3, <2>4 DEF Load, Inbound, Outbound, Queued, CQueued, InLoop,
       InCLoop
<1> QED
  BY <1>1, SpecIInv, PTL

(* No handler and no read loop of a session with the client waits for room  *)
(* in its channel: the sends without an alternative (echo_app.go 106,       *)
(* simply_client.go 88) never block, whether or not the pump has left.      *)
THEOREM ClientSendsNeverBlock ==
    Spec => [](peer = "client" =>
                 \A s \in Sessions : /\ reader[s] = "sending" => responses[s] < Cap
                                     /\ cReader[s] = "sending" => cResponses[s] < Cap)
<1>1. IInv => (peer = "client" =>
                 \A s \in Sessions : /\ reader[s] = "sending" => responses[s] < Cap
                                     /\ cReader[s] = "sending" => cResponses[s] < Cap)
  <2> SUFFICES ASSUME IInv, peer = "client", NEW s \in Sessions
               PROVE  /\ reader[s] = "sending" => responses[s] < Cap
                      /\ cReader[s] = "sending" => cResponses[s] < Cap
    OBVIOUS
  <2>1. Load(s) <= 1
    BY DEF IInv, ClientInv
  <2>2. /\ Inbound(s) \in Nat /\ Outbound(s) \in Nat /\ Queued(s) \in Nat
        /\ CQueued(s) \in Nat /\ InLoop(s) \in Nat /\ InCLoop(s) \in Nat
    BY CapAssumption, SendingRange
       DEF IInv, TypeOK, Inbound, Outbound, Queued, CQueued, InLoop, InCLoop
  <2>3. Queued(s) + InLoop(s) <= 1 /\ CQueued(s) + InCLoop(s) <= 1
    BY <2>1, <2>2 DEF Load
  <2>4. Cap \in Nat /\ Cap >= 1
    BY CapAssumption
  <2>5. ASSUME reader[s] = "sending" PROVE responses[s] < Cap
    <3>1. InLoop(s) = 1
      BY <2>5 DEF InLoop, Sending
    <3> QED
      BY <2>2, <2>3, <2>4, <3>1 DEF Queued
  <2>6. ASSUME cReader[s] = "sending" PROVE cResponses[s] < Cap
    <3>1. InCLoop(s) = 1
      BY <2>6 DEF InCLoop, Sending
    <3> QED
      BY <2>2, <2>3, <2>4, <3>1 DEF CQueued
  <2> QED
    BY <2>5, <2>6
<1> QED
  BY <1>1, SpecIInv, PTL
=============================================================================
