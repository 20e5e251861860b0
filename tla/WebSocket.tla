----------------------------- MODULE WebSocket ------------------------------
(***************************************************************************)
(* The WebSocket server and the peers that connect to it.  Server: the     *)
(* handler Ws reads a connection and answers through a bounded channel to  *)
(* its WritePump; the hub knows the connections, and the sweep of a Stop   *)
(* closes them.  Peer: either the repository's own client, which reads,    *)
(* echoes through a WritePump of its own and reconnects after every error, *)
(* or a browser, which sends and closes as it likes.                       *)
(***************************************************************************)
EXTENDS Integers, Sequences, FiniteSets

CONSTANTS
    Sessions,       \* connections that may be unfinished at a time
    Cap,            \* capacity of the responses channels (256 in the code)
    ReadLimit,      \* reads of a failed connection before gorilla panics (1000)
    MaxSent         \* bound on the messages a browser sends in one session

ASSUME CapAssumption == Cap \in Nat \ {0}
ASSUME LimitsAssumption == ReadLimit \in Nat \ {0} /\ MaxSent \in Nat
ASSUME SessionsAssumption == Sessions # {}

VARIABLES
    peer,       \* "client" or "browser"
    link,       \* session |-> "none", "up" or "down"
    toServer,   \* session |-> frames on their way to the server
    toClient,   \* session |-> number of frames on their way to the client
    sent,       \* session |-> frames a browser has sent
    \* the server
    reader,     \* session |-> MainLoop of Ws
    answer,     \* session |-> what the reader is about to send to its pump
    failed,     \* session |-> reads of the failed connection
    responses,  \* session |-> the channel
    pump,       \* session |-> "none", "on" or "off"
    hub,        \* the registered sessions
    accepting,  \* the HTTP server is up
    father,     \* the server's context is cancelled
    swept,      \* sessions that CollectGarbageConnections has closed
    collected,  \* it has run
    \* the client
    app,        \* DoClientApp: "dial", "select", "sleep" or "gone"
    current,    \* session whose error channel DoClientApp reads
    errChan,    \* session |-> "empty", "error" or "closed"
    cReader, cPump, cResponses,
    cFather     \* the client's context is cancelled

netVars == <<peer, link, toServer, toClient, sent>>
sessionVars == <<reader, answer, failed, responses, pump, hub>>
serverVars == <<accepting, father, swept, collected>>
clientVars == <<app, current, errChan, cReader, cPump, cResponses, cFather>>
vars == <<netVars, sessionVars, serverVars, clientVars>>

Frames == {"ok", "bad", "close"}        \* "close": a close code the handler does not leave on

Init == /\ peer \in {"client", "browser"}
        /\ link = [s \in Sessions |-> "none"]
        /\ toServer = [s \in Sessions |-> <<>>]
        /\ toClient = [s \in Sessions |-> 0]
        /\ sent = [s \in Sessions |-> 0]
        /\ reader = [s \in Sessions |-> "none"]
        /\ answer = [s \in Sessions |-> "echo"]
        /\ failed = [s \in Sessions |-> 0]
        /\ responses = [s \in Sessions |-> 0]
        /\ pump = [s \in Sessions |-> "none"]
        /\ hub = {}
        /\ accepting = TRUE /\ father = FALSE /\ swept = {} /\ collected = FALSE
        /\ app = "dial" /\ current \in Sessions
        /\ errChan = [s \in Sessions |-> "empty"]
        /\ cReader = [s \in Sessions |-> "none"]
        /\ cPump = [s \in Sessions |-> "none"]
        /\ cResponses = [s \in Sessions |-> 0]
        /\ cFather = FALSE

----------------------------------------------------------------------------
(* The network. *)

(* The goroutines of an earlier connection have ended on both sides: its    *)
(* number is used for the next one.                                         *)
Free(s) == /\ reader[s] \in {"none", "done"} /\ pump[s] # "on"
           /\ cReader[s] \in {"none", "done"} /\ cPump[s] # "on"

(* Upgrade succeeds, and Ws has registered the client and started the pump. *)
Upgrade(s) ==
    /\ accepting
    /\ link' = [link EXCEPT ![s] = "up"]
    /\ hub' = hub \cup {s} /\ swept' = swept \ {s}
    /\ reader' = [reader EXCEPT ![s] = "reading"]
    /\ pump' = [pump EXCEPT ![s] = "on"]
    /\ responses' = [responses EXCEPT ![s] = 0]
    /\ answer' = [answer EXCEPT ![s] = "echo"]

(* A peer or a network that goes away, with what is on its way. *)
Break(s) ==
    /\ link[s] = "up"
    /\ link' = [link EXCEPT ![s] = "down"]
    /\ toServer' = [toServer EXCEPT ![s] = <<>>]
    /\ toClient' = [toClient EXCEPT ![s] = 0]
    /\ UNCHANGED <<peer, sent, sessionVars, serverVars, clientVars>>

BrowserDials(s) ==
    /\ peer = "browser" /\ Free(s)
    /\ Upgrade(s)
    /\ sent' = [sent EXCEPT ![s] = 0]
    /\ UNCHANGED <<peer, toServer, toClient, failed, accepting, father, collected, clientVars>>

BrowserSends(s) ==
    /\ peer = "browser" /\ link[s] = "up" /\ sent[s] < MaxSent
    /\ \E f \in Frames : toServer' = [toServer EXCEPT ![s] = Append(@, f)]
    /\ sent' = [sent EXCEPT ![s] = @ + 1]
    /\ UNCHANGED <<peer, link, toClient, sessionVars, serverVars, clientVars>>

----------------------------------------------------------------------------
(* The server: MainLoop of Ws. *)

WillSend(s, a) == /\ reader' = [reader EXCEPT ![s] = "sending"]
                  /\ answer' = [answer EXCEPT ![s] = a]

Incoming(s) == reader[s] = "reading" /\ failed[s] = 0 /\ toServer[s] # <<>>

(* A frame that decodes to no known route is answered before father is     *)
(* looked at; a message is echoed, or answered by the last close frame.    *)
ReadMessage(s) ==
    /\ Incoming(s) /\ Head(toServer[s]) # "close"
    /\ toServer' = [toServer EXCEPT ![s] = Tail(@)]
    /\ WillSend(s, IF Head(toServer[s]) = "bad" THEN "error"
                   ELSE IF father THEN "last" ELSE "echo")
    /\ UNCHANGED <<peer, link, toClient, sent, failed, responses, pump, hub,
                   serverVars, clientVars>>

(* A close code other than "no status", "abnormal" or "going away" is       *)
(* logged and not left on: the empty message is decoded and answered, and   *)
(* the failed connection is read again, until the library panics.           *)
ReadUnexpectedClose(s) ==
    /\ \/ Incoming(s) /\ Head(toServer[s]) = "close"
       \/ reader[s] = "reading" /\ failed[s] \in 1 .. ReadLimit - 1
    /\ failed' = [failed EXCEPT ![s] = @ + 1]
    /\ WillSend(s, "error")
    /\ UNCHANGED <<netVars, responses, pump, hub, serverVars, clientVars>>

(* What is left of a session that nobody reads any more. *)
Forget(s) == /\ reader' = [reader EXCEPT ![s] = "done"]
             /\ toServer' = [toServer EXCEPT ![s] = <<>>]
             /\ responses' = [responses EXCEPT ![s] = IF pump[s] = "on" THEN @ ELSE 0]
             /\ failed' = [failed EXCEPT ![s] = 0]

(* Mistake: only an orderly end unregisters the client. *)
DeferredNoUnregister(s) ==
    /\ hub' = IF failed[s] > 0 THEN hub ELSE hub \ {s}
    /\ link' = [link EXCEPT ![s] = "down"]
    /\ Forget(s)

(* The deferred functions of Ws. *)
Deferred(s) ==
    /\ hub' = hub \ {s}
    /\ link' = [link EXCEPT ![s] = "down"]
    /\ Forget(s)

(* The panic is recovered, past close(responses) and wg.Wait. *)
ReadPanics(s) ==
    /\ reader[s] = "reading" /\ failed[s] = ReadLimit
    /\ Deferred(s)
    /\ UNCHANGED <<peer, toClient, sent, answer, pump, serverVars, clientVars>>

(* Any other error, the five seconds without a pong included.  A reader that *)
(* leaves its loop closes the channel: it is "closing" until its pump ends.  *)
ReadFails(s) ==
    /\ reader[s] = "reading" /\ failed[s] = 0
    /\ reader' = [reader EXCEPT ![s] = "closing"]
    /\ UNCHANGED <<netVars, answer, failed, responses, pump, hub, serverVars, clientVars>>

(* responses <- ..., with no alternative: it waits for room. *)
Send(s) ==
    /\ reader[s] = "sending" /\ responses[s] < Cap
    /\ responses' = [responses EXCEPT ![s] = @ + 1]
    /\ reader' = [reader EXCEPT ![s] = IF answer[s] = "last" THEN "closing" ELSE "reading"]
    /\ answer' = [answer EXCEPT ![s] = IF @ = "last" THEN "last" ELSE "echo"]
    /\ UNCHANGED <<netVars, failed, pump, hub, serverVars, clientVars>>

WaitForPump(s) ==
    /\ reader[s] = "closing" /\ pump[s] = "off"
    /\ Deferred(s)
    /\ UNCHANGED <<peer, toClient, sent, answer, pump, serverVars, clientVars>>

----------------------------------------------------------------------------
(* The server: WritePump and the hub. *)

PumpOff(s) == pump[s] = "on" /\ pump' = [pump EXCEPT ![s] = "off"]

(* Mistake: a failed ping leaves the select only, as a failed write does. *)
PumpLeavesNoPing(s) ==
    /\ PumpOff(s)
    /\ father \/ (reader[s] = "closing" /\ responses[s] = 0)
    /\ UNCHANGED <<netVars, reader, answer, failed, responses, hub, serverVars, clientVars>>

PumpLeaves(s) ==
    /\ PumpOff(s)
    /\ \/ father
       \/ reader[s] = "closing" /\ responses[s] = 0
       \/ link[s] = "down" \/ failed[s] > 0         \* the ping fails
    /\ UNCHANGED <<netVars, reader, answer, failed, responses, hub,
                   serverVars, clientVars>>

(* The close frame that the reader sends last: the peer reads an error. *)
IsLast(s) == answer[s] = "last" /\ reader[s] = "closing" /\ responses[s] = 1

(* A write error leaves the select only: the pump goes on. *)
PumpWrites(s) ==
    /\ pump[s] = "on" /\ responses[s] > 0
    /\ responses' = [responses EXCEPT ![s] = @ - 1]
    /\ IF link[s] = "up" /\ failed[s] = 0 /\ peer = "client" /\ ~IsLast(s)
         THEN toClient' = [toClient EXCEPT ![s] = @ + 1]
         ELSE UNCHANGED toClient
    /\ UNCHANGED <<peer, link, toServer, sent, reader, answer, failed, pump, hub,
                   serverVars, clientVars>>

CancelServer ==
    /\ ~father
    /\ father' = TRUE
    /\ UNCHANGED <<netVars, sessionVars, accepting, swept, collected, clientVars>>

(* The first shutdown function of cmd/websocket_server; a connection whose  *)
(* Close fails stays in the map.                                            *)
CollectGarbageConnections ==
    /\ father /\ ~collected
    /\ collected' = TRUE
    /\ \E ok \in SUBSET hub : swept' = ok /\ hub' = hub \ ok
    /\ toServer' = [s \in Sessions |-> IF s \in hub THEN <<>> ELSE toServer[s]]
    /\ link' = [s \in Sessions |-> IF s \in hub THEN "down" ELSE link[s]]
    /\ UNCHANGED <<peer, toClient, sent, reader, answer, failed, responses,
                   pump, accepting, father, clientVars>>

(* Then the HTTP servers are shut down, which does not touch hijacked ones. *)
ShutdownServer ==
    /\ collected /\ accepting
    /\ accepting' = FALSE
    /\ UNCHANGED <<netVars, sessionVars, father, swept, collected, clientVars>>

----------------------------------------------------------------------------
(* The client: clientApp and DoClientApp. *)

(* Mistake: the client greets again. *)
GreetingTwice == 2

(* The message that starts the exchange. *)
Greeting == 1

ClientStarts(s) ==
    /\ Upgrade(s)
    /\ cResponses' = [cResponses EXCEPT ![s] = Greeting]
    /\ cReader' = [cReader EXCEPT ![s] = "reading"]
    /\ cPump' = [cPump EXCEPT ![s] = "on"]
    /\ errChan' = [errChan EXCEPT ![s] = "empty"]

NotConnected(s) ==
    /\ link' = [link EXCEPT ![s] = "down"]
    /\ UNCHANGED <<cReader, cPump, cResponses, hub, swept, reader, pump, responses, answer>>

(* Mistake: the error of the dial is not handed on. *)
DialFailsSilently(s) == NotConnected(s) /\ errChan' = [errChan EXCEPT ![s] = "empty"]

DialFails(s) == NotConnected(s) /\ errChan' = [errChan EXCEPT ![s] = "error"]

Dial(s) ==
    /\ peer = "client" /\ app = "dial" /\ Free(s)
    /\ current' = s
    /\ app' = "select"
    /\ ClientStarts(s) \/ DialFails(s)
    /\ UNCHANGED <<peer, toServer, toClient, sent, failed, accepting, father, collected, cFather>>

ClientReads(s) ==
    /\ cReader[s] = "reading" /\ toClient[s] > 0
    /\ toClient' = [toClient EXCEPT ![s] = @ - 1]
    /\ IF cFather
         THEN /\ cReader' = [cReader EXCEPT ![s] = "closing"]
              /\ errChan' = [errChan EXCEPT ![s] = "error"]
         ELSE /\ cReader' = [cReader EXCEPT ![s] = "sending"]
              /\ UNCHANGED errChan
    /\ UNCHANGED <<peer, link, toServer, sent, sessionVars, serverVars,
                   app, current, cPump, cResponses, cFather>>

ClientReadFails(s) ==
    /\ cReader[s] = "reading" /\ link[s] = "down"
    /\ cReader' = [cReader EXCEPT ![s] = "closing"]
    /\ errChan' = [errChan EXCEPT ![s] = "error"]
    /\ UNCHANGED <<netVars, sessionVars, serverVars,
                   app, current, cPump, cResponses, cFather>>

ClientSends(s) ==
    /\ cReader[s] = "sending" /\ cResponses[s] < Cap
    /\ cResponses' = [cResponses EXCEPT ![s] = @ + 1]
    /\ cReader' = [cReader EXCEPT ![s] = "reading"]
    /\ UNCHANGED <<netVars, sessionVars, serverVars,
                   app, current, errChan, cPump, cFather>>

(* The deferred functions, once close(responses) has let the pump end. *)
ClientCloses(s) ==
    /\ cReader[s] = "closing" /\ cPump[s] = "off"
    /\ cReader' = [cReader EXCEPT ![s] = "done"]
    /\ errChan' = [errChan EXCEPT ![s] = IF @ = "empty" THEN "closed" ELSE @]
    /\ cResponses' = [cResponses EXCEPT ![s] = 0]
    /\ toClient' = [toClient EXCEPT ![s] = 0]
    /\ UNCHANGED <<peer, link, toServer, sent, sessionVars, serverVars,
                   app, current, cPump, cFather>>

ClientPump(s) ==
    /\ cPump[s] = "on"
    /\ \/ /\ cFather \/ (cReader[s] = "closing" /\ cResponses[s] = 0)
          /\ cPump' = [cPump EXCEPT ![s] = "off"]
          /\ UNCHANGED <<cResponses, toServer>>
       \/ /\ cResponses[s] > 0
          /\ cResponses' = [cResponses EXCEPT ![s] = @ - 1]
          /\ \/ /\ link[s] = "up"
                /\ toServer' = [toServer EXCEPT ![s] = Append(@, "ok")]
                /\ UNCHANGED cPump
             \/ /\ link[s] = "down"                          \* the write fails, or is lost
                /\ cPump' \in {cPump, [cPump EXCEPT ![s] = "off"]}
                /\ UNCHANGED toServer
    /\ UNCHANGED <<peer, link, toClient, sent, sessionVars, serverVars,
                   app, current, errChan, cReader, cFather>>

(* A closed error channel ends the client; an error is slept on. *)
DoClientApp ==
    /\ \/ app = "select" /\ cFather /\ app' = "gone" /\ UNCHANGED errChan
       \/ /\ app = "select" /\ errChan[current] # "empty"
          /\ app' = IF errChan[current] = "error" THEN "sleep" ELSE "gone"
          /\ errChan' = [errChan EXCEPT ![current] = IF @ = "error" THEN "empty" ELSE @]
       \/ app = "sleep" /\ app' = (IF cFather THEN "gone" ELSE "dial") /\ UNCHANGED errChan
    /\ UNCHANGED <<netVars, sessionVars, serverVars,
                   current, cReader, cPump, cResponses, cFather>>

CancelClient ==
    /\ peer = "client" /\ ~cFather
    /\ cFather' = TRUE
    /\ UNCHANGED <<netVars, sessionVars, serverVars,
                   app, current, errChan, cReader, cPump, cResponses>>

----------------------------------------------------------------------------
SessionStep(s) ==
    \/ ReadMessage(s) \/ ReadUnexpectedClose(s) \/ ReadPanics(s) \/ ReadFails(s)
    \/ Send(s) \/ WaitForPump(s) \/ PumpLeaves(s) \/ PumpWrites(s)

ClientStep(s) ==
    \/ ClientReads(s) \/ ClientReadFails(s) \/ ClientSends(s) \/ ClientCloses(s) \/ ClientPump(s)

Next == \/ \E s \in Sessions : \/ Break(s) \/ BrowserDials(s) \/ BrowserSends(s)
                               \/ SessionStep(s) \/ Dial(s) \/ ClientStep(s)
        \/ CancelServer \/ CollectGarbageConnections \/ ShutdownServer
        \/ DoClientApp \/ CancelClient

Spec == Init /\ [][Next]_vars

(* Runnable goroutines run.  A read fails once the link is down or, with no *)
(* pump to ask for a pong, when its five seconds are over; a ping fails on  *)
(* a connection that is gone.  Nothing makes a peer send, break or stop.    *)
ReadMustFail(s) == (link[s] = "down" \/ pump[s] = "off") /\ ReadFails(s)

FairSpec ==
    /\ Spec
    /\ \A s \in Sessions :
         /\ WF_vars(\/ ReadMessage(s) \/ ReadUnexpectedClose(s) \/ ReadPanics(s)
                    \/ ReadMustFail(s) \/ Send(s) \/ WaitForPump(s))
         /\ WF_vars(PumpWrites(s) \/ PumpLeaves(s))
         /\ WF_vars(ClientReads(s) \/ ClientReadFails(s) \/ ClientSends(s) \/ ClientCloses(s))
         /\ WF_vars(ClientPump(s))
    /\ WF_vars(DoClientApp \/ \E s \in Sessions : Dial(s))

----------------------------------------------------------------------------
(* The reader waits for room in a channel that nobody reads any more. *)
Blocked(s) == reader[s] = "sending" /\ responses[s] = Cap /\ pump[s] = "off"

(* The variables keep their types: the channels never hold more than their  *)
(* capacity, and gorilla's count of failed reads never passes its limit.    *)
TypeOK ==
    /\ peer \in {"client", "browser"}
    /\ link \in [Sessions -> {"none", "up", "down"}]
    /\ toServer \in [Sessions -> Seq(Frames)] /\ toClient \in [Sessions -> Nat]
    /\ sent \in [Sessions -> 0 .. MaxSent] /\ failed \in [Sessions -> 0 .. ReadLimit]
    /\ reader \in [Sessions -> {"none", "reading", "sending", "closing", "done"}]
    /\ answer \in [Sessions -> {"echo", "error", "last"}]
    /\ responses \in [Sessions -> 0 .. Cap] /\ cResponses \in [Sessions -> 0 .. Cap]
    /\ pump \in [Sessions -> {"none", "on", "off"}] /\ cPump \in [Sessions -> {"none", "on", "off"}]
    /\ hub \subseteq Sessions /\ swept \subseteq Sessions
    /\ accepting \in BOOLEAN /\ father \in BOOLEAN /\ collected \in BOOLEAN /\ cFather \in BOOLEAN
    /\ app \in {"dial", "select", "sleep", "gone"} /\ current \in Sessions
    /\ errChan \in [Sessions -> {"empty", "error", "closed"}]
    /\ cReader \in [Sessions -> {"none", "reading", "sending", "closing", "done"}]

(* The hub holds the sessions whose handler runs and no other: until the     *)
(* sweep every one of them, so that the sweep reaches it, and afterwards     *)
(* none whose connection the sweep closed.  A handler that leaves by a panic *)
(* is out of the hub too, and its connection is closed.                      *)
HubHoldsLive ==
    \A s \in Sessions :
        /\ s \in hub => reader[s] \in {"reading", "sending", "closing"}
        /\ reader[s] \in {"reading", "sending", "closing"} => s \in hub \cup swept
        /\ s \in swept \/ reader[s] = "done" => s \notin hub /\ link[s] = "down"

(* The client and the server echo each other: at any moment one message at   *)
(* most is on its way, in a channel, in a loop or on the wire.  So no loop    *)
(* of a session with the client finds its channel full, which is what keeps  *)
(* the sends without an alternative (echo_app.go 85, 93, 98 and 106,          *)
(* simply_client.go 88) from blocking once the pump has left.                *)
OneInFlight ==
    peer = "client" =>
        \A s \in Sessions :
            Len(toServer[s]) + toClient[s] + responses[s] + cResponses[s]
              + Cardinality({side \in {<<1, reader[s]>>, <<2, cReader[s]>>} : side[2] = "sending"}) <= 1

(* A session whose link is lost, or whose server stops, ends, and its pump  *)
(* with it: the handler closes the channel, waits for the pump and leaves;   *)
(* after a panic, which passes both over, the pump's next ping fails.  The   *)
(* one exception is a reader that the answers to a browser have blocked in   *)
(* a full channel after its pump has left: it never ends.                    *)
SessionEnds ==
    \A s \in Sessions :
        (reader[s] # "none" /\ (link[s] = "down" \/ father))
            ~> ((reader[s] = "done" /\ pump[s] = "off") \/ (peer = "browser" /\ Blocked(s)))

(* The client comes back from every connection that is lost or refused: the *)
(* error, whatever it is, is read before the end of its channel, and leads  *)
(* to another attempt.  Only its own cancelled context makes it leave.      *)
ClientReconnects ==
    \A s \in Sessions :
        (peer = "client" /\ current = s /\ link[s] = "down")
            ~> (app = "dial" \/ (app = "gone" /\ cFather))
=============================================================================
