--------------------------- MODULE AmqpConnection ---------------------------
(***************************************************************************)
(* The life of one AMQP connection (connection.go, registry.go): the       *)
(* handshake of Open, the reader and the heartbeater, opening channels,    *)
(* Close, the listeners of NotifyClose, and shutdown, which any of these   *)
(* goroutines may start.  The server and the network are external: the     *)
(* server answers, refuses, closes or goes away at any moment.             *)
(***************************************************************************)
EXTENDS Naturals, Sequences

CONSTANTS
  Users,        \* goroutines that call Channel() once each
  Mechanisms,   \* what the server offers: with and without "PLAIN"
  Closes        \* whether somebody calls Close

Listeners == {"heartbeater", "redial"}

VARIABLES
  opener,       \* Open: "header", "start", "tune", "vhost", "ready", "failed"
  reader,       \* "read", "deadline", "closeWith", in shutdown ("shutdown", or
                \* "failed" after a failed read), "ended"
  heartbeater,  \* "no", "running", "ended"
  deadlines,    \* items in the channel deadlines, which holds one
  user,         \* user -> "idle", "added", "wait", "open", "failed"
  closer,       \* Close: "idle", "wait", "shutdown", "closed"
  channels,     \* the registry
  sendClosed,   \* users whose channel has been shut down
  chErrors,     \* users whose channel holds an error
  removed,      \* what removeAll returned
  shut,         \* shutdown: its progress, and whether it has an error
  spawned,      \* a failed send started `go shutdown`
  errors,       \* the channel errors of the connection holds one
  listener,     \* listener -> "none", "registered", "told", "closed"
  socket,       \* "up", "lost" (the peer closed it), "silent" (the peer cannot be
                \* reached and nothing says so), "closed" (by us)
  wire          \* frames under way from the server

vars == <<opener, reader, heartbeater, deadlines, user, closer, channels, sendClosed, chErrors,
          removed, shut, spawned, errors, listener, socket, wire>>

Init ==
  /\ opener = "header"
  /\ reader = "read" /\ heartbeater = "no" /\ deadlines = 0
  /\ user = [u \in Users |-> "idle"] /\ closer = "idle"
  /\ channels = {} /\ sendClosed = {} /\ chErrors = {} /\ removed = {}
  /\ shut = [pc |-> "none", err |-> FALSE]
  /\ spawned = FALSE /\ errors = FALSE
  /\ listener = [l \in Listeners |-> "none"]
  /\ socket = "up" /\ wire = <<>>

Answer(kind, arg) == [kind |-> kind, arg |-> arg]

(* Connection.send: the write fails on a closed socket and may fail on a   *)
(* lost or silent one; a failure starts a shutdown of its own.    *)
(* answer is what the server will send back, if anything.                  *)
Sent(answer) ==
  /\ socket # "closed"
  /\ wire' = IF socket = "up" THEN wire \o answer ELSE wire
  /\ UNCHANGED spawned
SendFails ==
  /\ socket # "up"
  /\ spawned' = TRUE
  /\ UNCHANGED wire

-----------------------------------------------------------------------------
(* Open. *)

open ==
  /\ opener = "header"
  /\ \/ \E m \in Mechanisms : Sent(<<Answer("start", m)>>) /\ opener' = "start"
     \/ SendFails /\ opener' = "failed"
  /\ UNCHANGED <<reader, heartbeater, deadlines, user, closer, channels, sendClosed, chErrors,
                 removed, shut, errors, listener, socket>>

(* call returns what came on errors, whichever request is waiting; openTune *)
(* and openVhost replace the error by one of their own.                    *)
OpenFails ==
  /\ opener \in {"start", "tune", "vhost"} /\ errors
  /\ errors' = FALSE
  /\ opener' = "failed"
  /\ UNCHANGED <<reader, heartbeater, deadlines, user, closer, channels, sendClosed, chErrors,
                 removed, shut, spawned, listener, socket, wire>>

Received == reader = "read" /\ wire # <<>> /\ reader' = "deadline"

(* The answer wakes the call, which sends the next request.  Nothing can   *)
(* be read in between by anybody else, so the two are one step.            *)
Then(next, answer) ==
  \/ /\ socket # "closed"
     /\ wire' = Tail(wire) \o (IF socket = "up" THEN answer ELSE <<>>)
     /\ opener' = next /\ UNCHANGED spawned
  \/ /\ socket # "up"
     /\ wire' = Tail(wire) /\ spawned' = TRUE /\ opener' = "failed"

pickSASLMechanism(server) == "PLAIN" \in server

openStart ==
  /\ Received /\ opener = "start" /\ Head(wire).kind = "start"
  /\ IF pickSASLMechanism(Head(wire).arg) THEN Then("tune", <<Answer("tune", {})>>)
     ELSE opener' = "failed" /\ wire' = Tail(wire) /\ UNCHANGED spawned
  /\ UNCHANGED <<heartbeater, deadlines, user, closer, channels, sendClosed, chErrors,
                 removed, shut, errors, listener, socket>>

NoNotify == shut.pc = "done"
Unlocked == shut.pc \in {"none", "done"}

NotifyCloseBlindly(l) ==
  /\ Unlocked
  /\ listener' = [listener EXCEPT ![l] = "registered"]

NotifyClose(l) ==
  /\ Unlocked
  /\ listener' = [listener EXCEPT ![l] = IF NoNotify THEN "closed" ELSE "registered"]

(* tune: start the heartbeater, then tune-ok and open.                     *)
openTune ==
  /\ Received /\ opener = "tune" /\ Head(wire).kind = "tune"
  /\ NotifyClose("heartbeater") /\ heartbeater' = "running"
  /\ Then("vhost", <<Answer("open-ok", {})>>)
  /\ UNCHANGED <<deadlines, user, closer, channels, sendClosed, chErrors, removed, shut, errors, socket>>

openVhost ==
  /\ Received /\ opener = "vhost" /\ Head(wire).kind = "open-ok"
  /\ opener' = "ready" /\ wire' = Tail(wire)
  /\ UNCHANGED <<heartbeater, deadlines, user, closer, channels, sendClosed, chErrors,
                 removed, shut, spawned, errors, listener, socket>>

-----------------------------------------------------------------------------
(* Channel(), NotifyClose and Close. *)

add(u) ==
  /\ opener = "ready" /\ user[u] = "idle"
  /\ channels' = channels \cup {u}
  /\ user' = [user EXCEPT ![u] = "added"]
  /\ UNCHANGED <<opener, reader, heartbeater, deadlines, closer, sendClosed, chErrors,
                 removed, shut, spawned, errors, listener, socket, wire>>

(* Channel.open sends channel.open and waits for errors or the answer.     *)
Channel(u) ==
  /\ user[u] = "added"
  /\ \/ /\ u \in sendClosed
        /\ user' = [user EXCEPT ![u] = "failed"]
        /\ UNCHANGED <<wire, spawned>>
     \/ /\ u \notin sendClosed /\ SendFails
        /\ user' = [user EXCEPT ![u] = "failed"]
     \/ /\ u \notin sendClosed /\ Sent(<<Answer("channel.open-ok", u)>>)
        /\ user' = [user EXCEPT ![u] = "wait"]
  /\ UNCHANGED <<opener, reader, heartbeater, deadlines, closer, channels, sendClosed, chErrors,
                 removed, shut, errors, listener, socket>>

ChannelFails(u) ==
  /\ user[u] = "wait" /\ u \in chErrors
  /\ chErrors' = chErrors \ {u}
  /\ user' = [user EXCEPT ![u] = "failed"]
  /\ UNCHANGED <<opener, reader, heartbeater, deadlines, closer, channels, sendClosed,
                 removed, shut, spawned, errors, listener, socket, wire>>

(* redial asks to be notified once its channels are set up, or failed.     *)
Listen ==
  /\ opener = "ready" /\ \A u \in Users : user[u] \in {"open", "failed"}
  /\ listener["redial"] = "none"
  /\ NotifyClose("redial")
  /\ UNCHANGED <<opener, reader, heartbeater, deadlines, user, closer, channels, sendClosed, chErrors,
                 removed, shut, spawned, errors, socket, wire>>

Close ==
  /\ Closes /\ opener = "ready" /\ closer = "idle"
  /\ \/ Sent(<<Answer("close-ok", {})>>) /\ closer' = "wait"
     \/ SendFails /\ closer' = "shutdown"
  /\ UNCHANGED <<opener, reader, heartbeater, deadlines, user, channels, sendClosed, chErrors,
                 removed, shut, errors, listener, socket>>

CloseFails ==
  /\ closer = "wait" /\ errors
  /\ errors' = FALSE
  /\ closer' = "shutdown"
  /\ UNCHANGED <<opener, reader, heartbeater, deadlines, user, channels, sendClosed, chErrors,
                 removed, shut, spawned, listener, socket, wire>>

-----------------------------------------------------------------------------
(* The reader. *)

(* demux of the other frames. *)
ReadCloseOk ==
  /\ Received /\ Head(wire).kind = "close-ok" /\ closer = "wait"
  /\ closer' = "shutdown"
  /\ wire' = Tail(wire)
  /\ UNCHANGED <<opener, heartbeater, deadlines, user, channels, sendClosed, chErrors,
                 removed, shut, spawned, errors, listener, socket>>

ReadClose ==
  /\ reader = "read" /\ wire # <<>> /\ Head(wire).kind = "close"
  /\ reader' = "shutdown"
  /\ wire' = Tail(wire)
  /\ spawned' \in {spawned} \cup {TRUE : x \in {socket} \ {"up"}}
  /\ UNCHANGED <<opener, heartbeater, deadlines, user, closer, channels, sendClosed, chErrors,
                 removed, shut, errors, listener, socket>>

dispatchN ==
  LET u == Head(wire).arg IN
  /\ Received /\ Head(wire).kind = "channel.open-ok"
  /\ u \in channels /\ user[u] = "wait"
  /\ user' = [user EXCEPT ![u] = "open"]
  /\ wire' = Tail(wire)
  /\ UNCHANGED <<opener, heartbeater, deadlines, closer, channels, sendClosed, chErrors,
                 removed, shut, spawned, errors, listener, socket>>

(* The channel was removed: closeWith, in the reader itself, which then    *)
(* waits for errors (its own answer it cannot read).                       *)
dispatchClosed ==
  /\ reader = "read" /\ wire # <<>> /\ Head(wire).kind = "channel.open-ok"
  /\ Head(wire).arg \notin channels
  /\ wire' = Tail(wire)
  /\ reader' \in {"closeWith"} \cup {"shutdown" : x \in {socket} \ {"up"}}
  /\ spawned' = (spawned \/ reader' = "shutdown")
  /\ UNCHANGED <<opener, heartbeater, deadlines, user, closer, channels, sendClosed, chErrors,
                 removed, shut, errors, listener, socket>>

CloseWithFails ==
  /\ reader = "closeWith" /\ errors
  /\ errors' = FALSE
  /\ reader' = "shutdown"
  /\ UNCHANGED <<opener, heartbeater, deadlines, user, closer, channels, sendClosed, chErrors,
                 removed, shut, spawned, listener, socket, wire>>

PushDeadline ==
  /\ reader = "deadline" /\ deadlines = 0
  /\ deadlines' = 1
  /\ reader' = "read"
  /\ UNCHANGED <<opener, heartbeater, user, closer, channels, sendClosed, chErrors,
                 removed, shut, spawned, errors, listener, socket, wire>>

Fails ==
  /\ reader' = "failed"
  /\ UNCHANGED <<opener, heartbeater, deadlines, user, closer, channels, sendClosed, chErrors,
                 removed, shut, spawned, errors, listener, socket, wire>>

(* What is left in the buffers may or may not be read first.               *)
ReadFails == reader = "read" /\ socket \in {"lost", "closed"} /\ Fails

(* The read deadline: 30 s for the handshake, then three heartbeats.       *)
DeadlineNever == reader = "read" /\ FALSE /\ Fails
DeadlineExpires == reader = "read" /\ socket \in {"up", "silent"} /\ wire = <<>> /\ Fails

(* shutdown has returned: after a failed read the reader returns, after a  *)
(* connection.close or a closeWith it goes on, to read an error.           *)
ReaderResumes ==
  /\ reader \in {"shutdown", "failed"} /\ shut.pc = "done"
  /\ reader' = IF reader = "failed" THEN "ended" ELSE "deadline"
  /\ UNCHANGED <<opener, heartbeater, deadlines, user, closer, channels, sendClosed, chErrors,
                 removed, shut, spawned, errors, listener, socket, wire>>

-----------------------------------------------------------------------------
(* The heartbeater. *)

ResetDeadline ==
  /\ heartbeater = "running" /\ deadlines = 1
  /\ deadlines' = 0
  /\ UNCHANGED <<opener, reader, heartbeater, user, closer, channels, sendClosed, chErrors,
                 removed, shut, spawned, errors, listener, socket, wire>>

(* A heartbeat that cannot be sent ends the heartbeater.                   *)
HeartbeatFails ==
  /\ heartbeater = "running" /\ SendFails
  /\ heartbeater' = "ended"
  /\ UNCHANGED <<opener, reader, deadlines, user, closer, channels, sendClosed, chErrors,
                 removed, shut, errors, listener, socket>>

HeartbeaterEnds ==
  /\ heartbeater = "running" /\ listener["heartbeater"] \in {"told", "closed"}
  /\ heartbeater' = "ended"
  /\ UNCHANGED <<opener, reader, deadlines, user, closer, channels, sendClosed, chErrors,
                 removed, shut, spawned, errors, listener, socket, wire>>

-----------------------------------------------------------------------------
(* Connection.shutdown, run once; a second caller waits for the first.     *)

Begin(err) ==
  /\ shut.pc = "none"
  /\ shut' = [pc |-> "notify", err |-> err]
  /\ UNCHANGED <<opener, reader, heartbeater, deadlines, user, closer, channels, sendClosed, chErrors,
                 removed, spawned, errors, listener, socket, wire>>

shutdown == (reader \in {"shutdown", "failed"} \/ spawned) /\ Begin(TRUE)
CloseShutdown == closer = "shutdown" /\ Begin(FALSE)

CloseReturns ==
  /\ closer = "shutdown" /\ shut.pc = "done"
  /\ closer' = "closed"
  /\ UNCHANGED <<opener, reader, heartbeater, deadlines, user, channels, sendClosed, chErrors,
                 removed, shut, spawned, errors, listener, socket, wire>>

(* The heartbeater's channel has room for the error; redial is receiving.  *)
Notify(l) ==
  /\ shut.pc = "notify" /\ shut.err /\ listener[l] = "registered"
  /\ listener' = [listener EXCEPT ![l] = "told"]
  /\ UNCHANGED <<opener, reader, heartbeater, deadlines, user, closer, channels, sendClosed, chErrors,
                 removed, shut, spawned, errors, socket, wire>>

removeAll ==
  /\ shut.pc = "notify"
  /\ shut.err => \A l \in Listeners : listener[l] # "registered"
  /\ shut' = [shut EXCEPT !.pc = "channels"]
  /\ removed' = channels /\ channels' = {}
  /\ UNCHANGED <<opener, reader, heartbeater, deadlines, user, closer, sendClosed, chErrors,
                 spawned, errors, listener, socket, wire>>

ChannelShutdownSilently(u) ==
  /\ shut.pc = "channels" /\ u \in removed \ sendClosed
  /\ sendClosed' = sendClosed \cup {u}
  /\ UNCHANGED <<opener, reader, heartbeater, deadlines, user, closer, channels, chErrors,
                 removed, shut, spawned, errors, listener, socket, wire>>

ChannelShutdown(u) ==
  /\ shut.pc = "channels" /\ u \in removed \ sendClosed
  /\ sendClosed' = sendClosed \cup {u}
  /\ chErrors' = IF shut.err THEN chErrors \cup {u} ELSE chErrors
  /\ UNCHANGED <<opener, reader, heartbeater, deadlines, user, closer, channels,
                 removed, shut, spawned, errors, listener, socket, wire>>

FinishUnclosed ==
  /\ shut.pc = "channels" /\ removed \subseteq sendClosed
  /\ errors' = (errors \/ shut.err)
  /\ listener' = [l \in Listeners |-> IF listener[l] = "none" THEN "none" ELSE "closed"]
  /\ shut' = [shut EXCEPT !.pc = "done"]
  /\ UNCHANGED <<opener, reader, heartbeater, deadlines, user, closer, channels, sendClosed, chErrors,
                 removed, spawned, socket, wire>>

Finish ==
  /\ shut.pc = "channels" /\ removed \subseteq sendClosed
  /\ errors' = (errors \/ shut.err)
  /\ socket' = "closed"
  /\ listener' = [l \in Listeners |-> IF listener[l] = "none" THEN "none" ELSE "closed"]
  /\ shut' = [shut EXCEPT !.pc = "done"]
  /\ UNCHANGED <<opener, reader, heartbeater, deadlines, user, closer, channels, sendClosed, chErrors,
                 removed, spawned, wire>>

-----------------------------------------------------------------------------
(* The peer and the network. *)

PeerCloses ==
  /\ socket = "up" /\ opener \in {"vhost", "ready"}
  /\ wire' = Append(wire, Answer("close", {}))
  /\ socket' = "lost"
  /\ UNCHANGED <<opener, reader, heartbeater, deadlines, user, closer, channels, sendClosed, chErrors,
                 removed, shut, spawned, errors, listener>>

(* The peer goes away, and with it what it had not sent yet.               *)
PeerLost ==
  /\ socket = "up"
  /\ socket' \in {"lost", "silent"}
  /\ \E n \in 0..Len(wire) : wire' = SubSeq(wire, 1, n)
  /\ UNCHANGED <<opener, reader, heartbeater, deadlines, user, closer, channels, sendClosed, chErrors,
                 removed, shut, spawned, errors, listener>>

-----------------------------------------------------------------------------
Opening == open \/ OpenFails \/ openStart \/ openTune \/ openVhost
Reading == ReadCloseOk \/ ReadClose \/ dispatchN \/ dispatchClosed \/ CloseWithFails
           \/ PushDeadline \/ ReadFails \/ ReaderResumes
Beating == ResetDeadline \/ HeartbeatFails \/ HeartbeaterEnds
Shutting == shutdown \/ removeAll \/ Finish \/ \E l \in Listeners : Notify(l)
            \/ \E u \in Users : ChannelShutdown(u)
Closing == CloseFails \/ CloseShutdown \/ CloseReturns
Using(u) == add(u) \/ Channel(u) \/ ChannelFails(u)

Next ==
  \/ Opening \/ Reading \/ DeadlineExpires \/ Beating \/ Shutting \/ Close \/ Closing \/ Listen
  \/ \E u \in Users : Using(u)
  \/ PeerCloses \/ PeerLost

Spec == Init /\ [][Next]_vars

(* Every goroutine runs on.  The deadline expires where nothing arrives to *)
(* reset it: in the handshake, after a failed one and on a silent socket.  *)
FairSpec ==
  /\ Spec
  /\ WF_vars(Opening) /\ WF_vars(Reading) /\ WF_vars(Beating) /\ WF_vars(Shutting)
  /\ WF_vars(Closing) /\ WF_vars(Listen)
  /\ WF_vars((opener # "ready" \/ socket = "silent") /\ DeadlineExpires)
  /\ \A u \in Users : WF_vars(Using(u))

-----------------------------------------------------------------------------
(* shutdown, run once while others come and go: the socket is closed, and  *)
(* listeners hear of it whenever they registered.  A shutdown with an      *)
(* error leaves it for an Open that waits (nobody else took it) and for    *)
(* every call that waits on a channel it removed; that of Close has none   *)
(* to leave (channel.go:111).                                              *)
NobodyForgotten ==
  shut.pc = "done" =>
    /\ socket = "closed"
    /\ \A l \in Listeners : listener[l] \in {"none", "closed"}
    /\ shut.err /\ opener \in {"start", "tune", "vhost"} => errors
    /\ \A u \in removed : shut.err /\ user[u] = "wait" => u \in chErrors

(* Open returns, also when the peer falls silent in the handshake: the     *)
(* read deadline set by defaultDial fails the read, shutdown fails the     *)
(* call.                                                                   *)
OpenReturns == <>(opener \in {"ready", "failed"})

(* After a failed Open nobody holds the connection, yet its socket is      *)
(* closed in the end.                                                      *)
FailedIsReleased == opener = "failed" ~> socket = "closed"

(* A call on a channel that was registered when the connection broke       *)
(* returns; one that waits when Close ends the connection does not.        *)
RemovedReturn ==
  \A u \in Users : (u \in removed /\ shut.err) ~> user[u] # "wait"

(* Once the connection is down every listener hears of it, whenever it was *)
(* registered.                                                             *)
ListenersClosed ==
  \A l \in Listeners : (shut.pc # "none" /\ listener[l] # "none") ~> listener[l] = "closed"

(* redial, main.go:229: "Wait for close notification and loop back around  *)
(* to reconnect".                                                          *)
LossIsNotified == (opener = "ready" /\ socket \in {"lost", "silent"}) ~> listener["redial"] = "closed"

(* Open comes to an end, and leaves nothing behind when it fails.          *)
OpenEnds == OpenReturns /\ FailedIsReleased
=============================================================================
