--------------------------------- MODULE Server ---------------------------------
(***************************************************************************)
(* The life of the server's process (the lifespan of server/app.py): it    *)
(* builds the runtime, starts the polling runner of ChannelPolling and the *)
(* websocket runner of server/channel_websocket.py with the update source  *)
(* behind it (infra/adapters/channels/qq/websocket.py), takes webhooks,    *)
(* and when it is told to stop, it stops the one runner, then the other,   *)
(* and then closes what the runtime holds, one resource after the other    *)
(* (application/runtime.py).                                               *)
(*                                                                         *)
(* The runners go on while the server shuts down, each until it is its     *)
(* turn.  A websocket task that has failed, or a client that cannot be     *)
(* closed, raises out of the shutdown, and the process ends where it is.   *)
(* The client of the channel makes a task of its own of each update; the   *)
(* HTTP server waits for the webhooks it is serving before it shuts down.  *)
(* A process that cannot start is one that never was.                      *)
(***************************************************************************)
EXTENDS ChannelPolling, Sequences

CONSTANT Update   \* what websockets and webhooks bring

VARIABLES
  stage,    \* "down", "up", or what is being stopped: "client", "socket", "polling", "runtime"
  socket,   \* the websocket runner's task: "none", "running", "ended", "failed"
  client,   \* the update source's client: "none", "open", "closed"
  handling, \* by which way an update came that is being handled; "no", "socket" or "http"
  closed,   \* how many resources close has gone through
  gone      \* how the last process ended: "never", "closed", "aborted", "died"

ownVars == <<stage, socket, client, handling, closed, gone>>
serverVars == <<vars, ownVars>>

\* What CyreneAIRuntime.close closes, in its order.
Resources == <<"tasks", "providers", "configurations", "contexts", "vectors",
               "polling states", "storage", "assets">>

Stages == {"down", "up", "client", "socket", "polling", "runtime"}

ServerTypeOK ==
  /\ stage \in Stages
  /\ socket \in {"none", "running", "ended", "failed"}
  /\ client \in {"none", "open", "closed"}
  /\ handling \in [Update -> {"no", "socket", "http"}]
  /\ closed \in 0 .. Len(Resources)
  /\ gone \in {"never", "closed", "aborted", "died"}

Nothing == [u \in Update |-> "no"]

ServerInit ==
  /\ Init
  /\ stage = "down" /\ socket = "none" /\ client = "none"
  /\ handling = Nothing /\ closed = 0 /\ gone = "never"

-----------------------------------------------------------------------------
(* Running. *)

\* Both runners are started, and nothing of an earlier process is there.
Boot ==
  /\ stage = "down" /\ stage' = "up"
  /\ Start
  /\ socket' = "running" /\ client' = "none"
  /\ handling' = Nothing /\ closed' = 0
  /\ UNCHANGED gone

\* run_until_closed builds the client and starts it.
Connect ==
  /\ socket = "running" /\ client = "none"
  /\ client' = "open"
  /\ UNCHANGED <<vars, stage, socket, handling, closed, gone>>

\* There is no client library, there are no credentials, or the client gives up.
SocketFails ==
  /\ socket = "running" /\ socket' = "failed"
  /\ UNCHANGED <<vars, stage, client, handling, closed, gone>>

\* The client's start returns.
SocketEnds ==
  /\ socket = "running" /\ client # "none"
  /\ socket' = "ended"
  /\ UNCHANGED <<vars, stage, client, handling, closed, gone>>

Deliver(u) ==
  /\ socket = "running" /\ client = "open" /\ handling[u] = "no"
  /\ handling' = [handling EXCEPT ![u] = "socket"]
  /\ UNCHANGED <<vars, stage, socket, client, closed, gone>>

Webhook(u) ==
  /\ stage = "up" /\ handling[u] = "no"
  /\ handling' = [handling EXCEPT ![u] = "http"]
  /\ UNCHANGED <<vars, stage, socket, client, closed, gone>>

\* An update is mapped and dispatched, or something raises, which is logged or
\* answered; the runner goes on either way.
Handled(u) ==
  /\ handling[u] # "no"
  /\ handling' = [handling EXCEPT ![u] = "no"]
  /\ UNCHANGED <<vars, stage, socket, client, closed, gone>>

Works ==
  /\ stage # "down"
  /\ \/ Connect \/ SocketFails \/ SocketEnds
     \/ \E u \in Update : Deliver(u) \/ Webhook(u) \/ Handled(u)

\* The polling runner at work, as long as it is not stopped.
Polls ==
  /\ Arrive \/ Round \/ Save(FALSE) \/ CallFails
  /\ UNCHANGED ownVars

-----------------------------------------------------------------------------
(* Ending. *)

\* The process is gone, and the runners' tasks with it.
Ends(how) ==
  /\ Crash
  /\ stage' = "down" /\ gone' = how
  /\ handling' = Nothing
  /\ UNCHANGED <<socket, client, closed>>

Dies == stage # "down" /\ Ends("died")

ShutDown ==
  /\ stage = "up" /\ stage' = "client"
  /\ \A u \in Update : handling[u] # "http"
  /\ UNCHANGED <<vars, socket, client, handling, closed, gone>>

\* close_websocket, which may raise
CloseClient ==
  /\ stage = "client"
  /\ \/ /\ stage' = "socket"
        /\ client' = IF client = "open" THEN "closed" ELSE client
        /\ UNCHANGED <<vars, socket, handling, closed, gone>>
     \/ client = "open" /\ Ends("aborted")

\* ChannelWebSocketRunner.stop cancels the task and awaits it, which raises what a
\* failed task raised.
AwaitSocket ==
  /\ stage = "socket"
  /\ IF socket = "failed"
     THEN Ends("aborted")
     ELSE /\ stage' = "polling" /\ socket' = "none"
          /\ UNCHANGED <<vars, client, handling, closed, gone>>

\* Faulty: the polling runner is told to stop and not awaited.
StopWithoutAwaiting ==
  /\ stage = "polling" /\ stage' = "runtime"
  /\ UNCHANGED <<vars, socket, client, handling, closed, gone>>

StopPolling ==
  /\ stage = "polling" /\ stage' = "runtime"
  /\ Stop
  /\ UNCHANGED <<socket, client, handling, closed, gone>>

\* Faulty: what a resource raises is raised at once.
CloseUntilError ==
  \/ stage = "runtime" /\ closed < Len(Resources) /\ Ends("aborted")
  \/ /\ stage = "runtime" /\ closed < Len(Resources)
     /\ closed' = closed + 1
     /\ UNCHANGED <<vars, stage, socket, client, handling, gone>>

\* The next resource is closed, or raises, which is raised again at the end only.
CloseNext ==
  /\ stage = "runtime" /\ closed < Len(Resources)
  /\ closed' = closed + 1
  /\ UNCHANGED <<vars, stage, socket, client, handling, gone>>

Exit == stage = "runtime" /\ closed = Len(Resources) /\ Ends("closed")

Stops == ShutDown \/ CloseClient \/ AwaitSocket \/ StopPolling \/ CloseNext \/ Exit

\* Bound: the end of a process that has begun to shut down is never out of reach.
Reserve == CASE stage \in {"client", "socket", "polling"} -> 2
             [] stage = "runtime"                          -> 1
             [] stage \in {"down", "up"}                   -> 0

ServerNext == (Boot \/ Works \/ Polls \/ Stops \/ Dies) /\ (faults + Reserve)' <= MaxFaults

ServerSpec == ServerInit /\ [][ServerNext]_serverVars

\* The process is started again when it has ended, the polling runner goes on with
\* its rounds, and a shutdown that has begun goes on.
ServerFairSpec ==
  /\ ServerSpec
  /\ WF_serverVars(Boot)
  /\ WF_serverVars(Round /\ UNCHANGED ownVars)
  /\ WF_serverVars(Stops /\ stage # "up")

-----------------------------------------------------------------------------
(* Properties. *)

\* No resource is closed under a runner that works.  Only a websocket keeps a
\* shutdown from going through all resources, whatever closing them raises.
ShutdownIsOrderly ==
  /\ closed > 0 => pc = "off" /\ socket # "running"
  /\ stage = "down" /\ gone = "closed" => closed = Len(Resources)
  /\ stage = "down" /\ gone = "aborted" => socket = "failed" \/ client = "open"

\* Not so: a websocket task that failed long ago, before it had a client to close,
\* leaves the polling runner unstopped and everything open (server/app.py:72).
ShutdownsClose ==
  stage = "down" /\ gone = "aborted" /\ client = "none" => closed = Len(Resources)

=============================================================================
