-------------------------------- MODULE Service --------------------------------
(***************************************************************************)
(* The life of a service process: main, App.Run with the resources it      *)
(* opens and the defers that close them, the gRPC server and the REST      *)
(* gateway that dials it, the janitor's goroutine, and the calls that are  *)
(* in progress when a signal or a server's error ends it.  Auth, Profiles  *)
(* and Map run the same code over different resources and RPCs.            *)
(***************************************************************************)
EXTENDS Integers, Sequences, FiniteSets

CONSTANTS Services,  \* the services to consider
          Calls,     \* calls made of the process
          None,      \* no RPC
          Envs       \* environments to consider: sets of Happenings

\* setup_error: a resource cannot be opened.  serve_error: a server stops by
\* itself.  signal: SIGINT or SIGTERM.  hangup: a caller goes away.
\* slow_edge: a request may outlast the five seconds of the HTTP shutdown.
Happenings == {"setup_error", "serve_error", "signal", "hangup", "slow_edge"}

ASSUME ServiceAssumption ==
  /\ Services \subseteq {"auth", "profiles", "map"}
  /\ Envs \subseteq SUBSET Happenings

VARIABLES service,    \* which of the services this is
          run,        \* where App.Run is
          built,      \* how many steps of the assembly are done
          open,       \* resources whose deferred close is still to come
          exit,       \* how main ended
          signalled,  \* ctx is done
          conn,       \* the gateway's client connection to the gRPC server
          grpc, http, \* the servers
          sweep,      \* the janitor's goroutine
          call,       \* calls: how they came in, what the caller saw, the handler
          env

process == <<run, built, open, exit>>
servers == <<signalled, conn, grpc, http>>
vars == <<service, process, servers, sweep, call, env>>

--------------------------------------------------------------------------------
\* The assembly of each service, in order.
AuthSetup     == <<"config", "telemetry", "clients", "postgres", "valkey", "listener", "gateway">>
ProfilesSetup == <<"config", "telemetry", "postgres", "valkey", "listener", "gateway">>
MapSetup      == <<"config", "telemetry", "postgres", "valkey", "janitor", "listener", "gateway">>
Setup == [auth |-> AuthSetup, profiles |-> ProfilesSetup, map |-> MapSetup]

Deferred == {"telemetry", "clients", "postgres", "valkey", "janitor"}
Stores   == {"postgres", "valkey"}

\* The RPCs behind a REST route, and the RPCs the gRPC server has a handler for.
AuthRoutes     == {"Register", "Login", "Logout", "VerifyEmail", "ResendVerification"}
ProfilesRoutes == {"GetUserInfo", "FindUserByLogin", "EditUser", "SendFriendRequest",
                   "SendFriendResponse", "ListFriends", "RemoveFriend", "BlockUser", "UnblockUser"}
MapRoutes      == {"LoadMap", "GetMapObject", "ChangeMapObjectStatus", "FriendsPresence"}
Routes == [auth |-> AuthRoutes, profiles |-> ProfilesRoutes, map |-> MapRoutes]

AuthMethods     == {"Register", "Login", "Logout", "VerifyEmail", "ResendVerification"}
\* Mutant of ProfilesMethods: a handler that was not generated again.
ProfilesStale   == {"GetUserInfo", "EditUser", "SendFriendRequest", "SendFriendResponse",
                    "ListFriends", "RemoveFriend", "BlockUser", "UnblockUser", "CreateProfile"}
ProfilesMethods == {"GetUserInfo", "FindUserByLogin", "EditUser", "SendFriendRequest",
                    "SendFriendResponse", "ListFriends", "RemoveFriend", "BlockUser",
                    "UnblockUser", "CreateProfile"}
MapMethods      == {"LoadMap", "GetMapObject", "ChangeMapObjectStatus", "FriendsPresence"}
Methods == [auth |-> AuthMethods, profiles |-> ProfilesMethods, map |-> MapMethods]

\* The client stubs: each RPC with the name of the method it invokes.
AuthStubs     == [Register |-> "Register", Login |-> "Login", Logout |-> "Logout",
                  VerifyEmail |-> "VerifyEmail", ResendVerification |-> "ResendVerification"]
ProfilesStubs == [GetUserInfo |-> "GetUserInfo", FindUserByLogin |-> "FindUserByLogin",
                  EditUser |-> "EditUser", SendFriendRequest |-> "SendFriendRequest",
                  SendFriendResponse |-> "SendFriendResponse", ListFriends |-> "ListFriends",
                  RemoveFriend |-> "RemoveFriend", BlockUser |-> "BlockUser",
                  UnblockUser |-> "UnblockUser", CreateProfile |-> "CreateProfile"]
MapStubs      == [LoadMap |-> "LoadMap", GetMapObject |-> "GetMapObject",
                  ChangeMapObjectStatus |-> "ChangeMapObjectStatus",
                  FriendsPresence |-> "FriendsPresence"]
Stubs == [auth |-> AuthStubs, profiles |-> ProfilesStubs, map |-> MapStubs]

\* The one stub of Auth's own copy of Profiles' contract.
HandoffStub == "CreateProfile"

\* What a caller over gRPC may invoke.
Dialled == {Stubs[service][rpc] : rpc \in DOMAIN Stubs[service]}
           \cup (IF service = "profiles" THEN {HandoffStub} ELSE {})

NoCall == [via |-> "none", rpc |-> None, caller |-> "none", handler |-> "none"]

Init ==
  /\ service \in Services
  /\ run = "setup" /\ built = 0 /\ open = {} /\ exit = "none"
  /\ signalled = FALSE /\ conn = "none" /\ grpc = "off" /\ http = "off"
  /\ sweep = "off"
  /\ call = [c \in Calls |-> NoCall]
  /\ env \in Envs

--------------------------------------------------------------------------------
\* Assembly.
Step == Setup[service][built + 1]

Assemble ==
  /\ run = "setup" /\ built < Len(Setup[service])
  /\ built' = built + 1
  /\ open' = IF Step \in Deferred THEN open \cup {Step} ELSE open
  /\ sweep' = IF Step = "janitor" THEN "idle" ELSE sweep
  /\ conn' = IF Step = "gateway" THEN "open" ELSE conn
  /\ UNCHANGED <<run, exit, signalled, grpc, http, call>>

\* A file, a client, a store or a port; a store's ping also fails under a ctx
\* that is done.
SetupFails ==
  /\ run = "setup" /\ built < Len(Setup[service])
  /\ "setup_error" \in env \/ (signalled /\ Step = "postgres")
  /\ Step # "janitor"
  /\ run' = "unwind" /\ exit' = "error"
  /\ UNCHANGED <<built, open, servers, sweep, call>>

Assembled ==
  /\ run = "setup" /\ built = Len(Setup[service])
  /\ run' = "serve"
  /\ UNCHANGED <<built, open, exit, servers, sweep, call>>

--------------------------------------------------------------------------------
\* The servers' goroutines.  A server that was told to stop first never serves.
Started == run \notin {"setup", "exited"} /\ conn # "none"

ServeGrpc ==
  /\ Started /\ grpc = "off"
  /\ grpc' = "serving"
  /\ UNCHANGED <<process, signalled, conn, http, sweep, call>>

ListenAndServe ==
  /\ Started /\ http = "off"
  /\ http' = "serving"
  /\ UNCHANGED <<process, signalled, conn, grpc, sweep, call>>

\* A server's error ends Run; the other server goes on until the process ends.
ServeError ==
  /\ "serve_error" \in env
  /\ run = "serve"
  /\ \/ grpc' = "stopped" /\ UNCHANGED http
     \/ http' = "stopped" /\ UNCHANGED grpc
  /\ run' = "unwind" /\ exit' = "error"
  /\ UNCHANGED <<built, open, signalled, conn, sweep, call>>

Signal ==
  /\ "signal" \in env
  /\ ~signalled /\ run # "exited"
  /\ signalled' = TRUE
  /\ UNCHANGED <<process, conn, grpc, http, sweep, call>>

InProgress == {c \in Calls : call[c].handler = "running"}
AtEdge     == {c \in Calls : call[c].via = "rest" /\ call[c].caller \in {"edge", "waiting"}}

\* The goroutine of RegisterHandlerFromEndpoint: the calls that wait for an
\* answer over the connection are cancelled.
CloseConn ==
  /\ signalled /\ conn = "open" /\ run # "exited"
  /\ conn' = "closed"
  /\ call' = [c \in Calls |-> IF call[c].via = "rest" /\ call[c].caller = "waiting"
                              THEN [call[c] EXCEPT !.caller = "cut"] ELSE call[c]]
  /\ UNCHANGED <<process, signalled, grpc, http, sweep>>

\* ctx.Done: GracefulStop refuses new calls and waits for the handlers.
GracefulStop ==
  /\ run = "serve" /\ signalled
  /\ run' = "stop_grpc" /\ grpc' = "draining"
  /\ UNCHANGED <<built, open, exit, signalled, conn, http, sweep, call>>

\* Mutant of GrpcStopped: Stop, which waits for no one.
GrpcStop ==
  /\ run = "stop_grpc"
  /\ run' = "stop_http" /\ grpc' = "stopped" /\ http' = "draining"
  /\ call' = [c \in Calls |-> IF call[c].caller = "waiting"
                              THEN [call[c] EXCEPT !.caller = "cut"] ELSE call[c]]
  /\ UNCHANGED <<built, open, exit, signalled, conn, sweep>>

GrpcStopped ==
  /\ run = "stop_grpc"
  /\ InProgress = {}
  /\ run' = "stop_http" /\ grpc' = "stopped" /\ http' = "draining"
  /\ UNCHANGED <<built, open, exit, signalled, conn, sweep, call>>

\* Shutdown waits for the requests at the edge, for at most five seconds.
HttpShutdown ==
  /\ run = "stop_http"
  /\ \/ AtEdge = {} /\ exit' = "ok"
     \/ "slow_edge" \in env /\ AtEdge # {} /\ exit' = "error"
  /\ run' = "unwind" /\ http' = "stopped"
  /\ UNCHANGED <<built, open, signalled, conn, grpc, sweep, call>>

--------------------------------------------------------------------------------
\* The defers, last opened first; the janitor is cancelled and waited for.
Before(r, q) == \E i, j \in DOMAIN Setup[service] :
  i < j /\ Setup[service][i] = r /\ Setup[service][j] = q

\* Mutant of Innermost: in the order of the assembly.
Outermost(r) == r \in open /\ \A q \in open : ~Before(q, r)

Innermost(r) == r \in open /\ \A q \in open : ~Before(r, q)

\* Mutant of Released: the goroutine is not waited for.
ReleasedAtOnce(r) == TRUE

Released(r) == r # "janitor" \/ sweep = "gone"

Release ==
  /\ run = "unwind"
  /\ \E r \in open : Innermost(r) /\ Released(r) /\ open' = open \ {r}
  /\ UNCHANGED <<run, built, exit, servers, sweep, call>>

\* The process ends, and with it whatever still runs in it.
Ended == [c \in Calls |->
  [call[c] EXCEPT !.caller  = IF @ \in {"edge", "waiting"} THEN "cut" ELSE @,
                  !.handler = IF @ = "running" THEN "killed" ELSE @]]

Exit ==
  /\ run = "unwind" /\ open = {}
  /\ run' = "exited"
  /\ conn' = "none" /\ grpc' = "off" /\ http' = "off"
  /\ call' = Ended /\ sweep' = "off"
  /\ UNCHANGED <<built, open, exit, signalled>>

\* Mutant of Restart: the steps done are not forgotten.
RestartOn ==
  /\ run = "exited" /\ exit = "error" /\ ~signalled
  /\ run' = "setup" /\ built' = built + 1 /\ exit' = "none"
  /\ UNCHANGED <<open, servers, sweep, call>>

\* restart: on-failure, of a container nobody stops.
Restart ==
  /\ run = "exited" /\ exit = "error" /\ ~signalled
  /\ run' = "setup" /\ built' = 0 /\ exit' = "none"
  /\ UNCHANGED <<open, servers, sweep, call>>

--------------------------------------------------------------------------------
\* The janitor.
\* Mutant of Cancelled: its context is not cancelled.
NeverCancelled == FALSE

Cancelled == run = "unwind" /\ Innermost("janitor")

Tick ==
  /\ sweep = "idle" /\ ~Cancelled /\ run # "exited"
  /\ sweep' = "sweeping"
  /\ UNCHANGED <<process, servers, call>>

\* Reconcile comes to its end; under a cancelled context its commands fail.
Reconciled ==
  /\ sweep = "sweeping"
  /\ sweep' = "idle"
  /\ UNCHANGED <<process, servers, call>>

JanitorStopped ==
  /\ sweep = "idle" /\ Cancelled
  /\ sweep' = "gone"
  /\ UNCHANGED <<process, servers, call>>

--------------------------------------------------------------------------------
\* Calls.
Fresh(c) == call[c].via = "none"

\* The gRPC server finds the handler by the method's name.
Dispatched(via, method) == IF method \in Methods[service]
  THEN [via |-> via, rpc |-> None, caller |-> "waiting", handler |-> "running"]
  ELSE [via |-> via, rpc |-> None, caller |-> "unimplemented", handler |-> "none"]

Dial(c, method) ==
  /\ Fresh(c) /\ grpc = "serving"
  /\ call' = [call EXCEPT ![c] = Dispatched("grpc", method)]
  /\ UNCHANGED <<process, servers, sweep>>

Request(c, rpc) ==
  /\ Fresh(c) /\ http = "serving"
  /\ call' = [call EXCEPT ![c] = [via |-> "rest", rpc |-> rpc, caller |-> "edge", handler |-> "none"]]
  /\ UNCHANGED <<process, servers, sweep>>

\* The gateway decodes the body and forwards the call through the route's stub.  While the server's
\* goroutine has yet to start, the connection waits for it.
Forward(c) ==
  /\ call[c].caller = "edge" /\ grpc # "off"
  /\ call' = [call EXCEPT ![c] =
       IF conn = "open" /\ grpc = "serving"
       THEN Dispatched("rest", Stubs[service][call[c].rpc])
       ELSE [@ EXCEPT !.caller = "failed", !.rpc = None]]
  /\ UNCHANGED <<process, servers, sweep>>

BadBody(c) ==
  /\ call[c].caller = "edge"
  /\ call' = [call EXCEPT ![c].caller = "refused", ![c].rpc = None]
  /\ UNCHANGED <<process, servers, sweep>>

\* The handler returns; a caller who is gone hears nothing.
Reply(c) ==
  /\ call[c].handler = "running"
  /\ call' = [call EXCEPT ![c].handler = "done",
                          ![c].caller = IF @ = "waiting" THEN "answered" ELSE @]
  /\ UNCHANGED <<process, servers, sweep>>

\* A handler whose context is cancelled may stop short.
Abort(c) ==
  /\ call[c].handler = "running" /\ call[c].caller \in {"cut", "gone"}
  /\ call' = [call EXCEPT ![c].handler = "aborted"]
  /\ UNCHANGED <<process, servers, sweep>>

HangUp(c) ==
  /\ "hangup" \in env
  /\ call[c].caller \in {"edge", "waiting"}
  /\ call' = [call EXCEPT ![c].caller = "gone", ![c].rpc = None]
  /\ UNCHANGED <<process, servers, sweep>>

Progress(c) == Forward(c) \/ BadBody(c) \/ Reply(c)

Lifecycle ==
  \/ Assemble \/ SetupFails \/ Assembled \/ ServeGrpc \/ ListenAndServe
  \/ CloseConn \/ GracefulStop \/ GrpcStopped \/ HttpShutdown \/ Release \/ Exit

Janitor == Reconciled \/ JanitorStopped

Next ==
  /\ \/ Lifecycle \/ Janitor \/ ServeError \/ Signal \/ Restart \/ Tick
     \/ \E c \in Calls :
          \/ \E method \in Dialled : Dial(c, method)
          \/ \E rpc \in Routes[service] : Request(c, rpc)
          \/ Progress(c) \/ Abort(c) \/ HangUp(c)
  /\ UNCHANGED <<service, env>>

Spec == Init /\ [][Next]_vars

\* Run goes through its steps, a handler that has started and a request at the
\* edge come to an end, and a pass of the janitor does; nobody has to call, and
\* no ticker has to fire.
FairSpec ==
  /\ Spec
  /\ WF_vars(Lifecycle /\ UNCHANGED <<service, env>>)
  /\ WF_vars(Janitor /\ UNCHANGED <<service, env>>)
  /\ \A c \in Calls : WF_vars(Progress(c) /\ UNCHANGED <<service, env>>)

--------------------------------------------------------------------------------
Rpcs == (UNION {Methods[s] : s \in Services}) \cup {None}

CallRecord == [via : {"none", "rest", "grpc"}, rpc : Rpcs,
               caller : {"none", "edge", "waiting", "answered", "refused", "failed",
                         "unimplemented", "cut", "gone"},
               handler : {"none", "running", "done", "aborted", "killed"}]

\* The type invariant.
TypeOK ==
  /\ service \in Services
  /\ run \in {"setup", "serve", "stop_grpc", "stop_http", "unwind", "exited"}
  /\ built \in 0..Len(Setup[service])
  /\ open \subseteq Deferred
  /\ exit \in {"none", "ok", "error"}
  /\ signalled \in BOOLEAN
  /\ conn \in {"none", "open", "closed"}
  /\ {grpc, http} \subseteq {"off", "serving", "draining", "stopped"}
  /\ sweep \in {"off", "idle", "sweeping", "gone"}
  /\ call \in [Calls -> CallRecord]
  /\ env \subseteq Happenings

Without(happenings) == env \cap happenings = {}

\* What reads and writes the stores finds them open.  The handlers: Run closes them
\* only after GracefulStop has waited for the handlers, also when the signal comes
\* in the middle of the assembly or cuts the callers off (after a server stopped by
\* itself Run closes them at once).  The janitor, on every way out: it is cancelled
\* and waited for before the client it sweeps with is closed.
StoresOutlastTheirUsers ==
  /\ Without({"serve_error"}) => (InProgress # {} => Stores \subseteq open)
  /\ sweep = "sweeping" => "valkey" \in open

\* No handler is killed by the end of the process and no caller over gRPC, which
\* is how Auth calls Profiles, loses an answer to a shutdown.
HandlersFinish == Without({"serve_error"}) => \A c \in Calls :
  /\ call[c].handler # "killed"
  /\ call[c].via = "grpc" => call[c].caller # "cut"

\* Every route of the gateway, through its stub, ends at a method of its own service's
\* server, and so does Auth's call of Profiles (routes, stubs and methods are generated
\* into different files, and Auth has a copy of its own of a part of the contract).
RoutesAreServed == \A c \in Calls : call[c].caller # "unimplemented"

\* A signal ends the process, whenever it comes, and whatever failed before:
\* GracefulStop waits for handlers that end, Shutdown for at most five seconds.
StopsWhenTold == signalled ~> run = "exited"
================================================================================
