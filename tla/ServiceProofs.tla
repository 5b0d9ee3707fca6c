----------------------------- MODULE ServiceProofs -----------------------------
(* Proofs about the life of a service process, for any number of calls.        *)
EXTENDS Service, TLAPS

--------------------------------------------------------------------------------
\* The assembly.

\* What the three assemblies have in common: both stores are opened, and the
\* janitor, which only Map has, comes after the client it sweeps with.
LEMMA SetupShape ==
  ASSUME NEW s \in {"auth", "profiles", "map"}
  PROVE  /\ Len(Setup[s]) \in Nat
         /\ \A q \in Stores : \E i \in 1..Len(Setup[s]) : Setup[s][i] = q
         /\ \A i \in 1..Len(Setup[s]) : Setup[s][i] = "janitor" => s = "map" /\ i = 5
         /\ s = "map" => Setup[s][4] = "valkey" /\ Len(Setup[s]) = 7
         /\ s = "map" => Setup[s][5] = "janitor"
         /\ \A i \in 1..Len(Setup[s]) : Setup[s][i] = "gateway" => i = Len(Setup[s])
<1>1. CASE s = "auth"
  <2>1. Setup[s] = AuthSetup
    BY <1>1 DEF Setup
  <2>2. Len(AuthSetup) = 7
    BY DEF AuthSetup
  <2>3. \A q \in Stores : \E i \in 1..7 : AuthSetup[i] = q
    <3>1. AuthSetup[4] = "postgres" /\ AuthSetup[5] = "valkey"
      BY DEF AuthSetup
    <3> QED BY <3>1 DEF Stores
  <2>4. \A i \in 1..7 : AuthSetup[i] # "janitor" /\ (AuthSetup[i] = "gateway" => i = 7)
    BY DEF AuthSetup
  <2> QED BY <1>1, <2>1, <2>2, <2>3, <2>4
<1>2. CASE s = "profiles"
  <2>1. Setup[s] = ProfilesSetup
    BY <1>2 DEF Setup
  <2>2. Len(ProfilesSetup) = 6
    BY DEF ProfilesSetup
  <2>3. \A q \in Stores : \E i \in 1..6 : ProfilesSetup[i] = q
    <3>1. ProfilesSetup[3] = "postgres" /\ ProfilesSetup[4] = "valkey"
      BY DEF ProfilesSetup
    <3> QED BY <3>1 DEF Stores
  <2>4. \A i \in 1..6 : ProfilesSetup[i] # "janitor" /\ (ProfilesSetup[i] = "gateway" => i = 6)
    BY DEF ProfilesSetup
  <2> QED BY <1>2, <2>1, <2>2, <2>3, <2>4
<1>3. CASE s = "map"
  <2>1. Setup[s] = MapSetup
    BY <1>3 DEF Setup
  <2>2. Len(MapSetup) = 7 /\ MapSetup[4] = "valkey" /\ MapSetup[5] = "janitor"
    BY DEF MapSetup
  <2>3. \A q \in Stores : \E i \in 1..7 : MapSetup[i] = q
    <3>1. MapSetup[3] = "postgres"
      BY DEF MapSetup
    <3> QED BY <2>2, <3>1 DEF Stores
  <2>4. \A i \in 1..7 : (MapSetup[i] = "janitor" => i = 5) /\ (MapSetup[i] = "gateway" => i = 7)
    BY DEF MapSetup
  <2> QED BY <1>3, <2>1, <2>2, <2>3, <2>4
<1> QED BY <1>1, <1>2, <1>3

\* An RPC of a service is one of the RPCs, and a route leads to one.
LEMMA RpcsKnown ==
  ASSUME service \in Services
  PROVE  Routes[service] \cup Methods[service] \subseteq Rpcs
<1>1. service \in {"auth", "profiles", "map"}
  BY ServiceAssumption
<1>2. Methods[service] \subseteq Rpcs
  BY DEF Rpcs
<1>3. Routes[service] \subseteq Methods[service]
  <2>1. CASE service = "auth"
    BY <2>1 DEF Routes, Methods, AuthRoutes, AuthMethods
  <2>2. CASE service = "profiles"
    BY <2>2 DEF Routes, Methods, ProfilesRoutes, ProfilesMethods
  <2>3. CASE service = "map"
    BY <2>3 DEF Routes, Methods, MapRoutes, MapMethods
  <2> QED BY <1>1, <2>1, <2>2, <2>3
<1> QED BY <1>2, <1>3

--------------------------------------------------------------------------------
\* The types.

LEMMA NoneKnown == None \in Rpcs
BY DEF Rpcs

LEMMA TypeInit == Init => TypeOK
<1> SUFFICES ASSUME Init PROVE TypeOK
  OBVIOUS
<1>1. NoCall \in CallRecord
  BY NoneKnown DEF NoCall, CallRecord
<1>2. service \in {"auth", "profiles", "map"}
  BY ServiceAssumption DEF Init
<1>3. 0 \in 0..Len(Setup[service])
  BY <1>2, SetupShape
<1> QED BY <1>1, <1>3, ServiceAssumption DEF Init, TypeOK, NoCall

\* The calls keep their type when one of them changes to a call.
LEMMA CallTyped ==
  ASSUME TypeOK, NEW c \in Calls, NEW r \in CallRecord, call' = [call EXCEPT ![c] = r]
  PROVE  call' \in [Calls -> CallRecord]
BY DEF TypeOK

LEMMA DispatchedTyped ==
  ASSUME NEW via \in {"rest", "grpc"}, NEW rpc
  PROVE  Dispatched(via, rpc) \in CallRecord
BY NoneKnown DEF Dispatched, CallRecord

\* What happens to a call, as one change of one record.
LEMMA CallSteps ==
  ASSUME TypeOK, NEW c \in Calls,
         \/ \E method \in Dialled : Dial(c, method)
         \/ \E rpc \in Routes[service] : Request(c, rpc)
         \/ Progress(c) \/ Abort(c) \/ HangUp(c)
  PROVE  /\ UNCHANGED <<process, servers, sweep>>
         /\ \E r \in CallRecord : call' = [call EXCEPT ![c] = r]
<1>1. call[c] \in CallRecord
  BY DEF TypeOK
<1>2. CASE \E method \in Dialled : Dial(c, method)
  BY <1>2, DispatchedTyped DEF Dial
<1>3. CASE \E rpc \in Routes[service] : Request(c, rpc)
  <2>1. PICK rpc \in Routes[service] : Request(c, rpc)
    BY <1>3
  <2>2. rpc \in Rpcs
    BY RpcsKnown DEF TypeOK
  <2>3. [via |-> "rest", rpc |-> rpc, caller |-> "edge", handler |-> "none"] \in CallRecord
    BY <2>2 DEF CallRecord, Rpcs
  <2> QED BY <2>1, <2>3 DEF Request
<1>4. CASE Forward(c)
  <2>1. CASE conn = "open" /\ grpc = "serving"
    BY <1>4, <2>1, DispatchedTyped DEF Forward
  <2>2. CASE ~(conn = "open" /\ grpc = "serving")
    <3> DEFINE r == [call[c] EXCEPT !.caller = "failed", !.rpc = None]
    <3>1. r \in CallRecord
      BY <1>1, NoneKnown DEF CallRecord
    <3>2. call' = [call EXCEPT ![c] = r]
      BY <1>4, <2>2 DEF Forward
    <3> QED BY <1>4, <3>1, <3>2 DEF Forward
  <2> QED BY <2>1, <2>2
<1>5. CASE BadBody(c)
  <2> DEFINE r == [call[c] EXCEPT !.caller = "refused", !.rpc = None]
  <2>1. r \in CallRecord
    BY <1>1, NoneKnown DEF CallRecord
  <2>2. call' = [call EXCEPT ![c] = r]
    BY <1>1, <1>5 DEF BadBody, TypeOK
  <2> QED BY <1>5, <2>1, <2>2 DEF BadBody
<1>6. CASE Reply(c)
  <2> DEFINE r == [call[c] EXCEPT !.handler = "done",
                     !.caller = IF call[c].caller = "waiting" THEN "answered" ELSE call[c].caller]
  <2>1. r \in CallRecord
    BY <1>1, NoneKnown DEF CallRecord
  <2>2. call' = [call EXCEPT ![c] = r]
    BY <1>1, <1>6 DEF Reply, TypeOK, CallRecord
  <2> QED BY <1>6, <2>1, <2>2 DEF Reply
<1>7. CASE Abort(c)
  <2> DEFINE r == [call[c] EXCEPT !.handler = "aborted"]
  <2>1. r \in CallRecord
    BY <1>1, NoneKnown DEF CallRecord
  <2>2. call' = [call EXCEPT ![c] = r]
    BY <1>7 DEF Abort
  <2> QED BY <1>7, <2>1, <2>2 DEF Abort
<1>8. CASE HangUp(c)
  <2> DEFINE r == [call[c] EXCEPT !.caller = "gone", !.rpc = None]
  <2>1. r \in CallRecord
    BY <1>1, NoneKnown DEF CallRecord
  <2>2. call' = [call EXCEPT ![c] = r]
    BY <1>1, <1>8 DEF HangUp, TypeOK
  <2> QED BY <1>8, <2>1, <2>2 DEF HangUp
<1> QED BY <1>2, <1>3, <1>4, <1>5, <1>6, <1>7, <1>8 DEF Progress

LEMMA TypeStep ==
  ASSUME TypeOK, [Next]_vars
  PROVE  TypeOK'
<1>1. service \in {"auth", "profiles", "map"} /\ Len(Setup[service]) \in Nat
  BY ServiceAssumption, SetupShape DEF TypeOK
<1>2. CASE UNCHANGED vars
  BY <1>2 DEF vars, process, servers, TypeOK
<1>3. SUFFICES ASSUME Next, UNCHANGED <<service, env>> PROVE TypeOK'
  BY <1>2 DEF Next
<1>4. CASE Assemble
  BY <1>1, <1>3, <1>4 DEF Assemble, Step, TypeOK
<1>5. CASE SetupFails \/ Assembled \/ ServeGrpc \/ ListenAndServe \/ ServeError \/ Signal \/ GracefulStop
  BY <1>3, <1>5 DEF SetupFails, Assembled, ServeGrpc, ListenAndServe, ServeError, Signal, GracefulStop,
                    servers, process, TypeOK
<1>6. CASE CloseConn
  <2> DEFINE r(c) == IF call[c].via = "rest" /\ call[c].caller = "waiting"
                     THEN [call[c] EXCEPT !.caller = "cut"] ELSE call[c]
  <2>1. \A c \in Calls : r(c) \in CallRecord
    BY DEF TypeOK, CallRecord
  <2>2. call' = [c \in Calls |-> r(c)]
    BY <1>6 DEF CloseConn
  <2> HIDE DEF r
  <2>3. call' \in [Calls -> CallRecord]
    BY <2>1, <2>2
  <2> QED BY <1>3, <1>6, <2>3 DEF CloseConn, process, TypeOK
<1>7. CASE GrpcStopped \/ HttpShutdown \/ Release \/ Restart
  BY <1>1, <1>3, <1>7 DEF GrpcStopped, HttpShutdown, Release, Restart, servers, TypeOK
<1>8. CASE Exit
  <2> DEFINE r(c) == [call[c] EXCEPT
                        !.caller  = IF call[c].caller \in {"edge", "waiting"} THEN "cut" ELSE call[c].caller,
                        !.handler = IF call[c].handler = "running" THEN "killed" ELSE call[c].handler]
  <2>1. ASSUME NEW c \in Calls PROVE r(c) \in CallRecord
    <3> DEFINE d == IF call[c].caller \in {"edge", "waiting"} THEN "cut" ELSE call[c].caller
               k == IF call[c].handler = "running" THEN "killed" ELSE call[c].handler
    <3>1. call[c] \in CallRecord
      BY DEF TypeOK
    <3>2. /\ d \in {"none", "edge", "waiting", "answered", "refused", "failed", "unimplemented",
                    "cut", "gone"}
          /\ k \in {"none", "running", "done", "aborted", "killed"}
      BY <3>1 DEF CallRecord
    <3>3. r(c) = [call[c] EXCEPT !.caller = d, !.handler = k]
      OBVIOUS
    <3> HIDE DEF d, k, r
    <3> QED BY <3>1, <3>2, <3>3 DEF CallRecord
  <2>2. call' = [c \in Calls |-> r(c)]
    BY <1>8 DEF Exit, Ended, TypeOK, CallRecord
  <2> HIDE DEF r
  <2>3. call' \in [Calls -> CallRecord]
    BY <2>1, <2>2
  <2> QED BY <1>3, <1>8, <2>3 DEF Exit, TypeOK
<1>9. CASE Janitor \/ Tick
  BY <1>3, <1>9 DEF Janitor, Reconciled, JanitorStopped, Tick, process, servers, TypeOK
<1>10. ASSUME NEW c \in Calls,
              \/ \E method \in Dialled : Dial(c, method)
              \/ \E rpc \in Routes[service] : Request(c, rpc)
              \/ Progress(c) \/ Abort(c) \/ HangUp(c)
       PROVE  TypeOK'
  <2>1. /\ UNCHANGED <<process, servers, sweep>>
        /\ \E r \in CallRecord : call' = [call EXCEPT ![c] = r]
    BY <1>10, CallSteps
  <2>2. call' \in [Calls -> CallRecord]
    BY <2>1, CallTyped
  <2> QED BY <1>3, <2>1, <2>2 DEF process, servers, TypeOK
<1> QED BY <1>3, <1>4, <1>5, <1>6, <1>7, <1>8, <1>9, <1>10 DEF Next, Lifecycle

\* Every variable of the process keeps its type (App.Run, its servers, its janitor
\* and the calls, in each of the three services).
THEOREM TypeCorrect == Spec => []TypeOK
BY TypeInit, TypeStep, PTL DEF Spec

--------------------------------------------------------------------------------
\* The resources and the janitor.

\* Until Run unwinds, everything the assembly has opened is open; while a goroutine
\* of the janitor exists its own defer is still to come, and so is that of the
\* client below it.
ResourceInv ==
  /\ run \in {"setup", "serve", "stop_grpc", "stop_http"} =>
       \A i \in 1..built : Setup[service][i] \in Deferred => Setup[service][i] \in open
  /\ run \in {"serve", "stop_grpc", "stop_http"} => built = Len(Setup[service])
  /\ run = "exited" => open = {} /\ sweep = "off"
  /\ sweep \in {"idle", "sweeping"} => "janitor" \in open
  /\ "janitor" \in open => service = "map" /\ "valkey" \in open

LEMMA ResourceInit == Init => ResourceInv
BY DEF Init, ResourceInv

LEMMA ResourceStep ==
  ASSUME TypeOK, ResourceInv, [Next]_vars
  PROVE  ResourceInv'
<1>1. service \in {"auth", "profiles", "map"} /\ Len(Setup[service]) \in Nat /\ built \in 0..Len(Setup[service])
  BY ServiceAssumption, SetupShape DEF TypeOK
<1>2. CASE UNCHANGED vars
  BY <1>2 DEF vars, process, servers, ResourceInv
<1>3. SUFFICES ASSUME Next, UNCHANGED <<service, env>> PROVE ResourceInv'
  BY <1>2 DEF Next
<1>4. CASE Assemble
  <2>1. /\ run = "setup" /\ run' = "setup" /\ built' = built + 1 /\ built + 1 \in 1..Len(Setup[service])
        /\ Setup'[service'] = Setup[service]
    BY <1>1, <1>3, <1>4 DEF Assemble, process, Setup
  <2>2. \A i \in 1..built' : Setup[service][i] \in Deferred => Setup[service][i] \in open'
    <3> TAKE i \in 1..built'
    <3>1. CASE i = built + 1
      BY <1>4, <3>1 DEF Assemble, Step
    <3>2. CASE i \in 1..built
      BY <1>4, <2>1, <3>2 DEF Assemble, Step, ResourceInv
    <3> QED BY <1>1, <2>1, <3>1, <3>2
  <2>3. Step = "janitor" => service = "map" /\ "valkey" \in open
    <3> SUFFICES ASSUME Step = "janitor" PROVE service = "map" /\ "valkey" \in open
      OBVIOUS
    <3>1. service = "map" /\ built = 4 /\ Setup[service][4] = "valkey"
      BY <1>1, <2>1, SetupShape DEF Step
    <3> QED BY <2>1, <3>1 DEF ResourceInv, Deferred
  <2>4. open \subseteq open' /\ open' \subseteq open \cup {Step}
    BY <1>4 DEF Assemble
  <2>5. sweep' \in {"idle", "sweeping"} => "janitor" \in open'
    BY <1>4, <2>4 DEF Assemble, Deferred, ResourceInv
  <2>6. "janitor" \in open' => service' = "map" /\ "valkey" \in open'
    BY <1>3, <2>3, <2>4 DEF ResourceInv
  <2> QED BY <1>3, <2>1, <2>2, <2>5, <2>6 DEF ResourceInv
<1>5. CASE Release
  <2>1. PICK r \in open : Innermost(r) /\ Released(r) /\ open' = open \ {r}
    BY <1>5 DEF Release
  <2>2. r = "valkey" => "janitor" \notin open
    <3> SUFFICES ASSUME r = "valkey", "janitor" \in open PROVE FALSE
      OBVIOUS
    <3>1. /\ service = "map" /\ Setup[service][4] = "valkey" /\ Setup[service][5] = "janitor"
          /\ Len(Setup[service]) = 7
      BY SetupShape DEF ResourceInv
    <3>2. 4 \in DOMAIN Setup[service] /\ 5 \in DOMAIN Setup[service]
      <4>1. Setup[service] = MapSetup
        BY <3>1 DEF Setup
      <4> QED BY <4>1 DEF MapSetup
    <3>3. Before("valkey", "janitor")
      BY <3>1, <3>2 DEF Before
    <3> QED BY <2>1, <3>3 DEF Innermost
  <2>3. r = "janitor" => sweep = "gone"
    BY <2>1 DEF Released
  <2> QED BY <1>3, <1>5, <2>1, <2>2, <2>3 DEF Release, ResourceInv
<1>6. CASE SetupFails \/ Assembled \/ ServeGrpc \/ ListenAndServe \/ ServeError \/ Signal \/ GracefulStop
  BY <1>3, <1>6 DEF SetupFails, Assembled, ServeGrpc, ListenAndServe, ServeError, Signal, GracefulStop,
                    servers, process, ResourceInv
<1>7. CASE CloseConn \/ GrpcStopped \/ HttpShutdown
  BY <1>3, <1>7 DEF CloseConn, GrpcStopped, HttpShutdown, process, ResourceInv
<1>8. CASE Exit \/ Restart
  BY <1>1, <1>3, <1>8 DEF Exit, Restart, servers, ResourceInv
<1>9. CASE Janitor \/ Tick
  BY <1>3, <1>9 DEF Janitor, Reconciled, JanitorStopped, Tick, process, servers, ResourceInv
<1>10. ASSUME NEW c \in Calls,
              \/ \E method \in Dialled : Dial(c, method)
              \/ \E rpc \in Routes[service] : Request(c, rpc)
              \/ Progress(c) \/ Abort(c) \/ HangUp(c)
       PROVE  ResourceInv'
  BY <1>3, <1>10, CallSteps DEF process, servers, ResourceInv
<1> QED BY <1>3, <1>4, <1>5, <1>6, <1>7, <1>8, <1>9, <1>10 DEF Next, Lifecycle

--------------------------------------------------------------------------------
\* The calls and the servers.

\* A caller waits for a handler that runs, and over gRPC there is no edge; so whoever
\* is at neither place when the process ends has his answer.
CallInv == \A c \in Calls :
  /\ call[c].caller = "waiting" => call[c].handler = "running"
  /\ call[c].via = "grpc" => call[c].caller # "edge"

\* The gateway is the last step of the assembly, so before it no server starts.
StartInv ==
  /\ run = "setup" => grpc = "off" /\ (conn = "none" \/ built = Len(Setup[service]))
  /\ run = "exited" => grpc = "off" /\ conn = "none"

\* As long as no server stops by itself, calls are taken while Run waits for the
\* signal, and handlers run until GracefulStop is done.
ServingInv == Without({"serve_error"}) =>
  /\ grpc = "serving" => run = "serve"
  /\ run \in {"stop_grpc", "stop_http"} => grpc # "off"
  /\ run = "unwind" => conn = "none" \/ grpc # "off"
  /\ InProgress # {} => run \in {"serve", "stop_grpc"}

\* What an action of a call does to it, and that it does nothing to the others.
LEMMA CallShape ==
  ASSUME TypeOK, NEW c \in Calls,
         \/ \E method \in Dialled : Dial(c, method)
         \/ \E rpc \in Routes[service] : Request(c, rpc)
         \/ Progress(c) \/ Abort(c) \/ HangUp(c)
  PROVE  /\ \A d \in Calls \ {c} : call'[d] = call[d]
         /\ CallInv => /\ call'[c].caller = "waiting" => call'[c].handler = "running"
                       /\ call'[c].via = "grpc" => call'[c].caller # "edge"
         /\ call'[c].handler = "running" => call[c].handler = "running" \/ grpc = "serving"
         /\ call'[c].handler = "killed" => call[c].handler = "killed"
         /\ (CallInv /\ call'[c].via = "grpc" /\ call'[c].caller = "cut") =>
               (call[c].via = "grpc" /\ call[c].caller = "cut")
<1>1. call \in [Calls -> CallRecord]
  BY DEF TypeOK
<1>2. CASE \E method \in Dialled : Dial(c, method)
  BY <1>1, <1>2 DEF Dial, Dispatched
<1>3. CASE \E rpc \in Routes[service] : Request(c, rpc)
  BY <1>1, <1>3 DEF Request
<1>4. CASE Forward(c)
  BY <1>1, <1>4 DEF Forward, Dispatched, CallRecord, CallInv
<1>5. CASE BadBody(c)
  BY <1>1, <1>5 DEF BadBody, CallRecord, CallInv
<1>6. CASE Reply(c)
  BY <1>1, <1>6 DEF Reply, CallRecord, CallInv
<1>7. CASE Abort(c) \/ HangUp(c)
  BY <1>1, <1>7 DEF Abort, HangUp, CallRecord, CallInv
<1> QED BY <1>2, <1>3, <1>4, <1>5, <1>6, <1>7 DEF Progress

\* The steps that are about no call in particular, and what they do to the calls.
LEMMA OtherCalls ==
  ASSUME TypeOK, CallInv,
         \/ Lifecycle \/ Janitor \/ ServeError \/ Signal \/ Restart \/ Tick
  PROVE  \A c \in Calls :
           /\ call'[c].via = call[c].via
           /\ call'[c].caller = "waiting" => call[c].caller = "waiting" /\ call'[c].handler = call[c].handler
           /\ call'[c].caller = "edge" => call[c].caller = "edge"
           /\ call'[c].handler = "running" => call[c].handler = "running"
           /\ call'[c].handler = "killed" => call[c].handler = "killed" \/ (run = "unwind" /\ call[c].handler = "running")
           /\ (call[c].via = "grpc" /\ call'[c].caller = "cut") =>
                 call[c].caller = "cut" \/ (run = "unwind" /\ call[c].handler = "running")
<1>1. call \in [Calls -> CallRecord]
  BY DEF TypeOK
<1>2. CASE CloseConn
  BY <1>1, <1>2 DEF CloseConn, CallRecord
<1>3. CASE Exit
  BY <1>1, <1>3 DEF Exit, Ended, CallRecord, CallInv
<1>4. CASE UNCHANGED call
  BY <1>4
<1> QED BY <1>2, <1>3, <1>4 DEF Lifecycle, Janitor, ServeError, Signal, Restart, Tick, Assemble, SetupFails,
     Assembled, ServeGrpc, ListenAndServe, GracefulStop, GrpcStopped, HttpShutdown, Release,
     Reconciled, JanitorStopped

LEMMA StartStep ==
  ASSUME TypeOK, StartInv, [Next]_vars
  PROVE  StartInv'
<1>1. service \in {"auth", "profiles", "map"} /\ Len(Setup[service]) \in Nat /\ built \in 0..Len(Setup[service])
  BY ServiceAssumption, SetupShape DEF TypeOK
<1>2. CASE UNCHANGED vars
  BY <1>2 DEF vars, process, servers, StartInv
<1>3. SUFFICES ASSUME Next, UNCHANGED <<service, env>> PROVE StartInv'
  BY <1>2 DEF Next
<1>4. CASE Assemble
  <2>1. Step = "gateway" => built + 1 = Len(Setup[service])
    BY <1>1, <1>4, SetupShape DEF Assemble, Step
  <2> QED BY <1>1, <1>3, <1>4, <2>1 DEF Assemble, StartInv
<1>5. CASE SetupFails \/ Assembled \/ ServeGrpc \/ ListenAndServe \/ ServeError \/ Signal \/ GracefulStop
  BY <1>3, <1>5 DEF SetupFails, Assembled, ServeGrpc, ListenAndServe, ServeError, Signal, GracefulStop,
                    Started, servers, process, StartInv
<1>6. CASE CloseConn \/ GrpcStopped \/ HttpShutdown \/ Release \/ Exit \/ Restart
  BY <1>3, <1>6 DEF CloseConn, GrpcStopped, HttpShutdown, Release, Exit, Restart, process, servers, StartInv
<1>7. CASE Janitor \/ Tick
  BY <1>3, <1>7 DEF Janitor, Reconciled, JanitorStopped, Tick, process, servers, StartInv
<1>8. ASSUME NEW c \in Calls,
             \/ \E method \in Dialled : Dial(c, method)
             \/ \E rpc \in Routes[service] : Request(c, rpc)
             \/ Progress(c) \/ Abort(c) \/ HangUp(c)
      PROVE  StartInv'
  BY <1>3, <1>8, CallSteps DEF process, servers, StartInv
<1> QED BY <1>3, <1>4, <1>5, <1>6, <1>7, <1>8 DEF Next, Lifecycle

\* The invariant of the calls and the servers, with the promise it is for.
ServiceInv == TypeOK /\ StartInv /\ CallInv /\ ServingInv /\ HandlersFinish

LEMMA ServiceInit == Init => ServiceInv
<1> SUFFICES ASSUME Init PROVE ServiceInv
  OBVIOUS
<1>1. TypeOK
  BY TypeInit
<1>2. \A c \in Calls : call[c] = NoCall
  BY DEF Init
<1>3. CallInv /\ HandlersFinish /\ InProgress = {}
  BY <1>2 DEF NoCall, CallInv, HandlersFinish, InProgress
<1> QED BY <1>1, <1>3 DEF ServiceInv, Init, StartInv, ServingInv

LEMMA CallStep ==
  ASSUME ServiceInv, Next, UNCHANGED <<service, env>>, NEW c \in Calls,
         \/ \E method \in Dialled : Dial(c, method)
         \/ \E rpc \in Routes[service] : Request(c, rpc)
         \/ Progress(c) \/ Abort(c) \/ HangUp(c)
  PROVE  CallInv' /\ ServingInv' /\ HandlersFinish'
<1>1. UNCHANGED <<process, servers, sweep>>
  BY CallSteps DEF ServiceInv
<1>2. /\ \A d \in Calls \ {c} : call'[d] = call[d]
      /\ call'[c].caller = "waiting" => call'[c].handler = "running"
      /\ call'[c].via = "grpc" => call'[c].caller # "edge"
      /\ call'[c].handler = "running" => call[c].handler = "running" \/ grpc = "serving"
      /\ call'[c].handler = "killed" => call[c].handler = "killed"
      /\ (call'[c].via = "grpc" /\ call'[c].caller = "cut") => (call[c].via = "grpc" /\ call[c].caller = "cut")
  BY CallShape DEF ServiceInv
<1>3. CallInv'
  BY <1>2 DEF CallInv, ServiceInv
<1>4. InProgress' # {} => InProgress # {} \/ grpc = "serving"
  BY <1>2 DEF InProgress
<1>5. ServingInv'
  BY <1>1, <1>4 DEF ServingInv, ServiceInv, Without, process, servers
<1>6. HandlersFinish'
  BY <1>2 DEF HandlersFinish, ServiceInv, Without
<1> QED BY <1>3, <1>5, <1>6

LEMMA OtherStep ==
  ASSUME ServiceInv, UNCHANGED <<service, env>>,
         \/ Lifecycle \/ Janitor \/ ServeError \/ Signal \/ Restart \/ Tick
  PROVE  CallInv' /\ ServingInv' /\ HandlersFinish'
<1>1. \A c \in Calls :
        /\ call'[c].via = call[c].via
        /\ call'[c].caller = "waiting" => call[c].caller = "waiting" /\ call'[c].handler = call[c].handler
        /\ call'[c].caller = "edge" => call[c].caller = "edge"
        /\ call'[c].handler = "running" => call[c].handler = "running"
        /\ call'[c].handler = "killed" => call[c].handler = "killed" \/ (run = "unwind" /\ call[c].handler = "running")
        /\ (call[c].via = "grpc" /\ call'[c].caller = "cut") =>
              call[c].caller = "cut" \/ (run = "unwind" /\ call[c].handler = "running")
  BY OtherCalls DEF ServiceInv
<1>2. CallInv'
  BY <1>1 DEF CallInv, ServiceInv
<1>3. InProgress' \subseteq InProgress
  BY <1>1 DEF InProgress
<1>4. Without({"serve_error"}) /\ run = "unwind" => \A c \in Calls : call[c].handler # "running"
  BY DEF ServiceInv, ServingInv, InProgress
<1>5. HandlersFinish'
  BY <1>1, <1>4 DEF HandlersFinish, ServiceInv, Without
<1>6. SUFFICES ASSUME Without({"serve_error"}) PROVE ServingInv'
  BY <1>2, <1>5 DEF ServingInv, Without
<1>7. /\ grpc = "serving" => run = "serve"
      /\ run \in {"stop_grpc", "stop_http"} => grpc # "off"
      /\ run = "unwind" => conn = "none" \/ grpc # "off"
      /\ InProgress # {} => run \in {"serve", "stop_grpc"}
  BY <1>6 DEF ServiceInv, ServingInv
<1>8. /\ run = "setup" => grpc = "off" /\ (conn = "none" \/ built = Len(Setup[service]))
      /\ run = "exited" => grpc = "off" /\ conn = "none"
  BY DEF ServiceInv, StartInv
<1>9. run \in {"setup", "serve", "stop_grpc", "stop_http", "unwind", "exited"}
  BY DEF ServiceInv, TypeOK
<1>10. SUFFICES /\ grpc' = "serving" => run' = "serve"
                /\ run' \in {"stop_grpc", "stop_http"} => grpc' # "off"
                /\ run' = "unwind" => conn' = "none" \/ grpc' # "off"
                /\ InProgress # {} => run' \in {"serve", "stop_grpc"}
  BY <1>3 DEF ServingInv
<1> HIDE DEF InProgress
<1>11. CASE Assemble \/ Assembled \/ ServeGrpc \/ ListenAndServe
  BY <1>7, <1>8, <1>9, <1>11 DEF Assemble, Assembled, ServeGrpc, ListenAndServe, Started, servers, process
<1>12. CASE SetupFails
  <2>1. built < Len(Setup[service]) /\ built # Len(Setup[service])
    <3>1. built \in Nat /\ Len(Setup[service]) \in Nat
      BY ServiceAssumption, SetupShape DEF ServiceInv, TypeOK
    <3> QED BY <1>12, <3>1 DEF SetupFails
  <2> QED BY <1>7, <1>8, <1>12, <2>1 DEF SetupFails, servers
<1>13. CASE CloseConn \/ GracefulStop \/ GrpcStopped \/ HttpShutdown \/ Release \/ Exit
  BY <1>7, <1>8, <1>9, <1>13 DEF CloseConn, GracefulStop, GrpcStopped, HttpShutdown, Release, Exit, process, servers
<1>14. CASE Janitor \/ Signal \/ Restart \/ Tick
  BY <1>7, <1>8, <1>9, <1>14 DEF Janitor, Reconciled, JanitorStopped, Tick, Signal, Restart, process, servers
<1>15. ~ServeError
  BY <1>6 DEF ServeError, Without
<1> QED BY <1>11, <1>12, <1>13, <1>14, <1>15 DEF Lifecycle

LEMMA ServiceStep ==
  ASSUME ServiceInv, [Next]_vars
  PROVE  ServiceInv'
<1>1. TypeOK' /\ StartInv'
  BY TypeStep, StartStep DEF ServiceInv
<1>2. CASE UNCHANGED vars
  BY <1>1, <1>2 DEF vars, process, servers, ServiceInv, CallInv, ServingInv, InProgress, HandlersFinish, Without
<1>3. CASE Next
  BY <1>1, <1>3, CallStep, OtherStep DEF Next, ServiceInv
<1> QED BY <1>2, <1>3

\* GracefulStop waits for the handlers before anything ends them, so that a shutdown
\* kills none and cuts off no caller over gRPC.
THEOREM HandlersEnd == Spec => []HandlersFinish
<1>1. ServiceInv => HandlersFinish
  BY DEF ServiceInv
<1> QED BY <1>1, ServiceInit, ServiceStep, PTL DEF Spec

\* No handler runs, and no sweep is under way, while a store it uses is closed (the
\* defers of Run, in their order, and the drain of the janitor).
THEOREM StoresHold == Spec => []StoresOutlastTheirUsers
<1>1. ServiceInv /\ ResourceInv => StoresOutlastTheirUsers
  <2> SUFFICES ASSUME ServiceInv, ResourceInv PROVE StoresOutlastTheirUsers
    OBVIOUS
  <2>1. service \in {"auth", "profiles", "map"}
    BY ServiceAssumption DEF ServiceInv, TypeOK
  <2>2. ASSUME Without({"serve_error"}), InProgress # {} PROVE Stores \subseteq open
    <3>1. run \in {"serve", "stop_grpc"}
      BY <2>2 DEF ServiceInv, ServingInv
    <3>2. \A i \in 1..Len(Setup[service]) : Setup[service][i] \in Deferred => Setup[service][i] \in open
      BY <3>1 DEF ResourceInv
    <3>3. Stores \subseteq Deferred
      BY DEF Stores, Deferred
    <3>4. \A q \in Stores : \E i \in 1..Len(Setup[service]) : Setup[service][i] = q
      BY <2>1, SetupShape
    <3> QED BY <3>2, <3>3, <3>4
  <2>3. sweep = "sweeping" => "valkey" \in open
    BY DEF ResourceInv
  <2> QED BY <2>2, <2>3 DEF StoresOutlastTheirUsers
<1>2. Init => ServiceInv /\ ResourceInv
  BY ServiceInit, ResourceInit
<1>3. ServiceInv /\ ResourceInv /\ [Next]_vars => ServiceInv' /\ ResourceInv'
  BY ServiceStep, ResourceStep DEF ServiceInv
<1> QED BY <1>1, <1>2, <1>3, PTL DEF Spec

--------------------------------------------------------------------------------
\* The generated tables.

\* A stub of a route invokes a method the service's server has, and so does a caller
\* over gRPC.
LEMMA TablesAgree ==
  ASSUME service \in Services
  PROVE  /\ \A rpc \in Routes[service] : Stubs[service][rpc] \in Methods[service]
         /\ Dialled \subseteq Methods[service]
<1>1. service \in {"auth", "profiles", "map"}
  BY ServiceAssumption
<1>2. CASE service = "auth"
  <2>1. Stubs[service] = AuthStubs /\ Routes[service] = AuthRoutes /\ Methods[service] = AuthMethods
    BY <1>2 DEF Stubs, Routes, Methods
  <2>2. DOMAIN AuthStubs = AuthMethods /\ AuthRoutes = AuthMethods
    BY DEF AuthStubs, AuthRoutes, AuthMethods
  <2>3. \A rpc \in AuthMethods : AuthStubs[rpc] = rpc
    BY DEF AuthStubs, AuthMethods
  <2>4. service # "profiles"
    BY <1>2
  <2> QED BY <2>1, <2>2, <2>3, <2>4 DEF Dialled
<1>3. CASE service = "profiles"
  <2>1. /\ Stubs[service] = ProfilesStubs /\ Routes[service] = ProfilesRoutes
        /\ Methods[service] = ProfilesMethods
    BY <1>3 DEF Stubs, Routes, Methods
  <2>2. DOMAIN ProfilesStubs = ProfilesMethods /\ ProfilesRoutes \subseteq ProfilesMethods
    BY DEF ProfilesStubs, ProfilesRoutes, ProfilesMethods
  <2>3. \A rpc \in ProfilesMethods : ProfilesStubs[rpc] = rpc
    BY DEF ProfilesStubs, ProfilesMethods
  <2>4. HandoffStub \in ProfilesMethods
    BY DEF HandoffStub, ProfilesMethods
  <2> QED BY <2>1, <2>2, <2>3, <2>4 DEF Dialled
<1>4. CASE service = "map"
  <2>1. Stubs[service] = MapStubs /\ Routes[service] = MapRoutes /\ Methods[service] = MapMethods
    BY <1>4 DEF Stubs, Routes, Methods
  <2>2. DOMAIN MapStubs = MapMethods /\ MapRoutes = MapMethods
    BY DEF MapStubs, MapRoutes, MapMethods
  <2>3. \A rpc \in MapMethods : MapStubs[rpc] = rpc
    BY DEF MapStubs, MapMethods
  <2>4. service # "profiles"
    BY <1>4
  <2> QED BY <2>1, <2>2, <2>3, <2>4 DEF Dialled
<1> QED BY <1>1, <1>2, <1>3, <1>4

\* A call at the edge came in by a route of this service; so it is forwarded, and
\* none was ever found without a method.
RouteInv ==
  /\ \A c \in Calls : call[c].caller = "edge" => call[c].rpc \in Routes[service]
  /\ RoutesAreServed

LEMMA RouteOfCall ==
  ASSUME TypeOK, RouteInv, UNCHANGED service, NEW c \in Calls,
         \/ \E method \in Dialled : Dial(c, method)
         \/ \E rpc \in Routes[service] : Request(c, rpc)
         \/ Progress(c) \/ Abort(c) \/ HangUp(c)
  PROVE  RouteInv'
<1>1. call \in [Calls -> CallRecord]
  BY DEF TypeOK
<1>2. /\ \A rpc \in Routes[service] : Stubs[service][rpc] \in Methods[service]
      /\ Dialled \subseteq Methods[service]
  BY TablesAgree DEF TypeOK
<1>3. /\ call[c].caller = "edge" => call[c].rpc \in Routes[service]
      /\ call[c].caller # "unimplemented"
  BY DEF RouteInv, RoutesAreServed
<1>4. \A d \in Calls \ {c} : call'[d] = call[d]
  BY CallShape
<1>5. SUFFICES /\ call'[c].caller = "edge" => call'[c].rpc \in Routes[service]
               /\ call'[c].caller # "unimplemented"
  BY <1>4 DEF RouteInv, RoutesAreServed
<1>6. CASE \E method \in Dialled : Dial(c, method)
  <2>1. PICK method \in Methods[service] : Dial(c, method)
    BY <1>2, <1>6
  <2>2. call'[c] = Dispatched("grpc", method)
    BY <1>1, <2>1 DEF Dial
  <2> QED BY <2>1, <2>2 DEF Dispatched
<1>7. CASE \E rpc \in Routes[service] : Request(c, rpc)
  BY <1>1, <1>7 DEF Request
<1>8. CASE Forward(c)
  <2>1. Stubs[service][call[c].rpc] \in Methods[service]
    BY <1>2, <1>3, <1>8 DEF Forward
  <2>2. CASE conn = "open" /\ grpc = "serving"
    <3>1. call'[c] = Dispatched("rest", Stubs[service][call[c].rpc])
      BY <1>1, <1>8, <2>2 DEF Forward
    <3> QED BY <2>1, <3>1 DEF Dispatched
  <2>3. CASE ~(conn = "open" /\ grpc = "serving")
    BY <1>1, <1>8, <2>3 DEF Forward, CallRecord
  <2> QED BY <2>2, <2>3
<1>9. CASE BadBody(c) \/ Reply(c)
  BY <1>1, <1>3, <1>9 DEF BadBody, Reply, CallRecord
<1>10. CASE Abort(c) \/ HangUp(c)
  BY <1>1, <1>3, <1>10 DEF Abort, HangUp, CallRecord
<1> QED BY <1>6, <1>7, <1>8, <1>9, <1>10 DEF Progress

\* The steps that are about no call in particular only cut callers off.
LEMMA RouteOfOthers ==
  ASSUME TypeOK, RouteInv, UNCHANGED service,
         \/ Lifecycle \/ Janitor \/ ServeError \/ Signal \/ Restart \/ Tick
  PROVE  RouteInv'
<1>1. call \in [Calls -> CallRecord]
  BY DEF TypeOK
<1>2. \A c \in Calls : call'[c].rpc = call[c].rpc /\ call'[c].caller \in {call[c].caller, "cut"}
  <2>1. CASE CloseConn
    BY <1>1, <2>1 DEF CloseConn, CallRecord
  <2>2. CASE Exit
    BY <1>1, <2>2 DEF Exit, Ended, CallRecord
  <2>3. CASE UNCHANGED call
    BY <2>3
  <2> QED BY <2>1, <2>2, <2>3 DEF Lifecycle, Janitor, ServeError, Signal, Restart, Tick, Assemble, SetupFails,
       Assembled, ServeGrpc, ListenAndServe, GracefulStop, GrpcStopped, HttpShutdown, Release,
       Reconciled, JanitorStopped
<1> QED BY <1>2 DEF RouteInv, RoutesAreServed

\* Every route, through its stub, and every call over gRPC, Auth's hand-off among
\* them, ends at a method of the server it is made to.
THEOREM RoutesServed == Spec => []RoutesAreServed
<1>1. Init => TypeOK /\ RouteInv
  <2> SUFFICES ASSUME Init PROVE TypeOK /\ RouteInv
    OBVIOUS
  <2>1. \A c \in Calls : call[c] = NoCall
    BY DEF Init
  <2> QED BY TypeInit, <2>1 DEF NoCall, RouteInv, RoutesAreServed
<1>2. TypeOK /\ RouteInv /\ [Next]_vars => TypeOK' /\ RouteInv'
  <2> SUFFICES ASSUME TypeOK, RouteInv, [Next]_vars PROVE TypeOK' /\ RouteInv'
    OBVIOUS
  <2>1. TypeOK'
    BY TypeStep
  <2>2. CASE UNCHANGED vars
    BY <2>1, <2>2 DEF vars, RouteInv, RoutesAreServed
  <2>3. CASE Next
    BY <2>1, <2>3, RouteOfCall, RouteOfOthers DEF Next
  <2> QED BY <2>1, <2>2, <2>3
<1>3. RouteInv => RoutesAreServed
  BY DEF RouteInv
<1> QED BY <1>1, <1>2, <1>3, PTL DEF Spec
================================================================================
