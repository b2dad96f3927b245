---------------------------- MODULE HttpTransport ----------------------------
(***************************************************************************)
(* HttpTransportModule: the thread that listens, the workers that serve    *)
(* requests, the callers that download and upload as clients, and the host *)
(* that drives the module through its lifecycle.  They meet in mutex_,     *)
(* which guards server_, the two handler tables and the snapshot, and in   *)
(* server_thread_, which only the host touches.                            *)
(* Of the snapshot only active_requests is kept: the other counters are    *)
(* totals nothing reads.  httplib's listen binds, then accepts until its   *)
(* socket is closed, then waits for its workers; it answers 500 for a      *)
(* handler that throws, and the handler's own code after the throw is not  *)
(* run.                                                                    *)
(***************************************************************************)
EXTENDS Naturals, FiniteSets

CONSTANTS
    Roles,              \* the roles the configuration may give at an Init
    Routes,
    Requests,           \* bound: requests at once, served or sent
    MaxThrows,          \* bound: exceptions between two resets of the counter
    CounterMax          \* the largest value of active_requests

ASSUME HttpTransportAssumption ==
    /\ Roles \subseteq {"client", "server", "both"}
    /\ IsFiniteSet(Requests)
    /\ MaxThrows \in Nat
    /\ CounterMax \in Nat
    /\ Cardinality(Requests) + MaxThrows <= CounterMax

VARIABLES
    state,              \* ModuleBase's state_, or "Destroyed"
    call,               \* the lifecycle call the host is in
    role,               \* config_.role
    server_,            \* whether server_ holds a server
    server_thread_,     \* "none" when it is not joinable
    download_handlers_,
    upload_handlers_,
    active_requests,
    requests,           \* what each request is doing
    terminated,         \* std::terminate was called
    late,               \* history: OnStart gave up on a thread that was not at an end
    overlapped,         \* history: the counter was last reset with requests in flight
    leaked              \* history: requests since then that an exception ended

module == <<state, call, role>>
history == <<late, overlapped, leaked>>
tables == <<download_handlers_, upload_handlers_>>
vars   == <<module, server_, server_thread_, tables, active_requests, requests, terminated, history>>

-----------------------------------------------------------------------------
Idle == [kind |-> "none", pc |-> "idle"]

RequestStates ==
    {Idle}
    \cup [kind : {"call"}, pc : {"calling"}]
    \cup [kind : {"upload"}, pc : {"queued", "active", "serving", "ending"}]
    \cup [kind : {"download"}, pc : {"queued", "active", "serving", "streaming", "ending"}]

\* Between AddActiveRequest and FinishRequest.
InFlight == {r \in Requests : requests[r].pc \notin {"idle", "queued"}}
Served   == {r \in Requests : requests[r].kind \in {"download", "upload"}}
Calling  == {r \in Requests : requests[r].kind = "call"}

\* The thread is inside listen, on the object that server_ held.
InListen == server_thread_ \in {"binding", "listening", "closed", "broken"}

\* httplib's is_running_: set before the accept loop, cleared after its workers ended.
IsRunning == server_ /\ server_thread_ \in {"listening", "closed", "broken"}

Init ==
    /\ state = "Created"
    /\ call = "none"
    /\ role = "client"
    /\ server_ = FALSE
    /\ server_thread_ = "none"
    /\ download_handlers_ = {}
    /\ upload_handlers_ = {}
    /\ active_requests = 0
    /\ requests = [r \in Requests |-> Idle]
    /\ terminated = FALSE
    /\ late = FALSE
    /\ overlapped = FALSE
    /\ leaked = 0

-----------------------------------------------------------------------------
(* The host's calls.  ModuleBase checks the state, then runs the hook.     *)

Free == call = "none" /\ ~terminated

\* OnInit and OnFini start the snapshot anew.
ResetSnapshot ==
    /\ active_requests' = 0
    /\ overlapped' = (InFlight # {})
    /\ leaked' = 0

\* ModuleConfig is the manager's answer; one that ParseConfig refuses changes nothing.
OnInit ==
    /\ Free
    /\ state \in {"Created", "Fini"}
    /\ state' = "Inited"
    /\ role' \in Roles
    /\ download_handlers_' = {}
    /\ upload_handlers_' = {}
    /\ ResetSnapshot
    /\ UNCHANGED <<call, server_, server_thread_, requests, terminated, late>>

StartClient ==
    /\ Free
    /\ state \in {"Inited", "Stopped"}
    /\ role = "client"
    /\ state' = "Started"
    /\ UNCHANGED <<call, role, server_, server_thread_, tables, active_requests, requests,
                   terminated, history>>

\* Assigning to a std::thread that is still joinable terminates the program.
StartServer ==
    /\ Free
    /\ state \in {"Inited", "Stopped"}
    /\ role # "client"
    /\ server_' = TRUE
    /\ server_thread_' = "spawned"
    /\ call' = "start"
    /\ terminated' = (server_thread_ # "none")
    /\ UNCHANGED <<state, role, tables, active_requests, requests, history>>

StartSucceeds ==
    /\ call = "start"
    /\ ~terminated
    /\ IsRunning
    /\ call' = "none"
    /\ state' = "Started"
    /\ UNCHANGED <<role, server_, server_thread_, tables, active_requests, requests, terminated, history>>

\* kTimeout after a hundred polls; the module stays where it was.
StartFails ==
    /\ call = "start"
    /\ ~terminated
    /\ ~IsRunning
    /\ late' = (late \/ server_thread_ # "ended")
    /\ call' = "none"
    /\ UNCHANGED <<state, role, server_, server_thread_, tables, active_requests, requests,
                   terminated, overlapped, leaked>>

\* Server::stop does nothing to a server that is not running (yet).
StopServer ==
    server_thread_' = IF IsRunning /\ server_thread_ = "listening" THEN "closed"
                      ELSE server_thread_

\* Mutant: the server is not told to stop.
OnStopJoinOnly(op) ==
    /\ call' = op
    /\ UNCHANGED <<state, role, server_, server_thread_, tables, active_requests, requests,
                   terminated, history>>

\* OnStop up to the join, with mutex_ released again.
OnStop(op) ==
    /\ call' = op
    /\ StopServer
    /\ UNCHANGED <<state, role, server_, tables, active_requests, requests, terminated, history>>

Stop == Free /\ state = "Started" /\ OnStop("stop")

\* Fini runs OnStop only for a started module, ~HttpTransportModule always.
FiniStarted == Free /\ state = "Started" /\ OnStop("fini")
Destroy     == Free /\ state # "Destroyed" /\ Calling = {} /\ OnStop("destroy")

Joined == server_thread_ \in {"none", "ended"}

StopReturns ==
    /\ call = "stop"
    /\ ~terminated
    /\ Joined
    /\ call' = "none"
    /\ state' = "Stopped"
    /\ server_thread_' = "none"
    /\ UNCHANGED <<role, server_, tables, active_requests, requests, terminated, history>>

OnFini ==
    /\ call' = "none"
    /\ state' = "Fini"
    /\ download_handlers_' = {}
    /\ upload_handlers_' = {}
    /\ server_' = FALSE
    /\ ResetSnapshot

\* Mutant: the thread is not joined.
FiniReturnsEarly ==
    /\ call = "fini"
    /\ ~terminated
    /\ OnFini
    /\ UNCHANGED <<role, server_thread_, requests, terminated, late>>

FiniReturns ==
    /\ call = "fini"
    /\ ~terminated
    /\ Joined
    /\ server_thread_' = "none"
    /\ OnFini
    /\ UNCHANGED <<role, requests, terminated, late>>

\* From Inited or Stopped: OnFini alone, whatever server_thread_ is doing.
FiniQuiet ==
    /\ Free
    /\ state \in {"Inited", "Stopped"}
    /\ OnFini
    /\ UNCHANGED <<role, server_thread_, requests, terminated, late>>

\* From Created no hook runs.
FiniCreated ==
    /\ Free
    /\ state = "Created"
    /\ state' = "Fini"
    /\ UNCHANGED <<call, role, server_, server_thread_, tables, active_requests, requests,
                   terminated, history>>

Destroyed ==
    /\ call = "destroy"
    /\ ~terminated
    /\ Joined
    /\ call' = "none"
    /\ state' = "Destroyed"
    /\ server_' = FALSE
    /\ server_thread_' = "none"
    /\ UNCHANGED <<role, tables, active_requests, requests, terminated, history>>

-----------------------------------------------------------------------------
(* The handler tables: a route is in one of them at most.                  *)

Usable == state # "Destroyed" /\ call # "destroy" /\ ~terminated

RegisterDownloadHandler(route) ==
    /\ Usable
    /\ route \notin download_handlers_ \cup upload_handlers_
    /\ download_handlers_' = download_handlers_ \cup {route}
    /\ UNCHANGED <<module, server_, server_thread_, upload_handlers_, active_requests, requests,
                   terminated, history>>

RegisterUploadHandler(route) ==
    /\ Usable
    /\ route \notin download_handlers_ \cup upload_handlers_
    /\ upload_handlers_' = upload_handlers_ \cup {route}
    /\ UNCHANGED <<module, server_, server_thread_, download_handlers_, active_requests, requests,
                   terminated, history>>

UnregisterHandler(route) ==
    /\ Usable
    /\ route \in download_handlers_ \cup upload_handlers_
    /\ download_handlers_' = download_handlers_ \ {route}
    /\ upload_handlers_' = upload_handlers_ \ {route}
    /\ UNCHANGED <<module, server_, server_thread_, active_requests, requests, terminated, history>>

-----------------------------------------------------------------------------
(* The listening thread.  What listen does on a server that OnFini has     *)
(* destroyed is undefined; here it goes on as if the memory were intact.   *)

Thread(from, to) ==
    /\ ~terminated
    /\ server_thread_ = from
    /\ server_thread_' = to
    /\ UNCHANGED <<module, server_, tables, active_requests, requests, terminated, history>>

ReadServer == Thread("spawned", IF server_ THEN "binding" ELSE "ended")

\* The port is taken, or the address cannot be resolved.
BindFails == Thread("binding", "ended")
Listens   == Thread("binding", "listening")
\* accept fails while nobody asked it to.
AcceptFails == Thread("listening", "broken")
\* listen returns when its workers have served what was accepted.
ListenReturns == Served = {} /\ \E from \in {"closed", "broken"} : Thread(from, "ended")

-----------------------------------------------------------------------------
(* Requests.                                                               *)

Request(r, pc, active) ==
    /\ requests' = [requests EXCEPT ![r].pc = pc]
    /\ active_requests' = active
    /\ UNCHANGED <<module, server_, server_thread_, tables, terminated, history>>

\* A connection is accepted and waits for a worker.
Accept(r, kind) ==
    /\ ~terminated
    /\ server_thread_ = "listening"
    /\ requests[r] = Idle
    /\ requests' = [requests EXCEPT ![r] = [kind |-> kind, pc |-> "queued"]]
    /\ UNCHANGED <<module, server_, server_thread_, tables, active_requests, terminated, history>>

\* A request that cannot be read never reaches a handler.
Malformed(r) ==
    /\ ~terminated
    /\ requests[r].pc = "queued"
    /\ requests' = [requests EXCEPT ![r] = Idle]
    /\ UNCHANGED <<module, server_, server_thread_, tables, active_requests, terminated, history>>

AddActiveRequest(r) ==
    /\ ~terminated
    /\ requests[r].pc = "queued"
    /\ Request(r, "active", active_requests + 1)

Handlers(kind) == IF kind = "download" THEN download_handlers_ ELSE upload_handlers_

\* The handler is copied out of the table; 404 when there is none.
LookUp(r, route) ==
    /\ ~terminated
    /\ requests[r].pc = "active"
    /\ Request(r, IF route \in Handlers(requests[r].kind) THEN "serving" ELSE "ending",
               active_requests)

\* The handler returned an error or a whole answer; a download may stream its body.
Serve(r) ==
    /\ ~terminated
    /\ requests[r].pc = "serving"
    /\ \/ Request(r, "ending", active_requests)
       \/ /\ requests[r].kind = "download"
          /\ Request(r, "streaming", active_requests)

\* Download and Upload: ClientRoleEnabled is all they ask of the module.
ClientCall(r) ==
    /\ Usable
    /\ requests[r] = Idle
    /\ role # "server"
    /\ requests' = [requests EXCEPT ![r] = [kind |-> "call", pc |-> "calling"]]
    /\ active_requests' = active_requests + 1
    /\ UNCHANGED <<module, server_, server_thread_, tables, terminated, history>>

\* Mutant: an unsigned counter that wraps.
LessWrapped(n) == IF n > 0 THEN n - 1 ELSE CounterMax

Less(n) == IF n > 0 THEN n - 1 ELSE n

\* The answer is sent, the body streamed or cut off, the client's call over.
FinishRequest(r) ==
    /\ ~terminated
    /\ requests[r].pc \in {"ending", "streaming", "calling"}
    /\ requests' = [requests EXCEPT ![r] = Idle]
    /\ active_requests' = Less(active_requests)
    /\ UNCHANGED <<module, server_, server_thread_, tables, terminated, history>>

\* A handler that throws, or a callback of Download or Upload: FinishRequest is
\* passed over, and the request stays in the counter.
Throws(r) ==
    /\ ~terminated
    /\ requests[r].pc \in {"serving", "calling"}
    /\ leaked < MaxThrows
    /\ leaked' = leaked + 1
    /\ requests' = [requests EXCEPT ![r] = Idle]
    /\ UNCHANGED <<module, server_, server_thread_, tables, active_requests, terminated, late, overlapped>>

\* The reader of a streamed body runs outside httplib's try: nothing catches it.
ReaderThrows(r) ==
    /\ ~terminated
    /\ requests[r].pc = "streaming"
    /\ terminated' = TRUE
    /\ UNCHANGED <<module, server_, server_thread_, tables, active_requests, requests, history>>

-----------------------------------------------------------------------------
HostReturns == StartSucceeds \/ StartFails \/ StopReturns \/ FiniReturns \/ Destroyed

HostCalls == \/ OnInit \/ StartClient \/ StartServer \/ Stop
             \/ FiniStarted \/ FiniQuiet \/ FiniCreated \/ Destroy

ThreadSettles == ReadServer \/ BindFails \/ Listens \/ ListenReturns

RequestProceeds(r) ==
    \/ Malformed(r) \/ AddActiveRequest(r)
    \/ \E route \in Routes : LookUp(r, route)
    \/ Serve(r) \/ FinishRequest(r)

Over == (state = "Destroyed" \/ terminated) /\ UNCHANGED vars

Next ==
    \/ HostReturns
    \/ HostCalls
    \/ ThreadSettles
    \/ AcceptFails
    \/ \E route \in Routes : \/ RegisterDownloadHandler(route)
                             \/ RegisterUploadHandler(route)
                             \/ UnregisterHandler(route)
    \/ \E r \in Requests : \/ \E kind \in {"download", "upload"} : Accept(r, kind)
                           \/ ClientCall(r)
                           \/ RequestProceeds(r)
                           \/ Throws(r) \/ ReaderThrows(r)
    \/ Over

Spec == Init /\ [][Next]_vars

\* The host polls and joins, listen binds or fails, handlers return and
\* connections have timeouts (OnStart sets both of httplib's).
Fairness ==
    /\ WF_vars(HostReturns)
    /\ WF_vars(ThreadSettles)
    /\ \A r \in Requests : WF_vars(RequestProceeds(r))

FairSpec == Spec /\ Fairness

-----------------------------------------------------------------------------
\* Types; active_requests never reaches the value an unsigned counter wraps to.
TypeOK ==
    /\ state \in {"Created", "Inited", "Started", "Stopped", "Fini", "Destroyed"}
    /\ call \in {"none", "start", "stop", "fini", "destroy"}
    /\ role \in {"client", "server", "both"}
    /\ server_ \in BOOLEAN
    /\ server_thread_ \in {"none", "spawned", "binding", "listening", "closed", "broken", "ended"}
    /\ download_handlers_ \subseteq Routes
    /\ upload_handlers_ \subseteq Routes
    /\ active_requests \in 0..CounterMax
    /\ requests \in [Requests -> RequestStates]
    /\ terminated \in BOOLEAN /\ late \in BOOLEAN /\ overlapped \in BOOLEAN
    /\ leaked \in 0..MaxThrows

\* The object the thread listens on lives as long as listen does, though OnFini
\* destroys it under mutex_, which listen does not hold: unless OnStart gave up
\* on a thread that was only slow.
ServerOutlivesListen == ~late /\ InListen => server_

\* "Stop() succeeded, running has stopped", "Fini() done, the module's
\* resources are released" (ModuleState.h): the thread is out of listen and
\* no handler runs once the call that says so returned; with the same proviso.
QuietWhenDown ==
    ~late /\ state \in {"Stopped", "Fini", "Destroyed"} /\ call = "none" =>
        Served = {} /\ server_thread_ \in {"none", "ended"}

\* The snapshot counts what is being served and sent, if nothing was when the
\* module last set the counter to zero, and on top of it every request that an
\* exception has ended since: no step takes those out again before the next
\* OnInit or OnFini.  With requests in flight at the reset a call ends in a
\* later life of the module than it began in, and the counter may be low: but
\* it is never higher than that, and never wraps.
ActiveIsInFlight ==
    /\ ~overlapped => active_requests = Cardinality(InFlight) + leaked
    /\ active_requests <= Cardinality(InFlight) + leaked

\* Every lifecycle call returns: the poll is bounded, and the join in OnStop
\* waits for a thread that stop() took out of accept.  A thread that OnStart
\* gave up on may come to listen after stop() has found nothing to stop.
CallsReturn == call # "none" ~> call = "none" \/ late \/ terminated

\* The server and its thread go down in order.
ServerAgrees == TypeOK /\ ServerOutlivesListen /\ QuietWhenDown
=============================================================================
