------------------------ MODULE HttpTransportProofs ------------------------
(***************************************************************************)
(* Theorems about HttpTransport, for any number of requests and routes.    *)
(***************************************************************************)
EXTENDS HttpTransport, FiniteSetTheorems, TLAPS

\* Where the thread can be, given where the host is.  What the listening thread
\* and the workers do rests on it: only a Start that gave up on a slow thread
\* leaves one behind that nobody waits for, and requests exist only while the
\* thread is between listen and the end of its workers.
ThreadInOrder ==
    /\ call = "start" => state \in {"Inited", "Stopped"}
    /\ Served # {} /\ ~(terminated /\ late) => server_thread_ \in {"listening", "closed", "broken"}
    /\ ~late =>
          /\ InListen => server_
          /\ call = "none" /\ state # "Started" => Joined
          /\ call = "none" => server_thread_ \notin {"spawned", "binding"}
          /\ call \in {"stop", "fini", "destroy"} =>
                 server_thread_ \notin {"spawned", "binding", "listening"}

IInv == TypeOK /\ ActiveIsInFlight /\ ThreadInOrder

\* What is in flight is counted in the range of the counter.
LEMMA InFlightBound ==
    ASSUME requests \in [Requests -> RequestStates]
    PROVE  /\ IsFiniteSet(InFlight)
           /\ Cardinality(InFlight) \in Nat
           /\ Cardinality(InFlight) + MaxThrows <= CounterMax
<1>1. InFlight \in SUBSET Requests
  BY DEF InFlight
<1>2. IsFiniteSet(InFlight) /\ Cardinality(InFlight) <= Cardinality(Requests)
  BY <1>1, FS_Subset, HttpTransportAssumption
<1>3. Cardinality(InFlight) \in Nat /\ Cardinality(Requests) \in Nat
  BY <1>2, FS_CardinalityType, HttpTransportAssumption
<1>4. QED BY <1>2, <1>3, HttpTransportAssumption

LEMMA InitInv == Init => IInv
<1> SUFFICES ASSUME Init PROVE IInv
  OBVIOUS
<1>1. TypeOK
  <2>1. requests \in [Requests -> RequestStates]
    BY DEF Init, RequestStates
  <2>2. active_requests \in 0 .. CounterMax /\ leaked \in 0 .. MaxThrows
    BY HttpTransportAssumption DEF Init
  <2>3. server_ \in BOOLEAN /\ terminated \in BOOLEAN /\ late \in BOOLEAN /\ overlapped \in BOOLEAN
    BY DEF Init
  <2>4. download_handlers_ \subseteq Routes /\ upload_handlers_ \subseteq Routes
    BY DEF Init
  <2>5. /\ state = "Created" /\ call = "none" /\ role = "client" /\ server_thread_ = "none"
    BY DEF Init
  <2>6. QED BY <2>1, <2>2, <2>3, <2>4, <2>5 DEF TypeOK
<1>2. InFlight = {} /\ Served = {}
  BY DEF Init, InFlight, Served, Idle
<1>3. ActiveIsInFlight
  BY <1>2, FS_EmptySet DEF Init, ActiveIsInFlight
<1>4. ThreadInOrder
  BY <1>2 DEF Init, ThreadInOrder, InListen, Joined
<1>5. QED BY <1>1, <1>3, <1>4 DEF IInv

-----------------------------------------------------------------------------
(* The host.                                                               *)

HostSteps == HostReturns \/ HostCalls

LEMMA HostCounts ==
    ASSUME IInv, HostSteps
    PROVE  /\ requests' = requests
           /\ ActiveIsInFlight'
           /\ active_requests' \in 0 .. CounterMax
           /\ overlapped' \in BOOLEAN
           /\ leaked' \in 0 .. MaxThrows
<1>1. requests' = requests
  BY DEF HostSteps, HostReturns, HostCalls, StartSucceeds, StartFails, StopReturns, FiniReturns,
         Destroyed, OnInit, StartClient, StartServer, Stop, FiniStarted, FiniQuiet, FiniCreated,
         Destroy, OnStop
<1>2. InFlight' = InFlight
  BY <1>1 DEF InFlight
<1>3. IsFiniteSet(InFlight) /\ Cardinality(InFlight) \in Nat
  BY InFlightBound DEF IInv, TypeOK
<1>4. ResetSnapshot \/ UNCHANGED <<active_requests, overlapped, leaked>>
  BY DEF HostSteps, HostReturns, HostCalls, StartSucceeds, StartFails, StopReturns, FiniReturns,
         Destroyed, OnInit, StartClient, StartServer, Stop, FiniStarted, FiniQuiet, FiniCreated,
         Destroy, OnStop, OnFini, history
<1>5. CASE ResetSnapshot
  <2>1. Cardinality(InFlight) = 0 <=> InFlight = {}
    BY <1>3, FS_EmptySet
  <2>2. /\ overlapped' \in BOOLEAN
        /\ ~overlapped' => InFlight = {}
    BY <1>5, Zenon DEF ResetSnapshot
  <2>3. active_requests' = 0 /\ leaked' = 0
    BY <1>5 DEF ResetSnapshot
  <2>4. QED BY <1>1, <1>2, <1>3, <2>1, <2>2, <2>3, HttpTransportAssumption DEF ActiveIsInFlight
<1>6. CASE UNCHANGED <<active_requests, overlapped, leaked>>
  BY <1>1, <1>2, <1>6 DEF IInv, TypeOK, ActiveIsInFlight
<1>7. QED BY <1>1, <1>4, <1>5, <1>6

LEMMA HostType ==
    ASSUME IInv, HostSteps
    PROVE  TypeOK'
<1> USE HttpTransportAssumption
<1>1. /\ requests' \in [Requests -> RequestStates]
      /\ active_requests' \in 0 .. CounterMax
      /\ overlapped' \in BOOLEAN /\ leaked' \in 0 .. MaxThrows
  BY HostCounts DEF IInv, TypeOK
<1>2. CASE HostReturns
  BY <1>1, <1>2 DEF IInv, TypeOK, HostReturns, StartSucceeds, StartFails, StopReturns, FiniReturns,
         Destroyed, OnFini, tables, history
<1>3. CASE OnInit \/ StartClient
  BY <1>1, <1>3 DEF IInv, TypeOK, OnInit, StartClient, tables, history
<1>4. CASE StartServer
  <2>1. terminated' \in BOOLEAN
    BY <1>4, Zenon DEF StartServer
  <2>2. QED BY <1>1, <1>4, <2>1 DEF IInv, TypeOK, StartServer, tables, history
<1>5. CASE Stop \/ FiniStarted \/ Destroy
  BY <1>1, <1>5 DEF IInv, TypeOK, Stop, FiniStarted, Destroy, OnStop, StopServer, tables, history
<1>6. CASE FiniQuiet \/ FiniCreated
  BY <1>1, <1>6 DEF IInv, TypeOK, FiniQuiet, FiniCreated, OnFini, tables, history
<1>7. QED BY <1>2, <1>3, <1>4, <1>5, <1>6 DEF HostSteps, HostCalls

LEMMA HostOrder ==
    ASSUME IInv, HostSteps
    PROVE  ThreadInOrder'
<1>1. Served' = Served
  BY HostCounts DEF Served
<1>2. CASE StartSucceeds
  BY <1>1, <1>2 DEF IInv, TypeOK, ThreadInOrder, InListen, Joined, IsRunning, StartSucceeds, history
<1>3. CASE StartFails
  BY <1>1, <1>3 DEF IInv, TypeOK, ThreadInOrder, InListen, Joined, IsRunning, StartFails
<1>4. CASE StopReturns \/ FiniReturns \/ Destroyed
  BY <1>1, <1>4 DEF IInv, TypeOK, ThreadInOrder, InListen, Joined, StopReturns, FiniReturns, Destroyed,
         OnFini, history
<1>5. CASE OnInit \/ StartClient \/ StartServer
  BY <1>1, <1>5 DEF IInv, TypeOK, ThreadInOrder, InListen, Joined, Free, OnInit, StartClient, StartServer,
         history
<1>6. CASE Stop \/ FiniStarted \/ Destroy
  BY <1>1, <1>6 DEF IInv, TypeOK, ThreadInOrder, InListen, Joined, Free, IsRunning, Stop, FiniStarted,
         Destroy, OnStop, StopServer, history
<1>7. CASE FiniQuiet \/ FiniCreated
  BY <1>1, <1>7 DEF IInv, TypeOK, ThreadInOrder, InListen, Joined, Free, FiniQuiet, FiniCreated, OnFini,
         history
<1>8. QED BY <1>2, <1>3, <1>4, <1>5, <1>6, <1>7 DEF HostSteps, HostCalls, HostReturns

-----------------------------------------------------------------------------
(* The handler tables and the listening thread.                            *)

TableSteps ==
    \E route \in Routes : \/ RegisterDownloadHandler(route)
                          \/ RegisterUploadHandler(route)
                          \/ UnregisterHandler(route)

LEMMA TableInv ==
    ASSUME IInv, TableSteps
    PROVE  IInv'
<1>1. /\ UNCHANGED <<module, server_, server_thread_, active_requests, requests, terminated, history>>
      /\ download_handlers_' \subseteq Routes /\ upload_handlers_' \subseteq Routes
  BY DEF IInv, TypeOK, TableSteps, RegisterDownloadHandler, RegisterUploadHandler, UnregisterHandler
<1>2. InFlight' = InFlight /\ Served' = Served
  BY <1>1 DEF InFlight, Served
<1>3. TypeOK'
  BY <1>1 DEF IInv, TypeOK, module, history
<1>4. ActiveIsInFlight'
  BY <1>1, <1>2 DEF IInv, ActiveIsInFlight, history
<1>5. ThreadInOrder'
  BY <1>1, <1>2 DEF IInv, ThreadInOrder, InListen, Joined, module, history
<1>6. QED BY <1>3, <1>4, <1>5 DEF IInv

ThreadSteps == ThreadSettles \/ AcceptFails

LEMMA ThreadInv ==
    ASSUME IInv, ThreadSteps
    PROVE  IInv'
<1>1. /\ UNCHANGED <<module, server_, tables, active_requests, requests, terminated, history>>
      /\ ~terminated
  BY DEF ThreadSteps, ThreadSettles, AcceptFails, ReadServer, BindFails, Listens, ListenReturns, Thread
<1>2. InFlight' = InFlight /\ Served' = Served
  BY <1>1 DEF InFlight, Served
<1>3. TypeOK'
  BY <1>1 DEF IInv, TypeOK, module, tables, history, ThreadSteps, ThreadSettles, AcceptFails, ReadServer,
              BindFails, Listens, ListenReturns, Thread
<1>4. ActiveIsInFlight'
  BY <1>1, <1>2 DEF IInv, ActiveIsInFlight, history
<1>5. ThreadInOrder'
  BY <1>1, <1>2 DEF IInv, TypeOK, ThreadInOrder, InListen, Joined, module, history, ThreadSteps,
              ThreadSettles, AcceptFails, ReadServer, BindFails, Listens, ListenReturns, Thread
<1>6. QED BY <1>3, <1>4, <1>5 DEF IInv

-----------------------------------------------------------------------------
(* Requests: each step moves one request, and the counter with it.         *)

\* A request that goes on, neither joining nor leaving those in flight ...
LEMMA RequestStays ==
    ASSUME IInv, NEW r \in Requests,
           NEW value \in RequestStates, requests' = [requests EXCEPT ![r] = value],
           r \in InFlight <=> value.pc \notin {"idle", "queued"},
           active_requests' = active_requests, overlapped' = overlapped, leaked' = leaked
    PROVE  /\ requests' \in [Requests -> RequestStates]
           /\ active_requests' \in 0 .. CounterMax
           /\ ActiveIsInFlight'
<1>1. requests' \in [Requests -> RequestStates]
  BY DEF IInv, TypeOK
<1>2. InFlight' = InFlight
  BY DEF IInv, TypeOK, InFlight
<1>3. QED BY <1>1, <1>2 DEF IInv, TypeOK, ActiveIsInFlight

\* ... one that begins to be counted ...
LEMMA RequestBegins ==
    ASSUME IInv, NEW r \in Requests, r \notin InFlight,
           NEW value \in RequestStates, requests' = [requests EXCEPT ![r] = value],
           value.pc \notin {"idle", "queued"},
           active_requests' = active_requests + 1, overlapped' = overlapped, leaked' = leaked
    PROVE  /\ requests' \in [Requests -> RequestStates]
           /\ active_requests' \in 0 .. CounterMax
           /\ ActiveIsInFlight'
<1>1. requests' \in [Requests -> RequestStates]
  BY DEF IInv, TypeOK
<1>2. InFlight' = InFlight \cup {r}
  BY DEF IInv, TypeOK, InFlight
<1>3. IsFiniteSet(InFlight) /\ Cardinality(InFlight) \in Nat
  BY InFlightBound DEF IInv, TypeOK
<1>4. Cardinality(InFlight') = Cardinality(InFlight) + 1
  BY <1>2, <1>3, FS_AddElement
<1>5. ActiveIsInFlight'
  BY <1>3, <1>4 DEF IInv, TypeOK, ActiveIsInFlight
<1>6. Cardinality(InFlight') \in Nat /\ Cardinality(InFlight') + MaxThrows <= CounterMax
  <2>1. InFlight' \in SUBSET Requests
    BY DEF InFlight
  <2>2. IsFiniteSet(InFlight') /\ Cardinality(InFlight') <= Cardinality(Requests)
    BY <2>1, FS_Subset, HttpTransportAssumption
  <2>3. Cardinality(InFlight') \in Nat /\ Cardinality(Requests) \in Nat
    BY <2>2, FS_CardinalityType, HttpTransportAssumption
  <2>4. QED BY <2>2, <2>3, HttpTransportAssumption
<1>7. active_requests' \in 0 .. CounterMax
  <2>1. active_requests' <= Cardinality(InFlight') + leaked' /\ leaked' \in 0 .. MaxThrows
        /\ active_requests' \in Nat
    BY <1>5 DEF IInv, TypeOK, ActiveIsInFlight
  <2>2. QED BY <1>6, <2>1, HttpTransportAssumption
<1>8. QED BY <1>1, <1>5, <1>7

\* ... and one that ends, which the counter does not fall below zero for.
LEMMA RequestEnds ==
    ASSUME IInv, NEW r \in Requests, r \in InFlight,
           requests' = [requests EXCEPT ![r] = Idle],
           active_requests' = Less(active_requests), overlapped' = overlapped, leaked' = leaked
    PROVE  /\ requests' \in [Requests -> RequestStates]
           /\ active_requests' \in 0 .. CounterMax
           /\ ActiveIsInFlight'
<1>1. requests' \in [Requests -> RequestStates]
  BY DEF IInv, TypeOK, RequestStates
<1>2. InFlight' = InFlight \ {r}
  BY DEF IInv, TypeOK, InFlight, Idle
<1>3. IsFiniteSet(InFlight) /\ Cardinality(InFlight) \in Nat
  BY InFlightBound DEF IInv, TypeOK
<1>4. Cardinality(InFlight') = Cardinality(InFlight) - 1
  BY <1>2, <1>3, FS_RemoveElement
<1>5. Cardinality(InFlight) # 0
  BY <1>3, FS_EmptySet
<1>6. QED
  BY <1>1, <1>3, <1>4, <1>5, HttpTransportAssumption DEF IInv, TypeOK, ActiveIsInFlight, Less

\* An exception ends a request, and the counter keeps it.
LEMMA ThrowInv ==
    ASSUME IInv, NEW r \in Requests, Throws(r)
    PROVE  IInv'
<1>1. /\ UNCHANGED <<module, server_, server_thread_, tables, terminated, late, overlapped>>
      /\ ~terminated /\ requests' = [requests EXCEPT ![r] = Idle] /\ r \in InFlight
      /\ active_requests' = active_requests /\ leaked' = leaked + 1 /\ leaked < MaxThrows
  BY DEF Throws, InFlight
<1>2. requests \in [Requests -> RequestStates] /\ leaked \in 0 .. MaxThrows /\ active_requests \in 0 .. CounterMax
  BY DEF IInv, TypeOK
<1>3. InFlight' = InFlight \ {r} /\ Served' \subseteq Served
  BY <1>1, <1>2 DEF InFlight, Served, Idle
<1>4. IsFiniteSet(InFlight) /\ Cardinality(InFlight) \in Nat
  BY <1>2, InFlightBound
<1>5. Cardinality(InFlight') = Cardinality(InFlight) - 1 /\ Cardinality(InFlight') \in Nat
  BY <1>1, <1>3, <1>4, FS_RemoveElement, FS_CardinalityType
<1>6. Cardinality(InFlight') + leaked' = Cardinality(InFlight) + leaked
  BY <1>1, <1>2, <1>4, <1>5
<1>7. ActiveIsInFlight'
  BY <1>1, <1>6 DEF IInv, ActiveIsInFlight
<1>8. requests' \in [Requests -> RequestStates] /\ leaked' \in 0 .. MaxThrows
  BY <1>1, <1>2, HttpTransportAssumption DEF RequestStates
<1>9. TypeOK'
  BY <1>1, <1>8 DEF IInv, TypeOK, module, tables
<1>10. ThreadInOrder'
  BY <1>1, <1>3 DEF IInv, ThreadInOrder, InListen, Joined, module
<1>11. QED BY <1>7, <1>9, <1>10 DEF IInv

\* One in the reader of a streamed body ends the program.
LEMMA ReaderThrowInv ==
    ASSUME IInv, NEW r \in Requests, ReaderThrows(r)
    PROVE  IInv'
<1>1. /\ UNCHANGED <<module, server_, server_thread_, tables, active_requests, requests, history>>
      /\ terminated' = TRUE
  BY DEF ReaderThrows
<1>2. InFlight' = InFlight /\ Served' = Served
  BY <1>1 DEF InFlight, Served
<1>3. TypeOK' /\ ActiveIsInFlight'
  BY <1>1, <1>2 DEF IInv, TypeOK, ActiveIsInFlight, module, tables, history
<1>4. ThreadInOrder'
  <2>1. ~terminated
    BY DEF ReaderThrows
  <2>2. QED BY <1>1, <1>2, <2>1 DEF IInv, ThreadInOrder, InListen, Joined, module, history
<1>5. QED BY <1>3, <1>4 DEF IInv

RequestSteps ==
    \E r \in Requests : \/ \E kind \in {"download", "upload"} : Accept(r, kind)
                        \/ ClientCall(r)
                        \/ RequestProceeds(r)

\* Whichever step it is, it is of one of the three sorts.
LEMMA RequestCounts ==
    ASSUME IInv, RequestSteps
    PROVE  /\ requests' \in [Requests -> RequestStates]
           /\ active_requests' \in 0 .. CounterMax
           /\ ActiveIsInFlight'
<1>1. PICK r \in Requests : \/ \E kind \in {"download", "upload"} : Accept(r, kind)
                            \/ ClientCall(r)
                            \/ RequestProceeds(r)
  BY DEF RequestSteps
<1>2. requests \in [Requests -> RequestStates] /\ requests[r] \in RequestStates
  BY DEF IInv, TypeOK
<1>3. ASSUME NEW kind \in {"download", "upload"}, Accept(r, kind)
      PROVE  /\ requests' \in [Requests -> RequestStates]
             /\ active_requests' \in 0 .. CounterMax
             /\ ActiveIsInFlight'
  <2>1. [kind |-> kind, pc |-> "queued"] \in RequestStates
    BY DEF RequestStates
  <2>2. r \notin InFlight
    BY <1>3 DEF Accept, InFlight, Idle
  <2>3. QED BY <1>3, <2>1, <2>2, RequestStays DEF Accept, history
<1>4. CASE ClientCall(r)
  <2>1. [kind |-> "call", pc |-> "calling"] \in RequestStates
    BY DEF RequestStates
  <2>2. r \notin InFlight
    BY <1>4 DEF ClientCall, InFlight, Idle
  <2>3. QED BY <1>4, <2>1, <2>2, RequestBegins DEF ClientCall, history
<1>5. CASE Malformed(r)
  <2>1. Idle \in RequestStates /\ r \notin InFlight
    BY <1>5 DEF RequestStates, Malformed, InFlight
  <2>2. QED BY <1>5, <2>1, RequestStays DEF Malformed, history, Idle
<1>6. CASE AddActiveRequest(r)
  <2>1. [requests[r] EXCEPT !.pc = "active"] \in RequestStates
    BY <1>2, <1>6 DEF RequestStates, AddActiveRequest, Idle
  <2>2. r \notin InFlight
    BY <1>6 DEF AddActiveRequest, InFlight
  <2>3. [requests[r] EXCEPT !.pc = "active"].pc = "active"
    BY <1>2 DEF RequestStates, Idle
  <2>4. requests' = [requests EXCEPT ![r] = [requests[r] EXCEPT !.pc = "active"]]
    BY <1>2, <1>6 DEF AddActiveRequest, Request
  <2>5. QED BY <1>6, <2>1, <2>2, <2>3, <2>4, RequestBegins DEF AddActiveRequest, Request, history
<1>7. ASSUME NEW pc \in {"serving", "ending", "streaming"}, Request(r, pc, active_requests),
             requests[r].pc \in {"active", "serving"},
             pc = "streaming" => requests[r].kind = "download"
      PROVE  /\ requests' \in [Requests -> RequestStates]
             /\ active_requests' \in 0 .. CounterMax
             /\ ActiveIsInFlight'
  <2>1. /\ [requests[r] EXCEPT !.pc = pc] \in RequestStates
        /\ [requests[r] EXCEPT !.pc = pc].pc = pc
    BY <1>2, <1>7 DEF RequestStates, Idle
  <2>2. r \in InFlight
    BY <1>7 DEF InFlight
  <2>3. requests' = [requests EXCEPT ![r] = [requests[r] EXCEPT !.pc = pc]]
    BY <1>2, <1>7 DEF Request
  <2>4. QED BY <1>7, <2>1, <2>2, <2>3, RequestStays DEF Request, history
<1>8. CASE \E route \in Routes : LookUp(r, route)
  BY <1>7, <1>8 DEF LookUp
<1>9. CASE Serve(r)
  BY <1>7, <1>9 DEF Serve
<1>10. CASE FinishRequest(r)
  <2>1. r \in InFlight
    BY <1>10 DEF FinishRequest, InFlight
  <2>2. QED BY <1>10, <2>1, RequestEnds DEF FinishRequest, history
<1>11. QED BY <1>1, <1>3, <1>4, <1>5, <1>6, <1>8, <1>9, <1>10 DEF RequestProceeds

\* A request is served only from Accept on, when the thread listens.
LEMMA RequestServed ==
    ASSUME IInv, RequestSteps
    PROVE  Served' # {} => Served # {} \/ server_thread_ = "listening"
<1>1. requests \in [Requests -> RequestStates]
  BY DEF IInv, TypeOK
<1>2. PICK r \in Requests : \/ \E kind \in {"download", "upload"} : Accept(r, kind)
                            \/ ClientCall(r)
                            \/ RequestProceeds(r)
  BY DEF RequestSteps
<1>3. CASE \E kind \in {"download", "upload"} : Accept(r, kind)
  BY <1>3 DEF Accept
<1>4. CASE ClientCall(r) \/ Malformed(r) \/ FinishRequest(r)
  <2>1. Served' \subseteq Served
    BY <1>1, <1>4 DEF ClientCall, Malformed, FinishRequest, Served, Idle
  <2>2. QED BY <2>1
<1>5. ASSUME NEW pc, NEW active, Request(r, pc, active)
      PROVE  Served' = Served
  <2>1. requests[r] \in RequestStates
    BY <1>1
  <2>2. [requests[r] EXCEPT !.pc = pc].kind = requests[r].kind
    BY <2>1 DEF RequestStates, Idle
  <2>3. \A q \in Requests : requests'[q].kind = requests[q].kind
    BY <1>1, <1>5, <2>2 DEF Request
  <2>4. QED BY <2>3 DEF Served
<1>6. CASE AddActiveRequest(r) \/ (\E route \in Routes : LookUp(r, route)) \/ Serve(r)
  BY <1>5, <1>6 DEF AddActiveRequest, LookUp, Serve
<1>7. QED BY <1>2, <1>3, <1>4, <1>6 DEF RequestProceeds

LEMMA RequestInv ==
    ASSUME IInv, RequestSteps
    PROVE  IInv'
<1>1. /\ UNCHANGED <<module, server_, server_thread_, tables, terminated, history>>
      /\ ~terminated
  BY DEF RequestSteps, Accept, ClientCall, Usable, RequestProceeds, Malformed, AddActiveRequest, LookUp, Serve,
         FinishRequest, Request
<1>2. TypeOK'
  BY <1>1, RequestCounts DEF IInv, TypeOK, module, tables, history
<1>3. ThreadInOrder'
  BY <1>1, RequestServed DEF IInv, TypeOK, ThreadInOrder, InListen, Joined, module, history
<1>4. QED BY <1>2, <1>3, RequestCounts DEF IInv

-----------------------------------------------------------------------------
LEMMA NextInv == IInv /\ [Next]_vars => IInv'
<1> SUFFICES ASSUME IInv, [Next]_vars PROVE IInv'
  OBVIOUS
<1>1. CASE HostSteps
  BY <1>1, HostCounts, HostType, HostOrder DEF IInv
<1>2. CASE TableSteps
  BY <1>2, TableInv
<1>3. CASE ThreadSteps
  BY <1>3, ThreadInv
<1>4. CASE RequestSteps
  BY <1>4, RequestInv
<1>7. CASE \E r \in Requests : Throws(r) \/ ReaderThrows(r)
  BY <1>7, ThrowInv, ReaderThrowInv
<1>5. CASE UNCHANGED vars
  <2>1. InFlight' = InFlight /\ Served' = Served
    BY <1>5 DEF vars, InFlight, Served
  <2>2. TypeOK'
    BY <1>5 DEF IInv, TypeOK, vars, module, tables, history
  <2>3. ActiveIsInFlight'
    BY <1>5, <2>1 DEF IInv, ActiveIsInFlight, vars, history
  <2>4. ThreadInOrder'
    BY <1>5, <2>1 DEF IInv, ThreadInOrder, InListen, Joined, vars, module, history
  <2>5. QED BY <2>2, <2>3, <2>4 DEF IInv
<1>6. QED
  BY <1>1, <1>2, <1>3, <1>4, <1>5, <1>7 DEF Next, HostSteps, TableSteps, ThreadSteps, RequestSteps, Over

\* HttpTransportModule::OnStop and OnFini take the listening thread down before
\* the server it listens on, and leave no handler running, unless OnStart gave
\* up on a thread that was only slow.
THEOREM ServerGoesDownInOrder == Spec => []ServerAgrees
<1>1. IInv => ServerAgrees
  BY DEF IInv, ThreadInOrder, ServerAgrees, ServerOutlivesListen, QuietWhenDown, Joined
<1>2. QED BY <1>1, InitInv, NextInv, PTL DEF Spec

\* active_requests is what is in flight and what exceptions have ended since it
\* was last set to zero, or less after a reset with requests in flight: it never
\* wraps.
THEOREM CounterNeverWraps == Spec => []ActiveIsInFlight
<1>1. IInv => ActiveIsInFlight
  BY DEF IInv
<1>2. QED BY <1>1, InitInv, NextInv, PTL DEF Spec
=============================================================================
