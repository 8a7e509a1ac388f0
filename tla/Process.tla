------------------------------ MODULE Process ------------------------------
(***************************************************************************)
(* The process around stores and services, for both commands: from its     *)
(* flags to its exit status, with the listeners it serves on and the       *)
(* checks their requests meet.                                             *)
(*                                                                         *)
(* Three shutters (streamingfast/shutter) tie it together, those of the    *)
(* application, of the sinker and of the gRPC server.  The first Shutdown  *)
(* of a shutter decides its error, runs the OnTerminating and then the     *)
(* OnTerminated callbacks; later calls do nothing.                         *)
(*                                                                         *)
(* External: what the shutter, the application of streamingfast/cli, the   *)
(* dgrpc server and the auth plugins do, as the code uses them.            *)
(***************************************************************************)
EXTENDS Integers, Sequences, SequencesExt

CONSTANTS
    Plugins, Organizations,
    Configs, \* combinations of flags the commands are started with
    Callers, \* what requests carry: the organisation each plugin sees in it
    Unset,   \* the empty string
    Unknown  \* no identity: the plugin rejects the call

Identity == Organizations \cup {Unset, Unknown}

ASSUME ProcessAssumption ==
    /\ Unset \notin Plugins /\ Unset # Unknown /\ Unknown \notin Organizations
    /\ Callers \subseteq [Plugins -> Identity]
    /\ Configs \subseteq
          [command : {"server", "remote-feed"}, scheme : STRING, manifest_path : BOOLEAN,
           common_auth_plugin : Plugins \cup {Unset}, organization_id : Organizations \cup {Unset},
           internal_addr : BOOLEAN, internal_auth_plugin : Plugins \cup {Unset}]

VARIABLES
    config,    \* the flags
    phase,     \* "loading", "wiring", "running", "exited"
    stream,    \* the goroutine of the sink: "none", "running", "ended"
    shutter,   \* of "app", "sinker" and "server"
    listeners, \* state of the public and of the internal listener
    registered,\* dgrpcServers, in the order they were made
    closing,   \* what GrpcServer.Shutdown has still to drain, or Idle
    calls,     \* one call per listener: in progress, handled or refused
    status,    \* exit status
    excused,   \* history: a signal came, or the stream came to its end
    late       \* history: listeners made after Shutdown looked at dgrpcServers

vars == <<config, phase, stream, shutter, listeners, registered, closing, calls, status, excused, late>>

Idle == <<"idle">>
Running == -1

Listeners == {"public", "internal"}
Shutters == {"app", "sinker", "server"}
Open == [stage |-> "open", err |-> FALSE]
NoCall == [at |-> "none"]

-----------------------------------------------------------------------------
(* Flags *)

\* ParseDSN: the scheme of the DSN names the driver.
Driver(scheme) ==
    CASE scheme \in {"psql", "postgres"} -> "postgres"
      [] scheme \in {"clickhouse", "bigtable", "badger"} -> scheme
      [] OTHER -> Unset

\* The drivers a command can build a store from.
Supported(c) ==
    Driver(c.scheme) \in (IF c.command = "server" THEN {"badger", "postgres"} ELSE {"badger"})

\* loadAuthConfig: the plugin and the organisation are set both or not at all.
AuthConsistent(c) == (c.common_auth_plugin = Unset) <=> (c.organization_id = Unset)

\* AuthConfig of a listener; Unset as authenticator disables the interceptors.
AuthConfig(c, l) ==
    LET plugin == IF l = "public" THEN c.common_auth_plugin ELSE c.internal_auth_plugin
    IN  [Authenticator |-> plugin,
         OrganizationID |-> IF plugin = Unset THEN Unset ELSE c.organization_id]

-----------------------------------------------------------------------------
(* Interceptors *)

\* Mutant of Interceptors: the organisation is looked at before it is known.
InterceptorsSwapped(c, l) ==
    LET cfg == AuthConfig(c, l)
    IN  IF cfg.Authenticator = Unset THEN <<>>
        ELSE IF cfg.OrganizationID = Unset THEN <<"auth">> ELSE <<"organization", "auth">>

\* authUnaryInterceptors, authStreamInterceptors
Interceptors(c, l) ==
    LET cfg == AuthConfig(c, l)
    IN  IF cfg.Authenticator = Unset THEN <<>>
        ELSE IF cfg.OrganizationID = Unset THEN <<"auth">> ELSE <<"auth", "organization">>

\* A call reaches a serving listener: health checks and calls of the services.
Call(l, caller, health) ==
    /\ listeners[l] = "serving" /\ calls[l] = NoCall
    /\ calls' = [calls EXCEPT ![l] =
                    [at |-> "interceptors", caller |-> caller, health |-> health,
                     trusted |-> Unknown, chain |-> Interceptors(config, l)]]
    /\ UNCHANGED <<config, phase, stream, shutter, listeners, registered, closing, status, excused, late>>

\* skipHealthUnary and the check it wraps: the plugin puts the identity it finds
\* into the context.  checkOrganization: the identity names the organisation.
Passes(l, call) ==
    \/ call.health
    \/ /\ Head(call.chain) = "auth"
       /\ call.caller[AuthConfig(config, l).Authenticator] # Unknown
    \/ /\ Head(call.chain) = "organization"
       /\ call.trusted # Unknown
       /\ call.trusted = AuthConfig(config, l).OrganizationID

Intercept(l) ==
    LET call == calls[l]
        seen == IF Head(call.chain) = "auth" /\ ~ call.health
                THEN call.caller[AuthConfig(config, l).Authenticator] ELSE call.trusted
    IN  /\ call.at = "interceptors" /\ call.chain # <<>>
        /\ calls' = [calls EXCEPT ![l] =
                        IF Passes(l, call)
                        THEN [call EXCEPT !.chain = Tail(@), !.trusted = seen]
                        ELSE [call EXCEPT !.at = "refused"]]
        /\ UNCHANGED <<config, phase, stream, shutter, listeners, registered, closing, status, excused, late>>

Handle(l) ==
    /\ calls[l].at = "interceptors" /\ calls[l].chain = <<>>
    /\ calls' = [calls EXCEPT ![l].at = "handled"]
    /\ UNCHANGED <<config, phase, stream, shutter, listeners, registered, closing, status, excused, late>>

\* The client has its answer; the listener is free for the next call.
Reply(l) ==
    /\ calls[l].at \in {"handled", "refused"}
    /\ calls' = [calls EXCEPT ![l] = NoCall]
    /\ UNCHANGED <<config, phase, stream, shutter, listeners, registered, closing, status, excused, late>>

-----------------------------------------------------------------------------
(* Start *)

\* The store is built, the cursor loaded and the sinker started; remote-feed has
\* no sinker, and neither has a server without a manifest.
BuildStore ==
    /\ phase = "loading" /\ Supported(config)
    /\ phase' = "wiring"
    /\ stream' = IF config.command = "server" /\ config.manifest_path THEN "running" ELSE "none"
    /\ UNCHANGED <<config, shutter, listeners, registered, closing, calls, status, excused, late>>

\* loadAuthConfig and loadInternalAuthConfig, while the sinker runs already.
StartServer ==
    /\ phase = "wiring" /\ AuthConsistent(config)
    /\ phase' = "running"
    /\ UNCHANGED <<config, stream, shutter, listeners, registered, closing, calls, status, excused, late>>

\* Flags that lead nowhere, a database that cannot be opened, a plugin that
\* cannot be initialised: main prints the error and exits.
StartFails ==
    /\ phase \in {"loading", "wiring"}
    /\ phase' = "exited" /\ status' = 1
    /\ UNCHANGED <<config, stream, shutter, listeners, registered, closing, calls, excused, late>>

\* newServer: the internal listener, when there is one, is made first.
NewServer(l) ==
    /\ phase = "running" /\ listeners[l] = "none"
    /\ IF l = "internal" THEN config.internal_addr
       ELSE config.internal_addr => listeners["internal"] # "none"
    /\ listeners' = [listeners EXCEPT ![l] = "made"]
    /\ registered' = Append(registered, l)
    /\ late' = IF closing = Idle THEN late ELSE late \cup {l}
    /\ UNCHANGED <<config, phase, stream, shutter, closing, calls, status, excused>>

Launch(l) ==
    /\ phase = "running" /\ listeners[l] = "made"
    /\ listeners' = [listeners EXCEPT ![l] = "serving"]
    /\ UNCHANGED <<config, phase, stream, shutter, registered, closing, calls, status, excused, late>>

-----------------------------------------------------------------------------
(* End *)

\* The first Shutdown of a shutter.
Shut(s, err) ==
    IF shutter[s].stage = "open" THEN [shutter EXCEPT ![s] = [stage |-> "shut", err |-> err]]
    ELSE shutter

\* Mutant of StreamEnds: the sinker is shut down without the error of its stream.
StreamEndsSilently(err) ==
    /\ phase \in {"wiring", "running"} /\ stream = "running"
    /\ stream' = "ended"
    /\ shutter' = Shut("sinker", FALSE)
    /\ excused' = (excused \/ ~ err)
    /\ UNCHANGED <<config, phase, listeners, registered, closing, calls, status, late>>

\* substreamsClient.Run returns: a handler or the stream failed, or its last
\* block was handled.  Nothing stops it when the application shuts down: the
\* context it is given is never cancelled.
StreamEnds(err) ==
    /\ phase \in {"wiring", "running"} /\ stream = "running"
    /\ stream' = "ended"
    /\ shutter' = Shut("sinker", err)
    /\ excused' = (excused \/ ~ err)
    /\ UNCHANGED <<config, phase, listeners, registered, closing, calls, status, late>>

\* Mutant of ListenerFails: newServer does not register OnTerminated.
ListenerFailsAlone(l) ==
    /\ phase = "running" /\ listeners[l] \in {"made", "serving"}
    /\ listeners' = [listeners EXCEPT ![l] = "failed"]
    /\ calls' = [calls EXCEPT ![l] = NoCall]
    /\ UNCHANGED <<config, phase, stream, shutter, registered, closing, status, excused, late>>

\* A listener cannot be opened, or breaks: its OnTerminated shuts the server's
\* own shutter, past the draining Shutdown of GrpcServer.
ListenerFails(l) ==
    /\ phase = "running" /\ listeners[l] \in {"made", "serving"}
    /\ listeners' = [listeners EXCEPT ![l] = "failed"]
    /\ calls' = [calls EXCEPT ![l] = NoCall]
    /\ shutter' = Shut("server", TRUE)
    /\ UNCHANGED <<config, phase, stream, registered, closing, status, excused, late>>

\* The application hears of a child that has ended.
ChildEnds(s) ==
    /\ phase = "running" /\ shutter[s].stage # "open" /\ shutter["app"].stage = "open"
    /\ shutter' = Shut("app", shutter[s].err)
    /\ UNCHANGED <<config, phase, stream, listeners, registered, closing, calls, status, excused, late>>

Signal ==
    /\ phase = "running" /\ shutter["app"].stage = "open"
    /\ shutter' = Shut("app", FALSE)
    /\ excused' = TRUE
    /\ UNCHANGED <<config, phase, stream, listeners, registered, closing, calls, status, late>>

\* Mutant of ShutdownChildren: the server knows the last listener it made only.
ShutdownLast ==
    /\ phase = "running" /\ shutter["app"].stage = "shut" /\ closing = Idle
    /\ shutter' = Shut("sinker", shutter["app"].err)
    /\ closing' = IF registered = <<>> THEN <<>> ELSE <<registered[Len(registered)]>>
    /\ UNCHANGED <<config, phase, stream, listeners, registered, calls, status, excused, late>>

\* OnTerminating of the application: Shutdown of the sinker, then of the server,
\* which drains the listeners made so far, one after the other.
ShutdownChildren ==
    /\ phase = "running" /\ shutter["app"].stage = "shut" /\ closing = Idle
    /\ shutter' = Shut("sinker", shutter["app"].err)
    /\ closing' = registered
    /\ UNCHANGED <<config, phase, stream, listeners, registered, calls, status, excused, late>>

\* Shutdown of one dgrpc server: it takes no more calls, waits for those in
\* progress, or drops them after 15 seconds; its OnTerminated shuts the server's
\* shutter.
Refuse ==
    /\ phase = "running" /\ closing \notin {Idle, <<>>}
    /\ listeners[Head(closing)] \in {"made", "serving"}
    /\ listeners' = [listeners EXCEPT ![Head(closing)] = "draining"]
    /\ UNCHANGED <<config, phase, stream, shutter, registered, closing, calls, status, excused, late>>

Drained(timeout) ==
    /\ phase = "running" /\ closing \notin {Idle, <<>>}
    /\ LET l == Head(closing)
       IN  /\ listeners[l] \in {"draining", "failed"}
           /\ calls[l] = NoCall \/ timeout
           /\ listeners' = [listeners EXCEPT ![l] = IF @ = "failed" THEN @ ELSE "ended"]
           /\ calls' = [calls EXCEPT ![l] = NoCall]
    /\ closing' = Tail(closing)
    /\ shutter' = Shut("server", FALSE)
    /\ UNCHANGED <<config, phase, stream, registered, status, excused, late>>

\* All children are down: the application has terminated.
Terminated ==
    /\ phase = "running" /\ closing = <<>> /\ shutter["app"].stage = "shut"
    /\ shutter' = [Shut("server", shutter["app"].err) EXCEPT !["app"].stage = "terminated"]
    /\ UNCHANGED <<config, phase, stream, listeners, registered, closing, calls, status, excused, late>>

\* WaitForTermination returns once the application has terminated, or 15 seconds
\* after its shutdown began: with an error, the process exits with status 1;
\* without one, the store is closed and it exits with status 0.
Exit ==
    /\ phase = "running" /\ shutter["app"].stage # "open"
    /\ phase' = "exited"
    /\ \/ status' = (IF shutter["app"].err THEN 1 ELSE 0)
       \/ shutter["app"].stage = "shut" /\ status' = 1
    /\ UNCHANGED <<config, stream, shutter, listeners, registered, closing, calls, excused, late>>

-----------------------------------------------------------------------------
Init ==
    /\ config \in Configs
    /\ phase = "loading" /\ stream = "none"
    /\ shutter = [s \in Shutters |-> Open]
    /\ listeners = [l \in Listeners |-> "none"]
    /\ registered = <<>> /\ closing = Idle
    /\ calls = [l \in Listeners |-> NoCall]
    /\ status = Running /\ excused = FALSE /\ late = {}

\* What the process does of itself, once it has a reason to end.
Ending ==
    \/ \E s \in {"sinker", "server"} : ChildEnds(s)
    \/ Exit

Next ==
    \/ BuildStore \/ StartServer \/ StartFails
    \/ \E l \in Listeners : \/ NewServer(l) \/ Launch(l) \/ ListenerFails(l)
                            \/ \E caller \in Callers, health \in BOOLEAN : Call(l, caller, health)
                            \/ Intercept(l) \/ Handle(l) \/ Reply(l)
    \/ \E err \in BOOLEAN : StreamEnds(err)
    \/ Signal \/ ShutdownChildren \/ Refuse
    \/ \E timeout \in BOOLEAN : Drained(timeout)
    \/ Terminated \/ Ending

Spec == Init /\ [][Next]_vars

\* Main goes on from wiring, callbacks run, the grace period runs out.
FairSpec == Spec /\ WF_vars(StartServer \/ StartFails) /\ WF_vars(Ending)

-----------------------------------------------------------------------------
(* Properties *)

TypeOK ==
    /\ config \in Configs
    /\ phase \in {"loading", "wiring", "running", "exited"}
    /\ stream \in {"none", "running", "ended"}
    /\ shutter \in [Shutters -> [stage : {"open", "shut", "terminated"}, err : BOOLEAN]]
    /\ listeners \in [Listeners -> {"none", "made", "serving", "draining", "ended", "failed"}]
    /\ calls \in [Listeners -> {NoCall} \cup
           [at : {"interceptors", "handled", "refused"}, caller : Callers, health : BOOLEAN,
            trusted : Identity, chain : {<<>>, <<"auth">>, <<"organization">>, <<"auth", "organization">>}]]
    /\ status \in {Running, 0, 1} /\ (status = Running <=> phase # "exited")
    /\ excused \in BOOLEAN
    /\ late \in SUBSET Listeners

\* Who may call: health checks need nothing, and neither does a listener without
\* a plugin; otherwise its plugin must know the caller, and the organisation must
\* match when one is set, on the internal listener as well (cmd's auth.go:53-55).
Entitled(l, call) ==
    LET plugin == IF l = "public" THEN config.common_auth_plugin ELSE config.internal_auth_plugin
    IN  \/ call.health \/ plugin = Unset
        \/ /\ call.caller[plugin] # Unknown
           /\ config.organization_id # Unset => call.caller[plugin] = config.organization_id

\* Calls are handled and refused as the flags say, through the chain of checks
\* that newServer gives each listener.
CallsChecked ==
    \A l \in Listeners :
        /\ calls[l].at = "handled" => Entitled(l, calls[l])
        /\ calls[l].at = "refused" => ~ Entitled(l, calls[l])

\* The process never reports success for a failure: without a signal, and unless
\* the stream came to its end, the exit status is not 0, whichever part failed and
\* whichever shutter heard of it first (server.go:184-187, 231-238).
StatusHonest == status = 0 => excused

\* Once the application has terminated, and the store may be closed, no listener
\* that was there when the shutdown began takes calls or has one in progress.
QuietWhenTerminated ==
    shutter["app"].stage = "terminated" =>
        \A l \in Listeners \ late :
            listeners[l] \notin {"made", "serving", "draining"} /\ calls[l] = NoCall

\* The parts end together: when the stream ends or a listener fails, the process
\* exits and does not go on serving without them.
EndsTogether ==
    (stream = "ended" \/ \E l \in Listeners : listeners[l] = "failed") ~> phase = "exited"
=============================================================================
