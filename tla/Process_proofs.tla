--------------------------- MODULE Process_proofs ---------------------------
(***************************************************************************)
(* What holds of the process for any flags, callers, plugins and           *)
(* organisations: its state is well typed, calls are checked as the flags  *)
(* say, a failure is never reported as success, and nothing is busy once   *)
(* the application has terminated.                                         *)
(***************************************************************************)
EXTENDS Process, TLAPS

\* What a call in progress has passed: nothing yet, the plugin with the
\* organisation still to be checked, or everything.
Awaiting(l, call) ==
    LET cfg == AuthConfig(config, l)
    IN  \/ call.chain = Interceptors(config, l)
        \/ /\ call.chain = <<"organization">>
           /\ cfg.Authenticator # Unset /\ cfg.OrganizationID # Unset
           /\ \/ call.health
              \/ call.trusted = call.caller[cfg.Authenticator] /\ call.trusted # Unknown
        \/ call.chain = <<>> /\ Entitled(l, call)

CheckInv ==
    \A l \in Listeners :
        /\ calls[l].at = "interceptors" => Awaiting(l, calls[l])
        /\ calls[l].at = "handled" => Entitled(l, calls[l])
        /\ calls[l].at = "refused" => ~ Entitled(l, calls[l])

\* Without an excuse the application was shut with an error, and until it is, so
\* was every child that is down.
HonestInv ==
    ~ excused =>
        /\ status # 0
        /\ shutter["app"].stage # "open" => shutter["app"].err
        /\ shutter["app"].stage = "open" =>
               \A s \in Shutters : shutter[s].stage # "open" => shutter[s].err

\* The callbacks of the application run once it is shut.
ClosingInv == closing # Idle => shutter["app"].stage # "open"

Among(l, q) == \E i \in DOMAIN q : q[i] = l

\* Every listener that was made is registered, only listeners that serve or drain
\* have calls, and the shutdown has still to drain whatever it found and is not
\* yet down; the application terminates after it has drained all of them.
DrainInv ==
    /\ registered \in Seq(Listeners)
    /\ closing # Idle => closing \in Seq(Listeners)
    /\ \A l \in Listeners :
          /\ listeners[l] # "none" => Among(l, registered)
          /\ calls[l] # NoCall => listeners[l] \in {"serving", "draining"}
          /\ closing # Idle /\ l \notin late /\ listeners[l] \in {"made", "serving", "draining"}
                => Among(l, closing)
    /\ shutter["app"].stage = "terminated" => closing = <<>>

ProcessInv == TypeOK /\ CheckInv /\ ClosingInv /\ HonestInv /\ DrainInv

-----------------------------------------------------------------------------
(* Operators *)

Chains == {<<>>, <<"auth">>, <<"organization">>, <<"auth", "organization">>}
ShutterState == [stage : {"open", "shut", "terminated"}, err : BOOLEAN]
ServiceCall ==
    [at : {"interceptors", "handled", "refused"}, caller : Callers, health : BOOLEAN,
     trusted : Identity, chain : Chains]

\* Going through a chain of checks.
LEMMA ChainFacts ==
    /\ Tail(<<"auth">>) = <<>> /\ Tail(<<"organization">>) = <<>>
    /\ Tail(<<"auth", "organization">>) = <<"organization">>
    /\ Head(<<"auth">>) = "auth" /\ Head(<<"organization">>) = "organization"
    /\ Head(<<"auth", "organization">>) = "auth"
    /\ <<"auth">> # <<>> /\ <<"organization">> # <<>> /\ <<"auth", "organization">> # <<>>
    /\ <<"auth">> # <<"organization">> /\ <<"auth">> # <<"auth", "organization">>
    /\ <<"organization">> # <<"auth", "organization">>
OBVIOUS

\* The checks newServer installs.
LEMMA InterceptorsFacts ==
    ASSUME TypeOK, NEW l \in Listeners
    PROVE  LET cfg == AuthConfig(config, l)
           IN  /\ cfg.Authenticator \in Plugins \cup {Unset}
               /\ cfg.OrganizationID \in Organizations \cup {Unset}
               /\ cfg.Authenticator = Unset => Interceptors(config, l) = <<>>
               /\ cfg.Authenticator # Unset /\ cfg.OrganizationID = Unset
                     => Interceptors(config, l) = <<"auth">>
               /\ cfg.Authenticator # Unset /\ cfg.OrganizationID # Unset
                     => Interceptors(config, l) = <<"auth", "organization">>
               /\ Interceptors(config, l) \in Chains
<1>1. /\ config.common_auth_plugin \in Plugins \cup {Unset}
      /\ config.internal_auth_plugin \in Plugins \cup {Unset}
      /\ config.organization_id \in Organizations \cup {Unset}
  BY ProcessAssumption DEF TypeOK
<1>2. /\ AuthConfig(config, l).Authenticator \in Plugins \cup {Unset}
      /\ AuthConfig(config, l).OrganizationID \in Organizations \cup {Unset}
  BY <1>1 DEF AuthConfig
<1> DEFINE cfg == AuthConfig(config, l)
<1>3. CASE cfg.Authenticator = Unset
  <2>1. Interceptors(config, l) = <<>>
    BY <1>3 DEF Interceptors
  <2> QED
    BY <1>2, <1>3, <2>1 DEF Chains
<1>4. CASE cfg.Authenticator # Unset /\ cfg.OrganizationID = Unset
  <2>1. Interceptors(config, l) = <<"auth">>
    BY <1>4 DEF Interceptors
  <2> QED
    BY <1>2, <1>4, <2>1 DEF Chains
<1>5. CASE cfg.Authenticator # Unset /\ cfg.OrganizationID # Unset
  <2>1. Interceptors(config, l) = <<"auth", "organization">>
    BY <1>5 DEF Interceptors
  <2> QED
    BY <1>2, <1>5, <2>1 DEF Chains
<1> QED
  BY <1>3, <1>4, <1>5

\* Who is entitled, by the configuration of the listener.
LEMMA EntitledFacts ==
    ASSUME TypeOK, NEW l \in Listeners, NEW call
    PROVE  LET cfg == AuthConfig(config, l)
           IN  Entitled(l, call) <=>
                   \/ call.health \/ cfg.Authenticator = Unset
                   \/ /\ call.caller[cfg.Authenticator] # Unknown
                      /\ cfg.OrganizationID # Unset
                            => call.caller[cfg.Authenticator] = cfg.OrganizationID
BY DEF Entitled, AuthConfig

\* The first Shutdown decides; later ones change nothing.
LEMMA ShutFacts ==
    ASSUME TypeOK, NEW s \in Shutters, NEW err \in BOOLEAN
    PROVE  /\ Shut(s, err) \in [Shutters -> ShutterState]
           /\ \A t \in Shutters : t # s \/ shutter[t].stage # "open"
                                    => Shut(s, err)[t] = shutter[t]
           /\ shutter[s].stage = "open" => Shut(s, err)[s] = [stage |-> "shut", err |-> err]
BY DEF Shut, TypeOK, ShutterState

\* A call that is there is one of the services.
LEMMA CallFacts ==
    ASSUME TypeOK, NEW l \in Listeners, calls[l].at # "none"
    PROVE  calls[l] \in ServiceCall
BY DEF TypeOK, NoCall, ServiceCall, Chains

-----------------------------------------------------------------------------
(* Steps *)

\* Calls stay typed while one of them moves on.
LEMMA CallsTyped ==
    ASSUME TypeOK, CheckInv, NEW l \in Listeners,
           \/ \E caller \in Callers, health \in BOOLEAN : Call(l, caller, health)
           \/ Intercept(l) \/ Handle(l) \/ Reply(l)
    PROVE  calls' \in [Listeners -> {NoCall} \cup ServiceCall]
<1>0. calls \in [Listeners -> {NoCall} \cup ServiceCall]
  BY DEF TypeOK, ServiceCall, Chains
<1>1. CASE \E caller \in Callers, health \in BOOLEAN : Call(l, caller, health)
  <2>1. PICK caller \in Callers, health \in BOOLEAN : Call(l, caller, health)
    BY <1>1
  <2>2. Interceptors(config, l) \in Chains
    BY InterceptorsFacts
  <2>3. [at |-> "interceptors", caller |-> caller, health |-> health,
         trusted |-> Unknown, chain |-> Interceptors(config, l)] \in ServiceCall
    BY <2>2 DEF ServiceCall, Identity
  <2> QED
    BY <1>0, <2>1, <2>3 DEF Call
<1>2. CASE Intercept(l)
  <2> DEFINE seen == IF Head(calls[l].chain) = "auth" /\ ~ calls[l].health
                     THEN calls[l].caller[AuthConfig(config, l).Authenticator] ELSE calls[l].trusted
  <2>1. calls[l] \in ServiceCall /\ calls[l].chain # <<>>
    BY <1>2, CallFacts DEF Intercept
  <2>2. Tail(calls[l].chain) \in Chains
    BY <2>1, ChainFacts DEF ServiceCall, Chains
  <2>3. CASE ~ Passes(l, calls[l])
    <3>1. [calls[l] EXCEPT !.at = "refused"] \in ServiceCall
      BY <2>1 DEF ServiceCall
    <3> QED
      BY <1>0, <1>2, <2>3, <3>1 DEF Intercept
  <2>4. CASE Passes(l, calls[l])
    <3>1. seen \in Identity
      <4>1. CASE Head(calls[l].chain) = "auth" /\ ~ calls[l].health
        <5>1. calls[l].caller[AuthConfig(config, l).Authenticator] \in Identity
          <6>1. AuthConfig(config, l).Authenticator \in Plugins
            <7>1. calls[l].chain \in {<<"auth">>, <<"auth", "organization">>}
              BY <2>1, <4>1, ChainFacts DEF ServiceCall, Chains
            <7>2. Awaiting(l, calls[l])
              BY <1>2 DEF CheckInv, Intercept
            <7>3. Interceptors(config, l) # <<>>
              BY <2>1, <7>1, <7>2, ChainFacts DEF Awaiting
            <7> QED
              BY <7>3, InterceptorsFacts
          <6> QED
            BY <2>1, <6>1, ProcessAssumption DEF ServiceCall
        <5> QED
          BY <4>1, <5>1
      <4>2. CASE ~ (Head(calls[l].chain) = "auth" /\ ~ calls[l].health)
        BY <2>1, <4>2 DEF ServiceCall
      <4> QED
        BY <4>1, <4>2
    <3>2. [calls[l] EXCEPT !.chain = Tail(@), !.trusted = seen] \in ServiceCall
      BY <2>1, <2>2, <3>1 DEF ServiceCall
    <3> QED
      BY <1>0, <1>2, <2>4, <3>2 DEF Intercept
  <2> QED
    BY <2>3, <2>4
<1>3. CASE Handle(l)
  <2>1. calls[l] \in ServiceCall
    BY <1>3, CallFacts DEF Handle
  <2>2. [calls[l] EXCEPT !.at = "handled"] \in ServiceCall
    BY <2>1 DEF ServiceCall
  <2> QED
    BY <1>0, <1>3, <2>2 DEF Handle
<1>4. CASE Reply(l)
  BY <1>0, <1>4 DEF Reply
<1> QED
  BY <1>1, <1>2, <1>3, <1>4

\* Every step keeps the state well typed.
LEMMA TypeStep ==
    ASSUME TypeOK, CheckInv, [Next]_vars
    PROVE  TypeOK'
<1>0. /\ shutter \in [Shutters -> ShutterState]
      /\ listeners \in [Listeners -> {"none", "made", "serving", "draining", "ended", "failed"}]
      /\ calls \in [Listeners -> {NoCall} \cup ServiceCall]
  BY DEF TypeOK, ShutterState, ServiceCall, Chains
<1>1. CASE BuildStore
  BY <1>1 DEF BuildStore, TypeOK
<1>2. CASE StartServer
  BY <1>2 DEF StartServer, TypeOK
<1>3. CASE StartFails
  BY <1>3 DEF StartFails, TypeOK, Running
<1>4. ASSUME NEW l \in Listeners, NewServer(l) PROVE TypeOK'
  BY <1>4 DEF NewServer, TypeOK
<1>5. ASSUME NEW l \in Listeners, Launch(l) PROVE TypeOK'
  BY <1>5 DEF Launch, TypeOK
<1>6. ASSUME NEW l \in Listeners, ListenerFails(l) PROVE TypeOK'
  <2>1. shutter' \in [Shutters -> ShutterState]
    BY <1>6, ShutFacts DEF ListenerFails, Shutters
  <2>2. listeners' \in [Listeners -> {"none", "made", "serving", "draining", "ended", "failed"}]
    BY <1>0, <1>6 DEF ListenerFails
  <2>3. calls' \in [Listeners -> {NoCall} \cup ServiceCall]
    BY <1>0, <1>6 DEF ListenerFails
  <2> QED
    BY <1>6, <2>1, <2>2, <2>3 DEF ListenerFails, TypeOK, ShutterState, ServiceCall, Chains
<1>7. ASSUME NEW l \in Listeners,
             \/ \E caller \in Callers, health \in BOOLEAN : Call(l, caller, health)
             \/ Intercept(l) \/ Handle(l) \/ Reply(l)
      PROVE TypeOK'
  <2>1. calls' \in [Listeners -> {NoCall} \cup ServiceCall]
    BY <1>7, CallsTyped
  <2>2. UNCHANGED <<config, phase, stream, shutter, listeners, registered, closing, status, excused, late>>
    BY <1>7 DEF Call, Intercept, Handle, Reply
  <2> QED
    BY <2>1, <2>2 DEF TypeOK, ServiceCall, Chains
<1>8. ASSUME NEW err \in BOOLEAN, StreamEnds(err) PROVE TypeOK'
  <2>1. shutter' \in [Shutters -> ShutterState]
    BY <1>8, ShutFacts DEF StreamEnds, Shutters
  <2> QED
    BY <1>8, <2>1 DEF StreamEnds, TypeOK, ShutterState
<1>9. CASE Signal
  <2>1. shutter' \in [Shutters -> ShutterState]
    BY <1>9, ShutFacts DEF Signal, Shutters
  <2> QED
    BY <1>9, <2>1 DEF Signal, TypeOK, ShutterState
<1>10. CASE ShutdownChildren
  <2>1. shutter["app"].err \in BOOLEAN
    BY <1>0 DEF Shutters, ShutterState
  <2>2. shutter' \in [Shutters -> ShutterState]
    BY <1>10, <2>1, ShutFacts DEF ShutdownChildren, Shutters
  <2> QED
    BY <1>10, <2>2 DEF ShutdownChildren, TypeOK, ShutterState
<1>11. CASE Refuse
  BY <1>11 DEF Refuse, TypeOK
<1>12. ASSUME NEW timeout \in BOOLEAN, Drained(timeout) PROVE TypeOK'
  <2>1. shutter' \in [Shutters -> ShutterState]
    BY <1>12, ShutFacts DEF Drained, Shutters
  <2>2. listeners' \in [Listeners -> {"none", "made", "serving", "draining", "ended", "failed"}]
    BY <1>0, <1>12 DEF Drained
  <2>3. calls' \in [Listeners -> {NoCall} \cup ServiceCall]
    BY <1>0, <1>12 DEF Drained
  <2> QED
    BY <1>12, <2>1, <2>2, <2>3 DEF Drained, TypeOK, ShutterState, ServiceCall, Chains
<1>13. CASE Terminated
  <2>1. shutter["app"].err \in BOOLEAN
    BY <1>0 DEF Shutters, ShutterState
  <2>2. Shut("server", shutter["app"].err) \in [Shutters -> ShutterState]
    BY <2>1, ShutFacts DEF Shutters
  <2>3. shutter' \in [Shutters -> ShutterState]
    BY <1>13, <2>2 DEF Terminated, ShutterState
  <2> QED
    BY <1>13, <2>3 DEF Terminated, TypeOK, ShutterState
<1>14. ASSUME NEW s \in {"sinker", "server"}, ChildEnds(s) PROVE TypeOK'
  <2>1. shutter[s].err \in BOOLEAN
    BY <1>0 DEF Shutters, ShutterState
  <2>2. shutter' \in [Shutters -> ShutterState]
    BY <1>14, <2>1, ShutFacts DEF ChildEnds, Shutters
  <2> QED
    BY <1>14, <2>2 DEF ChildEnds, TypeOK, ShutterState
<1>15. CASE Exit
  BY <1>15 DEF Exit, TypeOK, Running
<1>16. CASE UNCHANGED vars
  BY <1>16 DEF vars, TypeOK
<1> QED
  BY <1>1, <1>2, <1>3, <1>4, <1>5, <1>6, <1>7, <1>8, <1>9, <1>10, <1>11, <1>12, <1>13, <1>14,
     <1>15, <1>16 DEF Next, Ending

\* Calls that stay as they are, or are gone, stay checked.
LEMMA CheckKept ==
    ASSUME CheckInv, config' = config,
           \A l \in Listeners : calls'[l] = calls[l] \/ calls'[l] = NoCall
    PROVE  CheckInv'
<1> SUFFICES ASSUME NEW l \in Listeners
             PROVE  /\ calls'[l].at = "interceptors" => Awaiting(l, calls[l])' 
                    /\ calls'[l].at = "handled" => Entitled(l, calls[l])'
                    /\ calls'[l].at = "refused" => ~ Entitled(l, calls[l])'
  BY DEF CheckInv
<1>1. CASE calls'[l] = NoCall
  BY <1>1 DEF NoCall
<1>2. CASE calls'[l] = calls[l]
  BY <1>2 DEF CheckInv, Awaiting, Entitled, AuthConfig, Interceptors
<1> QED
  BY <1>1, <1>2

\* Each check a call goes through, and its end, leaves what it has passed.
LEMMA CheckMoves ==
    ASSUME TypeOK, CheckInv, NEW l \in Listeners,
           \/ \E caller \in Callers, health \in BOOLEAN : Call(l, caller, health)
           \/ Intercept(l) \/ Handle(l) \/ Reply(l)
    PROVE  CheckInv'
<1>0. /\ calls \in [Listeners -> {NoCall} \cup ServiceCall]
      /\ config' = config
  BY DEF TypeOK, ServiceCall, Chains, Call, Intercept, Handle, Reply
<1> DEFINE cfg == AuthConfig(config, l)
<1> DEFINE Checked(call) ==
             /\ call.at = "interceptors" => Awaiting(l, call)
             /\ call.at = "handled" => Entitled(l, call)
             /\ call.at = "refused" => ~ Entitled(l, call)
<1>1. ASSUME NEW call, calls' = [calls EXCEPT ![l] = call], Checked(call) PROVE CheckInv'
  <2>1. ASSUME NEW m \in Listeners
        PROVE  /\ calls'[m].at = "interceptors" => Awaiting(m, calls'[m])
               /\ calls'[m].at = "handled" => Entitled(m, calls'[m])
               /\ calls'[m].at = "refused" => ~ Entitled(m, calls'[m])
    <3>1. CASE m = l
      <4>1. calls'[m] = call
        BY <1>0, <1>1, <3>1
      <4> QED
        BY <1>1, <3>1, <4>1
    <3>2. CASE m # l
      <4>1. calls'[m] = calls[m]
        BY <1>0, <1>1, <3>2
      <4> QED
        BY <4>1 DEF CheckInv
    <3> QED
      BY <3>1, <3>2
  <2> QED
    BY <1>0, <2>1 DEF CheckInv, Awaiting, Entitled, AuthConfig, Interceptors
<1>2. CASE \E caller \in Callers, health \in BOOLEAN : Call(l, caller, health)
  <2>1. PICK caller \in Callers, health \in BOOLEAN : Call(l, caller, health)
    BY <1>2
  <2> DEFINE call == [at |-> "interceptors", caller |-> caller, health |-> health,
                      trusted |-> Unknown, chain |-> Interceptors(config, l)]
  <2>2. Checked(call)
    BY DEF Awaiting
  <2>3. calls' = [calls EXCEPT ![l] = call]
    BY <2>1 DEF Call
  <2> QED
    BY <1>1, <2>2, <2>3
<1>3. CASE Intercept(l)
  <2> DEFINE old == calls[l]
             seen == IF Head(old.chain) = "auth" /\ ~ old.health
                     THEN old.caller[cfg.Authenticator] ELSE old.trusted
  <2>1. old \in ServiceCall /\ old.chain # <<>> /\ old.at = "interceptors"
    BY <1>3, CallFacts DEF Intercept
  <2>2. Awaiting(l, old)
    BY <2>1 DEF CheckInv
  <2>3. \/ old.chain = <<"auth">> /\ cfg.Authenticator # Unset /\ cfg.OrganizationID = Unset
        \/ old.chain = <<"auth", "organization">> /\ cfg.Authenticator # Unset /\ cfg.OrganizationID # Unset
        \/ /\ old.chain = <<"organization">>
           /\ cfg.Authenticator # Unset /\ cfg.OrganizationID # Unset
           /\ old.health \/ (old.trusted = old.caller[cfg.Authenticator] /\ old.trusted # Unknown)
    BY <2>1, <2>2, InterceptorsFacts DEF Awaiting
  <2>4. CASE ~ Passes(l, old)
    <3> DEFINE call == [old EXCEPT !.at = "refused"]
    <3>1. /\ call.at = "refused" /\ call.health = old.health /\ call.caller = old.caller
      BY <2>1 DEF ServiceCall
    <3>2. ~ Entitled(l, old)
      BY <2>3, <2>4, EntitledFacts, ChainFacts DEF Passes
    <3>3. ~ Entitled(l, call)
      BY <3>1, <3>2 DEF Entitled
    <3>4. Checked(call)
      BY <3>1, <3>3
    <3>5. calls' = [calls EXCEPT ![l] = call]
      BY <1>3, <2>4 DEF Intercept
    <3> QED
      BY <1>1, <3>4, <3>5
  <2>5. CASE Passes(l, old)
    <3> DEFINE call == [old EXCEPT !.chain = Tail(@), !.trusted = seen]
    <3>1. /\ call.at = "interceptors" /\ call.health = old.health /\ call.caller = old.caller
          /\ call.chain = Tail(old.chain) /\ call.trusted = seen
      BY <2>1 DEF ServiceCall
    <3>2. ASSUME old.chain = <<"auth">> PROVE Checked(call)
      <4>1. Entitled(l, old)
        BY <2>3, <2>5, <3>2, EntitledFacts, ChainFacts DEF Passes
      <4>2. Entitled(l, call)
        BY <3>1, <4>1 DEF Entitled
      <4> QED
        BY <3>1, <3>2, <4>2, ChainFacts DEF Awaiting
    <3>3. ASSUME old.chain = <<"organization">> PROVE Checked(call)
      <4>1. Entitled(l, old)
        BY <2>3, <2>5, <3>3, EntitledFacts, ChainFacts DEF Passes
      <4>2. Entitled(l, call)
        BY <3>1, <4>1 DEF Entitled
      <4> QED
        BY <3>1, <3>3, <4>2, ChainFacts DEF Awaiting
    <3>4. ASSUME old.chain = <<"auth", "organization">> PROVE Checked(call)
      <4>1. call.chain = <<"organization">>
        BY <3>1, <3>4, ChainFacts
      <4>2. call.health \/ (call.trusted = call.caller[cfg.Authenticator] /\ call.trusted # Unknown)
        BY <2>5, <3>1, <3>4, ChainFacts DEF Passes
      <4>3. cfg.Authenticator # Unset /\ cfg.OrganizationID # Unset
        BY <2>3, <3>4, ChainFacts
      <4> QED
        BY <3>1, <4>1, <4>2, <4>3 DEF Awaiting
    <3>5. Checked(call)
      BY <2>3, <3>2, <3>3, <3>4
    <3>6. calls' = [calls EXCEPT ![l] = call]
      BY <1>3, <2>5 DEF Intercept
    <3> QED
      BY <1>1, <3>5, <3>6
  <2> QED
    BY <2>4, <2>5
<1>4. CASE Handle(l)
  <2> DEFINE old == calls[l]
             call == [old EXCEPT !.at = "handled"]
  <2>1. old \in ServiceCall /\ old.chain = <<>> /\ old.at = "interceptors"
    BY <1>4, CallFacts DEF Handle
  <2>2. Awaiting(l, old)
    BY <2>1 DEF CheckInv
  <2>3. Entitled(l, old)
    BY <2>1, <2>2, InterceptorsFacts, EntitledFacts, ChainFacts DEF Awaiting
  <2>4. call.at = "handled" /\ call.health = old.health /\ call.caller = old.caller
    BY <2>1 DEF ServiceCall
  <2>5. Checked(call)
    BY <2>3, <2>4 DEF Entitled
  <2>6. calls' = [calls EXCEPT ![l] = call]
    BY <1>0, <1>4 DEF Handle
  <2> QED
    BY <1>1, <2>5, <2>6
<1>5. CASE Reply(l)
  <2>1. Checked(NoCall)
    BY DEF NoCall
  <2>2. calls' = [calls EXCEPT ![l] = NoCall]
    BY <1>5 DEF Reply
  <2> QED
    BY <1>1, <2>1, <2>2
<1> QED
  BY <1>2, <1>3, <1>4, <1>5

LEMMA CheckStep ==
    ASSUME TypeOK, CheckInv, [Next]_vars
    PROVE  CheckInv'
<1>0. calls \in [Listeners -> {NoCall} \cup ServiceCall]
  BY DEF TypeOK, ServiceCall, Chains
<1>1. ASSUME NEW l \in Listeners,
             \/ \E caller \in Callers, health \in BOOLEAN : Call(l, caller, health)
             \/ Intercept(l) \/ Handle(l) \/ Reply(l)
      PROVE CheckInv'
  BY <1>1, CheckMoves
<1>2. CASE \E l \in Listeners : NewServer(l) \/ Launch(l) \/ ListenerFails(l)
  <2>1. \A l \in Listeners : calls'[l] = calls[l] \/ calls'[l] = NoCall
    BY <1>0, <1>2 DEF NewServer, Launch, ListenerFails
  <2> QED
    BY <1>2, <2>1, CheckKept DEF NewServer, Launch, ListenerFails
<1>3. CASE \E timeout \in BOOLEAN : Drained(timeout)
  <2>1. \A l \in Listeners : calls'[l] = calls[l] \/ calls'[l] = NoCall
    BY <1>0, <1>3 DEF Drained
  <2> QED
    BY <1>3, <2>1, CheckKept DEF Drained
<1>4. CASE \/ BuildStore \/ StartServer \/ StartFails \/ Signal \/ ShutdownChildren \/ Refuse
           \/ Terminated \/ Ending \/ UNCHANGED vars \/ \E err \in BOOLEAN : StreamEnds(err)
  <2>1. calls' = calls /\ config' = config
    BY <1>4 DEF BuildStore, StartServer, StartFails, Signal, ShutdownChildren, Refuse, Terminated,
                Ending, ChildEnds, Exit, vars, StreamEnds
  <2> QED
    BY <2>1, CheckKept
<1> QED
  BY <1>1, <1>2, <1>3, <1>4 DEF Next

LEMMA ClosingStep ==
    ASSUME TypeOK, ClosingInv, [Next]_vars
    PROVE  ClosingInv'
<1>0. Idle # <<>>
  BY DEF Idle
<1>1. shutter \in [Shutters -> ShutterState]
  BY DEF TypeOK, ShutterState
<1>2. CASE ShutdownChildren
  BY <1>1, <1>2, ShutFacts DEF ShutdownChildren, ClosingInv, Shutters, ShutterState
<1>3. ASSUME NEW l \in Listeners, ListenerFails(l) PROVE ClosingInv'
  BY <1>3, ShutFacts DEF ListenerFails, ClosingInv, Shutters
<1>4. ASSUME NEW err \in BOOLEAN, StreamEnds(err) PROVE ClosingInv'
  BY <1>4, ShutFacts DEF StreamEnds, ClosingInv, Shutters
<1>5. CASE Signal
  BY <1>1, <1>5, ShutFacts DEF Signal, ClosingInv, Shutters, ShutterState
<1>6. ASSUME NEW timeout \in BOOLEAN, Drained(timeout) PROVE ClosingInv'
  BY <1>6, ShutFacts DEF Drained, ClosingInv, Shutters
<1>7. CASE Terminated
  BY <1>1, <1>7 DEF Terminated, ClosingInv, Shut, Shutters, ShutterState
<1>8. ASSUME NEW s \in {"sinker", "server"}, ChildEnds(s) PROVE ClosingInv'
  <2>1. shutter[s].err \in BOOLEAN
    BY <1>1 DEF Shutters, ShutterState
  <2> QED
    BY <1>1, <1>8, <2>1, ShutFacts DEF ChildEnds, ClosingInv, Shutters, ShutterState
<1>9. CASE UNCHANGED <<shutter, closing>>
  BY <1>9 DEF ClosingInv
<1> QED
  BY <1>2, <1>3, <1>4, <1>5, <1>6, <1>7, <1>8, <1>9
  DEF Next, Ending, BuildStore, StartServer, StartFails, NewServer, Launch, Call, Intercept, Handle,
      Reply, Refuse, Exit, vars

\* The error of the application is that of the first child it hears of, or none
\* when a signal came first.
LEMMA HonestStep ==
    ASSUME TypeOK, ClosingInv, HonestInv, [Next]_vars
    PROVE  HonestInv'
<1>1. shutter \in [Shutters -> ShutterState] /\ excused \in BOOLEAN
  BY DEF TypeOK, ShutterState
<1>2. CASE ShutdownChildren
  <2>1. shutter["app"].err \in BOOLEAN
    BY <1>1 DEF Shutters, ShutterState
  <2> QED
    BY <1>1, <1>2, <2>1, ShutFacts DEF ShutdownChildren, HonestInv, Shutters
<1>3. ASSUME NEW l \in Listeners, ListenerFails(l) PROVE HonestInv'
  <2>1. \A s \in Shutters : shutter'[s] = shutter[s] \/ shutter'[s].err = TRUE
    BY <1>1, <1>3 DEF ListenerFails, Shut, Shutters
  <2>2. shutter'["app"] = shutter["app"]
    BY <1>1, <1>3 DEF ListenerFails, Shut, Shutters
  <2> QED
    BY <1>3, <2>1, <2>2 DEF ListenerFails, HonestInv
<1>4. ASSUME NEW err \in BOOLEAN, StreamEnds(err) PROVE HonestInv'
  <2>1. CASE err = FALSE
    BY <1>4, <2>1 DEF StreamEnds, HonestInv
  <2>2. CASE err = TRUE
    <3>1. \A s \in Shutters : shutter'[s] = shutter[s] \/ shutter'[s].err = TRUE
      BY <1>1, <1>4, <2>2 DEF StreamEnds, Shut, Shutters
    <3>2. shutter'["app"] = shutter["app"]
      BY <1>1, <1>4 DEF StreamEnds, Shut, Shutters
    <3>3. excused' = excused
      BY <1>1, <1>4, <2>2 DEF StreamEnds
    <3> QED
      BY <1>4, <3>1, <3>2, <3>3 DEF StreamEnds, HonestInv
  <2> QED
    BY <2>1, <2>2
<1>5. CASE Signal
  BY <1>5 DEF Signal, HonestInv
<1>6. ASSUME NEW timeout \in BOOLEAN, Drained(timeout) PROVE HonestInv'
  <2>1. closing # Idle
    BY <1>6 DEF Drained
  <2>2. shutter["app"].stage # "open"
    BY <2>1 DEF ClosingInv
  <2> QED
    BY <1>1, <1>6, <2>2, ShutFacts DEF Drained, HonestInv, Shutters
<1>7. CASE Terminated
  BY <1>1, <1>7 DEF Terminated, HonestInv, Shut, Shutters, ShutterState
<1>8. ASSUME NEW s \in {"sinker", "server"}, ChildEnds(s) PROVE HonestInv'
  <2>1. shutter[s].err \in BOOLEAN
    BY <1>1 DEF Shutters, ShutterState
  <2>2. /\ shutter'["app"].stage # "open" /\ shutter'["app"].err = shutter[s].err
        /\ excused' = excused /\ status' = status
    BY <1>1, <1>8, <2>1 DEF ChildEnds, Shut, Shutters
  <2>3. ~ excused => shutter[s].err
    BY <1>8 DEF ChildEnds, HonestInv, Shutters
  <2> QED
    BY <2>2, <2>3 DEF HonestInv
<1>9. CASE Exit
  BY <1>9 DEF Exit, HonestInv
<1>10. CASE StartFails
  BY <1>10 DEF StartFails, HonestInv
<1>11. CASE UNCHANGED <<shutter, status, excused>>
  BY <1>11 DEF HonestInv
<1> QED
  BY <1>2, <1>3, <1>4, <1>5, <1>6, <1>7, <1>8, <1>9, <1>10, <1>11
  DEF Next, Ending, BuildStore, StartServer, NewServer, Launch, Call, Intercept, Handle,
      Reply, Refuse, vars

\* The queue of a shutdown.
LEMMA DrainedFacts ==
    ASSUME NEW q \in Seq(Listeners), q # <<>>
    PROVE  /\ Head(q) \in Listeners /\ Tail(q) \in Seq(Listeners)
           /\ \A l \in Listeners : Among(l, q) /\ l # Head(q) => Among(l, Tail(q))
<1>1. ASSUME NEW l \in Listeners, NEW i \in DOMAIN q, q[i] = l, l # Head(q)
      PROVE  Among(l, Tail(q))
  <2>1. i - 1 \in DOMAIN Tail(q) /\ Tail(q)[i - 1] = q[i]
    BY <1>1
  <2> QED
    BY <1>1, <2>1 DEF Among
<1> QED
  BY <1>1 DEF Among

LEMMA RegisteredFacts ==
    ASSUME NEW q \in Seq(Listeners), NEW l \in Listeners
    PROVE  /\ Append(q, l) \in Seq(Listeners) /\ Among(l, Append(q, l))
           /\ \A m \in Listeners : Among(m, q) => Among(m, Append(q, l))
<1>1. Append(q, l)[Len(q) + 1] = l /\ Len(q) + 1 \in DOMAIN Append(q, l)
  OBVIOUS
<1>2. ASSUME NEW i \in DOMAIN q PROVE i \in DOMAIN Append(q, l) /\ Append(q, l)[i] = q[i]
  OBVIOUS
<1> QED
  BY <1>1, <1>2 DEF Among

\* The listeners a shutdown knows are drained one after the other, whatever fails
\* or is launched meanwhile.
LEMMA DrainStep ==
    ASSUME TypeOK, ClosingInv, DrainInv, [Next]_vars
    PROVE  DrainInv'
<1>0. /\ shutter \in [Shutters -> ShutterState]
      /\ listeners \in [Listeners -> {"none", "made", "serving", "draining", "ended", "failed"}]
      /\ calls \in [Listeners -> {NoCall} \cup ServiceCall]
      /\ Idle # <<>>
  BY DEF TypeOK, ShutterState, ServiceCall, Chains, Idle
<1>1. ASSUME UNCHANGED <<registered, closing, late>>,
             \A l \in Listeners :
                /\ listeners[l] = "none" => listeners'[l] = "none"
                /\ listeners'[l] \in {"made", "serving", "draining"} =>
                      listeners[l] \in {"made", "serving", "draining"}
                /\ calls'[l] # NoCall => listeners'[l] \in {"serving", "draining"},
             shutter'["app"].stage = "terminated" => shutter["app"].stage = "terminated"
      PROVE  DrainInv'
  BY <1>1 DEF DrainInv
<1>2. ASSUME NEW s \in Shutters, NEW err PROVE Shut(s, err)["app"].stage = "terminated" =>
                                               shutter["app"].stage = "terminated"
  BY <1>0 DEF Shut, Shutters, ShutterState
<1>3. ASSUME UNCHANGED <<listeners, calls, registered, closing, late>>,
             shutter'["app"].stage = "terminated" => shutter["app"].stage = "terminated"
      PROVE  DrainInv'
  BY <1>3 DEF DrainInv
<1>4. ASSUME NEW l \in Listeners, NewServer(l) PROVE DrainInv'
  <2>1. registered \in Seq(Listeners)
    BY DEF DrainInv
  <2>2. /\ registered' \in Seq(Listeners) /\ Among(l, registered')
        /\ \A m \in Listeners : Among(m, registered) => Among(m, registered')
    BY <1>4, <2>1, RegisteredFacts DEF NewServer
  <2>3. listeners' = [listeners EXCEPT ![l] = "made"] /\ listeners[l] = "none"
    BY <1>4 DEF NewServer
  <2>4. UNCHANGED <<calls, closing, shutter>> /\ late \subseteq late' /\ (closing # Idle => l \in late')
    BY <1>4 DEF NewServer
  <2>5. ASSUME NEW m \in Listeners
        PROVE  /\ listeners'[m] # "none" => Among(m, registered')
               /\ calls'[m] # NoCall => listeners'[m] \in {"serving", "draining"}
               /\ closing' # Idle /\ m \notin late' /\ listeners'[m] \in {"made", "serving", "draining"}
                     => Among(m, closing')
    <3>1. CASE m = l
      BY <1>0, <2>2, <2>3, <2>4, <3>1 DEF DrainInv
    <3>2. CASE m # l
      <4>1. listeners'[m] = listeners[m]
        BY <1>0, <2>3, <3>2
      <4> QED
        BY <2>2, <2>4, <4>1 DEF DrainInv
    <3> QED
      BY <3>1, <3>2
  <2> QED
    BY <2>2, <2>4, <2>5 DEF DrainInv
<1>5. ASSUME NEW l \in Listeners, Launch(l) PROVE DrainInv'
  BY <1>0, <1>1, <1>5 DEF Launch, DrainInv
<1>6. ASSUME NEW l \in Listeners, ListenerFails(l) PROVE DrainInv'
  <2>1. shutter'["app"].stage = "terminated" => shutter["app"].stage = "terminated"
    BY <1>2, <1>6 DEF ListenerFails, Shutters
  <2> QED
    BY <1>0, <1>1, <1>6, <2>1 DEF ListenerFails, DrainInv
<1>7. ASSUME NEW l \in Listeners, NEW caller \in Callers, NEW health \in BOOLEAN,
             Call(l, caller, health)
      PROVE  DrainInv'
  BY <1>0, <1>1, <1>7 DEF Call, DrainInv
<1>8. ASSUME NEW l \in Listeners, Intercept(l) \/ Handle(l) \/ Reply(l) PROVE DrainInv'
  <2>1. calls[l] # NoCall
    BY <1>8 DEF Intercept, Handle, Reply, NoCall
  <2>2. \A m \in Listeners : calls'[m] # NoCall => calls[m] # NoCall
    BY <1>0, <1>8, <2>1 DEF Intercept, Handle, Reply
  <2>3. UNCHANGED <<shutter, listeners, registered, closing, late>>
    BY <1>8 DEF Intercept, Handle, Reply
  <2> QED
    BY <1>1, <2>2, <2>3 DEF DrainInv
<1>9. CASE Refuse
  <2>1. Head(closing) \in Listeners
    BY <1>9, DrainedFacts DEF Refuse, DrainInv
  <2> QED
    BY <1>0, <1>1, <1>9, <2>1 DEF Refuse, DrainInv
<1>10. ASSUME NEW timeout \in BOOLEAN, Drained(timeout) PROVE DrainInv'
  <2> DEFINE h == Head(closing)
  <2>1. closing \in Seq(Listeners) /\ closing # <<>> /\ closing # Idle
    BY <1>10 DEF Drained, DrainInv
  <2>2. /\ h \in Listeners /\ Tail(closing) \in Seq(Listeners)
        /\ \A l \in Listeners : Among(l, closing) /\ l # h => Among(l, Tail(closing))
    BY <2>1, DrainedFacts
  <2> HIDE DEF h
  <2>3. /\ listeners' = [listeners EXCEPT ![h] = IF @ = "failed" THEN @ ELSE "ended"]
        /\ calls' = [calls EXCEPT ![h] = NoCall]
        /\ closing' = Tail(closing) /\ shutter' = Shut("server", FALSE)
        /\ UNCHANGED <<registered, late>>
        /\ listeners[h] \in {"draining", "failed"}
    BY <1>10 DEF Drained, h
  <2>4. \A l \in Listeners : l # h => listeners'[l] = listeners[l] /\ calls'[l] = calls[l]
    BY <1>0, <2>3
  <2>5. listeners'[h] \in {"failed", "ended"} /\ calls'[h] = NoCall
    BY <1>0, <2>2, <2>3
  <2>6. shutter'["app"].stage # "terminated"
    BY <1>2, <2>1, <2>3 DEF DrainInv, Shutters
  <2>7. ASSUME NEW l \in Listeners
        PROVE  /\ listeners'[l] # "none" => Among(l, registered')
               /\ calls'[l] # NoCall => listeners'[l] \in {"serving", "draining"}
               /\ closing' # Idle /\ l \notin late' /\ listeners'[l] \in {"made", "serving", "draining"}
                     => Among(l, closing')
    <3>1. CASE l = h
      BY <2>3, <2>5, <3>1 DEF DrainInv
    <3>2. CASE l # h
      BY <2>1, <2>2, <2>3, <2>4, <3>2 DEF DrainInv
    <3> QED
      BY <3>1, <3>2
  <2> QED
    BY <2>2, <2>3, <2>6, <2>7 DEF DrainInv
<1>11. CASE ShutdownChildren
  <2>1. closing' = registered /\ UNCHANGED <<listeners, calls, registered, late>>
    BY <1>11 DEF ShutdownChildren
  <2>2. shutter'["app"].stage # "terminated"
    BY <1>2, <1>11 DEF ShutdownChildren, Shutters
  <2> QED
    BY <2>1, <2>2 DEF DrainInv
<1>12. CASE Terminated
  BY <1>12 DEF Terminated, DrainInv
<1>13. CASE Signal \/ \E err \in BOOLEAN : StreamEnds(err)
  <2>1. shutter'["app"].stage = "terminated" => shutter["app"].stage = "terminated"
    BY <1>2, <1>13 DEF Signal, StreamEnds, Shutters
  <2> QED
    BY <1>3, <1>13, <2>1 DEF Signal, StreamEnds
<1>14. ASSUME NEW s \in {"sinker", "server"}, ChildEnds(s) PROVE DrainInv'
  <2>1. shutter'["app"].stage = "terminated" => shutter["app"].stage = "terminated"
    BY <1>2, <1>14 DEF ChildEnds, Shutters
  <2> QED
    BY <1>3, <1>14, <2>1 DEF ChildEnds
<1>15. CASE BuildStore \/ StartServer \/ StartFails \/ Exit \/ UNCHANGED vars
  BY <1>3, <1>15 DEF BuildStore, StartServer, StartFails, Exit, vars
<1> QED
  BY <1>4, <1>5, <1>6, <1>7, <1>8, <1>9, <1>10, <1>11, <1>12, <1>13, <1>14, <1>15 DEF Next, Ending

-----------------------------------------------------------------------------
(* Theorems *)

LEMMA InitProcessInv == Init => ProcessInv
<1> SUFFICES ASSUME Init PROVE ProcessInv
  OBVIOUS
<1>1. TypeOK
  BY DEF Init, TypeOK, Open, Shutters, Listeners, NoCall, Running
<1>2. CheckInv
  BY DEF Init, CheckInv, NoCall
<1>3. ClosingInv
  BY DEF Init, ClosingInv
<1>4. HonestInv
  BY DEF Init, HonestInv, Open, Shutters, Running
<1>5. DrainInv
  BY DEF Init, DrainInv, Open, Shutters, NoCall
<1> QED
  BY <1>1, <1>2, <1>3, <1>4, <1>5 DEF ProcessInv

\* The invariant of the process: what calls have passed and what shutters say.
THEOREM ProcessInvariance == Spec => []ProcessInv
<1>1. ProcessInv /\ [Next]_vars => ProcessInv'
  BY TypeStep, CheckStep, ClosingStep, HonestStep, DrainStep DEF ProcessInv
<1> QED
  BY <1>1, InitProcessInv, PTL DEF Spec

\* The state of the process stays well typed.
THEOREM ProcessTypeCorrect == Spec => []TypeOK
<1>1. ProcessInv => TypeOK
  BY DEF ProcessInv
<1> QED
  BY <1>1, ProcessInvariance, PTL

\* Whatever the flags, both listeners handle the calls that are entitled, and
\* refuse no other, through the chain of checks newServer installs.
THEOREM CallsAreChecked == Spec => []CallsChecked
<1>1. ProcessInv => CallsChecked
  BY DEF ProcessInv, CheckInv, CallsChecked
<1> QED
  BY <1>1, ProcessInvariance, PTL

\* Whichever part fails, and whatever happens around it, the process does not
\* exit with status 0 without a signal or a completed stream.
THEOREM StatusIsHonest == Spec => []StatusHonest
<1>1. ProcessInv => StatusHonest
  BY DEF ProcessInv, HonestInv, StatusHonest, TypeOK
<1> QED
  BY <1>1, ProcessInvariance, PTL

\* Once the application has terminated, no listener the shutdown knew of takes calls
\* or has one in progress, whatever failed, timed out or was launched while it ran.
THEOREM TerminatedIsQuiet == Spec => []QuietWhenTerminated
<1>1. ProcessInv => QuietWhenTerminated
  BY DEF ProcessInv, DrainInv, QuietWhenTerminated, Idle, Among
<1> QED
  BY <1>1, ProcessInvariance, PTL
=============================================================================
