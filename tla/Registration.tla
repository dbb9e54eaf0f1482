---------------------------- MODULE Registration ----------------------------
(***************************************************************************)
(* How an instance of one of the five services starts, enters itself into  *)
(* Consul and leaves again: main.go of each service, GetFreePort           *)
(* (utils/addr.go) and utils/register/consul/register.go, which the five   *)
(* services hold in identical copies.  Consul's agent and the operating    *)
(* system's ports are modelled from how this code uses them.               *)
(*                                                                         *)
(* All instances run on one host: Register gives out 127.0.0.1.            *)
(***************************************************************************)
EXTENDS Integers

CONSTANTS Instances,
          Ports,
          PortFlag,     \* the -port of an instance, 0 for none
          WithConsumer, \* instances that consume a topic
          DropAfter,    \* failed checks in a row until Consul drops an entry
          MaxMishaps    \* bound

ASSUME RegistrationAssumption ==
  /\ Ports \subseteq Nat \ {0}
  /\ PortFlag \in [Instances -> Ports \cup {0}]
  /\ DropAfter \in Nat \ {0}
  /\ MaxMishaps \in Nat

VARIABLES proc,   \* proc[i]: where main of instance i is
          port,   \* port[i]: the port it was given
          entry,  \* entry[i]: Consul's entry under i's service id
          misses, \* misses[i]: failed health checks of that entry in a row
          mishaps

regVars == <<proc, port, entry, misses, mishaps>>

RegInit ==
  /\ proc = [i \in Instances |-> "new"]
  /\ port = [i \in Instances |-> 0]
  /\ entry = [i \in Instances |-> "none"]
  /\ misses = [i \in Instances |-> 0]
  /\ mishaps = 0

-----------------------------------------------------------------------------
Running(i) == proc[i] \notin {"new", "dead"}
Mishap == mishaps < MaxMishaps /\ mishaps' = mishaps + 1
Now(i, pc) == proc' = [proc EXCEPT ![i] = pc]
SetEntry(i, e) == entry' = [entry EXCEPT ![i] = e]

\* i has the port and answers grpc's health service on it: a listener's
\* backlog is served as soon as Serve runs.
Answers(i, p) == p # 0 /\ port[i] = p /\ Running(i) /\ proc[i] # "bind"
Taken(p) == \E j \in Instances : Answers(j, p)

\* GetFreePort lets go of the port it found before it returns.
Pick(i) ==
  /\ proc[i] = "new"
  /\ \E p \in IF PortFlag[i] # 0 THEN {PortFlag[i]}
              ELSE {q \in Ports : ~Taken(q)} :
       port' = [port EXCEPT ![i] = p]
  /\ Now(i, "bind")
  /\ UNCHANGED <<entry, misses, mishaps>>

\* Its error is dropped.  The service then listens on any port and registers 0.
PickFail(i) ==
  /\ proc[i] = "new" /\ PortFlag[i] = 0
  /\ Mishap
  /\ Now(i, "bind")
  /\ UNCHANGED <<port, entry, misses>>

\* net.Listen; without the port main panics.
Listen(i) ==
  /\ proc[i] = "bind"
  /\ Now(i, IF Taken(port[i]) THEN "dead" ELSE "register")
  /\ UNCHANGED <<port, entry, misses, mishaps>>

Registered(i) == IF i \in WithConsumer THEN "consume" ELSE "notify"

\* Mutant: the service registers before it has its port.
RegisterEarly(i) ==
  /\ proc[i] \in {"bind", "register"}
  /\ SetEntry(i, "critical")
  /\ misses' = [misses EXCEPT ![i] = 0]
  /\ Now(i, IF proc[i] = "bind" THEN "bind" ELSE Registered(i))
  /\ UNCHANGED <<port, mishaps>>

\* A new entry is critical until its first check.
Register(i) ==
  /\ proc[i] = "register"
  /\ SetEntry(i, "critical")
  /\ misses' = [misses EXCEPT ![i] = 0]
  /\ Now(i, Registered(i))
  /\ UNCHANGED <<port, mishaps>>

\* Register panics; the request may have taken effect all the same.
RegisterFail(i) ==
  /\ proc[i] = "register"
  /\ Mishap
  /\ \E e \in {"none", "critical"} : SetEntry(i, e)
  /\ Now(i, "dead")
  /\ UNCHANGED <<port, misses>>

\* Subscribe and Start of the consumer; a failure is printed or dropped.
StartConsumer(i) ==
  /\ proc[i] = "consume"
  /\ Now(i, "notify")
  /\ UNCHANGED <<port, entry, misses, mishaps>>

\* signal.Notify.  A signal before it kills the process: Crash.
Notify(i) ==
  /\ proc[i] = "notify"
  /\ Now(i, "wait")
  /\ UNCHANGED <<port, entry, misses, mishaps>>

\* SIGINT or SIGTERM reaches main.
Quit(i) ==
  /\ proc[i] = "wait"
  /\ Now(i, IF i \in WithConsumer THEN "shutdown" ELSE "deregister")
  /\ UNCHANGED <<port, entry, misses, mishaps>>

ShutdownConsumer(i) ==
  /\ proc[i] = "shutdown"
  /\ Now(i, "deregister")
  /\ UNCHANGED <<port, entry, misses, mishaps>>

\* DeRegister, then main returns: calls being served end with the process.
DeRegister(i) ==
  /\ proc[i] = "deregister"
  /\ SetEntry(i, "none")
  /\ Now(i, "dead")
  /\ UNCHANGED <<port, misses, mishaps>>

\* Its error is logged, and main returns.
DeRegisterFail(i) ==
  /\ proc[i] = "deregister"
  /\ Mishap
  /\ Now(i, "dead")
  /\ UNCHANGED <<port, entry, misses>>

\* A panic, log.Fatalf after Serve, or a kill.
Crash(i) ==
  /\ Running(i)
  /\ Now(i, "dead")
  /\ UNCHANGED <<port, entry, misses, mishaps>>

-----------------------------------------------------------------------------
\* Consul's agent

\* Every 5 seconds it calls the health service at the entry's port, whoever
\* answers there.
CheckPasses(i) ==
  /\ entry[i] = "critical"
  /\ Taken(port[i])
  /\ SetEntry(i, "passing")
  /\ misses' = [misses EXCEPT ![i] = 0]
  /\ UNCHANGED <<proc, port, mishaps>>

Miss(i) ==
  /\ entry[i] # "none" /\ misses[i] < DropAfter
  /\ SetEntry(i, "critical")
  /\ misses' = [misses EXCEPT ![i] = @ + 1]

CheckFails(i) ==
  /\ ~Taken(port[i])
  /\ Miss(i)
  /\ UNCHANGED <<proc, port, mishaps>>

\* No answer within the second the check allows.
CheckTimesOut(i) ==
  /\ Taken(port[i])
  /\ Mishap
  /\ Miss(i)
  /\ UNCHANGED <<proc, port>>

\* Mutant: registered without DeregisterCriticalServiceAfter.
DropNever(i) ==
  /\ entry[i] = "critical" /\ misses[i] = DropAfter
  /\ UNCHANGED regVars

\* DeregisterCriticalServiceAfter.  Nobody registers the service again.
Drop(i) ==
  /\ entry[i] = "critical" /\ misses[i] = DropAfter
  /\ SetEntry(i, "none")
  /\ UNCHANGED <<proc, port, misses, mishaps>>

OwnStep(i) ==
  \/ Listen(i) \/ Register(i) \/ RegisterFail(i) \/ StartConsumer(i) \/ Notify(i)
  \/ ShutdownConsumer(i) \/ DeRegister(i) \/ DeRegisterFail(i)
ConsulStep(i) == CheckPasses(i) \/ CheckFails(i) \/ Drop(i)

RegNext ==
  \E i \in Instances :
    \/ Pick(i) \/ PickFail(i) \/ Quit(i) \/ Crash(i) \/ CheckTimesOut(i)
    \/ OwnStep(i) \/ ConsulStep(i)

\* Consul goes on checking, and main goes on.
RegFairness ==
  \A i \in Instances : WF_regVars(OwnStep(i)) /\ WF_regVars(ConsulStep(i))

RegSpec == RegInit /\ [][RegNext]_regVars /\ RegFairness

-----------------------------------------------------------------------------
\* Properties

RegTypeOK ==
  /\ proc \in [Instances -> {"new", "bind", "register", "consume", "notify",
                             "wait", "shutdown", "deregister", "dead"}]
  /\ port \in [Instances -> Ports \cup {0}]
  /\ entry \in [Instances -> {"none", "critical", "passing"}]
  /\ misses \in [Instances -> 0..DropAfter]
  /\ mishaps \in 0..MaxMishaps

\* Callers take every entry of a service (srvs_conn.go asks for no healthy
\* ones).  The entry of a running instance leads to that instance and to no
\* other, although GetFreePort may give one port to two of them: who ends up
\* at the wrong service got there by the entry of a dead instance.
ListedIsOwn ==
  \A i, j \in Instances :
    entry[i] # "none" /\ Running(i) /\ Answers(j, port[i]) => i = j

\* The list settles.  An instance that died, however it died, leaves the list,
\* unless another one answers the checks at its old port; and one that waits
\* for its signal is listed as passing, unless its checks have failed so often
\* that it was dropped.
ListSettles ==
  \A i \in Instances :
    /\ (proc[i] = "dead" ~> entry[i] = "none" \/ Taken(port[i]))
    /\ (proc[i] = "wait" ~> entry[i] # "critical" \/ proc[i] # "wait")

\* A running instance that has listened has its port to itself.
RegInv ==
  /\ RegTypeOK
  /\ \A i, j \in Instances : \A p \in Ports :
       Answers(i, p) /\ Answers(j, p) => i = j
  /\ \A i \in Instances : proc[i] \in {"new", "bind"} => entry[i] = "none"
=============================================================================
