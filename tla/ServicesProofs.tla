---------------------------- MODULE ServicesProofs ---------------------------
(***************************************************************************)
(* What runs beside the handlers, for any number of instances, ports and   *)
(* streams: entries of running instances lead to them, and the span of a   *)
(* stream is finished once, whoever races for its end.  At the end, what   *)
(* holds of all that MCServices puts together.                             *)
(***************************************************************************)
EXTENDS MCServices, PagingProofs, GormProofs

-----------------------------------------------------------------------------
\* Registration

\* One instance has a port.
OnePerPort == \A i, j \in Instances : \A p \in Ports :
                Answers(i, p) /\ Answers(j, p) => i = j
NoEarlyEntry == \A i \in Instances : proc[i] \in {"new", "bind"} => entry[i] = "none"

LEMMA RegInitHolds == ASSUME RegInit PROVE RegInv
<1>1. RegTypeOK
  BY RegistrationAssumption DEF RegInit, RegTypeOK
<1>2. OnePerPort /\ NoEarlyEntry
  BY DEF RegInit, OnePerPort, NoEarlyEntry, Answers, Running
<1>3. QED
  BY <1>1, <1>2 DEF RegInv, OnePerPort, NoEarlyEntry

\* A step that gives no port away, and after which nobody answers who did not
\* before.
LEMMA RegQuietStep ==
  ASSUME RegInv, RegTypeOK', NoEarlyEntry',
         \A i \in Instances : \A p \in Ports : Answers(i, p)' => Answers(i, p)
  PROVE  RegInv'
<1>1. OnePerPort'
  BY DEF RegInv, OnePerPort
<1>2. QED
  BY <1>1 DEF RegInv, OnePerPort, NoEarlyEntry

\* main's steps once the port is taken, from one place to the next.
LEMMA Onward ==
  ASSUME RegInv, NEW i \in Instances, NEW pc, NEW e \in {"none", "critical", "passing"},
         proc[i] \notin {"new", "bind"} \/ pc = "dead",
         pc \in {"consume", "notify", "wait", "shutdown", "deregister", "dead"},
         pc = "dead" \/ Running(i),
         proc' = [proc EXCEPT ![i] = pc], entry' = [entry EXCEPT ![i] = e],
         UNCHANGED port,
         misses' \in [Instances -> 0..DropAfter], mishaps' \in 0..MaxMishaps
  PROVE  RegInv'
<1>1. RegTypeOK'
  BY DEF RegInv, RegTypeOK
<1>2. NoEarlyEntry'
  BY DEF RegInv, RegTypeOK, NoEarlyEntry
<1>3. \A j \in Instances : \A p \in Ports : Answers(j, p)' => Answers(j, p)
  BY DEF RegInv, RegTypeOK, Answers, Running
<1>4. QED
  BY <1>1, <1>2, <1>3, RegQuietStep

\* Consul's steps change entries and counts only.
LEMMA EntryStep ==
  ASSUME RegInv, NEW i \in Instances, NEW e \in {"none", "critical", "passing"},
         entry[i] # "none", entry' = [entry EXCEPT ![i] = e],
         UNCHANGED <<proc, port>>,
         misses' \in [Instances -> 0..DropAfter], mishaps' \in 0..MaxMishaps
  PROVE  RegInv'
<1>1. RegTypeOK'
  BY DEF RegInv, RegTypeOK
<1>2. NoEarlyEntry'
  BY DEF RegInv, RegTypeOK, NoEarlyEntry
<1>3. \A j \in Instances : \A p \in Ports : Answers(j, p)' => Answers(j, p)
  BY DEF Answers, Running
<1>4. QED
  BY <1>1, <1>2, <1>3, RegQuietStep

LEMMA RegNextHolds == ASSUME RegInv, RegNext PROVE RegInv'
<1>0. PICK i \in Instances :
        \/ Pick(i) \/ PickFail(i) \/ Quit(i) \/ Crash(i) \/ CheckTimesOut(i)
        \/ OwnStep(i) \/ ConsulStep(i)
  BY DEF RegNext
<1>1. RegTypeOK
  BY DEF RegInv
<1>2. /\ misses \in [Instances -> 0..DropAfter] /\ mishaps \in 0..MaxMishaps
      /\ DropAfter \in Nat \ {0} /\ MaxMishaps \in Nat
      /\ [misses EXCEPT ![i] = 0] \in [Instances -> 0..DropAfter]
  BY <1>1, RegistrationAssumption DEF RegTypeOK
<1>3. Mishap => mishaps' \in 0..MaxMishaps
  BY <1>2 DEF Mishap
<1>4. entry[i] \in {"none", "critical", "passing"} /\ entry = [entry EXCEPT ![i] = entry[i]]
  BY <1>1 DEF RegTypeOK
<1>5. CASE Pick(i)
  <2>1. PICK p \in Ports : port' = [port EXCEPT ![i] = p]
    BY <1>5, RegistrationAssumption DEF Pick
  <2>2. /\ proc[i] = "new" /\ proc' = [proc EXCEPT ![i] = "bind"]
        /\ UNCHANGED <<entry, misses, mishaps>>
    BY <1>5 DEF Pick, Now
  <2>3. RegTypeOK'
    BY <1>1, <2>1, <2>2 DEF RegTypeOK
  <2>4. NoEarlyEntry'
    BY <2>2 DEF RegInv, RegTypeOK, NoEarlyEntry
  <2>5. \A j \in Instances : \A q \in Ports : Answers(j, q)' => Answers(j, q)
    BY <1>1, <2>1, <2>2 DEF RegTypeOK, Answers, Running
  <2>6. QED
    BY <2>3, <2>4, <2>5, RegQuietStep
<1>6. CASE PickFail(i)
  <2>1. /\ proc[i] = "new" /\ proc' = [proc EXCEPT ![i] = "bind"]
        /\ UNCHANGED <<port, entry, misses>> /\ mishaps' \in 0..MaxMishaps
    BY <1>3, <1>6 DEF PickFail, Now
  <2>2. RegTypeOK'
    BY <1>1, <2>1 DEF RegTypeOK
  <2>3. NoEarlyEntry'
    BY <2>1 DEF RegInv, RegTypeOK, NoEarlyEntry
  <2>4. \A j \in Instances : \A q \in Ports : Answers(j, q)' => Answers(j, q)
    BY <1>1, <2>1 DEF RegTypeOK, Answers, Running
  <2>5. QED
    BY <2>2, <2>3, <2>4, RegQuietStep
<1>7. CASE Listen(i)
  <2> DEFINE pc == IF Taken(port[i]) THEN "dead" ELSE "register"
  <2>1. /\ proc[i] = "bind" /\ proc' = [proc EXCEPT ![i] = pc]
        /\ UNCHANGED <<port, entry, misses, mishaps>>
    BY <1>7 DEF Listen, Now
  <2>2. pc \in {"dead", "register"} /\ (pc = "register" => ~Taken(port[i]))
    OBVIOUS
  <2> HIDE DEF pc
  <2>3. RegTypeOK'
    BY <1>1, <2>1, <2>2 DEF RegTypeOK
  <2>4. NoEarlyEntry'
    BY <2>1, <2>2 DEF RegInv, RegTypeOK, NoEarlyEntry
  <2>5. \A j \in Instances \ {i} : \A p \in Ports : Answers(j, p)' <=> Answers(j, p)
    BY <1>1, <2>1 DEF RegTypeOK, Answers, Running
  <2>6. \A p \in Ports : Answers(i, p)' => p = port[i] /\ ~Taken(port[i])
    BY <1>1, <2>1, <2>2 DEF RegTypeOK, Answers, Running
  <2>7. OnePerPort'
    BY <2>5, <2>6 DEF RegInv, OnePerPort, Taken
  <2>8. QED
    BY <2>3, <2>4, <2>7 DEF RegInv, OnePerPort, NoEarlyEntry
<1>8. CASE Register(i)
  <2> DEFINE pc == Registered(i)
  <2>1. /\ proc[i] = "register" /\ proc' = [proc EXCEPT ![i] = pc]
        /\ entry' = [entry EXCEPT ![i] = "critical"]
        /\ misses' = [misses EXCEPT ![i] = 0] /\ UNCHANGED <<port, mishaps>>
        /\ Running(i)
    BY <1>8 DEF Register, Now, SetEntry, Running
  <2>2. pc \in {"consume", "notify"}
    BY DEF Registered
  <2> HIDE DEF pc
  <2>3. QED
    BY <1>2, <2>1, <2>2, Onward
<1>9. CASE RegisterFail(i)
  <2>1. PICK e \in {"none", "critical"} : entry' = [entry EXCEPT ![i] = e]
    BY <1>9 DEF RegisterFail, SetEntry
  <2>2. /\ proc' = [proc EXCEPT ![i] = "dead"] /\ UNCHANGED <<port, misses>>
        /\ mishaps' \in 0..MaxMishaps
    BY <1>3, <1>9 DEF RegisterFail, Now
  <2>3. QED
    BY <1>2, <2>1, <2>2, Onward
<1>10. CASE StartConsumer(i) \/ Notify(i) \/ Quit(i) \/ ShutdownConsumer(i)
  <2>1. PICK pc \in {"notify", "wait", "shutdown", "deregister"} :
          /\ proc' = [proc EXCEPT ![i] = pc] /\ proc[i] \notin {"new", "bind", "dead"}
          /\ UNCHANGED <<port, entry, misses, mishaps>>
    BY <1>10 DEF StartConsumer, Notify, Quit, ShutdownConsumer, Now
  <2>2. Running(i)
    BY <2>1 DEF Running
  <2>3. QED
    BY <1>2, <1>4, <2>1, <2>2, Onward
<1>11. CASE DeRegister(i)
  <2>1. /\ proc' = [proc EXCEPT ![i] = "dead"] /\ entry' = [entry EXCEPT ![i] = "none"]
        /\ UNCHANGED <<port, misses, mishaps>>
    BY <1>11 DEF DeRegister, Now, SetEntry
  <2>2. QED
    BY <1>2, <2>1, Onward
<1>12. CASE DeRegisterFail(i) \/ Crash(i)
  <2>1. /\ proc' = [proc EXCEPT ![i] = "dead"] /\ UNCHANGED <<port, entry, misses>>
        /\ mishaps' \in 0..MaxMishaps
    BY <1>2, <1>3, <1>12 DEF DeRegisterFail, Crash, Now
  <2>2. QED
    BY <1>2, <1>4, <2>1, Onward
<1>13. CASE CheckPasses(i)
  <2>1. /\ entry[i] # "none" /\ entry' = [entry EXCEPT ![i] = "passing"]
        /\ misses' = [misses EXCEPT ![i] = 0] /\ UNCHANGED <<proc, port, mishaps>>
    BY <1>13 DEF CheckPasses, SetEntry
  <2>2. QED
    BY <1>2, <2>1, EntryStep
<1>14. CASE CheckFails(i) \/ CheckTimesOut(i)
  <2>1. /\ entry[i] # "none" /\ entry' = [entry EXCEPT ![i] = "critical"]
        /\ misses[i] < DropAfter /\ misses' = [misses EXCEPT ![i] = @ + 1]
        /\ UNCHANGED <<proc, port>> /\ mishaps' \in 0..MaxMishaps
    BY <1>2, <1>3, <1>14 DEF CheckFails, CheckTimesOut, Miss, SetEntry
  <2>2. misses' \in [Instances -> 0..DropAfter]
    BY <1>2, <2>1
  <2>3. QED
    BY <2>1, <2>2, EntryStep
<1>15. CASE Drop(i)
  <2>1. /\ entry[i] # "none" /\ entry' = [entry EXCEPT ![i] = "none"]
        /\ UNCHANGED <<proc, port, misses, mishaps>>
    BY <1>15 DEF Drop, SetEntry
  <2>2. QED
    BY <1>2, <2>1, EntryStep
<1>16. QED
  BY <1>0, <1>5, <1>6, <1>7, <1>8, <1>9, <1>10, <1>11, <1>12, <1>13, <1>14, <1>15
     DEF OwnStep, ConsulStep

LEMMA RegRests == ASSUME RegInv, UNCHANGED regVars PROVE RegInv'
BY DEF RegInv, RegTypeOK, regVars, Answers, Running

\* The inductive invariant: whoever runs and has listened has its port to
\* itself, and nobody is entered before.
THEOREM RegistrationInvariant == RegSpec => []RegInv
BY RegInitHolds, RegNextHolds, RegRests, PTL DEF RegSpec

\* The entry of a running instance leads to it and to no other, although
\* GetFreePort may give a port to several: who loses net.Listen panics before
\* Register (main.go).
THEOREM EntryLeadsToOwner == RegSpec => []ListedIsOwn
<1>1. RegInv => ListedIsOwn
  <2> SUFFICES ASSUME RegInv, NEW i \in Instances, NEW j \in Instances,
                      entry[i] # "none", Running(i), Answers(j, port[i])
               PROVE  i = j
    BY DEF ListedIsOwn
  <2>1. proc[i] \notin {"new", "bind"}
    BY DEF RegInv
  <2>2. port[i] \in Ports
    BY DEF RegInv, RegTypeOK, Answers
  <2>3. Answers(i, port[i])
    BY <2>1, <2>2, RegistrationAssumption DEF Answers
  <2>4. QED
    BY <2>2, <2>3 DEF RegInv
<1>2. QED
  BY <1>1, RegistrationInvariant, PTL

-----------------------------------------------------------------------------
\* Tracing

\* What one stream's new state must be like for the invariant to go on.
LEMMA StreamStep ==
  ASSUME TraceInv, NEW s \in Streams,
         NEW str \in Stream, NEW act \in [Actors -> ActorState],
         stream' = [stream EXCEPT ![s] = str],
         actor' = [actor EXCEPT ![s] = act],
         SpanOK(str, act)
  PROVE  TraceInv'
<1>1. TraceTypeOK'
  BY DEF TraceInv, TraceTypeOK
<1>2. ASSUME NEW r \in Streams PROVE SpanOK(stream[r], actor[r])'
  <2>1. CASE r = s
    <3>1. stream'[r] = str /\ actor'[r] = act
      BY <2>1 DEF TraceInv, TraceTypeOK
    <3>2. QED
      BY <3>1 DEF SpanOK, Winners
  <2>2. CASE r # s
    <3>1. stream'[r] = stream[r] /\ actor'[r] = actor[r]
      BY <2>2 DEF TraceInv, TraceTypeOK
    <3>2. SpanOK(stream[r], actor[r])
      BY DEF TraceInv
    <3>3. QED
      BY <3>1, <3>2 DEF SpanOK, Winners
  <2>3. QED
    BY <2>1, <2>2
<1>3. QED
  BY <1>1, <1>2 DEF TraceInv

\* What the invariant says of one stream.
LEMMA StreamNow ==
  ASSUME TraceInv, NEW s \in Streams
  PROVE  /\ stream[s] \in Stream
         /\ actor[s] \in [Actors -> ActorState]
         /\ SpanOK(stream[s], actor[s])
BY DEF TraceInv, TraceTypeOK

\* Only finishFunc changes what the invariant is about; the other steps let
\* actors come and go.
LEMMA TraceQuietStep ==
  ASSUME TraceInv, NEW s \in Streams, NEW a \in Actors,
         NEW str \in Stream, NEW now \in ActorState,
         Open(s), str.st = "open",
         str.isFinished = stream[s].isFinished, str.closes = stream[s].closes,
         str.finishes = stream[s].finishes, str.late = stream[s].late,
         actor[s][a].pc \in {"off", "select", "gone"},
         now.pc \in {"cas", "gone"},
         stream' = [stream EXCEPT ![s] = str],
         actor' = [actor EXCEPT ![s][a] = now]
  PROVE  TraceInv'
<1> DEFINE act == [actor[s] EXCEPT ![a] = now]
<1>1. /\ stream[s] \in Stream
      /\ actor[s] \in [Actors -> ActorState]
      /\ SpanOK(stream[s], actor[s])
  BY StreamNow
<1>2. act \in [Actors -> ActorState] /\ actor' = [actor EXCEPT ![s] = act]
  BY <1>1
<1>3. /\ act[a].pc \in {"cas", "gone"}
      /\ \A b \in Actors : b # a => act[b] = actor[s][b]
  BY <1>1
<1>4. /\ Winners(act) = Winners(actor[s])
      /\ (\E b \in Actors : act[b].pc = "close")
           <=> (\E b \in Actors : actor[s][b].pc = "close")
  BY <1>3 DEF Winners
<1> HIDE DEF act
<1>5. SpanOK(str, act)
  BY <1>1, <1>4 DEF SpanOK, Open, Stream
<1>6. QED
  BY <1>2, <1>5, StreamStep

LEMMA TraceInitHolds == ASSUME TraceInit PROVE TraceInv
<1>1. TraceTypeOK
  BY DEF TraceInit, TraceTypeOK, Stream, ActorState, NoError
<1>2. ASSUME NEW s \in Streams PROVE SpanOK(stream[s], actor[s])
  BY DEF TraceInit, SpanOK, Winners
<1>3. QED
  BY <1>1, <1>2 DEF TraceInv

LEMMA NewStreamHolds ==
  ASSUME TraceInv, NEW s \in Streams, NewStream(s)
  PROVE  TraceInv'
<1> DEFINE str == [stream[s] EXCEPT !.st = "open"]
           act == [actor[s] EXCEPT !["watch"].pc = "select"]
<1>1. /\ stream[s] \in Stream /\ actor[s] \in [Actors -> ActorState]
      /\ SpanOK(stream[s], actor[s])
  BY StreamNow
<1>2. /\ str \in Stream /\ act \in [Actors -> ActorState]
      /\ stream' = [stream EXCEPT ![s] = str] /\ actor' = [actor EXCEPT ![s] = act]
  BY <1>1 DEF NewStream, GoOn, Stream, Actors, ActorState
<1>3. /\ stream[s].st = "new" /\ str.st = "open"
      /\ str.isFinished = stream[s].isFinished /\ str.closes = stream[s].closes
      /\ str.finishes = stream[s].finishes /\ str.late = stream[s].late
  BY <1>1 DEF NewStream, Stream
<1>4. \A a \in Actors : actor[s][a].pc = "off" /\ act[a].pc \in {"off", "select"}
  BY <1>1, <1>3 DEF SpanOK, Actors, ActorState
<1> HIDE DEF str, act
<1>5. Winners(act) = {}
  BY <1>4 DEF Winners
<1>6. stream[s].isFinished = 0
  BY <1>1, <1>3 DEF SpanOK, Stream
<1>7. SpanOK(str, act)
  BY <1>1, <1>3, <1>5, <1>6 DEF SpanOK
<1>8. QED
  BY <1>2, <1>7, StreamStep

LEMMA NewStreamFailHolds ==
  ASSUME TraceInv, NEW s \in Streams, NEW err \in Errors, NewStreamFail(s, err)
  PROVE  TraceInv'
<1> DEFINE str == [stream[s] EXCEPT !.st = "failed", !.class = ErrorClass(err),
                                    !.finishes = 1]
<1>1. /\ stream[s] \in Stream /\ actor[s] \in [Actors -> ActorState]
      /\ SpanOK(stream[s], actor[s])
  BY StreamNow
<1>2. ErrorClass(err) \in {"0xx", "2xx", "4xx", "5xx"}
  BY DEF ErrorClass, Errors
<1>3. /\ str \in Stream
      /\ stream' = [stream EXCEPT ![s] = str] /\ actor' = [actor EXCEPT ![s] = actor[s]]
  BY <1>1, <1>2 DEF NewStreamFail, Stream, TraceInv, TraceTypeOK
<1>4. /\ stream[s].st = "new" /\ str.st = "failed" /\ str.finishes = 1
      /\ str.isFinished = stream[s].isFinished /\ str.closes = stream[s].closes
      /\ str.late = stream[s].late
  BY <1>1 DEF NewStreamFail, Stream
<1> HIDE DEF str
<1>5. stream[s].isFinished = 0
  BY <1>1, <1>4 DEF SpanOK, Stream
<1>6. SpanOK(str, actor[s])
  BY <1>1, <1>4, <1>5 DEF SpanOK
<1>7. QED
  BY <1>1, <1>3, <1>6, StreamStep

\* Steps that change only whether the context is live or the wrapper held.
LEMMA StreamOnly ==
  ASSUME TraceInv, NEW s \in Streams, NEW str \in Stream,
         str.st = stream[s].st,
         str.isFinished = stream[s].isFinished, str.closes = stream[s].closes,
         str.finishes = stream[s].finishes, str.late = stream[s].late,
         stream' = [stream EXCEPT ![s] = str],
         UNCHANGED actor
  PROVE  TraceInv'
<1>1. /\ actor[s] \in [Actors -> ActorState] /\ SpanOK(stream[s], actor[s])
      /\ actor' = [actor EXCEPT ![s] = actor[s]]
  BY StreamNow DEF TraceInv, TraceTypeOK
<1>2. SpanOK(str, actor[s])
  BY <1>1 DEF SpanOK
<1>3. QED
  BY <1>1, <1>2, StreamStep

LEMMA FinishHolds ==
  ASSUME TraceInv, NEW s \in Streams, NEW a \in Actors, FinishFunc(s, a)
  PROVE  TraceInv'
<1>1. /\ stream[s] \in Stream /\ actor[s] \in [Actors -> ActorState]
      /\ SpanOK(stream[s], actor[s])
  BY StreamNow
<1>2. CASE CompareAndSwap(s, a)
  <2> DEFINE str == [stream[s] EXCEPT !.isFinished = 1]
             pc == IF stream[s].isFinished = 0 THEN "close" ELSE Return(a)
             act == [actor[s] EXCEPT ![a].pc = pc]
  <2>1. pc \in {"close", "off", "gone"}
    BY DEF Return
  <2> HIDE DEF pc
  <2>2. /\ str \in Stream /\ act \in [Actors -> ActorState]
        /\ stream' = [stream EXCEPT ![s] = str] /\ actor' = [actor EXCEPT ![s] = act]
    BY <1>1, <1>2, <2>1 DEF CompareAndSwap, GoOn, Stream, ActorState, pc
  <2>3. /\ str.isFinished = 1 /\ str.st = stream[s].st /\ str.closes = stream[s].closes
        /\ str.finishes = stream[s].finishes /\ str.late = stream[s].late
    BY <1>1 DEF Stream
  <2>4. /\ act[a].pc = pc /\ actor[s][a].pc = "cas"
        /\ \A b \in Actors : b # a => act[b].pc = actor[s][b].pc
    BY <1>1, <1>2 DEF CompareAndSwap, AtPc, ActorState
  <2> HIDE DEF str, act
  <2>5. stream[s].st = "open"
    BY <1>1, <2>4 DEF SpanOK
  <2>6. CASE stream[s].isFinished = 0
    <3>1. pc = "close"
      BY <2>6 DEF pc
    <3>2. Winners(act) = {a} /\ act[a].pc = "close"
      BY <1>1, <2>4, <2>6, <3>1 DEF SpanOK, Winners
    <3>3. SpanOK(str, act)
      BY <1>1, <2>3, <2>5, <2>6, <3>2 DEF SpanOK
    <3>4. QED
      BY <2>2, <3>3, StreamStep
  <2>7. CASE stream[s].isFinished = 1
    <3>1. pc \in {"off", "gone"}
      BY <2>7 DEF pc, Return
    <3>2. /\ Winners(act) = Winners(actor[s])
          /\ (\E b \in Actors : act[b].pc = "close")
               <=> (\E b \in Actors : actor[s][b].pc = "close")
      BY <2>4, <3>1 DEF Winners
    <3>3. SpanOK(str, act)
      BY <1>1, <2>3, <2>5, <2>7, <3>2 DEF SpanOK
    <3>4. QED
      BY <2>2, <3>3, StreamStep
  <2>8. QED
    BY <1>1, <2>6, <2>7 DEF Stream
<1>3. ASSUME NEW str \in Stream, NEW pc \in {"tag", "finish", "off", "gone"},
             actor[s][a].pc \in {"close", "tag", "finish"},
             str.st = stream[s].st, str.isFinished = stream[s].isFinished,
             str.late = stream[s].late,
             str.closes = IF actor[s][a].pc = "close" THEN stream[s].closes + 1
                          ELSE stream[s].closes,
             str.finishes = IF actor[s][a].pc = "finish" THEN stream[s].finishes + 1
                            ELSE stream[s].finishes,
             actor[s][a].pc = "finish" <=> pc \in {"off", "gone"},
             stream' = [stream EXCEPT ![s] = str],
             actor' = [actor EXCEPT ![s][a].pc = pc]
      PROVE  TraceInv'
  <2> DEFINE act == [actor[s] EXCEPT ![a].pc = pc]
  <2>1. act \in [Actors -> ActorState] /\ actor' = [actor EXCEPT ![s] = act]
    BY <1>1, <1>3 DEF ActorState
  <2>2. /\ act[a].pc = pc
        /\ \A b \in Actors : b # a => act[b].pc = actor[s][b].pc
    BY <1>1 DEF ActorState
  <2> HIDE DEF act
  <2>3. a \in Winners(actor[s])
    BY <1>3 DEF Winners
  <2>4. Winners(actor[s]) = {a} /\ stream[s].isFinished = 1
    BY <1>1, <2>3 DEF SpanOK, Stream
  <2>5. /\ Winners(act) = IF pc \in {"off", "gone"} THEN {} ELSE {a}
        /\ \A b \in Actors : act[b].pc # "close"
        /\ (\E b \in Actors : actor[s][b].pc = "close") <=> actor[s][a].pc = "close"
    BY <1>3, <2>2, <2>4 DEF Winners
  <2>6. SpanOK(str, act)
    BY <1>1, <1>3, <2>4, <2>5 DEF SpanOK, Stream
  <2>7. QED
    BY <1>3, <2>1, <2>6, StreamStep
<1>4. CASE CloseChan(s, a)
  <2> DEFINE str == [stream[s] EXCEPT !.closes = @ + 1]
             pc == IF actor[s][a].err = NoError THEN "finish" ELSE "tag"
  <2>1. /\ str \in Stream /\ pc \in {"tag", "finish"}
        /\ stream' = [stream EXCEPT ![s] = str] /\ actor' = [actor EXCEPT ![s][a].pc = pc]
        /\ actor[s][a].pc = "close"
    BY <1>1, <1>4 DEF CloseChan, GoOn, AtPc, Stream
  <2>2. /\ str.st = stream[s].st /\ str.isFinished = stream[s].isFinished
        /\ str.late = stream[s].late /\ str.closes = stream[s].closes + 1
        /\ str.finishes = stream[s].finishes
    BY <1>1 DEF Stream
  <2> HIDE DEF str, pc
  <2>3. QED
    BY <1>3, <2>1, <2>2
<1>5. CASE TagSpan(s, a)
  <2> DEFINE class == ErrorClass(actor[s][a].err)
             str == [stream[s] EXCEPT !.class = class, !.late = @ \/ stream[s].finishes > 0]
  <2>1. class \in {"0xx", "2xx", "4xx", "5xx"}
    BY <1>1 DEF ActorState, ErrorClass, Errors, NoError
  <2>2. a \in Winners(actor[s]) /\ actor[s][a].pc = "tag"
    BY <1>5 DEF TagSpan, AtPc, Winners
  <2>3. stream[s].finishes = 0 /\ ~stream[s].late
    BY <1>1, <2>2 DEF SpanOK, Stream
  <2> HIDE DEF class
  <2>4. (stream[s].late \/ stream[s].finishes > 0) = FALSE
    BY <2>3
  <2>5. str = [stream[s] EXCEPT !.class = class, !.late = FALSE]
    BY <2>4
  <2>6. /\ str \in Stream /\ str.late = stream[s].late
        /\ str.st = stream[s].st /\ str.isFinished = stream[s].isFinished
        /\ str.closes = stream[s].closes /\ str.finishes = stream[s].finishes
    BY <1>1, <2>1, <2>3, <2>5 DEF Stream
  <2>7. stream' = [stream EXCEPT ![s] = str] /\ actor' = [actor EXCEPT ![s][a].pc = "finish"]
    BY <1>1, <1>5 DEF TagSpan, GoOn, Stream, class
  <2> HIDE DEF str
  <2>8. QED
    BY <1>3, <2>2, <2>3, <2>6, <2>7
<1>6. CASE FinishSpan(s, a)
  <2> DEFINE str == [stream[s] EXCEPT !.finishes = @ + 1]
             pc == Return(a)
  <2>1. /\ str \in Stream /\ pc \in {"off", "gone"}
        /\ stream' = [stream EXCEPT ![s] = str] /\ actor' = [actor EXCEPT ![s][a].pc = pc]
        /\ actor[s][a].pc = "finish"
    BY <1>1, <1>6 DEF FinishSpan, GoOn, AtPc, Stream, Return
  <2>2. /\ str.st = stream[s].st /\ str.isFinished = stream[s].isFinished
        /\ str.late = stream[s].late /\ str.closes = stream[s].closes
        /\ str.finishes = stream[s].finishes + 1
    BY <1>1 DEF Stream
  <2> HIDE DEF str, pc
  <2>3. QED
    BY <1>3, <2>1, <2>2
<1>7. QED
  BY <1>2, <1>4, <1>5, <1>6 DEF FinishFunc

LEMMA TraceNextHolds == ASSUME TraceInv, TraceNext PROVE TraceInv'
<1>0. PICK s \in Streams :
        \/ NewStream(s) \/ CancelContext(s) \/ LetGo(s) \/ Finalize(s)
        \/ WatchContext(s) \/ WatchFinish(s)
        \/ RecvMsg(s, NoError)
        \/ \E err \in Errors : NewStreamFail(s, err) \/ RecvMsg(s, err) \/ SendMsg(s, err)
        \/ \E a \in Actors : FinishFunc(s, a)
  BY DEF TraceNext
<1>1. /\ stream[s] \in Stream /\ actor[s] \in [Actors -> ActorState]
      /\ SpanOK(stream[s], actor[s])
  BY StreamNow
<1>2. \A err \in Errors \cup {NoError} : [pc |-> "cas", err |-> err] \in ActorState
  BY DEF ActorState
<1>3. stream = [stream EXCEPT ![s] = stream[s]]
  BY DEF TraceInv, TraceTypeOK
<1>4. CASE NewStream(s)
  BY <1>4, NewStreamHolds
<1>5. CASE CancelContext(s) \/ LetGo(s)
  <2>1. PICK str \in {[stream[s] EXCEPT !.ctx = "done"], [stream[s] EXCEPT !.held = FALSE]} :
          stream' = [stream EXCEPT ![s] = str] /\ UNCHANGED actor
    BY <1>1, <1>5 DEF CancelContext, LetGo, Stream
  <2>2. /\ str \in Stream /\ str.st = stream[s].st
        /\ str.isFinished = stream[s].isFinished /\ str.closes = stream[s].closes
        /\ str.finishes = stream[s].finishes /\ str.late = stream[s].late
    BY <1>1 DEF Stream
  <2>3. QED
    BY <2>1, <2>2, StreamOnly
<1>6. ASSUME NEW err \in Errors \cup {NoError}, RecvMsg(s, err) PROVE TraceInv'
  <2> DEFINE str == [stream[s] EXCEPT !.ctx = "done"]
             now == [pc |-> "cas", err |-> err]
  <2>1. /\ str \in Stream /\ str.st = stream[s].st
        /\ str.isFinished = stream[s].isFinished /\ str.closes = stream[s].closes
        /\ str.finishes = stream[s].finishes /\ str.late = stream[s].late
    BY <1>1 DEF Stream
  <2>2. /\ Open(s) /\ actor[s]["recv"].pc = "off"
        /\ stream' = [stream EXCEPT ![s] = str]
        /\ actor' = [actor EXCEPT ![s]["recv"] = now]
    BY <1>1, <1>6 DEF RecvMsg, CanCall, AtPc, Enter, Stream
  <2>3. now \in ActorState /\ now.pc = "cas" /\ str.st = "open" /\ "recv" \in Actors
    BY <1>2, <2>1, <2>2 DEF Open, Actors
  <2> HIDE DEF str, now
  <2>4. QED
    BY <2>1, <2>2, <2>3, TraceQuietStep
<1>7. ASSUME NEW err \in Errors, SendMsg(s, err) PROVE TraceInv'
  <2> DEFINE now == [pc |-> "cas", err |-> err]
  <2>1. PICK str \in {stream[s], [stream[s] EXCEPT !.ctx = "done"]} :
          stream' = [stream EXCEPT ![s] = str]
    BY <1>1, <1>3, <1>7 DEF SendMsg, Stream
  <2>2. /\ str \in Stream /\ str.st = stream[s].st
        /\ str.isFinished = stream[s].isFinished /\ str.closes = stream[s].closes
        /\ str.finishes = stream[s].finishes /\ str.late = stream[s].late
    BY <1>1 DEF Stream
  <2>3. /\ Open(s) /\ actor[s]["send"].pc = "off"
        /\ actor' = [actor EXCEPT ![s]["send"] = now]
    BY <1>7 DEF SendMsg, CanCall, AtPc, Enter
  <2>4. now \in ActorState /\ now.pc = "cas" /\ str.st = "open" /\ "send" \in Actors
    BY <1>2, <2>2, <2>3 DEF Open, Actors
  <2> HIDE DEF now
  <2>5. QED
    BY <2>1, <2>2, <2>3, <2>4, TraceQuietStep
<1>8. ASSUME NEW a \in {"gc", "watch"}, NEW now \in ActorState, Open(s),
             actor[s][a].pc \in {"off", "select"}, now.pc \in {"cas", "gone"},
             actor' = [actor EXCEPT ![s][a] = now], UNCHANGED stream
      PROVE  TraceInv'
  <2>1. a \in Actors /\ stream[s].st = "open"
    BY <1>8 DEF Actors, Open
  <2>2. QED
    BY <1>1, <1>3, <1>8, <2>1, TraceQuietStep
<1>9. CASE Finalize(s)
  <2> DEFINE now == [pc |-> "cas", err |-> NoError]
  <2>1. now \in ActorState /\ now.pc = "cas"
    BY <1>2
  <2>2. /\ Open(s) /\ actor[s]["gc"].pc = "off" /\ UNCHANGED stream
        /\ actor' = [actor EXCEPT ![s]["gc"] = now]
    BY <1>9 DEF Finalize, AtPc, Enter
  <2> HIDE DEF now
  <2>3. QED
    BY <1>8, <2>1, <2>2
<1>10. CASE WatchContext(s) \/ WatchFinish(s)
  <2>1. actor[s]["watch"].pc = "select" /\ "watch" \in Actors
    BY <1>10 DEF WatchContext, WatchFinish, AtPc, Actors
  <2>2. Open(s)
    BY <1>1, <2>1 DEF SpanOK, Open
  <2>3. CASE WatchContext(s)
    <3> DEFINE now == [pc |-> "cas", err |-> "plain"]
    <3>1. now \in ActorState /\ now.pc = "cas"
      BY <1>2 DEF Errors
    <3>2. actor' = [actor EXCEPT ![s]["watch"] = now] /\ UNCHANGED stream
      BY <2>3 DEF WatchContext, Enter
    <3> HIDE DEF now
    <3>3. QED
      BY <1>8, <2>1, <2>2, <3>1, <3>2
  <2>4. CASE WatchFinish(s)
    <3> DEFINE now == [actor[s]["watch"] EXCEPT !.pc = "gone"]
    <3>1. /\ now \in ActorState /\ now.pc = "gone"
          /\ actor' = [actor EXCEPT ![s]["watch"] = now] /\ UNCHANGED stream
      BY <1>1, <2>1, <2>4 DEF WatchFinish, GoOn, ActorState
    <3> HIDE DEF now
    <3>2. QED
      BY <1>8, <2>1, <2>2, <3>1
  <2>5. QED
    BY <1>10, <2>3, <2>4
<1>11. CASE \E err \in Errors : NewStreamFail(s, err)
  BY <1>11, NewStreamFailHolds
<1>12. CASE \E a \in Actors : FinishFunc(s, a)
  BY <1>12, FinishHolds
<1>13. QED
  BY <1>0, <1>4, <1>5, <1>6, <1>7, <1>9, <1>10, <1>11, <1>12

LEMMA TraceRests == ASSUME TraceInv, UNCHANGED traceVars PROVE TraceInv'
BY DEF TraceInv, TraceTypeOK, traceVars, SpanOK, Winners

\* The inductive invariant: of all those that race for the end of a stream one
\* wins the CompareAndSwap of finishFunc, and it alone closes, tags and
\* finishes.
THEOREM TracingInvariant == TraceSpec => []TraceInv
BY TraceInitHolds, TraceNextHolds, TraceRests, PTL DEF TraceSpec

\* The span is finished at most once, gets no tag after that, and the channel
\* is closed at most once (finishFunc in client.go), for any number of streams.
THEOREM SpanFinishedOnce == TraceSpec => []FinishedOnce
<1>1. TraceInv => FinishedOnce
  <2> SUFFICES ASSUME TraceInv, NEW s \in Streams
               PROVE  /\ stream[s].finishes <= 1 /\ stream[s].closes <= 1
                      /\ ~stream[s].late
    BY DEF FinishedOnce
  <2>1. stream[s] \in Stream /\ SpanOK(stream[s], actor[s])
    BY StreamNow
  <2>2. stream[s].isFinished \in {0, 1}
    BY <2>1 DEF Stream
  <2>3. QED
    BY <2>1, <2>2 DEF SpanOK
<1>2. QED
  BY <1>1, TracingInvariant, PTL

-----------------------------------------------------------------------------
\* All of them together

LEMMA ServicesInit == ASSUME MCInit PROVE ServicesInv
BY InitHolds, WalkInit, ProfInitHolds, StockInitHolds, RegInitHolds, TraceInitHolds
   DEF MCInit, ServicesInv

LEMMA ServicesNext == ASSUME ServicesInv, [MCNext]_servicesVars PROVE ServicesInv'
<1>1. CASE UNCHANGED regVars /\ UNCHANGED traceVars
  <2>1. RegInv' /\ TraceInv'
    BY <1>1, RegRests, TraceRests DEF ServicesInv
  <2>2. CASE GoodsNext \/ WalkNext
    <3>1. /\ focus \in {"goods", "brands"} /\ focus' = focus
          /\ TaxInv /\ WalkInv /\ TaxNext
      BY <2>2 DEF GoodsNext, WalkNext, TaxNext, ServicesInv
    <3>2. TaxInv' /\ WalkInv'
      BY <3>1, NextHolds, WalkNextHolds DEF Good
    <3>3. QED
      BY <2>1, <3>1, <3>2 DEF ServicesInv
  <2>3. CASE UserNext
    <3>1. focus = "user" /\ focus' = focus /\ ProfInv'
      BY <2>3, ProfNextHolds DEF UserNext, ServicesInv
    <3>2. QED
      BY <2>1, <3>1 DEF ServicesInv
  <2>4. CASE RowsNext
    <3>1. focus = "stock" /\ focus' = focus /\ StockRowsInv'
      BY <2>4, StockNextHolds DEF RowsNext, ServicesInv
    <3>2. QED
      BY <2>1, <3>1 DEF ServicesInv
  <2>5. CASE UNCHANGED <<focus, gormVars, taxVars, profVars, stockRowVars>>
    <3>1. /\ focus' = focus /\ UNCHANGED <<gormVars, taxVars>>
          /\ UNCHANGED <<gormVars, updated>>
          /\ UNCHANGED <<gormVars, profVars>> /\ UNCHANGED <<gormVars, stockRowVars>>
      BY <2>5 DEF taxVars
    <3>2. focus \in {"goods", "brands"} => TaxInv' /\ WalkInv'
      BY <3>1, WalkHolds, WalkRests DEF ServicesInv, Good
    <3>3. focus = "user" => ProfInv'
      BY <3>1, ProfRests DEF ServicesInv
    <3>4. focus = "stock" => StockRowsInv'
      BY <3>1, StockRests DEF ServicesInv
    <3>5. QED
      BY <2>1, <3>1, <3>2, <3>3, <3>4 DEF ServicesInv
  <2>6. QED
    BY <1>1, <2>2, <2>3, <2>4, <2>5 DEF MCNext, StartNext, SpanNext, servicesVars
<1>2. CASE StartNext \/ SpanNext
  <2>1. /\ focus \in {"start", "trace"} /\ focus' = focus
        /\ RegInv' /\ TraceInv'
    BY <1>2, RegNextHolds, TraceNextHolds, RegRests, TraceRests
       DEF StartNext, SpanNext, ServicesInv
  <2>2. QED
    BY <2>1 DEF ServicesInv
<1>3. QED
  BY <1>1, <1>2
     DEF MCNext, GoodsNext, WalkNext, UserNext, RowsNext, restVars, servicesVars

\* Whatever service a behaviour is about, its invariant holds, and those of
\* Registration and Tracing hold beside it: no step of one of them takes from
\* another what it relies on.
THEOREM ServicesInvariant == MCSpec => []ServicesInv
BY ServicesInit, ServicesNext, PTL DEF MCSpec
=============================================================================
