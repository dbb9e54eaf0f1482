------------------------------ MODULE Tracing ------------------------------
(***************************************************************************)
(* The span of a client stream in otgrpc (order_srv/utils/otgrpc/client.go,*)
(* errors.go).  The span is started with the stream and must be finished   *)
(* once, but nobody is sure to be there at the end: the receiving and the  *)
(* sending goroutine of the application, a goroutine that watches the      *)
(* stream's context and the finalizer of the wrapper all call finishFunc.  *)
(***************************************************************************)
EXTENDS Integers

CONSTANT Streams

VARIABLES stream,  \* stream[s]: the stream, its wrapper and its span
          actor    \* actor[s][a]: how far a is in finishFunc, with what error

traceVars == <<stream, actor>>

Actors == {"recv", "send", "watch", "gc"}

\* One error for each class; "plain" is not a grpc status: io.EOF, or the
\* error of a context.
Errors == {"Canceled", "NotFound", "Unavailable", "plain"}
NoError == "nil"
ErrorClass(err) ==
  CASE err \in {NoError, "Canceled"} -> "2xx"
    [] err = "NotFound" -> "4xx"
    [] err = "Unavailable" -> "5xx"
    [] err = "plain" -> "0xx"

TraceInit ==
  /\ stream = [s \in Streams |->
       [st |-> "new", ctx |-> "live", held |-> TRUE, isFinished |-> 0,
        closes |-> 0, finishes |-> 0, class |-> "none", late |-> FALSE]]
  /\ actor = [s \in Streams |-> [a \in Actors |-> [pc |-> "off", err |-> NoError]]]

-----------------------------------------------------------------------------
Open(s) == stream[s].st = "open"
AtPc(s, a, pc) == actor[s][a].pc = pc
Enter(s, a, err) == actor' = [actor EXCEPT ![s][a] = [pc |-> "cas", err |-> err]]
GoOn(s, a, pc) == actor' = [actor EXCEPT ![s][a].pc = pc]

\* The application has the stream and no call of this kind under way: one
\* goroutine may receive while another sends.
CanCall(s, a) == Open(s) /\ stream[s].held /\ AtPc(s, a, "off")

\* OpenTracingStreamClientInterceptor: a span, the stream, then the watcher.
NewStream(s) ==
  /\ stream[s].st = "new"
  /\ stream' = [stream EXCEPT ![s].st = "open"]
  /\ GoOn(s, "watch", "select")

\* Without a stream the span is tagged and finished there and then.
NewStreamFail(s, err) ==
  /\ stream[s].st = "new"
  /\ stream' = [stream EXCEPT ![s].st = "failed", ![s].class = ErrorClass(err),
                              ![s].finishes = 1]
  /\ UNCHANGED actor

\* The application cancels the context, its deadline passes, or the
\* connection breaks.
CancelContext(s) ==
  /\ Open(s)
  /\ stream' = [stream EXCEPT ![s].ctx = "done"]
  /\ UNCHANGED actor

\* RecvMsg ends the stream, with EOF, with the one message of a stream that
\* has no more, or with an error.  By then grpc has cancelled the context.
RecvMsg(s, err) ==
  /\ CanCall(s, "recv")
  /\ stream' = [stream EXCEPT ![s].ctx = "done"]
  /\ Enter(s, "recv", err)

\* SendMsg, CloseSend or Header fails; that need not be the stream's end.
SendMsg(s, err) ==
  /\ CanCall(s, "send")
  /\ \/ UNCHANGED stream
     \/ stream' = [stream EXCEPT ![s].ctx = "done"]
  /\ Enter(s, "send", err)

\* The watcher's select: whichever of the two it finds ready.
WatchContext(s) ==
  /\ AtPc(s, "watch", "select")
  /\ stream[s].ctx = "done"
  /\ Enter(s, "watch", "plain")
  /\ UNCHANGED stream

WatchFinish(s) ==
  /\ AtPc(s, "watch", "select")
  /\ stream[s].closes > 0
  /\ GoOn(s, "watch", "gone")
  /\ UNCHANGED stream

\* The application lets go of the wrapper, no call of it being under way.
LetGo(s) ==
  /\ CanCall(s, "recv") /\ CanCall(s, "send")
  /\ stream' = [stream EXCEPT ![s].held = FALSE]
  /\ UNCHANGED actor

\* The watcher does not refer to the wrapper, so the collector can take it.
Finalize(s) ==
  /\ Open(s) /\ ~stream[s].held
  /\ AtPc(s, "gc", "off")
  /\ Enter(s, "gc", NoError)
  /\ UNCHANGED stream

-----------------------------------------------------------------------------
\* finishFunc, step by step; a loser returns at once.
Return(a) == IF a \in {"recv", "send"} THEN "off" ELSE "gone"

\* Mutant: the flag is looked at and never set.
CompareOnly(s, a) ==
  /\ AtPc(s, a, "cas")
  /\ GoOn(s, a, IF stream[s].isFinished = 0 THEN "close" ELSE Return(a))
  /\ UNCHANGED stream

CompareAndSwap(s, a) ==
  /\ AtPc(s, a, "cas")
  /\ stream' = [stream EXCEPT ![s].isFinished = 1]
  /\ GoOn(s, a, IF stream[s].isFinished = 0 THEN "close" ELSE Return(a))

\* Mutant: nobody tells the watcher.
CloseChanNot(s, a) ==
  /\ AtPc(s, a, "close")
  /\ GoOn(s, a, IF actor[s][a].err = NoError THEN "finish" ELSE "tag")
  /\ UNCHANGED stream

CloseChan(s, a) ==
  /\ AtPc(s, a, "close")
  /\ stream' = [stream EXCEPT ![s].closes = @ + 1]
  /\ GoOn(s, a, IF actor[s][a].err = NoError THEN "finish" ELSE "tag")

\* LogFields and SetSpanTags
TagSpan(s, a) ==
  /\ AtPc(s, a, "tag")
  /\ stream' = [stream EXCEPT ![s].class = ErrorClass(actor[s][a].err),
                              ![s].late = @ \/ stream[s].finishes > 0]
  /\ GoOn(s, a, "finish")

FinishSpan(s, a) ==
  /\ AtPc(s, a, "finish")
  /\ stream' = [stream EXCEPT ![s].finishes = @ + 1]
  /\ GoOn(s, a, Return(a))

FinishFunc(s, a) ==
  CompareAndSwap(s, a) \/ CloseChan(s, a) \/ TagSpan(s, a) \/ FinishSpan(s, a)

TraceNext ==
  \E s \in Streams :
    \/ NewStream(s) \/ CancelContext(s) \/ LetGo(s) \/ Finalize(s)
    \/ WatchContext(s) \/ WatchFinish(s)
    \/ RecvMsg(s, NoError)
    \/ \E err \in Errors : NewStreamFail(s, err) \/ RecvMsg(s, err) \/ SendMsg(s, err)
    \/ \E a \in Actors : FinishFunc(s, a)

\* Goroutines are scheduled, and the garbage collector runs.
TraceFairness ==
  \A s \in Streams :
    /\ WF_traceVars(WatchContext(s) \/ WatchFinish(s))
    /\ WF_traceVars(Finalize(s))
    /\ \A a \in Actors : WF_traceVars(FinishFunc(s, a))

TraceSpec == TraceInit /\ [][TraceNext]_traceVars /\ TraceFairness

-----------------------------------------------------------------------------
\* Properties

Stream == [st : {"new", "open", "failed"}, ctx : {"live", "done"},
           held : BOOLEAN, isFinished : {0, 1}, closes : Nat, finishes : Nat,
           class : {"none", "0xx", "2xx", "4xx", "5xx"}, late : BOOLEAN]
ActorState == [pc : {"off", "select", "cas", "close", "tag", "finish", "gone"},
               err : Errors \cup {NoError}]

TraceTypeOK ==
  /\ stream \in [Streams -> Stream]
  /\ actor \in [Streams -> [Actors -> ActorState]]

\* OpenTracing forbids finishing a span more than once (comment,
\* client.go:151): whoever races for the end, the span is finished once, gets
\* no tag after that, and the channel is not closed twice, which would panic.
FinishedOnce ==
  \A s \in Streams :
    /\ stream[s].finishes <= 1
    /\ stream[s].closes <= 1
    /\ ~stream[s].late

\* Once the stream's context is done, or the application has dropped the
\* stream without reading its end, the span is finished and the watching
\* goroutine is gone (comment, client.go:183-188).
SpansEnd ==
  \A s \in Streams :
    Open(s) /\ (stream[s].ctx = "done" \/ ~stream[s].held)
      ~> stream[s].finishes = 1 /\ AtPc(s, "watch", "gone")

-----------------------------------------------------------------------------
\* The inductive invariant behind FinishedOnce

\* Those between winning the CompareAndSwap and finishing the span.
Winners(act) == {a \in Actors : act[a].pc \in {"close", "tag", "finish"}}

\* There is one winner, who closes before it tags and tags before it finishes.
SpanOK(str, act) ==
  /\ \A a, b \in Winners(act) : a = b
  /\ ~str.late
  /\ str.isFinished = 0 =>
       /\ Winners(act) = {}
       /\ str.closes = 0
       /\ str.finishes = IF str.st = "failed" THEN 1 ELSE 0
  /\ str.isFinished = 1 =>
       /\ str.st = "open"
       /\ str.closes = IF \E a \in Actors : act[a].pc = "close" THEN 0 ELSE 1
       /\ str.finishes = IF Winners(act) = {} THEN 1 ELSE 0
  /\ str.st # "open" => \A a \in Actors : act[a].pc = "off"

TraceInv == TraceTypeOK /\ \A s \in Streams : SpanOK(stream[s], actor[s])
=============================================================================
