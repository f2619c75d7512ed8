---------------------------- MODULE GraphCapture ----------------------------
(***************************************************************************)
(* The execution engine around a model (model/engine.rs): modes, capture   *)
(* and replay.  e is an EngineModel                                        *)
(*   mode, is_capturing                                                    *)
(*   replay_buffer  the captured output, as a set of at most one           *)
(*   context        the tokens in the KV cache of each request (inner)     *)
(* An output is the text it was computed from: the request's context and   *)
(* the input.                                                              *)
(***************************************************************************)
EXTENDS Integers, Sequences

Modes == {"Eager", "FullGraph", "Piecewise", "KernelDispatch"}

NewEngine(mode, requests) ==
  [mode |-> mode, is_capturing |-> FALSE, replay_buffer |-> {},
   context |-> [r \in requests |-> <<>>]]

SetMode(e, mode) == [e EXCEPT !.mode = mode]

\* Neither touches what was captured before.
BeginCapture(e) == [e EXCEPT !.is_capturing = TRUE]
EndCapture(e) == [e EXCEPT !.is_capturing = FALSE]

\* The inner model appends the input to the request's cache.
Run(e, r, x) ==
  LET text == Append(e.context[r], x)
  IN [engine |-> [e EXCEPT !.context[r] = text], output |-> text]

\* A slip: what was captured is replayed while capturing, too.
ReplaysAlways(e) == e.mode = "FullGraph" /\ e.replay_buffer # {}

Replays(e) == e.mode = "FullGraph" /\ ~e.is_capturing /\ e.replay_buffer # {}

\* EngineModel::forward
EngineForward(e, r, x) ==
  LET run == Run(e, r, x)
  IN IF Replays(e) THEN [engine |-> e, output |-> CHOOSE o \in e.replay_buffer : TRUE]
     ELSE IF e.mode = "FullGraph" /\ e.is_capturing
       THEN [run EXCEPT !.engine.replay_buffer = {run.output}]
     ELSE run
=============================================================================
