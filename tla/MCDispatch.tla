---------------------------- MODULE MCDispatch ----------------------------
EXTENDS Dispatch, TLC

\* Three backends: the primary of three models, which takes any model as far as
\* routing knows; one it falls back to, which is also in the fast tier without
\* serving that tier's model; and a mock that serves both tiers.
MCRegistered ==
  1 :> [models |-> {}, latency |-> "standard", quality |-> "standard"] @@
  2 :> [models |-> {"fall", "fast"}, latency |-> "fast", quality |-> "standard"] @@
  3 :> [models |-> {"fast", "good"}, latency |-> "fast", quality |-> "high"]

MCBackend ==
  1 :> [kind |-> "vllm", serves |-> {}, default |-> {"fall"}, maxBatch |-> 2] @@
  2 :> [kind |-> "vllm", serves |-> {"fall"}, default |-> {}, maxBatch |-> 2] @@
  3 :> [kind |-> "mock", serves |-> {"fast", "good"}, default |-> {}, maxBatch |-> 1]

ModelRecord(policy, backend, fallback, latency, quality) ==
  [policy |-> policy, backend |-> backend, fallback |-> fallback,
   latency |-> latency, quality |-> quality]

MCRecord ==
  "fall" :> ModelRecord("fallback", 1, 2, "standard", "standard") @@
  "fast" :> ModelRecord("latency_tier", 2, NoBackend, "fast", "standard") @@
  "good" :> ModelRecord("quality_tier", 3, NoBackend, "standard", "high") @@
  "fixed" :> ModelRecord("explicit", 1, NoBackend, "standard", "standard")

Setup(batchOf, modelOf, streaming, filling, rejecting, routing) ==
  [batchOf |-> batchOf, modelOf |-> modelOf, streaming |-> streaming,
   filling |-> filling, rejecting |-> rejecting, routing |-> routing]

Together == <<1, 1>>
Apart == <<1, 2>>

\* One batch of two requests, executed; one that mixes in a stream; two batches
\* with the models of two policies each; a model nobody knows; no routing.
MCSetups ==
  {Setup(Together, <<"fall">>, {}, {}, {}, TRUE),
   Setup(Together, <<"fall">>, {2}, {1}, {}, TRUE),
   Setup(Together, <<"good">>, {}, {}, {}, TRUE),
   Setup(Apart, <<"fall", "fast">>, {2}, {}, {}, TRUE),
   Setup(Apart, <<"fixed", "good">>, {}, {1}, {3}, TRUE),
   Setup(Apart, <<"unknown", "good">>, {}, {}, {}, TRUE),
   Setup(Apart, <<"fall", "fast">>, {}, {}, {}, FALSE)}

=============================================================================
