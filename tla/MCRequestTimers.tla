--------------------------- MODULE MCRequestTimers ---------------------------
(* RequestTimers with the tables of MessengerApi. *)
EXTENDS RequestTimers

Api == INSTANCE MessengerApi

RequestOf(name) == Api!OnRequest[name]
DispatchOf(wire) == Api!BinStream(wire)
TimerCases == Api!OnTimer_Cases

(* Requests that differ in how they are gated, answered and timed out. *)
SomeNames == {"Msg", "Cancel", "Ping"}
AllNames == DOMAIN Api!OnRequest

(* Messages of the server under its own ids, and under an id of ours. *)
OwnIds == {<<"s1", <<"message", "message", "req">>>>}
Colliding == {<<"i1", <<"message", "message", "req">>>>, <<"i2", <<"service", "ping_ex", "req">>>>}
=============================================================================
