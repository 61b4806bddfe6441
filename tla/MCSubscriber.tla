---------------------------- MODULE MCSubscriber -----------------------------
(***************************************************************************)
(* An artifact with two subscriptions, to payment.recorded with a version  *)
(* and to payment-recorded without, and events that are published for      *)
(* both, for one or for none of them.                                      *)
(***************************************************************************)
EXTENDS Subscriber, TLC

CONSTANTS both, one, other, noise

Dotted == <<"payment", ".", "recorded">>
Dashed == <<"payment", "-", "recorded">>

MCVersions == {<<"v1">>}

WithVersion ==
  [kind |-> "events", segments |-> <<<<"boiler">>, <<"room">>, <<"v1">>, Dotted>>]
Plain == [kind |-> "events", segments |-> <<<<"boiler", ":", "room">>, Dashed>>]

MCSubscriptions == {WithVersion, Plain}

MCConsumes == <<WithVersion, Plain>>

\* A command of either name has the same topic; an entity has the one with a dot.
MCTopicOf ==
  LET at(domain, name) == <<"sorla", ".">> \o domain \o <<".">> \o name
      boiler == <<"boiler", "-", "room">>
  IN (both :> at(boiler, Dashed)) @@ (one :> at(boiler, Dotted)) @@
     (other :> at(boiler \o <<"-", "v1">>, Dotted))

MCMatching ==
  (both :> {WithVersion, Plain}) @@ (one :> {WithVersion}) @@ (other :> {}) @@
  (noise :> {})
=============================================================================
