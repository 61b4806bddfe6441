----------------------------- MODULE EventTopics -----------------------------
(***************************************************************************)
(* topic_matches: whether an event on a topic is a delivery for an events  *)
(* capability.  A text is a sequence of words and marks; a capability has  *)
(* its kind and the segments of its path, the empty ones left out.         *)
(***************************************************************************)
EXTENDS Naturals, Sequences, SequencesExt

CONSTANTS
  Marks,      \* the characters that a segment of a topic does not hold, "." one
  Versions    \* the segments that are a v and digits

\* sanitize_segment
Sanitized(s) == [i \in DOMAIN s |-> IF s[i] \in Marks THEN "-" ELSE s[i]]

\* A name goes segment by segment in the topic of an entity.
SanitizedParts(s) ==
  [i \in DOMAIN s |-> IF s[i] = "." THEN "." ELSE Sanitized(s)[i]]

\* cap_domain_name: the last segment is the name, what is before it the domain,
\* without a version at its end.
IsEventsCap(cap) == cap.kind = "events" /\ Len(cap.segments) >= 2

Name(cap) == Last(cap.segments)

\* Mutant: the version is part of the domain.
DomainWithVersion(cap) ==
  LET domain == Front(cap.segments) IN
  FoldLeft(LAMBDA d, s : d \o <<"-">> \o s, Head(domain), Tail(domain))

Domain(cap) ==
  LET segs == Front(cap.segments)
      domain == IF Len(segs) > 1 /\ Last(segs) \in Versions THEN Front(segs) ELSE segs
  IN FoldLeft(LAMBDA d, s : d \o <<"-">> \o s, Head(domain), Tail(domain))

\* Both shapes in which SoRX publishes: of an entity, and of a command.
Topics(cap) ==
  {<<"sorla", ".">> \o Sanitized(Domain(cap)) \o <<".">> \o tail :
     tail \in {SanitizedParts(Name(cap)), Sanitized(Name(cap))}}

TopicMatches(cap, topic) == IsEventsCap(cap) /\ topic \in Topics(cap)
=============================================================================
