------------------------------- MODULE RabbitRouting -------------------------------
(***************************************************************************)
(* Which destinations an exchange sends a message to:                      *)
(* src/src/brokers/rabbitmq/engine/routing.                                *)
(*                                                                         *)
(* Routing keys and patterns are sequences of words; the empty routing key *)
(* has no word, while the empty pattern has one, the empty word (this is   *)
(* what split('.') returns).  Headers are sets of [name, value] pairs.     *)
(***************************************************************************)
EXTENDS Integers, SequencesExt

CONSTANTS Star, Hash   \* the words * and #

\* The places of the table for a pattern and a key.
Places(pattern, key) == (0 .. Len(pattern)) \X (0 .. Len(key))

\* Mutant: # stands for one word at least.
TableHashNotEmpty(pattern, key) ==
  LET table[at \in Places(pattern, key)] ==
        LET i == at[1]  j == at[2]
        IN IF i = 0 THEN j = 0
           ELSE IF j = 0 THEN FALSE
           ELSE IF pattern[i] = Hash THEN table[<<i - 1, j - 1>>] \/ table[<<i, j - 1>>]
           ELSE (pattern[i] = Star \/ pattern[i] = key[j]) /\ table[<<i - 1, j - 1>>]
  IN table

\* At <<i, j>>: the first i words of the pattern match the first j of the key.
Table(pattern, key) ==
  LET table[at \in Places(pattern, key)] ==
        LET i == at[1]  j == at[2]
        IN IF i = 0 THEN j = 0
           ELSE IF j = 0 THEN pattern[i] = Hash /\ table[<<i - 1, 0>>]
           ELSE IF pattern[i] = Hash THEN table[<<i - 1, j>>] \/ table[<<i, j - 1>>]
           ELSE (pattern[i] = Star \/ pattern[i] = key[j]) /\ table[<<i - 1, j - 1>>]
  IN table

MatchTopic(pattern, key) == Table(pattern, key)[<<Len(pattern), Len(key)>>]

\* With no criteria, `all` matches everything and `any` nothing.
MatchHeaders(binding, headers) ==
  IF binding.xMatch = "all" THEN binding.headers \subseteq headers
  ELSE binding.headers \cap headers # {}

\* The pattern that reads like the key.
AsPattern(key) == IF key = <<>> THEN <<"">> ELSE key

MatchBinding(type, binding, message) ==
  CASE type = "direct"  -> binding.pattern = AsPattern(message.key)
    [] type = "fanout"  -> TRUE
    [] type = "topic"   -> MatchTopic(binding.pattern, message.key)
    [] type = "headers" -> MatchHeaders(binding, message.headers)

\* The loop's body for a binding that matches.
Collect(hits, destination) ==
  IF destination \in Range(hits) THEN hits ELSE Append(hits, destination)

ResolveDestinations(type, bindings, message) ==
  FoldLeft(LAMBDA hits, b : IF MatchBinding(type, b, message)
                            THEN Collect(hits, b.destination) ELSE hits,
           <<>>, bindings)

-----------------------------------------------------------------------------
(* What the results ought to be *)

\* The pattern's words cover the key: * and a plain word stand for one word
\* of it, # for any number of them, none included.
Covers(pattern, key) ==
  \E cut \in [0 .. Len(pattern) -> 0 .. Len(key)] :
    /\ cut[0] = 0
    /\ cut[Len(pattern)] = Len(key)
    /\ \A i \in 1 .. Len(pattern) :
         IF pattern[i] = Hash THEN cut[i - 1] <= cut[i]
         ELSE /\ cut[i] = cut[i - 1] + 1
              /\ pattern[i] \in {Star, key[cut[i]]}

\* Every destination of a matching binding, once, in the order of the first
\* binding that leads to it.
IsDestinationList(hits, type, bindings, message) ==
  LET Matches(i) == MatchBinding(type, bindings[i], message)
      First(d)   == CHOOSE i \in DOMAIN bindings :
                      /\ Matches(i) /\ bindings[i].destination = d
                      /\ \A j \in 1 .. i - 1 : ~(Matches(j) /\ bindings[j].destination = d)
  IN /\ Range(hits) = {bindings[i].destination : i \in {k \in DOMAIN bindings : Matches(k)}}
     /\ \A m, n \in DOMAIN hits : m < n => First(hits[m]) < First(hits[n])
=============================================================================
