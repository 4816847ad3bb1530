------------------------------- MODULE Pairs -------------------------------
(***************************************************************************)
(* Key and URL lists and the pairs they make (balancer.go).  A list is the *)
(* sequence of its comma-separated entries, each trimmed.                  *)
(***************************************************************************)
EXTENDS Naturals, Sequences

CONSTANT Blank         \* a list entry that is empty once trimmed

(* parseList(): a list with nothing in it or with an empty entry is an     *)
(* error.                                                                  *)
Parses(list) == list # <<>> /\ \A i \in 1..Len(list) : list[i] # Blank

(* buildPairs(): one URL serves all keys, one key serves all URLs, and     *)
(* otherwise the lists must be equally long.                               *)
Buildable(r) ==
  /\ Parses(r.keys) /\ Parses(r.urls)
  /\ Len(r.keys) = 1 \/ Len(r.urls) = 1 \/ Len(r.keys) = Len(r.urls)

BrokenBuildPairs(r) ==         \* every key with every URL
  {[key |-> r.keys[i], url |-> r.urls[j]] :
      i \in 1..Len(r.keys), j \in 1..Len(r.urls)}

buildPairs(r) ==
  IF Len(r.urls) = 1
    THEN {[key |-> r.keys[i], url |-> r.urls[1]] : i \in 1..Len(r.keys)}
    ELSE IF Len(r.keys) = 1
      THEN {[key |-> r.keys[1], url |-> r.urls[i]] : i \in 1..Len(r.urls)}
      ELSE {[key |-> r.keys[i], url |-> r.urls[i]] : i \in 1..Len(r.keys)}

=============================================================================
