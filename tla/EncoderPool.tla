----------------------------- MODULE EncoderPool -----------------------------
(***************************************************************************)
(* What the transcode session manager promises its callers, with no mutex, *)
(* process, clock or directory: a pool of at most Cap slots, each encoding *)
(* one output (its key), each usable or broken.  TranscodeSessions         *)
(* implements it.                                                          *)
(***************************************************************************)
EXTENDS Naturals, FiniteSets

CONSTANTS Key, SessionId, Cap

VARIABLE slots    \* a function from the ids in use to [key, usable]

Slot == [key : Key, usable : BOOLEAN]
InUse == DOMAIN slots
Broken == {id \in InUse : ~slots[id].usable}

Init == slots = [id \in {} |-> [key |-> CHOOSE k \in Key : TRUE, usable |-> FALSE]]

\* Callers that ask for an output a usable slot encodes are given that slot,
\* so a new one is opened only when there is none; to make room at the cap a
\* broken slot may go, never a usable one.
Open(id, k) ==
    /\ id \notin InUse
    /\ \A i \in InUse : slots[i].key = k => i \in Broken
    /\ \E V \in {{}} \cup {{i} : i \in Broken} :
          /\ V # {} => Cardinality(InUse) >= Cap
          /\ Cardinality((InUse \ V) \cup {id}) <= Cap
          /\ slots' = [i \in (InUse \ V) \cup {id} |->
                          IF i = id THEN [key |-> k, usable |-> TRUE] ELSE slots[i]]

\* An encoder breaks; a seek may bring it back under the same id and key.
Flip(id) ==
    /\ id \in InUse
    /\ slots' = [slots EXCEPT ![id].usable = ~@]

\* Slots are closed when they expire, are stopped, or broke.
Close(S) ==
    /\ S # {} /\ S \subseteq InUse
    /\ slots' = [i \in InUse \ S |-> slots[i]]

Next ==
    \/ \E id \in SessionId, k \in Key : Open(id, k)
    \/ \E id \in SessionId : Flip(id)
    \/ \E S \in SUBSET SessionId : Close(S)

Spec == Init /\ [][Next]_slots
=============================================================================
